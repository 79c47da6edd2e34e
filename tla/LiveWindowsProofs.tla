-------------------------- MODULE LiveWindowsProofs --------------------------
(***************************************************************************)
(* For any number of connections, files, windows and acts of the user: the *)
(* files hew.doc.open loads are in one window each and the registry knows  *)
(* what every window holds once its reports are in, except of windows that *)
(* a save overran while an open dealt with them; and a refused command     *)
(* leaves no window.                                                       *)
(***************************************************************************)
EXTENDS LiveWindows, SequenceTheorems, TLAPS

-----------------------------------------------------------------------------
(* Types                                                                   *)

Files == Paths \cup {NoPath}
Calls == [op : {"none", "new", "open", "close", "save"}, win : Windows,
          at : {"idle", "lock", "claim", "session", "ask", "going"},
          path : Files, discard : BOOLEAN]

\* The types of TypeOK, and that a connection has no more calls than its own.
Shape ==
  /\ ops \in Conns \cup {Nobody}
  /\ call \in [Conns -> Calls]
  /\ left \in [Conns \cup {User} -> 0 .. MaxCalls + MaxActs]
  /\ answer \in [Conns -> {"none", "ok", "refused"}]
  /\ win \in [Windows -> {"none", "live", "dying", "gone"}]
  /\ booting \in [Windows -> BOOLEAN]
  /\ paths \in [Windows -> Files] /\ pending \in [Windows -> Files]
  /\ bound \in [Windows -> Files] /\ dirty \in [Windows -> BOOLEAN]
  /\ inbox \in [Windows -> SUBSET Requests] /\ doing \in [Windows -> SUBSET Requests]
  /\ told \in [Windows -> Files]
  /\ report \in [Windows -> Seq(Files)]
  /\ opening \in [at : {"no", "create", "queue"}, path : Files, win : Windows]
  /\ fromApi \in [Windows -> Files]
  /\ doomed \subseteq Windows /\ overrun \subseteq Windows
  /\ \A c \in Conns : left[c] <= MaxCalls

LEMMA Constants ==
  /\ 1 \in Windows /\ NoPath \in Files /\ Paths \subseteq Files
  /\ MaxCalls \in Nat /\ MaxActs \in Nat
  /\ \A c \in Conns : c \in Conns \cup {User} /\ c # User /\ c # Nobody
  /\ Idle \in Calls
  /\ NoOpening \in [at : {"no", "create", "queue"}, path : Files, win : Windows]
<1>1. 1 \in Windows /\ NoPath \in Files
  BY WindowsAssumption DEF Windows, Files
<1>. QED
  BY <1>1, WindowsAssumption DEF Files, Idle, Calls, NoOpening

LEMMA EndsTypes ==
  ASSUME Shape, NEW c \in Conns, Ends(c)
  PROVE  /\ call' \in [Conns -> Calls] /\ ops' \in Conns \cup {Nobody}
         /\ answer' \in [Conns -> {"none", "ok", "refused"}]
BY Constants DEF Shape, Ends, Unlocked

LEMMA ToTypes ==
  ASSUME Shape, NEW c \in Conns, NEW at \in {"claim", "session", "ask", "going"}, To(c, at)
  PROVE  call' \in [Conns -> Calls]
<1>0. call[c] \in Calls /\ at \in {"idle", "lock", "claim", "session", "ask", "going"}
  BY DEF Shape
<1>1. [call[c] EXCEPT !.at = at] \in Calls
  BY <1>0 DEF Calls
<1>. QED
  BY <1>1 DEF Shape, To

LEMMA CreateTypes ==
  ASSUME Shape, NEW w \in Windows, CreateWindow(w)
  PROVE  /\ win' \in [Windows -> {"none", "live", "dying", "gone"}]
         /\ booting' \in [Windows -> BOOLEAN]
BY DEF Shape, CreateWindow

LEMMA DestroyedTypes ==
  ASSUME Shape, NEW w \in Windows
  PROVE  Destroyed(w) \in [Windows -> {"none", "live", "dying", "gone"}]
BY DEF Shape, Destroyed

LEMMA RequestTypes ==
  ASSUME Shape, NEW c \in Conns, call[c].op \in {"open", "close", "save"}
  PROVE  Request(c) \in Requests
<1>1. call[c] \in Calls /\ left[c] \in 0 .. MaxCalls
  BY Constants DEF Shape
<1>. QED
  BY <1>1 DEF Calls, Request, Requests, Files

LEMMA AsksTypes ==
  ASSUME Shape, NEW c \in Conns, call[c].op \in {"open", "close"}, Asks(c)
  PROVE  call' \in [Conns -> Calls] /\ inbox' \in [Windows -> SUBSET Requests]
<1>1. call' \in [Conns -> Calls]
  BY ToTypes DEF Asks
<1>2. call[c].win \in Windows
  BY DEF Shape, Calls
<1>3. inbox' \in [Windows -> SUBSET Requests]
  BY <1>2, RequestTypes DEF Shape, Asks
<1>. QED
  BY <1>1, <1>3

LEMMA AnswersTypes ==
  ASSUME Shape, NEW r, NEW what \in {"ok", "refused"}, Answers(r, what)
  PROVE  answer' \in [Conns -> {"none", "ok", "refused"}]
BY DEF Shape, Answers

LEMMA DoingTypes ==
  ASSUME Shape, NEW w \in Windows, NEW r \in Requests
  PROVE  /\ Over(w, r) => doing' \in [Windows -> SUBSET Requests]
         /\ \A op \in {"load", "destroy"} :
              Becomes(w, r, op) => doing' \in [Windows -> SUBSET Requests]
<1>1. Over(w, r) => doing' \in [Windows -> SUBSET Requests]
  BY DEF Shape, Over
<1>2. ASSUME NEW op \in {"load", "destroy"}, Becomes(w, r, op)
      PROVE  doing' \in [Windows -> SUBSET Requests]
  <2>1. [r EXCEPT !.op = op] \in Requests
    BY DEF Requests
  <2>. QED
    BY <1>2, <2>1 DEF Shape, Becomes
<1>. QED
  BY <1>1, <1>2

LEMMA ReportsTypes ==
  ASSUME Shape, NEW w \in Windows, NEW p \in Files, Reports(w, p)
  PROVE  report' \in [Windows -> Seq(Files)] /\ told' \in [Windows -> Files]
<1>1. Append(report[w], p) \in Seq(Files)
  BY DEF Shape
<1>. QED
  BY <1>1 DEF Shape, Reports

LEMMA BoundToTypes ==
  ASSUME Shape, NEW w \in Windows, NEW p \in Files, BoundTo(w, p)
  PROVE  /\ bound' \in [Windows -> Files]
         /\ report' \in [Windows -> Seq(Files)] /\ told' \in [Windows -> Files]
BY ReportsTypes DEF Shape, BoundTo

LEMMA BindsTypes ==
  ASSUME Shape, NEW w \in Windows, NEW p \in Files, Binds(w, p)
  PROVE  /\ bound' \in [Windows -> Files]
         /\ report' \in [Windows -> Seq(Files)] /\ told' \in [Windows -> Files]
         /\ fromApi' \in [Windows -> Files] /\ dirty' \in [Windows -> BOOLEAN]
         /\ overrun' \subseteq Windows
<1>1. fromApi' \in [Windows -> Files] /\ overrun' \subseteq Windows
  BY Constants DEF Shape, Binds
<1>2. dirty' \in [Windows -> BOOLEAN]
  BY DEF Shape, Binds
<1>. QED
  BY <1>1, <1>2, BoundToTypes DEF Binds

LEMMA InPageTypes ==
  ASSUME Shape, NEW w \in Windows
  PROVE  (\A r \in inbox[w] : r \in Requests) /\ (\A r \in doing[w] : r \in Requests)
BY DEF Shape

LEMMA ShapeStarts == Init => Shape
<1>. SUFFICES ASSUME Init PROVE Shape
  OBVIOUS
<1>1. left \in [Conns \cup {User} -> 0 .. MaxCalls + MaxActs] /\ \A c \in Conns : left[c] <= MaxCalls
  BY Constants DEF Init
<1>2. ops \in Conns \cup {Nobody} /\ call \in [Conns -> Calls]
  BY Constants DEF Init
<1>3. report \in [Windows -> Seq(Files)]
  BY DEF Init
<1>. QED
  BY <1>1, <1>2, <1>3, Constants DEF Init, Shape

LEMMA ActsTypes ==
  ASSUME Shape, Acts
  PROVE  /\ left' \in [Conns \cup {User} -> 0 .. MaxCalls + MaxActs]
         /\ \A c \in Conns : left'[c] = left[c]
BY Constants DEF Shape, Acts

LEMMA CallingTypes ==
  ASSUME Shape, NEW c \in Conns, left[c] > 0, left' = [left EXCEPT ![c] = @ - 1]
  PROVE  /\ left' \in [Conns \cup {User} -> 0 .. MaxCalls + MaxActs]
         /\ \A d \in Conns : left'[d] <= MaxCalls
         /\ left'[c] = left[c] - 1 /\ left[c] - 1 \in 0 .. MaxCalls
         /\ \A d \in Conns : d # c => left'[d] = left[d]
<1>1. left[c] \in Nat /\ left[c] <= MaxCalls /\ left[c] <= MaxCalls + MaxActs
  BY Constants DEF Shape
<1>2. left[c] - 1 \in 0 .. MaxCalls + MaxActs
  BY <1>1, Constants
<1>. QED
  BY <1>1, <1>2, Constants DEF Shape

LEMMA CommandShapes ==
  ASSUME Shape, NEW c \in Conns, Call(c) \/ cmd_save(c) \/ Command(c)
  PROVE  Shape'
<1>. USE DEF shell, pages
<1>0. call[c] \in Calls /\ call[c].win \in Windows
  BY DEF Shape, Calls
<1>1. CASE Call(c)
  <2>1. call' \in [Conns -> Calls]
    <3>1. PICK op \in {"new", "open", "close"}, p \in Paths, w \in Windows, discard \in BOOLEAN :
            call' = [call EXCEPT ![c] = [op |-> op, at |-> "lock", win |-> w, discard |-> discard,
                                         path |-> IF op = "open" THEN p ELSE NoPath]]
      BY <1>1 DEF Call
    <3>2. [op |-> op, at |-> "lock", win |-> w, discard |-> discard,
           path |-> IF op = "open" THEN p ELSE NoPath] \in Calls
      BY Constants DEF Calls
    <3>. QED
      BY <3>1, <3>2 DEF Shape
  <2>. QED
    BY <1>1, <2>1, CallingTypes DEF Shape, Call
<1>2. CASE cmd_save(c)
  <2>1. PICK p \in Paths, w \in {v \in Windows : Exists(v)} :
          /\ call' = [call EXCEPT ![c] = [op |-> "save", at |-> "ask", win |-> w,
                                          discard |-> FALSE, path |-> p]]
          /\ inbox' = IF booting[w] THEN inbox
                      ELSE [inbox EXCEPT ![w] = @ \cup {[by |-> c, n |-> left[c] - 1, op |-> "save",
                                                         path |-> p, discard |-> FALSE]}]
    BY <1>2 DEF cmd_save
  <2>2. [op |-> "save", at |-> "ask", win |-> w, discard |-> FALSE, path |-> p] \in Calls
    BY Constants DEF Calls
  <2>3. [by |-> c, n |-> left[c] - 1, op |-> "save", path |-> p, discard |-> FALSE] \in Requests
    BY <1>2, CallingTypes, Constants DEF cmd_save, Requests
  <2>4. call' \in [Conns -> Calls] /\ inbox' \in [Windows -> SUBSET Requests]
    BY <2>1, <2>2, <2>3 DEF Shape
  <2>. QED
    BY <1>2, <2>4, CallingTypes DEF Shape, cmd_save
<1>3. CASE cmd_new(c)
  <2>1. PICK w \in Windows : CreateWindow(w) /\ call' = [call EXCEPT ![c].at = "session", ![c].win = w]
    BY <1>3 DEF cmd_new
  <2>2. [call[c] EXCEPT !.at = "session", !.win = w] \in Calls
    BY <1>0 DEF Calls
  <2>3. call' \in [Conns -> Calls]
    BY <2>1, <2>2 DEF Shape
  <2>. QED
    BY <1>3, <2>1, <2>3, CreateTypes DEF Shape, cmd_new
<1>4. CASE cmd_open(c)
  <2>1. CASE Holders(call[c].path) # {}
    BY <1>4, <2>1, EndsTypes DEF Shape, cmd_open
  <2>2. CASE Holders(call[c].path) = {}
    <3>1. PICK w \in Windows : CreateWindow(w) /\ call' = [call EXCEPT ![c].at = "claim", ![c].win = w]
      BY <1>4, <2>2 DEF cmd_open
    <3>2. [call[c] EXCEPT !.at = "claim", !.win = w] \in Calls
      BY <1>0 DEF Calls
    <3>3. call' \in [Conns -> Calls]
      BY <3>1, <3>2 DEF Shape
    <3>. QED
      BY <1>4, <2>2, <3>1, <3>3, CreateTypes DEF Shape, cmd_open
  <2>. QED
    BY <2>1, <2>2
<1>5. CASE cmd_refused(c) \/ Closed(c)
  BY <1>5, EndsTypes DEF Shape, cmd_refused, Closed
<1>6. CASE cmd_close(c)
  <2>1. CASE Count > 1 /\ Exists(call[c].win)
    BY <1>6, <2>1, AsksTypes DEF Shape, cmd_close
  <2>2. CASE ~(Count > 1 /\ Exists(call[c].win))
    BY <1>6, <2>2, EndsTypes DEF Shape, cmd_close
  <2>. QED
    BY <2>1, <2>2
<1>7. CASE Claim(c)
  <2>1. paths' \in [Windows -> Files]
    BY <1>0, <1>7 DEF Shape, Claim, Calls
  <2>. QED
    BY <1>7, <2>1, ToTypes DEF Shape, Claim
<1>8. CASE SessionOpens(c)
  <2>1. CASE call[c].op = "open"
    BY <1>8, <2>1, AsksTypes DEF Shape, SessionOpens
  <2>2. CASE call[c].op # "open"
    BY <1>8, <2>2, EndsTypes DEF Shape, SessionOpens
  <2>. QED
    BY <2>1, <2>2
<1>9. ASSUME Refuses(c), UNCHANGED <<left, paths, pending, opening, pages>> PROVE Shape'
  BY <1>0, <1>9, EndsTypes, DestroyedTypes DEF Shape, Refuses
<1>10. ASSUME Ends(c), UNCHANGED <<win, doomed, left, paths, pending, opening, pages>> PROVE Shape'
  BY <1>10, EndsTypes DEF Shape
<1>11. ASSUME To(c, "going"), win' = win \/ win' = Destroyed(call[c].win),
              UNCHANGED <<ops, answer, doomed, left, paths, pending, opening, pages>>
       PROVE  Shape'
  BY <1>0, <1>11, ToTypes, DestroyedTypes DEF Shape
<1>12. CASE SessionFails(c)
  BY <1>9, <1>12 DEF SessionFails
<1>13. CASE Answered(c)
  BY <1>9, <1>10, <1>11, <1>13 DEF Answered
<1>14. CASE TimesOut(c)
  BY <1>9, <1>10, <1>11, <1>14 DEF TimesOut
<1>. QED
  BY <1>1, <1>2, <1>3, <1>4, <1>5, <1>6, <1>7, <1>8, <1>12, <1>13, <1>14 DEF Command

LEMMA PageShapes ==
  ASSUME Shape, NEW w \in Windows, Page(w) \/ Goes(w) \/ set_document_path(w)
  PROVE  Shape'
<1>. USE Constants DEF shell, pages
<1>0. (\A r \in inbox[w] : r \in Requests) /\ (\A r \in doing[w] : r \in Requests)
  BY InPageTypes
<1>00. \A r \in Requests : r.path \in Files
  BY DEF Requests, Files
<1>1. CASE Boots(w)
  <2>1. [by |-> User, n |-> 0, path |-> pending[w], discard |-> FALSE, op |-> "take"] \in Requests
    BY DEF Shape, Requests, Files
  <2>2. doing' \in [Windows -> SUBSET Requests]
    BY <1>1, <2>1 DEF Shape, Boots
  <2>. QED
    BY <1>1, <2>2 DEF Shape, Boots
<1>2. CASE take_pending_window_open(w)
  <2>1. PICK r \in doing[w] :
    /\ r.op = "take"
    /\ paths' = [paths EXCEPT ![w] = r.path]
    /\ \/ Becomes(w, r, "load") /\ Reports(w, r.path)
       \/ Over(w, r) /\ UNCHANGED <<told, report>>
    BY <1>2 DEF take_pending_window_open
  <2>2. r \in Requests /\ r.path \in Files
    BY <1>0, <1>00
  <2>3. doing' \in [Windows -> SUBSET Requests]
    BY <2>1, <2>2, DoingTypes
  <2>4. report' \in [Windows -> Seq(Files)] /\ told' \in [Windows -> Files]
    BY <2>1, <2>2, ReportsTypes DEF Shape
  <2>5. paths' \in [Windows -> Files]
    BY <2>1, <2>2 DEF Shape
  <2>. QED
    BY <1>2, <2>3, <2>4, <2>5 DEF Shape, take_pending_window_open
<1>3. CASE openPathInPlace(w)
  <2>1. PICK r \in inbox[w] :
          /\ inbox' = [inbox EXCEPT ![w] = @ \ {r}]
          /\ doing' = [doing EXCEPT ![w] = @ \cup {[r EXCEPT !.op = "load"]}]
          /\ Reports(w, r.path)
    BY <1>3 DEF openPathInPlace
  <2>2. r \in Requests /\ r.path \in Files
    BY <1>0, <1>00
  <2>3. [r EXCEPT !.op = "load"] \in Requests
    BY <2>2 DEF Requests
  <2>4. doing' \in [Windows -> SUBSET Requests] /\ inbox' \in [Windows -> SUBSET Requests]
    BY <2>1, <2>3 DEF Shape
  <2>5. report' \in [Windows -> Seq(Files)] /\ told' \in [Windows -> Files]
    BY <2>1, <2>2, ReportsTypes
  <2>. QED
    BY <1>3, <2>4, <2>5 DEF Shape, openPathInPlace
<1>4. CASE Loads(w)
  <2>1. PICK r \in doing[w] :
          /\ BoundTo(w, r.path) /\ dirty' = [dirty EXCEPT ![w] = FALSE]
          /\ fromApi' = [fromApi EXCEPT ![w] = IF r.by = User THEN NoPath ELSE r.path]
          /\ Over(w, r) /\ Answers(r, "ok")
    BY <1>4 DEF Loads
  <2>2. r \in Requests /\ r.path \in Files
    BY <1>0, <1>00
  <2>3. fromApi' \in [Windows -> Files] /\ dirty' \in [Windows -> BOOLEAN]
    BY <2>1, <2>2 DEF Shape
  <2>4. answer' \in [Conns -> {"none", "ok", "refused"}]
    BY <2>1, AnswersTypes
  <2>. QED
    BY <1>4, <2>1, <2>2, <2>3, <2>4, BoundToTypes, DoingTypes DEF Shape, Loads
<1>5. CASE LoadFails(w)
  <2>1. PICK r \in doing[w] : Reports(w, NoPath) /\ Over(w, r) /\ Answers(r, "refused")
    BY <1>5 DEF LoadFails
  <2>2. answer' \in [Conns -> {"none", "ok", "refused"}]
    BY <2>1, AnswersTypes
  <2>. QED
    BY <1>0, <1>5, <2>1, <2>2, ReportsTypes, DoingTypes DEF Shape, LoadFails
<1>6. CASE Closes(w)
  <2>1. PICK r \in inbox[w] :
          /\ inbox' = [inbox EXCEPT ![w] = @ \ {r}]
          /\ IF dirty[w] /\ ~r.discard
             THEN Answers(r, "refused") /\ UNCHANGED doing
             ELSE doing' = [doing EXCEPT ![w] = @ \cup {[r EXCEPT !.op = "clear"]}] /\ UNCHANGED answer
    BY <1>6 DEF Closes
  <2>2. [r EXCEPT !.op = "clear"] \in Requests
    BY <1>0 DEF Requests
  <2>3. answer' \in [Conns -> {"none", "ok", "refused"}]
    BY <2>1, AnswersTypes DEF Shape
  <2>4. inbox' \in [Windows -> SUBSET Requests]
    BY <2>1 DEF Shape
  <2>5. doing' \in [Windows -> SUBSET Requests]
    <3>1. doing' = doing \/ doing' = [doing EXCEPT ![w] = @ \cup {[r EXCEPT !.op = "clear"]}]
      BY <2>1
    <3>2. [doing EXCEPT ![w] = @ \cup {[r EXCEPT !.op = "clear"]}] \in [Windows -> SUBSET Requests]
      BY <2>2 DEF Shape
    <3>. QED
      BY <3>1, <3>2 DEF Shape
  <2>. QED
    BY <1>6, <2>3, <2>4, <2>5 DEF Shape, Closes
<1>7. CASE Cleared(w)
  <2>1. PICK r \in doing[w] :
          IF dirty[w] /\ ~r.discard
          THEN Answers(r, "refused") /\ Over(w, r)
          ELSE Answers(r, "ok") /\ Becomes(w, r, "destroy")
    BY <1>7 DEF Cleared
  <2>2. answer' \in [Conns -> {"none", "ok", "refused"}]
    BY <2>1, AnswersTypes
  <2>3. doing' \in [Windows -> SUBSET Requests]
    BY <1>0, <2>1, DoingTypes
  <2>. QED
    BY <1>7, <2>2, <2>3 DEF Shape, Cleared
<1>8. CASE afterReply(w)
  BY <1>0, <1>8, DestroyedTypes, DoingTypes DEF Shape, afterReply
<1>9. CASE saveToRef(w)
  <2>1. PICK r \in inbox[w] :
          /\ inbox' = [inbox EXCEPT ![w] = @ \ {r}]
          /\ doing' = [doing EXCEPT ![w] = @ \cup {[r EXCEPT !.op = "write"]}]
    BY <1>9 DEF saveToRef
  <2>2. [r EXCEPT !.op = "write"] \in Requests
    BY <1>0 DEF Requests
  <2>3. doing' \in [Windows -> SUBSET Requests] /\ inbox' \in [Windows -> SUBSET Requests]
    BY <2>1, <2>2 DEF Shape
  <2>. QED
    BY <1>9, <2>3 DEF Shape, saveToRef
<1>10. CASE Saved(w)
  <2>1. PICK r \in doing[w] :
          /\ \/ Binds(w, r.path) /\ Answers(r, "ok")
             \/ Answers(r, "refused") /\ UNCHANGED <<bound, dirty, told, report, fromApi, overrun>>
          /\ Over(w, r)
    BY <1>10 DEF Saved
  <2>2. r \in Requests /\ r.path \in Files
    BY <1>0, <1>00
  <2>3. answer' \in [Conns -> {"none", "ok", "refused"}] /\ doing' \in [Windows -> SUBSET Requests]
    BY <2>1, <2>2, AnswersTypes, DoingTypes
  <2>. QED
    BY <1>10, <2>1, <2>2, <2>3, BindsTypes DEF Shape, Saved
<1>11. CASE Goes(w)
  BY <1>11 DEF Shape, Goes
<1>12. CASE set_document_path(w)
  <2>1. Head(report[w]) \in Files /\ Tail(report[w]) \in Seq(Files)
    BY <1>12 DEF Shape, set_document_path
  <2>. QED
    BY <1>12, <2>1 DEF Shape, set_document_path
<1>. QED
  BY <1>1, <1>2, <1>3, <1>4, <1>5, <1>6, <1>7, <1>8, <1>9, <1>10, <1>11, <1>12 DEF Page

LEMMA PersonShapes ==
  ASSUME Shape, Person
  PROVE  Shape'
<1>. USE Constants DEF shell, pages
<1>1. CASE UserOpens
  <2>1. opening' \in [at : {"no", "create", "queue"}, path : Files, win : Windows]
    BY <1>1 DEF UserOpens
  <2>. QED
    BY <1>1, <2>1, ActsTypes DEF Shape, UserOpens
<1>2. CASE UserWindow
  <2>1. opening' \in [at : {"no", "create", "queue"}, path : Files, win : Windows]
    BY <1>2 DEF Shape, UserWindow
  <2>. QED
    BY <1>2, <2>1, CreateTypes DEF Shape, UserWindow
<1>3. CASE UserQueues
  <2>1. pending' \in [Windows -> Files]
    BY <1>3 DEF Shape, UserQueues
  <2>. QED
    BY <1>3, <2>1 DEF Shape, UserQueues
<1>4. ASSUME NEW w \in Windows, UserEdits(w) PROVE Shape'
  BY <1>4, ActsTypes DEF Shape, UserEdits
<1>5. ASSUME NEW w \in Windows, UserSaves(w) PROVE Shape'
  BY <1>5, ActsTypes, BindsTypes DEF Shape, UserSaves
<1>6. ASSUME NEW w \in Windows, UserCloses(w) PROVE Shape'
  BY <1>6, ActsTypes, DestroyedTypes DEF Shape, UserCloses
<1>. QED
  BY <1>1, <1>2, <1>3, <1>4, <1>5, <1>6 DEF Person

LEMMA ShapeStays == ASSUME Shape, [Next]_vars PROVE Shape'
<1>1. CASE UNCHANGED vars
  BY <1>1 DEF vars, shell, pages, Shape
<1>. QED
  BY <1>1, CommandShapes, PageShapes, PersonShapes DEF Next

-----------------------------------------------------------------------------
(* The inductive invariant: calls and requests                             *)

\* Connection c has a hew.doc.open under way that has made window w.
OpensIn(c, w) == call[c].op = "open" /\ call[c].at # "lock" /\ call[c].win = w

\* The user's open waits to queue its file for window w.
QueuedFor(w) == opening.at = "queue" /\ opening.win = w

\* Opens of a file in the page of w: for the API, and for the user.
ApiOpens(w) ==
  {r \in inbox[w] : r.op = "open"} \cup {r \in doing[w] : r.op = "load" /\ r.by # User}
UserLoads(w) == {r \in doing[w] : r.op = "take" \/ (r.op = "load" /\ r.by = User)}

\* A command past the lock holds it, and its window has been made.
CallsFit ==
  \A c \in Conns :
    /\ call[c].op = "none" => call[c].at = "idle"
    /\ call[c].op = "new" => call[c].at \in {"lock", "session"}
    /\ call[c].op = "open" => call[c].at \in {"lock", "claim", "session", "ask"}
    /\ call[c].op = "close" => call[c].at \in {"lock", "ask", "going"}
    /\ call[c].op = "save" => call[c].at = "ask"
    /\ call[c].op \in {"open", "save"} => call[c].path \in Paths
    /\ call[c].op \in {"new", "open", "close"} /\ call[c].at # "lock" => ops = c
    /\ call[c].op \in {"new", "open"} /\ call[c].at # "lock" => win[call[c].win] # "none"
    /\ answer[c] # "none" => call[c].at \in {"ask", "going"}

\* A window that is not there has nothing, and neither has the page of one
\* that does not listen yet.
Blank(w) ==
  /\ inbox[w] = {} /\ doing[w] = {} /\ report[w] = <<>>
  /\ told[w] = NoPath /\ bound[w] = NoPath /\ fromApi[w] = NoPath

Empty ==
  \A w \in Windows :
    /\ ~Exists(w) => Blank(w) /\ paths[w] = NoPath /\ pending[w] = NoPath
    /\ booting[w] => Blank(w)

RequestsFit ==
  \A w \in Windows :
    /\ \A r \in inbox[w] : r.op \in {"open", "close", "save"} /\ r.by \in Conns
    /\ \A r \in doing[w] :
         /\ r.op \in {"take", "load", "clear", "destroy", "write"}
         /\ r.op = "take" => r.by = User
         /\ r.op \in {"clear", "destroy", "write"} => r.by \in Conns
    /\ \A r \in inbox[w] \cup doing[w] :
         r.op \in {"open", "take", "load", "save", "write"} => r.path \in Paths

\* A request is of its connection's running command or of an earlier one; an
\* open that waits for its page waits for a request to open.
Past(c) == call[c].at \in {"lock", "claim", "session"}
OpenAsks(c) == call[c].op = "open" /\ call[c].at = "ask"

Aged ==
  \A w \in Windows : \A r \in inbox[w] \cup doing[w] : r.by \in Conns =>
    /\ r.n >= left[r.by]
    /\ Past(r.by) => r.n > left[r.by]
    /\ OpenAsks(r.by) /\ r.n = left[r.by] => r \in ApiOpens(w) /\ call[r.by].win = w

-----------------------------------------------------------------------------
(* The inductive invariant: a window and its file                          *)

\* The API opens one file in a window, for the command that made it.
OneOpen(w) ==
  /\ \A r, s \in ApiOpens(w) : r = s
  /\ \A r \in ApiOpens(w) : fromApi[w] = NoPath
  /\ \A c \in Conns : OpensIn(c, w) =>
       /\ \A r \in ApiOpens(w) :
            /\ call[c].at = "ask" /\ answer[c] = "none"
            /\ r.by = c /\ r.n = left[c] /\ r.path = call[c].path
       /\ fromApi[w] # NoPath => call[c].at = "ask" /\ fromApi[w] = call[c].path

\* Window w is to have file p, or has it, because of a hew.doc.open.
HeldFor(w, p) ==
  \/ \E c \in Conns : OpensIn(c, w) /\ call[c].path = p
  \/ \E r \in ApiOpens(w) : r.path = p
  \/ fromApi[w] = p

ByApi(w) == \E p \in Paths : HeldFor(w, p)
ByUser(w) == pending[w] # NoPath \/ QueuedFor(w) \/ \E r \in UserLoads(w) : TRUE

\* The user opens one file in a window, and none in one the API opened.
OneSource(w) ==
  /\ ~(ByApi(w) /\ ByUser(w))
  /\ QueuedFor(w) => win[w] # "none" /\ pending[w] = NoPath /\ \A r \in UserLoads(w) : FALSE
  /\ pending[w] # NoPath => \A r \in UserLoads(w) : FALSE
  /\ \A r, s \in UserLoads(w) : r = s

\* While a file is being opened the document is bound to none, unless a save
\* ended meanwhile, and the page has told the shell of that file at most.
StillNew(w) ==
  /\ \A c \in Conns : OpensIn(c, w) /\ call[c].at \in {"claim", "session"} =>
       told[w] = NoPath /\ bound[w] = NoPath /\ report[w] = <<>>
  /\ \A r \in UserLoads(w) :
       bound[w] = NoPath /\ told[w] = IF r.op = "take" THEN NoPath ELSE r.path
  /\ \A r \in ApiOpens(w) :
       bound[w] = NoPath /\ told[w] = IF r.op = "open" THEN NoPath ELSE r.path

\* Once the claim is made the registry has the file, and every report on its
\* way repeats it.
Registered(w, p) == paths[w] = p /\ \A i \in 1 .. Len(report[w]) : report[w][i] = p

ClaimStands(w) ==
  /\ \A c \in Conns :
       OpensIn(c, w) /\ call[c].at # "claim" /\ answer[c] # "refused" /\ Exists(w) =>
         Registered(w, call[c].path)
  /\ \A r \in ApiOpens(w) : Registered(w, r.path)
  /\ fromApi[w] # NoPath => Registered(w, fromApi[w]) /\ bound[w] = fromApi[w]

\* What the registry will say once the reports are in: what the page told last.
Latest(w) == IF report[w] = <<>> THEN paths[w] ELSE report[w][Len(report[w])]

ToldTruly(w) ==
  /\ bound[w] # NoPath => told[w] = bound[w]
  /\ told[w] # NoPath => Latest(w) = told[w]

FileFit(w) == StillNew(w) /\ ClaimStands(w) /\ ToldTruly(w)

Apart ==
  \A v, w \in Windows \ overrun, p \in Paths : v # w => ~(HeldFor(v, p) /\ HeldFor(w, p))

IInv ==
  /\ Shape /\ CallsFit /\ Empty /\ RequestsFit /\ Aged /\ RefusedLeavesNothing
  /\ \A w \in Windows : OneOpen(w) /\ OneSource(w)
  /\ \A w \in Windows \ overrun : FileFit(w)
  /\ Apart

-----------------------------------------------------------------------------
(* What a step does to a window and to a call                              *)

\* Nothing of v changes, but that it may be on its way out.
Kept(v) ==
  /\ win'[v] = win[v] \/ (win[v] = "live" /\ win'[v] = "dying")
  /\ paths'[v] = paths[v] /\ pending'[v] = pending[v] /\ booting'[v] = booting[v]
  /\ bound'[v] = bound[v] /\ told'[v] = told[v] /\ report'[v] = report[v]
  /\ inbox'[v] = inbox[v] /\ doing'[v] = doing[v] /\ fromApi'[v] = fromApi[v]
  /\ v \in overrun' <=> v \in overrun

\* v is made.
Made(v) ==
  /\ win[v] = "none" /\ win'[v] = "live" /\ booting'[v]
  /\ paths'[v] = paths[v] /\ pending'[v] = pending[v]
  /\ bound'[v] = bound[v] /\ told'[v] = told[v] /\ report'[v] = report[v]
  /\ inbox'[v] = inbox[v] /\ doing'[v] = doing[v] /\ fromApi'[v] = fromApi[v]
  /\ overrun' = overrun

\* The running command's request reaches the page of v.
Asked(c, v) ==
  /\ cmd_save(c) \/ cmd_close(c) \/ (SessionOpens(c) /\ call[c].op = "open" /\ call[c].win = v)
  /\ Exists(v) /\ ~booting[v] /\ win' = win
  /\ paths' = paths /\ pending' = pending /\ booting' = booting
  /\ bound' = bound /\ told' = told /\ report' = report
  /\ doing' = doing /\ fromApi' = fromApi /\ overrun' = overrun
  /\ call'[c].at = "ask" /\ call'[c].win = v
  /\ inbox'[v] = inbox[v] \cup {[by |-> c, n |-> left'[c], op |-> call'[c].op, path |-> call'[c].path,
                                 discard |-> call'[c].discard]}

LEMMA MadeOrKept ==
  ASSUME Shape, NEW w \in Windows, CreateWindow(w), NEW v \in Windows,
         UNCHANGED <<paths, pending, bound, told, report, inbox, doing, fromApi, overrun>>
  PROVE  IF v = w THEN Made(v) ELSE Kept(v)
BY DEF Shape, CreateWindow, Made, Kept

LEMMA GoingIsKept ==
  ASSUME Shape, NEW w \in Windows, NEW v \in Windows, win' = win \/ win' = Destroyed(w),
         UNCHANGED <<paths, pending, booting, bound, told, report, inbox, doing, fromApi, overrun>>
  PROVE  Kept(v)
BY DEF Shape, Destroyed, Kept

LEMMA CommandTurn ==
  ASSUME Shape, NEW c \in Conns, Call(c) \/ cmd_save(c) \/ Command(c), NEW v \in Windows
  PROVE  \/ Kept(v) \/ Asked(c, v)
         \/ Made(v) /\ (cmd_new(c) \/ cmd_open(c)) /\ call'[c].win = v
         \/ Claim(c) /\ call[c].win = v
<1>. USE DEF shell, pages
<1>0. call[c] \in Calls /\ call[c].win \in Windows
  BY DEF Shape, Calls
<1>1. CASE Call(c)
  BY <1>1 DEF Call, Kept
<1>2. CASE cmd_save(c)
  <2>1. PICK p \in Paths, w \in {u \in Windows : Exists(u)} :
          /\ call' = [call EXCEPT ![c] = [op |-> "save", at |-> "ask", win |-> w,
                                          discard |-> FALSE, path |-> p]]
          /\ inbox' = IF booting[w] THEN inbox
                      ELSE [inbox EXCEPT ![w] = @ \cup {[by |-> c, n |-> left[c] - 1, op |-> "save",
                                                         path |-> p, discard |-> FALSE]}]
    BY <1>2 DEF cmd_save
  <2>2. CASE v = w /\ ~booting[w]
    <3>1. call'[c] = [op |-> "save", at |-> "ask", win |-> w, discard |-> FALSE, path |-> p]
      BY <2>1 DEF Shape
    <3>2. left'[c] = left[c] - 1
      BY <1>2, CallingTypes DEF cmd_save
    <3>3. inbox'[v] = inbox[v] \cup {[by |-> c, n |-> left'[c], op |-> call'[c].op, path |-> call'[c].path,
                                      discard |-> call'[c].discard]}
      BY <2>1, <2>2, <3>1, <3>2 DEF Shape
    <3>4. UNCHANGED <<win, paths, pending, booting, bound, told, report, doing, fromApi, overrun>>
      BY <1>2 DEF cmd_save
    <3>5. Exists(v) /\ ~booting[v] /\ call'[c].at = "ask" /\ call'[c].win = v
      BY <2>2, <3>1
    <3>. QED
      BY <1>2, <3>3, <3>4, <3>5 DEF Asked
  <2>3. CASE v # w \/ booting[w]
    <3>1. inbox'[v] = inbox[v]
      BY <2>1, <2>3 DEF Shape
    <3>. QED
      BY <1>2, <3>1 DEF cmd_save, Kept
  <2>. QED
    BY <2>2, <2>3
<1>3. CASE cmd_new(c)
  <2>1. PICK w \in Windows : CreateWindow(w) /\ call' = [call EXCEPT ![c].at = "session", ![c].win = w]
    BY <1>3 DEF cmd_new
  <2>2. call'[c].win = w
    BY <1>0, <2>1 DEF Shape, Calls
  <2>3. IF v = w THEN Made(v) ELSE Kept(v)
    BY <1>3, <2>1, MadeOrKept DEF cmd_new
  <2>. QED
    BY <1>3, <2>2, <2>3
<1>4. CASE cmd_open(c)
  <2>1. CASE Holders(call[c].path) # {}
    BY <1>4, <2>1 DEF cmd_open, Kept
  <2>2. CASE Holders(call[c].path) = {}
    <3>1. PICK w \in Windows : CreateWindow(w) /\ call' = [call EXCEPT ![c].at = "claim", ![c].win = w]
      BY <1>4, <2>2 DEF cmd_open
    <3>2. call'[c].win = w
      BY <1>0, <3>1 DEF Shape, Calls
    <3>3. IF v = w THEN Made(v) ELSE Kept(v)
      BY <1>4, <3>1, MadeOrKept DEF cmd_open
    <3>. QED
      BY <1>4, <3>2, <3>3
  <2>. QED
    BY <2>1, <2>2
<1>5. CASE cmd_refused(c) \/ Closed(c)
  BY <1>5 DEF cmd_refused, Closed, Kept
<1>00. ASSUME Asks(c), Exists(call[c].win), left' = left,
              cmd_close(c) \/ (SessionOpens(c) /\ call[c].op = "open"),
              UNCHANGED <<win, paths, pending, booting, bound, told, report, doing, fromApi, overrun>>
       PROVE  Kept(v) \/ Asked(c, v)
  <2>1. CASE v = call[c].win /\ ~booting[v]
    <3>1. call'[c] = [call[c] EXCEPT !.at = "ask"]
      BY <1>00 DEF Shape, Asks, To
    <3>2. /\ call'[c].at = "ask" /\ call'[c].win = v /\ call'[c].op = call[c].op
          /\ call'[c].path = call[c].path /\ call'[c].discard = call[c].discard
      BY <1>0, <2>1, <3>1 DEF Calls
    <3>3. inbox'[v] = inbox[v] \cup {[by |-> c, n |-> left'[c], op |-> call'[c].op, path |-> call'[c].path,
                                      discard |-> call'[c].discard]}
      BY <1>00, <2>1, <3>2 DEF Shape, Asks, Request
    <3>. QED
      BY <1>00, <2>1, <3>2, <3>3 DEF Asked
  <2>2. CASE v # call[c].win \/ booting[v]
    BY <1>00, <2>2 DEF Shape, Asks, Kept
  <2>. QED
    BY <2>1, <2>2
<1>6. CASE cmd_close(c)
  <2>1. CASE Count > 1 /\ Exists(call[c].win)
    BY <1>00, <1>6, <2>1 DEF cmd_close
  <2>2. CASE ~(Count > 1 /\ Exists(call[c].win))
    BY <1>6, <2>2 DEF cmd_close, Kept
  <2>. QED
    BY <2>1, <2>2
<1>7. CASE Claim(c)
  BY <1>7 DEF Shape, Claim, Kept
<1>8. CASE SessionOpens(c)
  <2>1. CASE call[c].op = "open"
    BY <1>00, <1>8, <2>1 DEF SessionOpens
  <2>2. CASE call[c].op # "open"
    BY <1>8, <2>2 DEF SessionOpens, Kept
  <2>. QED
    BY <2>1, <2>2
<1>9. CASE SessionFails(c) \/ Answered(c) \/ TimesOut(c)
  <2>1. /\ win' = win \/ win' = Destroyed(call[c].win)
        /\ UNCHANGED <<paths, pending, booting, bound, told, report, inbox, doing, fromApi, overrun>>
    BY <1>9 DEF SessionFails, Answered, TimesOut, Refuses
  <2>. QED
    BY <1>0, <2>1, GoingIsKept
<1>. QED
  BY <1>1, <1>2, <1>3, <1>4, <1>5, <1>6, <1>7, <1>8, <1>9 DEF Command

LEMMA PageTurn ==
  ASSUME Shape, NEW w \in Windows, Page(w) \/ Goes(w) \/ set_document_path(w),
         NEW v \in Windows, v # w
  PROVE  Kept(v)
<1>. USE DEF shell, pages, Shape, Kept, Over, Becomes, Reports
<1>1. CASE Boots(w)
  BY <1>1 DEF Boots
<1>2. CASE take_pending_window_open(w)
  BY <1>2 DEF take_pending_window_open
<1>3. CASE openPathInPlace(w)
  BY <1>3 DEF openPathInPlace
<1>4. CASE Loads(w) \/ LoadFails(w)
  BY <1>4 DEF Loads, LoadFails, BoundTo
<1>5. CASE Closes(w)
  BY <1>5 DEF Closes
<1>6. CASE Cleared(w)
  BY <1>6 DEF Cleared
<1>7. CASE afterReply(w)
  BY <1>7 DEF afterReply, Destroyed
<1>8. CASE saveToRef(w)
  BY <1>8 DEF saveToRef
<1>9. CASE Saved(w)
  BY <1>9 DEF Saved, Binds, BoundTo
<1>10. CASE Goes(w) \/ set_document_path(w)
  BY <1>10 DEF Goes, set_document_path
<1>. QED
  BY <1>1, <1>2, <1>3, <1>4, <1>5, <1>6, <1>7, <1>8, <1>9, <1>10 DEF Page

LEMMA PersonTurn ==
  ASSUME Shape, Person, NEW v \in Windows
  PROVE  \/ Kept(v)
         \/ Made(v) /\ UserWindow /\ opening'.win = v
         \/ UserQueues /\ opening.win = v
         \/ UserSaves(v)
<1>. USE DEF shell, pages
<1>1. CASE UserOpens
  BY <1>1 DEF UserOpens, Kept
<1>2. CASE UserWindow
  <2>1. PICK w \in Windows : CreateWindow(w) /\ opening' = [opening EXCEPT !.at = "queue", !.win = w]
    BY <1>2 DEF UserWindow
  <2>2. IF v = w THEN Made(v) ELSE Kept(v)
    BY <1>2, <2>1, MadeOrKept DEF UserWindow
  <2>3. opening'.win = w
    BY <2>1 DEF Shape
  <2>. QED
    BY <1>2, <2>2, <2>3
<1>3. CASE UserQueues
  BY <1>3 DEF Shape, UserQueues, Kept
<1>4. ASSUME NEW w \in Windows, UserEdits(w) PROVE Kept(v)
  BY <1>4 DEF UserEdits, Kept
<1>5. ASSUME NEW w \in Windows, UserSaves(w), v # w PROVE Kept(v)
  BY <1>5 DEF Shape, UserSaves, Binds, BoundTo, Reports, Kept
<1>6. ASSUME NEW w \in Windows, UserCloses(w) PROVE Kept(v)
  BY <1>6 DEF Shape, UserCloses, Destroyed, Kept
<1>. QED
  BY <1>1, <1>2, <1>3, <1>4, <1>5, <1>6 DEF Person

\* The running command of c goes from a to b.
Moves(c, a, b) ==
  /\ call[c].at = a /\ call'[c].at = b /\ call'[c].op = call[c].op
  /\ call'[c].path = call[c].path /\ call'[c].discard = call[c].discard
  /\ left'[c] = left[c] /\ answer'[c] = answer[c] /\ ops' = c

\* ... in the window it has.
Stays(c) == call'[c].win = call[c].win

\* ... and makes its window.
MakesWindow(c) == ops = Nobody /\ win[call'[c].win] = "none" /\ win'[call'[c].win] = "live"

Begins(c) ==
  /\ call[c] = Idle /\ left[c] > 0 /\ left'[c] = left[c] - 1 /\ answer'[c] = answer[c] /\ ops' = ops
  /\ \/ call'[c].op \in {"new", "open", "close"} /\ call'[c].at = "lock"
     \/ call'[c].op = "save" /\ call'[c].at = "ask"
  /\ call'[c].op \in {"open", "save"} => call'[c].path \in Paths

Stops(c) == call'[c] = Idle /\ answer'[c] = "none" /\ left'[c] = left[c] /\ ops' # c

LEMMA OtherCalls ==
  ASSUME Shape, CallsFit, NEW c \in Conns, Call(c) \/ cmd_save(c) \/ Command(c), NEW d \in Conns, d # c
  PROVE  /\ call'[d] = call[d] /\ left'[d] = left[d] /\ answer'[d] = answer[d]
         /\ ops = d => ops' = d
<1>. USE Constants DEF Shape, Ends, Unlocked, To, Asks, Refuses
<1>1. CASE Call(c)
  BY <1>1 DEF Call
<1>2. CASE cmd_save(c)
  BY <1>2 DEF cmd_save
<1>3. CASE cmd_new(c) \/ cmd_open(c) \/ cmd_refused(c) \/ cmd_close(c)
  <2>1. ops = Nobody /\ ops # d
    BY <1>3 DEF cmd_new, cmd_open, cmd_refused, cmd_close
  <2>2. call'[d] = call[d] /\ left'[d] = left[d] /\ answer'[d] = answer[d]
    BY <1>3 DEF cmd_new, cmd_open, cmd_refused, cmd_close
  <2>. QED
    BY <2>1, <2>2
<1>4. CASE Claim(c) \/ SessionOpens(c) \/ SessionFails(c)
  BY <1>4 DEF Claim, SessionOpens, SessionFails
<1>5. CASE Answered(c)
  BY <1>5 DEF Answered
<1>6. CASE TimesOut(c) \/ Closed(c)
  BY <1>6 DEF TimesOut, Closed
<1>. QED
  BY <1>1, <1>2, <1>3, <1>4, <1>5, <1>6 DEF Command

LEMMA ToMoves ==
  ASSUME Shape, NEW c \in Conns, NEW b \in {"claim", "session", "ask", "going"}, To(c, b),
         left' = left, answer' = answer, ops' = c
  PROVE  Moves(c, call[c].at, b) /\ Stays(c)
<1>1. call[c] \in Calls /\ call'[c] = [call[c] EXCEPT !.at = b]
  BY DEF Shape, To
<1>. QED
  BY <1>1 DEF Calls, Moves, Stays

LEMMA EndsStops ==
  ASSUME Shape, NEW c \in Conns, Ends(c), left' = left
  PROVE  Stops(c)
BY Constants DEF Shape, Ends, Unlocked, Stops

LEMMA OwnCall ==
  ASSUME Shape, CallsFit, NEW c \in Conns, Call(c) \/ cmd_save(c) \/ Command(c)
  PROVE  \/ Begins(c) /\ (Call(c) \/ cmd_save(c))
         \/ Moves(c, "lock", "session") /\ MakesWindow(c) /\ call[c].op = "new"
         \/ Moves(c, "lock", "claim") /\ MakesWindow(c) /\ call[c].op = "open" /\ cmd_open(c)
              /\ Holders(call[c].path) = {}
         \/ Moves(c, "claim", "session") /\ Stays(c) /\ call[c].op = "open" /\ Claim(c)
         \/ Moves(c, "session", "ask") /\ Stays(c) /\ call[c].op = "open" /\ SessionOpens(c)
         \/ Moves(c, "lock", "ask") /\ Stays(c) /\ call[c].op = "close" /\ cmd_close(c)
         \/ Moves(c, "ask", "going") /\ Stays(c) /\ call[c].op = "close"
         \/ Stops(c)
<1>0. call[c] \in Calls /\ call[c].win \in Windows
  BY DEF Shape, Calls
<1>1. CASE Call(c)
  <2>1. PICK op \in {"new", "open", "close"}, p \in Paths, w \in Windows, discard \in BOOLEAN :
          call' = [call EXCEPT ![c] = [op |-> op, at |-> "lock", win |-> w, discard |-> discard,
                                       path |-> IF op = "open" THEN p ELSE NoPath]]
    BY <1>1 DEF Call
  <2>2. call'[c] = [op |-> op, at |-> "lock", win |-> w, discard |-> discard,
                    path |-> IF op = "open" THEN p ELSE NoPath]
    BY <2>1 DEF Shape
  <2>3. /\ call'[c].op \in {"new", "open", "close"} /\ call'[c].at = "lock"
        /\ call'[c].op = "open" => call'[c].path \in Paths
    BY <2>2
  <2>4. Begins(c)
    BY <1>1, <2>3, CallingTypes DEF Call, Begins
  <2>. QED
    BY <1>1, <2>4
<1>2. CASE cmd_save(c)
  <2>1. PICK p \in Paths, w \in {u \in Windows : Exists(u)} :
          call' = [call EXCEPT ![c] = [op |-> "save", at |-> "ask", win |-> w,
                                       discard |-> FALSE, path |-> p]]
    BY <1>2 DEF cmd_save
  <2>2. call'[c] = [op |-> "save", at |-> "ask", win |-> w, discard |-> FALSE, path |-> p]
    BY <2>1 DEF Shape
  <2>3. call'[c].op = "save" /\ call'[c].at = "ask" /\ call'[c].path \in Paths
    BY <2>2
  <2>4. call[c] = Idle /\ left[c] > 0 /\ left'[c] = left[c] - 1 /\ answer' = answer /\ ops' = ops
    BY <1>2, CallingTypes DEF cmd_save
  <2>5. Begins(c)
    BY <2>3, <2>4 DEF Begins
  <2>. QED
    BY <1>2, <2>5
<1>3. CASE cmd_new(c)
  <2>1. PICK w \in Windows : CreateWindow(w) /\ call' = [call EXCEPT ![c].at = "session", ![c].win = w]
    BY <1>3 DEF cmd_new
  <2>2. call'[c] = [call[c] EXCEPT !.at = "session", !.win = w]
    BY <2>1 DEF Shape
  <2>3. Moves(c, "lock", "session")
    BY <1>0, <1>3, <2>2 DEF Calls, Moves, cmd_new
  <2>4. call'[c].win = w
    BY <1>0, <2>2 DEF Calls
  <2>5. MakesWindow(c)
    BY <1>3, <2>1, <2>4 DEF Shape, CreateWindow, MakesWindow, cmd_new
  <2>. QED
    BY <1>3, <2>3, <2>5 DEF cmd_new
<1>4. CASE cmd_open(c)
  <2>1. CASE Holders(call[c].path) # {}
    BY <1>4, <2>1, EndsStops DEF cmd_open
  <2>2. CASE Holders(call[c].path) = {}
    <3>1. PICK w \in Windows : CreateWindow(w) /\ call' = [call EXCEPT ![c].at = "claim", ![c].win = w]
      BY <1>4, <2>2 DEF cmd_open
    <3>2. call'[c] = [call[c] EXCEPT !.at = "claim", !.win = w]
      BY <3>1 DEF Shape
    <3>3. call[c].at = "lock" /\ call[c].op = "open" /\ ops = Nobody /\ ops' = c /\ left' = left /\ answer' = answer
      BY <1>4, <2>2 DEF cmd_open
    <3>4. Moves(c, "lock", "claim")
      BY <1>0, <3>2, <3>3 DEF Calls, Moves
    <3>5. call'[c].win = w
      BY <1>0, <3>2 DEF Calls
    <3>6. MakesWindow(c)
      BY <3>1, <3>3, <3>5 DEF Shape, CreateWindow, MakesWindow
    <3>. QED
      BY <1>4, <2>2, <3>3, <3>4, <3>6
  <2>. QED
    BY <2>1, <2>2
<1>5. CASE cmd_refused(c) \/ Closed(c) \/ SessionFails(c)
  BY <1>5, EndsStops DEF cmd_refused, Closed, SessionFails, Refuses
<1>6. CASE cmd_close(c)
  BY <1>6, EndsStops, ToMoves DEF cmd_close, Asks
<1>7. CASE Claim(c)
  <2>1. call[c].op = "open" /\ ops = c
    BY <1>7 DEF Claim, CallsFit, Calls, Shape
  <2>. QED
    BY <1>7, <2>1, ToMoves DEF Claim
<1>8. CASE SessionOpens(c)
  <2>1. CASE call[c].op = "open"
    <3>1. ops = c
      BY <1>8, <2>1 DEF SessionOpens, CallsFit
    <3>. QED
      BY <1>8, <2>1, <3>1, ToMoves DEF SessionOpens, Asks
  <2>2. CASE call[c].op # "open"
    BY <1>8, <2>2, EndsStops DEF SessionOpens
  <2>. QED
    BY <2>1, <2>2
<1>9. ASSUME call[c].at = "ask", call[c].op = "close", To(c, "going"), UNCHANGED <<ops, answer, left>>
      PROVE  Moves(c, "ask", "going") /\ Stays(c)
  <2>1. ops = c
    BY <1>9 DEF CallsFit
  <2>. QED
    BY <1>9, <2>1, ToMoves
<1>10. CASE Answered(c)
  BY <1>9, <1>10, EndsStops DEF Answered, Refuses
<1>11. CASE TimesOut(c)
  BY <1>9, <1>11, EndsStops DEF TimesOut, Refuses
<1>. QED
  BY <1>1, <1>2, <1>3, <1>4, <1>5, <1>6, <1>7, <1>8, <1>10, <1>11 DEF Command

\* The pages and the user change no call, but for an answer.
LEMMA PagesLeaveCalls ==
  ASSUME Shape, (\E w \in Windows : Page(w) \/ Goes(w) \/ set_document_path(w)) \/ Person
  PROVE  /\ call' = call /\ ops' = ops /\ doomed' = doomed
         /\ \A c \in Conns : left'[c] = left[c]
<1>. USE ActsTypes DEF shell, pages
<1>1. ASSUME NEW w \in Windows, Page(w) PROVE call' = call /\ ops' = ops /\ doomed' = doomed /\ left' = left
  BY <1>1 DEF Page, Boots, take_pending_window_open, openPathInPlace, Loads, LoadFails, Closes, Cleared,
              afterReply, saveToRef, Saved
<1>2. ASSUME NEW w \in Windows, Goes(w) \/ set_document_path(w)
      PROVE  call' = call /\ ops' = ops /\ doomed' = doomed /\ left' = left
  BY <1>2 DEF Goes, set_document_path
<1>3. CASE UserOpens \/ UserWindow \/ UserQueues
  BY <1>3 DEF UserOpens, UserWindow, UserQueues
<1>4. ASSUME NEW w \in Windows, UserEdits(w) \/ UserSaves(w) \/ UserCloses(w)
      PROVE  /\ call' = call /\ ops' = ops /\ doomed' = doomed
             /\ \A c \in Conns : left'[c] = left[c]
  BY <1>4 DEF UserEdits, UserSaves, UserCloses
<1>. QED
  BY <1>1, <1>2, <1>3, <1>4 DEF Person

LEMMA AnswersOnce ==
  ASSUME Shape, NEW r, NEW what, Answers(r, what), NEW c \in Conns, answer'[c] # answer[c]
  PROVE  r.by = c /\ call[c].at = "ask" /\ r.n = left[c] /\ answer'[c] = what
BY DEF Shape, Answers

LEMMA AnswersToAsking ==
  ASSUME Shape, (\E w \in Windows : Page(w) \/ Goes(w) \/ set_document_path(w)) \/ Person,
         NEW c \in Conns, answer'[c] # answer[c]
  PROVE  call[c].at = "ask"
<1>. USE DEF shell, pages
<1>1. ASSUME NEW w \in Windows, Boots(w) \/ take_pending_window_open(w) \/ openPathInPlace(w) \/
             afterReply(w) \/ saveToRef(w) \/ Goes(w) \/ set_document_path(w)
      PROVE  answer' = answer
  BY <1>1 DEF Boots, take_pending_window_open, openPathInPlace, afterReply, saveToRef, Goes, set_document_path
<1>2. ASSUME Person PROVE answer' = answer
  BY <1>2 DEF Person, UserOpens, UserWindow, UserQueues, UserEdits, UserSaves, UserCloses
<1>3. ASSUME NEW w \in Windows, Loads(w) \/ LoadFails(w) \/ Closes(w) \/ Cleared(w) \/ Saved(w)
      PROVE  answer' = answer \/ \E r, what : Answers(r, what)
  BY <1>3 DEF Loads, LoadFails, Closes, Cleared, Saved
<1>. QED
  BY <1>1, <1>2, <1>3, AnswersOnce DEF Page

LEMMA WindowStays ==
  ASSUME Shape, Next, NEW v \in Windows
  PROVE  /\ win[v] # "none" => win'[v] # "none"
         /\ win[v] \in {"dying", "gone"} => win'[v] \in {"dying", "gone"}
<1>1. Kept(v) \/ Made(v) \/ win'[v] = win[v] \/ (\E w \in Windows : Page(w) \/ Goes(w))
  BY CommandTurn, PersonTurn DEF Next, Asked, Claim, pages, UserQueues, UserSaves, set_document_path
<1>2. ASSUME NEW w \in Windows, Page(w) \/ Goes(w)
      PROVE  /\ win[v] # "none" => win'[v] # "none"
             /\ win[v] \in {"dying", "gone"} => win'[v] \in {"dying", "gone"}
  <2>1. CASE Goes(w)
    BY <2>1 DEF Shape, Goes
  <2>2. CASE afterReply(w)
    BY <2>2 DEF Shape, afterReply, Destroyed
  <2>3. CASE Page(w) /\ ~afterReply(w)
    BY <2>3 DEF Page, Boots, take_pending_window_open, openPathInPlace, Loads, LoadFails, Closes, Cleared,
                saveToRef, Saved
  <2>. QED
    BY <1>2, <2>1, <2>2, <2>3
<1>. QED
  BY <1>1, <1>2 DEF Kept, Made

LEMMA CallsFitStays == ASSUME Shape, CallsFit, [Next]_vars PROVE CallsFit'
<1>0. CASE UNCHANGED vars
  BY <1>0 DEF CallsFit, vars, shell
<1>1. ASSUME (\E w \in Windows : Page(w) \/ Goes(w) \/ set_document_path(w)) \/ Person PROVE CallsFit'
  <2>1. call' = call /\ ops' = ops
    BY <1>1, PagesLeaveCalls
  <2>2. \A c \in Conns : answer'[c] = answer[c] \/ call[c].at = "ask"
    BY <1>1, AnswersToAsking
  <2>3. \A v \in Windows : win[v] # "none" => win'[v] # "none"
    BY <1>1, WindowStays DEF Next
  <2>4. \A c \in Conns : call[c].win \in Windows
    BY DEF Shape, Calls
  <2>. QED
    BY <2>1, <2>2, <2>3, <2>4 DEF CallsFit
<1>2. ASSUME NEW c \in Conns, Call(c) \/ cmd_save(c) \/ Command(c) PROVE CallsFit'
  <2>1. \A v \in Windows : win[v] # "none" => win'[v] # "none"
    BY <1>2, WindowStays DEF Next
  <2>2. \A d \in Conns : call[d].win \in Windows
    BY DEF Shape, Calls
  <2>. SUFFICES ASSUME NEW d \in Conns
       PROVE  /\ call'[d].op = "none" => call'[d].at = "idle"
              /\ call'[d].op = "new" => call'[d].at \in {"lock", "session"}
              /\ call'[d].op = "open" => call'[d].at \in {"lock", "claim", "session", "ask"}
              /\ call'[d].op = "close" => call'[d].at \in {"lock", "ask", "going"}
              /\ call'[d].op = "save" => call'[d].at = "ask"
              /\ call'[d].op \in {"open", "save"} => call'[d].path \in Paths
              /\ call'[d].op \in {"new", "open", "close"} /\ call'[d].at # "lock" => ops' = d
              /\ call'[d].op \in {"new", "open"} /\ call'[d].at # "lock" => win'[call'[d].win] # "none"
              /\ answer'[d] # "none" => call'[d].at \in {"ask", "going"}
    BY DEF CallsFit
  <2>3. CASE d # c
    BY <1>2, <2>1, <2>2, <2>3, OtherCalls DEF CallsFit
  <2>4. CASE d = c
    <3>1. CASE Begins(c)
      <4>1. call[c].at = "idle" /\ answer'[c] = answer[c]
        BY <3>1 DEF Begins, Idle
      <4>2. answer'[c] = "none"
        BY <4>1 DEF CallsFit
      <4>3. \/ call'[c].op \in {"new", "open", "close"} /\ call'[c].at = "lock"
            \/ call'[c].op = "save" /\ call'[c].at = "ask"
        BY <3>1 DEF Begins
      <4>4. call'[c].op \in {"open", "save"} => call'[c].path \in Paths
        BY <3>1 DEF Begins
      <4>. QED
        BY <2>4, <4>2, <4>3, <4>4
    <3>2. CASE Stops(c)
      <4>1. call'[c].op = "none" /\ call'[c].at = "idle" /\ answer'[c] = "none"
        BY <3>2 DEF Stops, Idle
      <4>. QED
        BY <2>4, <4>1
    <3>3. CASE MakesWindow(c) /\ ((Moves(c, "lock", "session") /\ call[c].op = "new")
                                    \/ (Moves(c, "lock", "claim") /\ call[c].op = "open"))
      <4>1. answer'[c] = answer[c] /\ answer[c] = "none" /\ ops' = c
        BY <3>3 DEF Moves, CallsFit
      <4>2. win'[call'[c].win] # "none"
        BY <3>3 DEF MakesWindow
      <4>3. /\ \/ call'[c].op = "new" /\ call'[c].at = "session"
               \/ call'[c].op = "open" /\ call'[c].at = "claim"
            /\ call'[c].op = "open" => call'[c].path \in Paths
        BY <3>3 DEF Moves, CallsFit
      <4>. QED
        BY <2>4, <4>1, <4>2, <4>3
    <3>4. CASE Stays(c) /\ (Moves(c, "claim", "session") \/ Moves(c, "session", "ask")) /\ call[c].op = "open"
      <4>1. answer'[c] = answer[c] /\ answer[c] = "none" /\ ops' = c
        BY <3>4 DEF Moves, CallsFit
      <4>2. win'[call'[c].win] # "none"
        BY <2>1, <2>2, <3>4 DEF Moves, Stays, CallsFit
      <4>3. call'[c].op = "open" /\ call'[c].at \in {"session", "ask"} /\ call'[c].path \in Paths
        BY <3>4 DEF Moves, CallsFit
      <4>. QED
        BY <2>4, <4>1, <4>2, <4>3
    <3>5. CASE Stays(c) /\ (Moves(c, "lock", "ask") \/ Moves(c, "ask", "going")) /\ call[c].op = "close"
      <4>1. ops' = c /\ call'[c].op = "close" /\ call'[c].at \in {"ask", "going"}
        BY <3>5 DEF Moves
      <4>. QED
        BY <2>4, <4>1
    <3>6. \/ Begins(c) \/ Stops(c)
          \/ MakesWindow(c) /\ ((Moves(c, "lock", "session") /\ call[c].op = "new")
                                   \/ (Moves(c, "lock", "claim") /\ call[c].op = "open"))
          \/ Stays(c) /\ (Moves(c, "claim", "session") \/ Moves(c, "session", "ask")) /\ call[c].op = "open"
          \/ Stays(c) /\ (Moves(c, "lock", "ask") \/ Moves(c, "ask", "going")) /\ call[c].op = "close"
      BY <1>2, OwnCall
    <3>. QED
      BY <3>1, <3>2, <3>3, <3>4, <3>5, <3>6
  <2>. QED
    BY <2>3, <2>4
<1>. QED
  BY <1>0, <1>1, <1>2 DEF Next

\* A refused command's window was made, and is destroyed.
LEMMA RefusedStay == ASSUME Shape, CallsFit, RefusedLeavesNothing, [Next]_vars PROVE RefusedLeavesNothing'
<1>0. CASE UNCHANGED vars
  BY <1>0 DEF RefusedLeavesNothing, vars, shell
<1>1. ASSUME Next, doomed' = doomed PROVE RefusedLeavesNothing'
  BY <1>1, WindowStays DEF RefusedLeavesNothing, Shape
<1>2. ASSUME NEW c \in Conns, call[c].at = "session" \/ (call[c].at = "ask" /\ call[c].op = "open"),
             Refuses(c), Next
      PROVE  RefusedLeavesNothing'
  <2>1. call[c].win \in Windows /\ call[c].op \in {"new", "open"} /\ win[call[c].win] # "none"
    BY <1>2 DEF Shape, Calls, CallsFit
  <2>2. win'[call[c].win] \in {"dying", "gone"}
    BY <1>2, <2>1 DEF Shape, Refuses, Destroyed
  <2>3. doomed' = doomed \cup {call[c].win}
    BY <1>2 DEF Refuses
  <2>. QED
    BY <1>2, <2>2, <2>3, WindowStays DEF RefusedLeavesNothing, Shape
<1>3. ASSUME NEW c \in Conns, Call(c) \/ cmd_save(c) \/ Command(c)
      PROVE  \/ doomed' = doomed
             \/ Refuses(c) /\ (call[c].at = "session" \/ (call[c].at = "ask" /\ call[c].op = "open"))
  BY <1>3 DEF Command, Call, cmd_save, cmd_new, cmd_open, cmd_refused, cmd_close, Claim, SessionOpens,
              SessionFails, Answered, TimesOut, Closed
<1>. QED
  BY <1>0, <1>1, <1>2, <1>3, PagesLeaveCalls DEF Next

-----------------------------------------------------------------------------
(* Requests                                                                *)

\* Request r of the page of w is s one step further.
Turned(w, s, r) ==
  /\ r.by = s.by /\ r.n = s.n /\ r.path = s.path
  /\ \/ s \in inbox[w] /\ s.op = "open" /\ r.op = "load" /\ openPathInPlace(w)
     \/ s \in inbox[w] /\ s.op = "close" /\ r.op = "clear"
     \/ s \in inbox[w] /\ s.op = "save" /\ r.op = "write"
     \/ s \in doing[w] /\ s.op = "take" /\ r.op = "load" /\ take_pending_window_open(w)
     \/ s \in doing[w] /\ s.op = "clear" /\ r.op = "destroy"

\* The page takes the file that was queued for its window.
Unqueued(w, r) ==
  /\ Boots(w) /\ pending[w] # NoPath
  /\ r.by = User /\ r.op = "take" /\ r.path = pending[w]

LEMMA PageRequests ==
  ASSUME Shape, NEW w \in Windows, Page(w)
  PROVE  /\ inbox'[w] \subseteq inbox[w]
         /\ \A r \in doing'[w] :
              r \in doing[w] \/ Unqueued(w, r) \/ \E s \in inbox[w] \cup doing[w] : Turned(w, s, r)
<1>. USE DEF shell, pages
<1>0. /\ inbox[w] \subseteq Requests /\ doing[w] \subseteq Requests
      /\ \A s \in Requests, o \in {"load", "clear", "write", "destroy"} :
           LET r == [s EXCEPT !.op = o] IN r.by = s.by /\ r.n = s.n /\ r.path = s.path /\ r.op = o
  BY DEF Shape, Requests
<1>1. CASE Boots(w)
  BY <1>1 DEF Shape, Boots, Unqueued
<1>2. CASE take_pending_window_open(w)
  <2>1. PICK s \in doing[w] : s.op = "take" /\ (Becomes(w, s, "load") \/ Over(w, s))
    BY <1>2 DEF take_pending_window_open
  <2>2. inbox' = inbox /\ doing'[w] \subseteq doing[w] \cup {[s EXCEPT !.op = "load"]}
    BY <1>2, <2>1 DEF Shape, take_pending_window_open, Becomes, Over
  <2>3. Turned(w, s, [s EXCEPT !.op = "load"])
    BY <1>0, <1>2, <2>1 DEF Turned
  <2>. QED
    BY <2>1, <2>2, <2>3
<1>3. CASE openPathInPlace(w)
  <2>1. PICK s \in inbox[w] :
          /\ s.op = "open" /\ inbox' = [inbox EXCEPT ![w] = @ \ {s}]
          /\ doing' = [doing EXCEPT ![w] = @ \cup {[s EXCEPT !.op = "load"]}]
    BY <1>3 DEF openPathInPlace
  <2>2. inbox'[w] \subseteq inbox[w] /\ doing'[w] \subseteq doing[w] \cup {[s EXCEPT !.op = "load"]}
    BY <2>1 DEF Shape
  <2>3. Turned(w, s, [s EXCEPT !.op = "load"])
    BY <1>0, <1>3, <2>1 DEF Turned
  <2>. QED
    BY <2>1, <2>2, <2>3
<1>4. CASE Loads(w) \/ LoadFails(w) \/ Saved(w) \/ afterReply(w)
  BY <1>4 DEF Shape, Loads, LoadFails, Saved, afterReply, Over
<1>5. CASE Closes(w)
  <2>1. PICK s \in inbox[w] :
          /\ s.op = "close" /\ inbox' = [inbox EXCEPT ![w] = @ \ {s}]
          /\ doing' = doing \/ doing' = [doing EXCEPT ![w] = @ \cup {[s EXCEPT !.op = "clear"]}]
    BY <1>5 DEF Closes
  <2>2. inbox'[w] \subseteq inbox[w] /\ doing'[w] \subseteq doing[w] \cup {[s EXCEPT !.op = "clear"]}
    BY <2>1 DEF Shape
  <2>3. Turned(w, s, [s EXCEPT !.op = "clear"])
    BY <1>0, <2>1 DEF Turned
  <2>. QED
    BY <2>1, <2>2, <2>3
<1>6. CASE Cleared(w)
  <2>1. PICK s \in doing[w] : s.op = "clear" /\ (Becomes(w, s, "destroy") \/ Over(w, s))
    BY <1>6 DEF Cleared
  <2>2. inbox' = inbox /\ doing'[w] \subseteq doing[w] \cup {[s EXCEPT !.op = "destroy"]}
    BY <1>6, <2>1 DEF Shape, Cleared, Becomes, Over
  <2>3. Turned(w, s, [s EXCEPT !.op = "destroy"])
    BY <1>0, <2>1 DEF Turned
  <2>. QED
    BY <2>1, <2>2, <2>3
<1>7. CASE saveToRef(w)
  <2>1. PICK s \in inbox[w] :
          /\ s.op = "save" /\ inbox' = [inbox EXCEPT ![w] = @ \ {s}]
          /\ doing' = [doing EXCEPT ![w] = @ \cup {[s EXCEPT !.op = "write"]}]
    BY <1>7 DEF saveToRef
  <2>2. inbox'[w] \subseteq inbox[w] /\ doing'[w] \subseteq doing[w] \cup {[s EXCEPT !.op = "write"]}
    BY <2>1 DEF Shape
  <2>3. Turned(w, s, [s EXCEPT !.op = "write"])
    BY <1>0, <2>1 DEF Turned
  <2>. QED
    BY <2>1, <2>2, <2>3
<1>. QED
  BY <1>1, <1>2, <1>3, <1>4, <1>5, <1>6, <1>7 DEF Page

\* The request a command sends: of its connection and its number.
Sent(c, v, r) ==
  /\ r.by = c /\ r.n = left'[c] /\ r.op = call'[c].op /\ r.path = call'[c].path
  /\ call'[c].at = "ask" /\ call'[c].win = v

\* All a step does to the requests of a window.
LEMMA RequestsTurn ==
  ASSUME Shape, Next, NEW v \in Windows
  PROVE  /\ \A r \in inbox'[v] :
              r \in inbox[v] \/ \E c \in Conns : Asked(c, v) /\ Sent(c, v, r)
         /\ \A r \in doing'[v] :
              r \in doing[v] \/ Unqueued(v, r) \/ \E s \in inbox[v] \cup doing[v] : Turned(v, s, r)
<1>1. ASSUME NEW c \in Conns, Asked(c, v)
      PROVE  doing'[v] = doing[v] /\ \A r \in inbox'[v] : r \in inbox[v] \/ Sent(c, v, r)
  BY <1>1 DEF Asked, Sent
<1>2. CASE inbox'[v] = inbox[v] /\ doing'[v] = doing[v]
  BY <1>2
<1>3. ASSUME NEW c \in Conns, Call(c) \/ cmd_save(c) \/ Command(c)
      PROVE  Asked(c, v) \/ (inbox'[v] = inbox[v] /\ doing'[v] = doing[v])
  BY <1>3, CommandTurn DEF Kept, Made, Claim, pages
<1>4. CASE Person
  BY <1>2, <1>4, PersonTurn DEF Kept, Made, UserQueues, UserSaves, pages
<1>5. ASSUME NEW w \in Windows, Page(w) \/ Goes(w) \/ set_document_path(w), w # v
      PROVE  inbox'[v] = inbox[v] /\ doing'[v] = doing[v]
  BY <1>5, PageTurn DEF Kept
<1>6. CASE Goes(v) \/ set_document_path(v)
  BY <1>6 DEF Shape, Goes, set_document_path
<1>. QED
  BY <1>1, <1>2, <1>3, <1>4, <1>5, <1>6, PageRequests DEF Next

LEMMA RequestsFitStays ==
  ASSUME Shape, CallsFit, RequestsFit, [Next]_vars
  PROVE  RequestsFit'
<1>0. CASE UNCHANGED vars
  BY <1>0 DEF RequestsFit, vars, pages
<1>. SUFFICES ASSUME Next, NEW v \in Windows
     PROVE  /\ \A r \in inbox'[v] : r.op \in {"open", "close", "save"} /\ r.by \in Conns
            /\ \A r \in doing'[v] :
                 /\ r.op \in {"take", "load", "clear", "destroy", "write"}
                 /\ r.op = "take" => r.by = User
                 /\ r.op \in {"clear", "destroy", "write"} => r.by \in Conns
            /\ \A r \in inbox'[v] \cup doing'[v] :
                 r.op \in {"open", "take", "load", "save", "write"} => r.path \in Paths
  BY <1>0 DEF RequestsFit
<1>1. CallsFit'
  BY CallsFitStays
<1>2. ASSUME NEW r \in inbox'[v]
      PROVE  /\ r.op \in {"open", "close", "save"} /\ r.by \in Conns
             /\ r.op \in {"open", "save"} => r.path \in Paths
  <2>1. CASE r \in inbox[v]
    BY <2>1 DEF RequestsFit
  <2>2. ASSUME NEW c \in Conns, Asked(c, v), Sent(c, v, r)
        PROVE  /\ r.op \in {"open", "close", "save"} /\ r.by \in Conns
               /\ r.op \in {"open", "save"} => r.path \in Paths
    <3>1. call'[c].at = "ask" /\ r.op = call'[c].op /\ r.path = call'[c].path /\ r.by = c
      BY <2>2 DEF Sent
    <3>2. call'[c].op \in {"none", "new", "open", "close", "save"}
      BY ShapeStays DEF Shape, Calls
    <3>. QED
      BY <1>1, <3>1, <3>2 DEF CallsFit
  <2>. QED
    BY <2>1, <2>2, RequestsTurn
<1>3. ASSUME NEW r \in doing'[v]
      PROVE  /\ r.op \in {"take", "load", "clear", "destroy", "write"}
             /\ r.op = "take" => r.by = User
             /\ r.op \in {"clear", "destroy", "write"} => r.by \in Conns
             /\ r.op \in {"take", "load", "write"} => r.path \in Paths
  <2>1. CASE r \in doing[v]
    BY <2>1 DEF RequestsFit
  <2>2. CASE Unqueued(v, r)
    BY <2>2 DEF Unqueued, Shape, Files
  <2>3. ASSUME NEW s \in inbox[v] \cup doing[v], Turned(v, s, r)
        PROVE  /\ r.op \in {"take", "load", "clear", "destroy", "write"}
               /\ r.op = "take" => r.by = User
               /\ r.op \in {"clear", "destroy", "write"} => r.by \in Conns
               /\ r.op \in {"take", "load", "write"} => r.path \in Paths
    BY <2>3 DEF Turned, RequestsFit
  <2>. QED
    BY <2>1, <2>2, <2>3, RequestsTurn
<1>. QED
  BY <1>2, <1>3

\* The left calls, and what an open that waits or is to wait was before.
LEMMA CallTurn ==
  ASSUME Shape, CallsFit, Next, NEW c \in Conns
  PROVE  /\ left[c] \in Nat /\ left'[c] \in Nat /\ left'[c] <= left[c]
         /\ Past(c)' => left'[c] < left[c] \/ Past(c)
         /\ OpenAsks(c)' => /\ left'[c] = left[c] /\ call'[c].win = call[c].win
                            /\ call[c].op = "open" /\ call[c].at \in {"session", "ask"}
<1>0. left[c] \in Nat /\ left'[c] \in Nat
  BY Constants, ShapeStays DEF Shape
<1>1. CASE call'[c] = call[c] /\ left'[c] = left[c]
  BY <1>0, <1>1, CallsFitStays DEF Past, OpenAsks, CallsFit
<1>2. CASE Begins(c)
  BY <1>0, <1>2 DEF Begins, Past, OpenAsks
<1>3. CASE Stops(c)
  BY <1>0, <1>3 DEF Stops, Past, OpenAsks, Idle
<1>4. CASE Moves(c, "lock", "session") \/ Moves(c, "lock", "claim") \/ Moves(c, "claim", "session")
  BY <1>0, <1>4 DEF Moves, Past, OpenAsks
<1>5. CASE Moves(c, "session", "ask") /\ Stays(c) /\ call[c].op = "open"
  BY <1>0, <1>5 DEF Moves, Stays, Past, OpenAsks
<1>6. CASE (Moves(c, "lock", "ask") \/ Moves(c, "ask", "going")) /\ call[c].op = "close"
  BY <1>0, <1>6 DEF Moves, Past, OpenAsks
<1>7. ASSUME NEW d \in Conns, Call(d) \/ cmd_save(d) \/ Command(d), d # c
      PROVE  call'[c] = call[c] /\ left'[c] = left[c]
  BY <1>7, OtherCalls
<1>8. ASSUME Call(c) \/ cmd_save(c) \/ Command(c)
      PROVE  \/ Begins(c) \/ Stops(c)
             \/ Moves(c, "lock", "session") \/ Moves(c, "lock", "claim") \/ Moves(c, "claim", "session")
             \/ Moves(c, "session", "ask") /\ Stays(c) /\ call[c].op = "open"
             \/ (Moves(c, "lock", "ask") \/ Moves(c, "ask", "going")) /\ call[c].op = "close"
  BY <1>8, OwnCall
<1>. QED
  BY <1>1, <1>2, <1>3, <1>4, <1>5, <1>6, <1>7, <1>8, PagesLeaveCalls DEF Next

LEMMA AgedStays ==
  ASSUME Shape, CallsFit, RequestsFit, Aged, [Next]_vars
  PROVE  Aged'
<1>0. CASE UNCHANGED vars
  BY <1>0 DEF Aged, Past, OpenAsks, ApiOpens, vars, shell, pages
<1>. SUFFICES ASSUME Next, NEW v \in Windows, NEW r \in inbox'[v] \cup doing'[v], r.by \in Conns
     PROVE  /\ r.n >= left'[r.by]
            /\ Past(r.by)' => r.n > left'[r.by]
            /\ OpenAsks(r.by)' /\ r.n = left'[r.by] => r \in ApiOpens(v)' /\ call'[r.by].win = v
  BY <1>0 DEF Aged
<1>. DEFINE c == r.by
<1>1. r.by # User
  BY WindowsAssumption
<1>2. ASSUME NEW s \in inbox[v] \cup doing[v], s.by = r.by, s.n = r.n,
             s \in ApiOpens(v) => r \in ApiOpens(v)'
      PROVE  /\ r.n >= left'[r.by]
             /\ Past(r.by)' => r.n > left'[r.by]
             /\ OpenAsks(r.by)' /\ r.n = left'[r.by] => r \in ApiOpens(v)' /\ call'[r.by].win = v
  <2>1. /\ r.n \in Nat /\ r.n >= left[c]
        /\ Past(c) => r.n > left[c]
        /\ OpenAsks(c) /\ r.n = left[c] => r \in ApiOpens(v)' /\ call[c].win = v
    <3>1. s.n \in Nat
      BY Constants DEF Shape, Requests
    <3>. QED
      BY <1>2, <3>1 DEF Aged
  <2>2. r.n >= left'[c] /\ (Past(c)' => r.n > left'[c])
    BY <2>1, CallTurn
  <2>3. ASSUME OpenAsks(c)', r.n = left'[c] PROVE r \in ApiOpens(v)' /\ call'[c].win = v
    <3>1. left'[c] = left[c] /\ call'[c].win = call[c].win /\ call[c].op = "open" /\ call[c].at \in {"session", "ask"}
      BY <2>3, CallTurn
    <3>2. ~Past(c)
      BY <2>1, <2>3, <3>1, CallTurn
    <3>. QED
      BY <2>1, <2>3, <3>1, <3>2 DEF Past, OpenAsks
  <2>. QED
    BY <2>2, <2>3
<1>3. CASE r \in inbox[v] \/ r \in doing[v]
  <2>1. CASE r \in inbox'[v] /\ r \in inbox[v]
    <3>1. r \in ApiOpens(v) => r \in ApiOpens(v)'
      BY <2>1 DEF ApiOpens, RequestsFit
    <3>. QED
      BY <1>2, <2>1, <3>1
  <2>2. CASE r \in doing'[v] /\ r \in doing[v]
    <3>1. r \in ApiOpens(v) => r \in ApiOpens(v)'
      BY <2>2 DEF ApiOpens, RequestsFit
    <3>. QED
      BY <1>2, <2>2, <3>1
  <2>3. \A s \in inbox'[v] : s.op \in {"open", "close", "save"}
    BY RequestsFitStays DEF RequestsFit
  <2>4. \A s \in doing'[v] : s.op \notin {"open", "close", "save"}
    BY RequestsFitStays DEF RequestsFit
  <2>. QED
    BY <1>3, <2>1, <2>2, <2>3, <2>4 DEF RequestsFit
<1>4. ASSUME r \in inbox'[v], NEW d \in Conns, Asked(d, v), Sent(d, v, r)
      PROVE  /\ r.n >= left'[r.by]
             /\ Past(r.by)' => r.n > left'[r.by]
             /\ OpenAsks(r.by)' /\ r.n = left'[r.by] => r \in ApiOpens(v)' /\ call'[r.by].win = v
  BY <1>4, CallTurn DEF Sent, Past, OpenAsks, ApiOpens
<1>5. ASSUME NEW s \in inbox[v] \cup doing[v], Turned(v, s, r), r \in doing'[v]
      PROVE  s.by = r.by /\ s.n = r.n /\ (s \in ApiOpens(v) => r \in ApiOpens(v)')
  BY <1>1, <1>5 DEF Turned, ApiOpens, RequestsFit
<1>6. ~Unqueued(v, r)
  BY <1>1 DEF Unqueued
<1>. QED
  BY <1>2, <1>3, <1>4, <1>5, <1>6, RequestsTurn

-----------------------------------------------------------------------------
(* Windows that are not there, and pages that do not listen                *)

\* A page that does something, or has told something, is there and listens.
LEMMA PageIsUp ==
  ASSUME Shape, Empty, NEW w \in Windows,
         inbox[w] # {} \/ doing[w] # {} \/ report[w] # <<>> \/ told[w] # NoPath \/ fromApi[w] # NoPath
  PROVE  Exists(w) /\ ~booting[w]
BY DEF Empty, Blank

LEMMA EmptyStays == ASSUME Shape, Empty, [Next]_vars PROVE Empty'
<1>0. CASE UNCHANGED vars
  BY <1>0 DEF Empty, Exists, Blank, vars, shell, pages
<1>. DEFINE Good(v) == /\ ~Exists(v)' => Blank(v)' /\ paths'[v] = NoPath /\ pending'[v] = NoPath
                       /\ booting'[v] => Blank(v)'
<1>. SUFFICES ASSUME Next, NEW v \in Windows PROVE Good(v)
  BY <1>0 DEF Empty
<1>1. CASE Kept(v)
  BY <1>1 DEF Kept, Empty, Blank, Exists
<1>2. CASE Made(v)
  BY <1>2 DEF Made, Empty, Blank, Exists
<1>3. ASSUME NEW c \in Conns, Asked(c, v) PROVE Good(v)
  BY <1>3 DEF Asked, Exists
<1>4. ASSUME NEW c \in Conns, Claim(c), call[c].win = v PROVE Good(v)
  BY <1>4 DEF Claim, pages, Empty, Blank, Exists, Shape
<1>5. CASE UserQueues /\ opening.win = v
  BY <1>5 DEF UserQueues, pages, Empty, Blank, Exists, Shape
<1>6. CASE UserSaves(v)
  BY <1>6 DEF UserSaves, shell, Exists
<1>7. CASE Goes(v)
  BY <1>7 DEF Goes, Shape, Blank
<1>8. CASE set_document_path(v)
  BY <1>8, PageIsUp DEF set_document_path, Exists
<1>9. CASE Boots(v)
  BY <1>9 DEF Boots, Exists, Shape
<1>10. CASE Page(v) /\ ~Boots(v)
  <2>1. inbox[v] # {} \/ doing[v] # {}
    BY <1>10 DEF Page, take_pending_window_open, openPathInPlace, Loads, LoadFails, Closes, Cleared,
                 afterReply, saveToRef, Saved
  <2>2. booting' = booting /\ (win' = win \/ win' = Destroyed(v))
    BY <1>10 DEF Page, take_pending_window_open, openPathInPlace, Loads, LoadFails, Closes, Cleared,
                 afterReply, saveToRef, Saved, pages
  <2>. QED
    BY <2>1, <2>2, PageIsUp DEF Destroyed, Exists, Shape
<1>. QED
  BY <1>1, <1>2, <1>3, <1>4, <1>5, <1>6, <1>7, <1>8, <1>9, <1>10, CommandTurn, PageTurn, PersonTurn DEF Next

-----------------------------------------------------------------------------
(* Who opens a file in a window                                            *)

\* Nothing of call c changes.
SameCall(c) == call'[c] = call[c] /\ left'[c] = left[c] /\ answer'[c] = answer[c]

\* The page's answer reaches an open in its own window only.
LEMMA AnswersFit ==
  ASSUME Shape, RequestsFit, Aged, NEW w \in Windows, Page(w),
         NEW c \in Conns, NEW v \in Windows, OpensIn(c, v)
  PROVE  answer'[c] = answer[c] \/ (v = w /\ (Loads(w) \/ LoadFails(w)))
<1>. USE DEF shell
<1>1. CASE Boots(w) \/ take_pending_window_open(w) \/ openPathInPlace(w) \/ afterReply(w) \/ saveToRef(w)
  BY <1>1 DEF Boots, take_pending_window_open, openPathInPlace, afterReply, saveToRef
<1>2. CASE Closes(w) \/ Cleared(w) \/ Saved(w) \/ Loads(w) \/ LoadFails(w)
  <2>1. \/ answer' = answer
        \/ \E r \in inbox[w] \cup doing[w] : r.op \in {"close", "clear", "write", "load"} /\ \E what : Answers(r, what)
    BY <1>2 DEF Closes, Cleared, Saved, Loads, LoadFails
  <2>2. ASSUME NEW r \in inbox[w] \cup doing[w], NEW what, Answers(r, what), answer'[c] # answer[c]
        PROVE  r.by = c /\ r \in ApiOpens(w) /\ v = w
    <3>1. r.by = c /\ call[c].at = "ask" /\ r.n = left[c]
      BY <2>2, AnswersOnce
    <3>. QED
      BY <3>1 DEF Aged, OpenAsks, OpensIn
  <2>3. ASSUME NEW r \in inbox[w] \cup doing[w], NEW what, Answers(r, what), r.op \in {"close", "clear", "write"}
        PROVE  answer'[c] = answer[c]
    BY <2>2, <2>3 DEF ApiOpens
  <2>4. CASE Closes(w) \/ Cleared(w) \/ Saved(w)
    <3>1. \/ answer' = answer
          \/ \E r \in inbox[w] \cup doing[w] : r.op \in {"close", "clear", "write"} /\ \E what : Answers(r, what)
      BY <2>4 DEF Closes, Cleared, Saved
    <3>. QED
      BY <2>3, <3>1
  <2>. QED
    BY <1>2, <2>1, <2>2, <2>4
<1>. QED
  BY <1>1, <1>2 DEF Page

\* Where an open that has a window comes from.
LEMMA OpensTurn ==
  ASSUME Shape, CallsFit, RequestsFit, Aged, Next, NEW c \in Conns, NEW v \in Windows, OpensIn(c, v)'
  PROVE  \/ OpensIn(c, v) /\ SameCall(c)
         \/ /\ cmd_open(c) /\ Made(v) /\ Holders(call[c].path) = {} /\ ops = Nobody
            /\ call[c].op = "open" /\ call[c].at = "lock" /\ Moves(c, "lock", "claim")
         \/ OpensIn(c, v) /\ Claim(c) /\ Moves(c, "claim", "session")
         \/ OpensIn(c, v) /\ SessionOpens(c) /\ Moves(c, "session", "ask")
         \/ OpensIn(c, v) /\ (Loads(v) \/ LoadFails(v)) /\ call'[c] = call[c] /\ left'[c] = left[c]
<1>0. call'[c].op = "open" /\ call'[c].at # "lock" /\ call'[c].win = v
  BY DEF OpensIn
<1>1. ASSUME (\E w \in Windows : Page(w) \/ Goes(w) \/ set_document_path(w)) \/ Person
      PROVE  \/ OpensIn(c, v) /\ SameCall(c)
             \/ OpensIn(c, v) /\ (Loads(v) \/ LoadFails(v)) /\ call'[c] = call[c] /\ left'[c] = left[c]
  <2>1. call'[c] = call[c] /\ left'[c] = left[c] /\ OpensIn(c, v)
    BY <1>0, <1>1, PagesLeaveCalls DEF OpensIn
  <2>2. CASE answer' = answer
    BY <2>1, <2>2 DEF SameCall
  <2>3. ASSUME NEW w \in Windows, Page(w)
        PROVE  answer'[c] = answer[c] \/ Loads(v) \/ LoadFails(v)
    BY <2>1, <2>3, AnswersFit
  <2>4. ASSUME NEW w \in Windows, Goes(w) \/ set_document_path(w) PROVE answer' = answer
    BY <2>4 DEF Goes, set_document_path
  <2>5. ASSUME Person PROVE answer' = answer
    BY <2>5 DEF Person, UserOpens, UserWindow, UserQueues, UserEdits, UserSaves, UserCloses, shell
  <2>. QED
    BY <1>1, <2>1, <2>2, <2>3, <2>4, <2>5 DEF SameCall
<1>2. ASSUME NEW d \in Conns, Call(d) \/ cmd_save(d) \/ Command(d), d # c
      PROVE  OpensIn(c, v) /\ SameCall(c)
  BY <1>0, <1>2, OtherCalls DEF OpensIn, SameCall
<1>3. ASSUME Call(c) \/ cmd_save(c) \/ Command(c)
      PROVE  \/ /\ cmd_open(c) /\ Made(v) /\ Holders(call[c].path) = {} /\ ops = Nobody
                /\ call[c].op = "open" /\ call[c].at = "lock" /\ Moves(c, "lock", "claim")
             \/ OpensIn(c, v) /\ Claim(c) /\ Moves(c, "claim", "session")
             \/ OpensIn(c, v) /\ SessionOpens(c) /\ Moves(c, "session", "ask")
  <2>1. ~Begins(c) /\ ~Stops(c)
    BY <1>0 DEF Begins, Stops, Idle
  <2>2. call[c].op = "open"
    BY <1>0, <1>3, <2>1, OwnCall DEF Moves
  <2>3. CASE Moves(c, "lock", "claim") /\ MakesWindow(c) /\ cmd_open(c) /\ Holders(call[c].path) = {}
    <3>1. win[v] = "none" /\ win'[v] = "live" /\ ops = Nobody
      BY <1>0, <2>3 DEF MakesWindow
    <3>2. call[c].at = "lock" /\ call'[c].at = "claim"
      BY <2>3 DEF Moves
    <3>3. Made(v)
      BY <1>3, <3>1, <3>2, CommandTurn DEF Kept, Asked, Claim
    <3>. QED
      BY <2>2, <2>3, <3>1, <3>2, <3>3
  <2>4. CASE Moves(c, "claim", "session") /\ Stays(c) /\ Claim(c)
    BY <1>0, <2>2, <2>4 DEF Moves, Stays, OpensIn
  <2>5. CASE Moves(c, "session", "ask") /\ Stays(c) /\ SessionOpens(c)
    BY <1>0, <2>2, <2>5 DEF Moves, Stays, OpensIn
  <2>. QED
    BY <1>0, <1>3, <2>1, <2>2, <2>3, <2>4, <2>5, OwnCall DEF Moves
<1>. QED
  BY <1>1, <1>2, <1>3 DEF Next

\* An open in the page was one before, or its command has just asked for it.
LEMMA ApiOpensTurn ==
  ASSUME Shape, CallsFit, RequestsFit, Aged, Next, NEW v \in Windows, NEW r \in ApiOpens(v)'
  PROVE  \/ \E s \in ApiOpens(v) : r.by = s.by /\ r.n = s.n /\ r.path = s.path /\ (r = s \/ openPathInPlace(v))
         \/ \E c \in Conns : /\ Asked(c, v) /\ Sent(c, v, r) /\ OpensIn(c, v)
                             /\ SessionOpens(c) /\ Moves(c, "session", "ask")
<1>1. RequestsFit'
  BY RequestsFitStays
<1>2. CASE r \in inbox'[v] /\ r.op = "open"
  <2>1. CASE r \in inbox[v]
    BY <1>2, <2>1 DEF ApiOpens
  <2>2. ASSUME NEW c \in Conns, Asked(c, v), Sent(c, v, r)
        PROVE  OpensIn(c, v) /\ SessionOpens(c) /\ Moves(c, "session", "ask")
    <3>1. call'[c].op = "open" /\ call'[c].at = "ask" /\ call'[c].win = v
      BY <1>2, <2>2 DEF Sent
    <3>2. OpensIn(c, v)'
      BY <3>1 DEF OpensIn
    <3>3. Call(c) \/ cmd_save(c) \/ Command(c)
      BY <2>2 DEF Asked, Command
    <3>4. ~Begins(c) /\ ~Stops(c)
      BY <3>1 DEF Begins, Stops, Idle
    <3>5. Moves(c, "session", "ask") /\ Stays(c) /\ SessionOpens(c) /\ call[c].op = "open"
      BY <3>1, <3>3, <3>4, OwnCall DEF Moves
    <3>. QED
      BY <3>1, <3>5 DEF Moves, Stays, OpensIn
  <2>. QED
    BY <1>2, <2>1, <2>2, RequestsTurn
<1>3. CASE r \in doing'[v] /\ r.op = "load" /\ r.by # User
  <2>1. CASE r \in doing[v]
    BY <1>3, <2>1 DEF ApiOpens
  <2>2. ASSUME NEW s \in inbox[v] \cup doing[v], Turned(v, s, r)
        PROVE  s \in ApiOpens(v) /\ r.by = s.by /\ r.n = s.n /\ r.path = s.path /\ openPathInPlace(v)
    BY <1>3, <2>2 DEF Turned, ApiOpens, RequestsFit
  <2>3. ~Unqueued(v, r)
    BY <1>3 DEF Unqueued
  <2>. QED
    BY <1>3, <2>1, <2>2, <2>3, RequestsTurn
<1>. QED
  BY <1>2, <1>3 DEF ApiOpens

LEMMA FromApiTurn ==
  ASSUME Shape, Next, NEW v \in Windows, fromApi'[v] # fromApi[v], fromApi'[v] # NoPath
  PROVE  Loads(v) /\ \E r \in ApiOpens(v) : r.path = fromApi'[v]
<1>1. ASSUME NEW c \in Conns, Call(c) \/ cmd_save(c) \/ Command(c) PROVE FALSE
  BY <1>1, CommandTurn DEF Kept, Made, Asked, Claim, pages
<1>2. ASSUME Person PROVE FALSE
  BY <1>2, PersonTurn DEF Kept, Made, UserQueues, UserSaves, Binds, pages, Shape
<1>3. ASSUME NEW w \in Windows, Page(w) \/ Goes(w) \/ set_document_path(w)
      PROVE  w = v
  BY <1>3, PageTurn DEF Kept
<1>4. CASE Loads(v)
  <2>1. PICK r \in doing[v] :
          r.op = "load" /\ fromApi' = [fromApi EXCEPT ![v] = IF r.by = User THEN NoPath ELSE r.path]
    BY <1>4 DEF Loads
  <2>2. fromApi'[v] = IF r.by = User THEN NoPath ELSE r.path
    BY <2>1 DEF Shape
  <2>3. r \in ApiOpens(v) /\ r.path = fromApi'[v]
    BY <2>1, <2>2 DEF ApiOpens
  <2>. QED
    BY <1>4, <2>3
<1>5. ASSUME (Page(v) /\ ~Loads(v)) \/ Goes(v) \/ set_document_path(v) PROVE FALSE
  BY <1>5 DEF Page, Boots, take_pending_window_open, openPathInPlace, LoadFails, Closes, Cleared, afterReply,
              saveToRef, Saved, Binds, Goes, set_document_path, pages, Shape
<1>. QED
  BY <1>1, <1>2, <1>3, <1>4, <1>5 DEF Next

\* Only cmd_open gives a window to a file, a new window.
LEMMA HeldTurn ==
  ASSUME Shape, CallsFit, RequestsFit, Aged, Next, NEW v \in Windows, NEW p \in Paths, HeldFor(v, p)'
  PROVE  \/ HeldFor(v, p)
         \/ Made(v) /\ \E c \in Conns : /\ cmd_open(c) /\ call[c].path = p /\ Holders(p) = {} /\ ops = Nobody
                                        /\ call[c].op = "open" /\ call[c].at = "lock"
<1>1. ASSUME NEW c \in Conns, OpensIn(c, v)', call'[c].path = p
      PROVE  \/ HeldFor(v, p)
             \/ Made(v) /\ /\ cmd_open(c) /\ call[c].path = p /\ Holders(p) = {} /\ ops = Nobody
                           /\ call[c].op = "open" /\ call[c].at = "lock"
  BY <1>1, OpensTurn DEF SameCall, Moves, HeldFor
<1>2. ASSUME NEW r \in ApiOpens(v)', r.path = p PROVE HeldFor(v, p)
  <2>1. ASSUME NEW c \in Conns, Sent(c, v, r), OpensIn(c, v), Moves(c, "session", "ask") PROVE HeldFor(v, p)
    BY <1>2, <2>1 DEF Sent, Moves, HeldFor
  <2>. QED
    BY <1>2, <2>1, ApiOpensTurn DEF HeldFor
<1>3. ASSUME fromApi'[v] = p PROVE HeldFor(v, p)
  BY <1>3, FromApiTurn, WindowsAssumption DEF HeldFor
<1>. QED
  BY <1>1, <1>2, <1>3 DEF HeldFor

\* What the user opens in a window was queued for it when it was made.
LEMMA QueueTurn ==
  ASSUME Shape, Next, NEW v \in Windows
  PROVE  /\ QueuedFor(v)' => QueuedFor(v) \/ (UserWindow /\ Made(v))
         /\ pending'[v] # NoPath => /\ ~Boots(v)
                                    /\ pending'[v] = pending[v] \/ (UserQueues /\ QueuedFor(v))
<1>0. Boots(v) => pending'[v] = NoPath
  BY DEF Shape, Boots
<1>1. CASE UserWindow
  <2>1. PICK w \in Windows : CreateWindow(w) /\ opening' = [opening EXCEPT !.at = "queue", !.win = w]
    BY <1>1 DEF UserWindow
  <2>2. Made(w) /\ opening'.win = w
    BY <1>1, <2>1, MadeOrKept DEF UserWindow, Shape
  <2>. QED
    BY <1>0, <1>1, <2>2 DEF UserWindow, QueuedFor
<1>2. CASE UserQueues
  BY <1>0, <1>2 DEF UserQueues, NoOpening, Shape, QueuedFor
<1>3. CASE UserOpens
  <2>1. opening'.at = "create" /\ pending' = pending
    BY <1>3 DEF UserOpens
  <2>. QED
    BY <1>0, <2>1 DEF QueuedFor
<1>4. ASSUME NEW w \in Windows, UserEdits(w) \/ UserSaves(w) \/ UserCloses(w)
      PROVE  pending' = pending /\ opening' = opening
  BY <1>4 DEF UserEdits, UserSaves, UserCloses, shell
<1>5. ASSUME NEW c \in Conns, Call(c) \/ cmd_save(c) \/ Command(c)
      PROVE  pending' = pending /\ opening' = opening
  BY <1>5 DEF Command, Call, cmd_save, cmd_new, cmd_open, cmd_refused, cmd_close, Claim, SessionOpens,
              SessionFails, Answered, TimesOut, Closed
<1>6. ASSUME NEW w \in Windows, Page(w) \/ set_document_path(w)
      PROVE  opening' = opening /\ (pending' = pending \/ pending' = [pending EXCEPT ![w] = NoPath])
  BY <1>6 DEF Page, Boots, take_pending_window_open, openPathInPlace, Loads, LoadFails, Closes, Cleared,
              afterReply, saveToRef, Saved, set_document_path, shell
<1>7. ASSUME NEW w \in Windows, Goes(w)
      PROVE  opening' = opening /\ pending' = [pending EXCEPT ![w] = NoPath]
  BY <1>7 DEF Goes
<1>8. ASSUME NEW w \in Windows, opening' = opening, pending' = [pending EXCEPT ![w] = NoPath]
      PROVE  /\ QueuedFor(v)' => QueuedFor(v)
             /\ pending'[v] # NoPath => pending'[v] = pending[v]
  BY <1>8 DEF Shape, QueuedFor
<1>9. ASSUME opening' = opening, pending' = pending
      PROVE  /\ QueuedFor(v)' => QueuedFor(v)
             /\ pending'[v] # NoPath => pending'[v] = pending[v]
  BY <1>9 DEF QueuedFor
<1>. QED
  BY <1>0, <1>1, <1>2, <1>3, <1>4, <1>5, <1>6, <1>7, <1>8, <1>9 DEF Next, Person

LEMMA UserLoadsTurn ==
  ASSUME Shape, RequestsFit, Next, NEW v \in Windows, NEW r \in UserLoads(v)'
  PROVE  \/ r \in UserLoads(v)
         \/ Unqueued(v, r)
         \/ /\ take_pending_window_open(v) /\ r.op = "load"
            /\ \E s \in UserLoads(v) : s.op = "take" /\ r.path = s.path
<1>1. r \in doing'[v] /\ (r.op = "take" \/ (r.op = "load" /\ r.by = User))
  BY DEF UserLoads
<1>2. CASE r \in doing[v]
  BY <1>1, <1>2 DEF UserLoads
<1>3. ASSUME NEW s \in inbox[v] \cup doing[v], Turned(v, s, r)
      PROVE  take_pending_window_open(v) /\ r.op = "load" /\ s \in UserLoads(v) /\ s.op = "take" /\ r.path = s.path
  <2>1. s.by # User \/ s \notin inbox[v]
    BY WindowsAssumption DEF RequestsFit
  <2>. QED
    BY <1>1, <1>3, <2>1 DEF Turned, UserLoads
<1>. QED
  BY <1>1, <1>2, <1>3, RequestsTurn

\* A window the user's open waits for has been made, and no file queued for it.
LEMMA OneSourceStays ==
  ASSUME Shape, CallsFit, Empty, RequestsFit, Aged, Next, NEW v \in Windows, OneSource(v)
  PROVE  OneSource(v)'
<1>0. Made(v) => pending'[v] = NoPath /\ inbox'[v] = {} /\ doing'[v] = {} /\ ~ByUser(v)
                 /\ fromApi'[v] = NoPath
  <2>1. Made(v) => ~Exists(v)
    BY DEF Made, Exists
  <2>. QED
    BY <2>1 DEF Made, Empty, Blank, OneSource, ByUser, UserLoads, Exists
<1>1. ~(ByApi(v)' /\ ByUser(v)')
  <2>1. ByApi(v)' => ByApi(v) \/ (Made(v) /\ \E c \in Conns : cmd_open(c))
    BY HeldTurn DEF ByApi
  <2>2. ByUser(v)' => ByUser(v) \/ (UserWindow /\ Made(v))
    BY QueueTurn, UserLoadsTurn DEF ByUser, Unqueued
  <2>3. ASSUME Made(v), ByApi(v), UserWindow PROVE FALSE
    <3>1. PICK p \in Paths : HeldFor(v, p)
      BY <2>3 DEF ByApi
    <3>2. ~Exists(v) /\ Blank(v)
      BY <2>3 DEF Made, Exists, Empty
    <3>3. \A c \in Conns : ~OpensIn(c, v)
      BY <2>3 DEF CallsFit, OpensIn, Made
    <3>. QED
      BY <3>1, <3>2, <3>3, WindowsAssumption DEF HeldFor, Blank, ApiOpens
  <2>4. UserWindow => \A c \in Conns : ~cmd_open(c)
    BY DEF UserWindow, cmd_open, Ends, CreateWindow, Shape
  <2>. QED
    BY <1>0, <2>1, <2>2, <2>3, <2>4 DEF OneSource
<1>2. ASSUME QueuedFor(v)'
      PROVE  win'[v] # "none" /\ pending'[v] = NoPath /\ \A r \in UserLoads(v)' : FALSE
  <2>1. CASE Made(v)
    BY <1>0, <2>1 DEF Made, UserLoads
  <2>2. CASE QueuedFor(v)
    <3>1. ~UserQueues
      BY <1>2 DEF UserQueues, NoOpening, QueuedFor
    <3>2. win[v] # "none" /\ pending[v] = NoPath /\ \A r \in UserLoads(v) : FALSE
      BY <2>2 DEF OneSource
    <3>. QED
      BY <3>1, <3>2, QueueTurn, UserLoadsTurn, WindowStays DEF Unqueued
  <2>. QED
    BY <1>2, <2>1, <2>2, QueueTurn
<1>3. ASSUME pending'[v] # NoPath PROVE \A r \in UserLoads(v)' : FALSE
  BY <1>3, QueueTurn, UserLoadsTurn DEF OneSource, Unqueued
<1>4. ASSUME NEW r \in UserLoads(v)', NEW s \in UserLoads(v)' PROVE r = s
  <2>1. CASE r \in UserLoads(v) /\ s \in UserLoads(v)
    BY <2>1 DEF OneSource
  <2>2. ASSUME Boots(v), pending[v] # NoPath PROVE r = s
    <3>1. doing'[v] = doing[v] \cup {[by |-> User, n |-> 0, path |-> pending[v], discard |-> FALSE, op |-> "take"]}
      BY <2>2 DEF Boots, Shape
    <3>. QED
      BY <2>2, <3>1 DEF UserLoads, OneSource
  <2>3. ASSUME take_pending_window_open(v) PROVE r = s
    <3>1. PICK q \in doing[v] : q.op = "take" /\ (Becomes(v, q, "load") \/ Over(v, q))
      BY <2>3 DEF take_pending_window_open
    <3>2. \A u \in UserLoads(v) : u = q
      BY <3>1 DEF UserLoads, OneSource
    <3>3. doing'[v] \subseteq (doing[v] \ {q}) \cup {[q EXCEPT !.op = "load"]}
      BY <3>1 DEF Becomes, Over, Shape
    <3>4. \A u \in UserLoads(v)' : u = [q EXCEPT !.op = "load"]
      BY <3>2, <3>3 DEF UserLoads
    <3>. QED
      BY <3>4
  <2>. QED
    BY <2>1, <2>2, <2>3, UserLoadsTurn DEF Unqueued
<1>. QED
  BY <1>1, <1>2, <1>3, <1>4 DEF OneSource

\* The end of a load is the end of the one open the API has in the page, or
\* the user's, which nobody waits for.
LEMMA LoadEnds ==
  ASSUME Shape, NEW v \in Windows, OneOpen(v), Loads(v) \/ LoadFails(v)
  PROVE  \/ answer' = answer /\ fromApi'[v] \in {fromApi[v], NoPath}
         \/ \A r \in ApiOpens(v)' : FALSE
<1>1. PICK q \in doing[v] :
        /\ q.op = "load" /\ Over(v, q) /\ inbox' = inbox /\ \E what : Answers(q, what)
        /\ \/ fromApi' = fromApi
           \/ fromApi' = [fromApi EXCEPT ![v] = IF q.by = User THEN NoPath ELSE q.path]
  BY DEF Loads, LoadFails
<1>2. CASE q.by = User
  <2>1. answer' = answer
    BY <1>1, <1>2, WindowsAssumption DEF Answers
  <2>. QED
    BY <1>1, <1>2, <2>1 DEF Shape
<1>3. CASE q.by # User
  <2>1. \A r \in ApiOpens(v) : r = q
    BY <1>1, <1>3 DEF OneOpen, ApiOpens
  <2>2. doing'[v] = doing[v] \ {q}
    BY <1>1 DEF Over, Shape
  <2>. QED
    BY <1>1, <2>1, <2>2 DEF ApiOpens, Shape
<1>. QED
  BY <1>2, <1>3

LEMMA OneOpenStays ==
  ASSUME Shape, CallsFit, Empty, RequestsFit, Aged, Next, NEW v \in Windows, OneOpen(v)
  PROVE  OneOpen(v)'
<1>0. ASSUME NEW c \in Conns, OpensIn(c, v), call[c].at # "ask"
      PROVE  (\A r \in ApiOpens(v) : FALSE) /\ fromApi[v] = NoPath /\ answer[c] = "none"
  BY <1>0 DEF OneOpen, CallsFit, OpensIn
<1>1. ASSUME NEW c \in Conns, OpensIn(c, v), Moves(c, "session", "ask"), NEW d \in Conns, OpensIn(d, v)
      PROVE  d = c
  BY <1>1 DEF CallsFit, OpensIn
<1>2. ASSUME NEW r \in ApiOpens(v)', NEW s \in ApiOpens(v)' PROVE r = s
  <2>1. CASE r \in ApiOpens(v) /\ s \in ApiOpens(v)
    BY <2>1 DEF OneOpen
  <2>2. CASE openPathInPlace(v)
    <3>1. PICK q \in inbox[v] :
            /\ q.op = "open" /\ inbox' = [inbox EXCEPT ![v] = @ \ {q}]
            /\ doing' = [doing EXCEPT ![v] = @ \cup {[q EXCEPT !.op = "load"]}]
      BY <2>2 DEF openPathInPlace
    <3>2. \A u \in ApiOpens(v) : u = q
      BY <3>1 DEF OneOpen, ApiOpens
    <3>3. inbox'[v] = inbox[v] \ {q} /\ doing'[v] = doing[v] \cup {[q EXCEPT !.op = "load"]}
      BY <3>1 DEF Shape
    <3>4. \A u \in ApiOpens(v)' : u = [q EXCEPT !.op = "load"]
      BY <3>1, <3>2, <3>3 DEF ApiOpens, RequestsFit
    <3>. QED
      BY <3>4
  <2>3. ASSUME NEW c \in Conns, Asked(c, v), OpensIn(c, v), Moves(c, "session", "ask"), SessionOpens(c)
        PROVE  r = s
    <3>1. \A u \in ApiOpens(v) : FALSE
      BY <1>0, <2>3 DEF Moves
    <3>2. /\ doing' = doing
          /\ inbox'[v] = inbox[v] \cup {[by |-> c, n |-> left'[c], op |-> call'[c].op, path |-> call'[c].path,
                                         discard |-> call'[c].discard]}
      BY <2>3 DEF Asked
    <3>. QED
      BY <3>1, <3>2 DEF ApiOpens
  <2>. QED
    BY <2>1, <2>2, <2>3, ApiOpensTurn
<1>3. ASSUME NEW r \in ApiOpens(v)', fromApi'[v] # NoPath PROVE FALSE
  <2>1. ~Loads(v)
    BY <1>3, LoadEnds, ApiOpensTurn DEF OneOpen, Loads, Asked, cmd_save, cmd_close, SessionOpens
  <2>2. fromApi'[v] = fromApi[v]
    BY <1>3, <2>1, FromApiTurn
  <2>. QED
    BY <1>0, <1>3, <2>2, ApiOpensTurn DEF OneOpen, Moves
<1>4. ASSUME NEW c \in Conns, OpensIn(c, v)'
      PROVE  /\ \A r \in ApiOpens(v)' :
                  /\ call'[c].at = "ask" /\ answer'[c] = "none"
                  /\ r.by = c /\ r.n = left'[c] /\ r.path = call'[c].path
             /\ fromApi'[v] # NoPath => call'[c].at = "ask" /\ fromApi'[v] = call'[c].path
  <2>1. CASE OpensIn(c, v) /\ SameCall(c)
    <3>1. ASSUME NEW r \in ApiOpens(v)'
          PROVE  \E s \in ApiOpens(v) : r.by = s.by /\ r.n = s.n /\ r.path = s.path
      <4>1. ASSUME NEW d \in Conns, OpensIn(d, v), Moves(d, "session", "ask") PROVE FALSE
        BY <1>1, <2>1, <4>1 DEF SameCall, Moves
      <4>. QED
        BY <4>1, ApiOpensTurn
    <3>2. fromApi'[v] # NoPath => call[c].at = "ask" /\ fromApi'[v] = call[c].path
      BY <2>1, FromApiTurn DEF OneOpen
    <3>. QED
      BY <2>1, <3>1, <3>2 DEF SameCall, OneOpen
  <2>2. CASE Made(v)
    <3>1. ~Exists(v)
      BY <2>2 DEF Made, Exists
    <3>. QED
      BY <2>2, <3>1 DEF Made, Empty, Blank, ApiOpens
  <2>3. CASE OpensIn(c, v) /\ Moves(c, "claim", "session")
    <3>1. \A r \in ApiOpens(v) : FALSE
      BY <1>0, <2>3 DEF Moves
    <3>2. \A r \in ApiOpens(v)' : FALSE
      <4>1. ASSUME NEW d \in Conns, OpensIn(d, v), Moves(d, "session", "ask") PROVE FALSE
        BY <1>1, <2>3, <4>1 DEF Moves
      <4>. QED
        BY <3>1, <4>1, ApiOpensTurn
    <3>3. fromApi'[v] = NoPath
      BY <1>0, <2>3, <3>1, FromApiTurn DEF Moves
    <3>. QED
      BY <3>2, <3>3
  <2>4. CASE OpensIn(c, v) /\ Moves(c, "session", "ask")
    <3>1. (\A r \in ApiOpens(v) : FALSE) /\ fromApi[v] = NoPath /\ answer[c] = "none"
      BY <1>0, <2>4 DEF Moves
    <3>2. ASSUME NEW r \in ApiOpens(v)' PROVE r.by = c /\ r.n = left'[c] /\ r.path = call'[c].path
      <4>1. PICK d \in Conns : Sent(d, v, r) /\ OpensIn(d, v)
        BY <3>1, ApiOpensTurn
      <4>2. d = c
        BY <1>1, <2>4, <4>1
      <4>. QED
        BY <4>1, <4>2 DEF Sent
    <3>3. fromApi'[v] = NoPath
      BY <3>1, FromApiTurn
    <3>. QED
      BY <2>4, <3>1, <3>2, <3>3 DEF Moves
  <2>5. CASE OpensIn(c, v) /\ (Loads(v) \/ LoadFails(v)) /\ call'[c] = call[c] /\ left'[c] = left[c]
    <3>1. CASE answer' = answer
      BY <2>1, <2>5, <3>1 DEF SameCall
    <3>2. CASE \A r \in ApiOpens(v)' : FALSE
      <4>1. fromApi'[v] # NoPath => call[c].at = "ask" /\ fromApi'[v] = call[c].path
        BY <2>5, FromApiTurn DEF OneOpen
      <4>. QED
        BY <2>5, <3>2, <4>1
    <3>. QED
      BY <2>5, <3>1, <3>2, LoadEnds
  <2>. QED
    BY <1>4, <2>1, <2>2, <2>3, <2>4, <2>5, OpensTurn
<1>. QED
  BY <1>2, <1>3, <1>4 DEF OneOpen

-----------------------------------------------------------------------------
(* The registry                                                            *)

\* A report more: it is the latest, and repeats the others if it is the same.
LEMMA ReportsAdd ==
  ASSUME Shape, NEW v \in Windows, NEW p \in Files, Reports(v, p)
  PROVE  /\ told'[v] = p /\ Latest(v)' = p
         /\ (\A i \in 1 .. Len(report[v]) : report[v][i] = p)
              => \A i \in 1 .. Len(report'[v]) : report'[v][i] = p
<1>1. report[v] \in Seq(Files) /\ report'[v] = Append(report[v], p) /\ told'[v] = p
  BY DEF Shape, Reports
<1>2. /\ Len(report'[v]) = Len(report[v]) + 1 /\ Len(report[v]) \in Nat
      /\ report'[v] # <<>> /\ report'[v][Len(report'[v])] = p
      /\ \A i \in 1 .. Len(report[v]) : report'[v][i] = report[v][i]
  BY <1>1
<1>3. \A i \in 1 .. Len(report'[v]) : i \in 1 .. Len(report[v]) \/ i = Len(report'[v])
  BY <1>2
<1>. QED
  BY <1>1, <1>2, <1>3 DEF Latest

\* A report less: the registry is told what it said.
LEMMA ReportArrives ==
  ASSUME Shape, NEW v \in Windows, set_document_path(v)
  PROVE  /\ Latest(v)' = Latest(v)
         /\ \A p : Registered(v, p) => Registered(v, p)'
<1>. DEFINE s == report[v]
<1>1. s \in Seq(Files) /\ s # <<>> /\ paths'[v] = Head(s) /\ report'[v] = Tail(s)
  BY DEF Shape, set_document_path
<1>2. /\ Head(s) = s[1] /\ Tail(s) \in Seq(Files) /\ Len(Tail(s)) = Len(s) - 1
      /\ \A i \in 1 .. Len(Tail(s)) : Tail(s)[i] = s[i + 1]
      /\ Len(s) \in Nat /\ Len(s) >= 1
  BY <1>1, HeadTailProperties, EmptySeq, LenProperties
<1>3. Tail(s) = <<>> => Len(s) = 1
  <2>1. Tail(s) = <<>> => Len(Tail(s)) = 0
    BY EmptySeq
  <2>. QED
    BY <1>2, <2>1
<1>4. Tail(s) # <<>> => Len(Tail(s)) \in 1 .. Len(Tail(s)) /\ Len(Tail(s)) + 1 = Len(s)
  BY <1>2, EmptySeq, LenProperties
<1>. HIDE DEF s
<1>5. Latest(v)' = s[Len(s)]
  BY <1>1, <1>2, <1>3, <1>4 DEF Latest
<1>6. ASSUME NEW p, \A i \in 1 .. Len(s) : s[i] = p
      PROVE  Head(s) = p /\ \A i \in 1 .. Len(Tail(s)) : Tail(s)[i] = p
  <2>1. 1 \in 1 .. Len(s) /\ \A i \in 1 .. Len(Tail(s)) : i + 1 \in 1 .. Len(s)
    BY <1>2
  <2>. QED
    BY <1>2, <1>6, <2>1
<1>. QED
  BY <1>1, <1>5, <1>6 DEF s, Latest, Registered

\* Nothing has been opened in the window, saved from it or told of it.
New(v) == told[v] = NoPath /\ bound[v] = NoPath

\* What a step leaves of a window's file when it neither ends a load nor
\* makes the window.
Steady(v) ==
  /\ told'[v] = told[v] /\ bound'[v] = bound[v] /\ report'[v] = report[v]
  /\ paths'[v] = paths[v] /\ fromApi'[v] = fromApi[v]
  /\ Exists(v)' => Exists(v)
  /\ ~Loads(v) /\ ~LoadFails(v) /\ ~Made(v)

LEMMA SteadyOpens ==
  ASSUME Shape, CallsFit, RequestsFit, Aged, Next, NEW v \in Windows, FileFit(v),
         ~Loads(v), ~LoadFails(v), ~Made(v), NEW c \in Conns, OpensIn(c, v)'
  PROVE  /\ OpensIn(c, v) /\ call'[c].path = call[c].path /\ answer'[c] = answer[c]
         /\ call'[c].at \in {"claim", "session"} => call[c].at \in {"claim", "session"}
         /\ call'[c].at # "claim" => call[c].at # "claim" \/ (Claim(c) /\ call[c].at = "claim")
BY OpensTurn DEF SameCall, Moves

LEMMA SteadyFits ==
  ASSUME Shape, CallsFit, RequestsFit, Aged, Next, NEW v \in Windows, FileFit(v), Steady(v),
         \A r \in ApiOpens(v)' :
           r \in ApiOpens(v) \/ (New(v) /\ r.op = "open" /\ Registered(v, r.path)),
         \A r \in UserLoads(v)' : r \in UserLoads(v) \/ (New(v) /\ r.op = "take")
  PROVE  FileFit(v)'
<1>1. StillNew(v)'
  BY SteadyOpens DEF Steady, FileFit, StillNew, New
<1>2. ASSUME NEW c \in Conns, OpensIn(c, v)', call'[c].at # "claim", answer'[c] # "refused", Exists(v)'
      PROVE  Registered(v, call[c].path)'
  <2>1. /\ OpensIn(c, v) /\ call'[c].path = call[c].path /\ answer'[c] = answer[c]
        /\ call[c].at # "claim" \/ (Claim(c) /\ call[c].at = "claim")
    BY <1>2, SteadyOpens DEF Steady
  <2>2. CASE call[c].at # "claim"
    BY <1>2, <2>1, <2>2 DEF Steady, FileFit, ClaimStands, Registered
  <2>3. CASE Claim(c) /\ call[c].at = "claim"
    <3>1. paths'[v] = call[c].path
      BY <1>2, <2>1, <2>3 DEF Claim, OpensIn, Steady, Shape
    <3>2. report'[v] = <<>>
      BY <2>1, <2>3 DEF FileFit, StillNew, Steady
    <3>. QED
      BY <2>1, <3>1, <3>2 DEF Registered
  <2>. QED
    BY <2>1, <2>2, <2>3
<1>3. ClaimStands(v)'
  BY <1>2 DEF Steady, FileFit, ClaimStands, Registered
<1>4. ToldTruly(v)'
  BY DEF Steady, FileFit, ToldTruly, Latest
<1>. QED
  BY <1>1, <1>3, <1>4 DEF FileFit

LEMMA KeptFits ==
  ASSUME Shape, CallsFit, RequestsFit, Aged, Next, NEW v \in Windows, FileFit(v), Kept(v)
  PROVE  FileFit(v)'
<1>1. ~Loads(v) /\ ~LoadFails(v)
  BY DEF Kept, Loads, LoadFails, Over, Shape
<1>2. Steady(v)
  BY <1>1 DEF Kept, Steady, Made, Exists
<1>. QED
  BY <1>2, SteadyFits DEF Kept, ApiOpens, UserLoads

LEMMA MadeFits ==
  ASSUME Shape, CallsFit, Empty, RequestsFit, Aged, Next, NEW v \in Windows, Made(v)
  PROVE  FileFit(v)'
<1>1. Blank(v)'
  BY DEF Made, Exists, Empty, Blank
<1>2. ASSUME NEW c \in Conns, OpensIn(c, v)' PROVE call'[c].at = "claim"
  <2>1. ~OpensIn(c, v)
    BY DEF Made, OpensIn, CallsFit
  <2>. QED
    BY <1>2, <2>1, OpensTurn DEF Moves
<1>. QED
  BY <1>1, <1>2 DEF Blank, FileFit, StillNew, ClaimStands, ToldTruly, ApiOpens, UserLoads

LEMMA AskedFits ==
  ASSUME Shape, CallsFit, RequestsFit, Aged, Next, NEW v \in Windows, OneOpen(v), FileFit(v),
         NEW c \in Conns, Asked(c, v)
  PROVE  FileFit(v)'
<1>1. /\ ~Loads(v) /\ ~LoadFails(v) /\ ~Made(v) /\ doing'[v] = doing[v] /\ Exists(v)
      /\ told'[v] = told[v] /\ bound'[v] = bound[v] /\ report'[v] = report[v]
      /\ paths'[v] = paths[v] /\ fromApi'[v] = fromApi[v]
  BY DEF Asked, Loads, LoadFails, Over, Made, Shape
<1>2. UserLoads(v)' = UserLoads(v)
  BY <1>1 DEF UserLoads
<1>3. ASSUME NEW r \in ApiOpens(v)', r \notin ApiOpens(v)
      PROVE  New(v) /\ r.op = "open" /\ Registered(v, r.path)
  <2>1. PICK d \in Conns : Sent(d, v, r) /\ OpensIn(d, v) /\ Moves(d, "session", "ask")
    <3>1. ~openPathInPlace(v)
      BY <1>1 DEF openPathInPlace, Reports, Shape
    <3>. QED
      BY <1>3, <3>1, ApiOpensTurn
  <2>2. New(v) /\ answer[d] = "none" /\ call[d].at = "session"
    BY <2>1 DEF FileFit, StillNew, Moves, CallsFit, New
  <2>3. Registered(v, call[d].path)
    BY <1>1, <2>1, <2>2 DEF FileFit, ClaimStands
  <2>4. r.op = "open" /\ r.path = call[d].path
    BY <2>1 DEF Sent, Moves, OpensIn
  <2>. QED
    BY <2>2, <2>3, <2>4
<1>. QED
  BY <1>1, <1>2, <1>3, SteadyFits DEF Steady

\* A window is the user's or the API's.
LEMMA UsersWindow ==
  ASSUME Shape, CallsFit, RequestsFit, NEW v \in Windows, OneSource(v)
  PROVE  /\ ByUser(v) => /\ \A c \in Conns : ~OpensIn(c, v)
                         /\ \A r \in ApiOpens(v) : FALSE
                         /\ fromApi[v] = NoPath
         /\ (\E r \in ApiOpens(v) : TRUE) => \A r \in UserLoads(v) : FALSE
<1>1. ASSUME ~ByApi(v)
      PROVE  /\ \A c \in Conns : ~OpensIn(c, v)
             /\ \A r \in ApiOpens(v) : FALSE
             /\ fromApi[v] = NoPath
  <2>1. \A p \in Paths : ~HeldFor(v, p)
    BY <1>1 DEF ByApi
  <2>2. \A c \in Conns : OpensIn(c, v) => call[c].path \in Paths
    BY DEF CallsFit, OpensIn
  <2>3. \A r \in ApiOpens(v) : r.path \in Paths
    BY DEF RequestsFit, ApiOpens
  <2>4. fromApi[v] # NoPath => fromApi[v] \in Paths
    BY DEF Shape, Files
  <2>. QED
    BY <2>1, <2>2, <2>3, <2>4 DEF HeldFor
<1>2. (\E r \in UserLoads(v) : TRUE) => ByUser(v)
  BY DEF ByUser
<1>. QED
  BY <1>1, <1>2 DEF OneSource

LEMMA ArrivesFits ==
  ASSUME Shape, CallsFit, RequestsFit, Aged, Next, NEW v \in Windows, FileFit(v), set_document_path(v)
  PROVE  FileFit(v)'
<1>1. /\ call' = call /\ answer' = answer /\ win' = win /\ bound' = bound /\ told' = told
      /\ inbox' = inbox /\ doing' = doing /\ fromApi' = fromApi /\ report[v] # <<>>
  BY DEF set_document_path
<1>2. ApiOpens(v)' = ApiOpens(v) /\ UserLoads(v)' = UserLoads(v)
      /\ \A c \in Conns : OpensIn(c, v)' = OpensIn(c, v)
  BY <1>1 DEF ApiOpens, UserLoads, OpensIn
<1>3. \A p : Registered(v, p) => Registered(v, p)'
  BY ReportArrives
<1>4. StillNew(v)'
  BY <1>1, <1>2 DEF FileFit, StillNew
<1>5. ClaimStands(v)'
  <2>1. ASSUME NEW c \in Conns, OpensIn(c, v), call[c].at # "claim", answer[c] # "refused", Exists(v)
        PROVE  Registered(v, call[c].path)'
    BY <1>1, <1>3, <2>1 DEF FileFit, ClaimStands
  <2>2. \A r \in ApiOpens(v) : Registered(v, r.path)'
    BY <1>3 DEF FileFit, ClaimStands
  <2>3. fromApi[v] # NoPath => Registered(v, fromApi[v])' /\ bound[v] = fromApi[v]
    BY <1>1, <1>3 DEF FileFit, ClaimStands
  <2>. QED
    BY <1>1, <1>2, <2>1, <2>2, <2>3 DEF ClaimStands, Exists, Registered
<1>6. ToldTruly(v)'
  BY <1>1, ReportArrives DEF FileFit, ToldTruly
<1>. QED
  BY <1>4, <1>5, <1>6 DEF FileFit

LEMMA GoneFits ==
  ASSUME Shape, NEW v \in Windows, Goes(v)
  PROVE  FileFit(v)'
<1>1. Blank(v)' /\ ~Exists(v)'
  BY DEF Goes, Shape, Blank, Exists
<1>. QED
  BY <1>1 DEF Blank, FileFit, StillNew, ClaimStands, ToldTruly, ApiOpens, UserLoads

LEMMA BootsFits ==
  ASSUME Shape, CallsFit, Empty, RequestsFit, Aged, Next, NEW v \in Windows, FileFit(v), Boots(v)
  PROVE  FileFit(v)'
<1>1. Steady(v) /\ inbox' = inbox
  BY DEF Boots, Steady, Exists, Made, Loads, LoadFails, Over, Shape
<1>2. New(v)
  BY DEF Boots, Empty, Blank, New
<1>3. \A r \in doing'[v] : r \in doing[v] \/ (r.op = "take" /\ r.by = User)
  BY DEF Boots, Shape
<1>4. /\ \A r \in ApiOpens(v)' : r \in ApiOpens(v)
      /\ \A r \in UserLoads(v)' : r \in UserLoads(v) \/ r.op = "take"
  BY <1>1, <1>3 DEF ApiOpens, UserLoads
<1>. QED
  BY <1>1, <1>2, <1>4, SteadyFits

\* Requests that open nothing come and go.
LEMMA IdleFits ==
  ASSUME Shape, CallsFit, RequestsFit, Aged, Next, NEW v \in Windows, FileFit(v),
         Closes(v) \/ Cleared(v) \/ afterReply(v) \/ saveToRef(v) \/ (UserQueues /\ opening.win = v)
           \/ \E c \in Conns : Claim(c) /\ call[c].win = v /\ ~Exists(v)
  PROVE  FileFit(v)'
<1>. USE DEF shell, pages
<1>1. /\ UNCHANGED <<told, bound, report, fromApi>> /\ paths'[v] = paths[v] /\ (Exists(v)' => Exists(v))
      /\ ~Made(v)
  <2>1. UNCHANGED <<told, bound, report, fromApi, paths>>
        \/ \E c \in Conns : Claim(c) /\ call[c].win = v /\ ~Exists(v)
    BY DEF Closes, Cleared, afterReply, saveToRef, UserQueues
  <2>2. win' = win \/ win' = Destroyed(v)
    BY DEF Closes, Cleared, afterReply, saveToRef, UserQueues, Claim
  <2>3. (Exists(v)' => Exists(v)) /\ ~Made(v)
    BY <2>2 DEF Destroyed, Exists, Made, Shape
  <2>. QED
    BY <2>1, <2>3 DEF Claim
<1>2. /\ inbox'[v] \subseteq inbox[v]
      /\ \A r \in doing[v] : r.op = "load" => r \in doing'[v]
      /\ \A r \in doing'[v] : r \in doing[v] \/ r.op \in {"clear", "destroy", "write"}
  <2>1. ASSUME NEW s \in inbox[v], NEW o \in {"clear", "write"}, inbox' = [inbox EXCEPT ![v] = @ \ {s}],
               doing' = doing \/ doing' = [doing EXCEPT ![v] = @ \cup {[s EXCEPT !.op = o]}]
        PROVE  /\ inbox'[v] \subseteq inbox[v] /\ doing[v] \subseteq doing'[v]
               /\ \A r \in doing'[v] : r \in doing[v] \/ r.op \in {"clear", "destroy", "write"}
    <3>1. inbox'[v] = inbox[v] \ {s} /\ doing'[v] \in {doing[v], doing[v] \cup {[s EXCEPT !.op = o]}}
      BY <2>1 DEF Shape
    <3>2. [s EXCEPT !.op = o].op = o
      BY DEF Shape, Requests
    <3>. QED
      BY <3>1, <3>2
  <2>2. CASE Closes(v)
    BY <2>1, <2>2 DEF Closes
  <2>3. CASE saveToRef(v)
    BY <2>1, <2>3 DEF saveToRef
  <2>4. CASE Cleared(v)
    <3>1. PICK s \in doing[v] : s.op = "clear" /\ (Over(v, s) \/ Becomes(v, s, "destroy")) /\ inbox' = inbox
      BY <2>4 DEF Cleared
    <3>2. doing'[v] \in {doing[v] \ {s}, (doing[v] \ {s}) \cup {[s EXCEPT !.op = "destroy"]}}
      BY <3>1 DEF Over, Becomes, Shape
    <3>3. [s EXCEPT !.op = "destroy"].op = "destroy"
      BY DEF Shape, Requests
    <3>. QED
      BY <3>1, <3>2, <3>3
  <2>5. CASE afterReply(v)
    BY <2>5 DEF afterReply, Over, Shape
  <2>6. CASE UserQueues \/ \E c \in Conns : Claim(c)
    BY <2>6 DEF UserQueues, Claim
  <2>. QED
    BY <2>2, <2>3, <2>4, <2>5, <2>6
<1>3. ~Loads(v) /\ ~LoadFails(v)
  BY <1>2 DEF Loads, LoadFails, Over, Shape
<1>4. ApiOpens(v)' \subseteq ApiOpens(v) /\ UserLoads(v)' \subseteq UserLoads(v)
  BY <1>2 DEF ApiOpens, UserLoads
<1>. QED
  BY <1>1, <1>3, <1>4, SteadyFits DEF Steady

LEMMA ClaimFits ==
  ASSUME Shape, CallsFit, RequestsFit, Aged, Next, NEW v \in Windows, OneOpen(v), FileFit(v),
         NEW c \in Conns, Claim(c), call[c].win = v, Exists(v)
  PROVE  FileFit(v)'
<1>. USE DEF pages
<1>1. OpensIn(c, v) /\ call[c].at = "claim" /\ Moves(c, "claim", "session") /\ call[c].op = "open"
  <2>1. call[c].at = "claim" /\ To(c, "session") /\ left' = left /\ answer' = answer /\ ops' = ops
    BY DEF Claim
  <2>2. call[c].op = "open" /\ ops = c
    BY <2>1 DEF CallsFit, Shape, Calls
  <2>. QED
    BY <2>1, <2>2, ToMoves DEF OpensIn
<1>2. /\ New(v) /\ report[v] = <<>> /\ \A r \in ApiOpens(v) : FALSE
      /\ fromApi[v] = NoPath
  BY <1>1 DEF FileFit, StillNew, New, OneOpen
<1>3. /\ paths'[v] = call[c].path /\ ApiOpens(v)' = ApiOpens(v) /\ UserLoads(v)' = UserLoads(v)
      /\ told' = told /\ bound' = bound /\ report' = report /\ fromApi' = fromApi /\ win' = win
  BY DEF Claim, Shape, ApiOpens, UserLoads
<1>4. \A d \in Conns : OpensIn(d, v)' => call'[d].path = call[c].path
  <2>1. ASSUME NEW d \in Conns, OpensIn(d, v)', d # c PROVE FALSE
    <3>1. ops' = d /\ ops' = c
      BY <1>1, <2>1, CallsFitStays DEF CallsFit, OpensIn, Moves
    <3>. QED
      BY <2>1, <3>1
  <2>. QED
    BY <1>1, <2>1 DEF Moves
<1>5. StillNew(v)'
  BY <1>2, <1>3 DEF FileFit, StillNew, New
<1>6. ClaimStands(v)'
  BY <1>2, <1>3, <1>4 DEF ClaimStands, Registered
<1>7. ToldTruly(v)'
  BY <1>2, <1>3 DEF New, ToldTruly
<1>. QED
  BY <1>5, <1>6, <1>7 DEF FileFit

LEMMA TakeFits ==
  ASSUME Shape, CallsFit, RequestsFit, Aged, Next, NEW v \in Windows, OneSource(v), FileFit(v),
         take_pending_window_open(v)
  PROVE  FileFit(v)'
<1>1. PICK q \in doing[v] :
        /\ q.op = "take"
        /\ paths' = [paths EXCEPT ![v] = q.path]
        /\ \/ Becomes(v, q, "load") /\ Reports(v, q.path)
           \/ Over(v, q) /\ UNCHANGED <<told, report>>
        /\ UNCHANGED <<call, answer, win, bound, inbox, fromApi>>
  BY DEF take_pending_window_open
<1>2. q \in UserLoads(v) /\ q \in Requests /\ q.by = User /\ q.path \in Files
  BY <1>1 DEF UserLoads, Shape, RequestsFit, Requests, Files
<1>3. /\ \A c \in Conns : ~OpensIn(c, v)
      /\ \A r \in ApiOpens(v) : FALSE
      /\ fromApi[v] = NoPath
  BY <1>2, UsersWindow DEF ByUser
<1>4. New(v) /\ \A r \in UserLoads(v) : r = q
  BY <1>1, <1>2 DEF FileFit, StillNew, New, OneSource
<1>5. /\ \A c \in Conns : ~OpensIn(c, v)'
      /\ \A r \in ApiOpens(v)' : FALSE
      /\ fromApi'[v] = NoPath /\ bound'[v] = NoPath
  <2>1. \A c \in Conns : ~OpensIn(c, v)'
    BY <1>1, <1>3 DEF OpensIn
  <2>2. \A r \in doing'[v] : r \in doing[v] \/ r.by = User
    BY <1>1, <1>2 DEF Becomes, Over, Shape, Requests
  <2>3. \A r \in ApiOpens(v)' : FALSE
    BY <1>1, <1>3, <2>2 DEF ApiOpens
  <2>. QED
    BY <1>1, <1>3, <1>4, <2>1, <2>3 DEF New
<1>6. CASE Becomes(v, q, "load") /\ Reports(v, q.path)
  <2>1. told'[v] = q.path /\ Latest(v)' = q.path
    BY <1>2, <1>6, ReportsAdd
  <2>2. \A r \in UserLoads(v)' : r.op = "load" /\ r.path = q.path
    <3>1. doing'[v] = (doing[v] \ {q}) \cup {[q EXCEPT !.op = "load"]}
      BY <1>6 DEF Becomes, Shape
    <3>2. [q EXCEPT !.op = "load"].op = "load" /\ [q EXCEPT !.op = "load"].path = q.path
      BY <1>2 DEF Requests
    <3>. QED
      BY <1>4, <3>1, <3>2 DEF UserLoads
  <2>. QED
    BY <1>5, <2>1, <2>2 DEF FileFit, StillNew, ClaimStands, ToldTruly
<1>7. CASE Over(v, q) /\ UNCHANGED <<told, report>>
  <2>1. \A r \in UserLoads(v)' : FALSE
    BY <1>4, <1>7 DEF Over, Shape, UserLoads
  <2>. QED
    BY <1>4, <1>5, <1>7, <2>1 DEF New, FileFit, StillNew, ClaimStands, ToldTruly
<1>. QED
  BY <1>1, <1>6, <1>7

LEMMA OpenInPlaceFits ==
  ASSUME Shape, CallsFit, RequestsFit, Aged, Next, NEW v \in Windows, OneOpen(v), OneSource(v), FileFit(v),
         openPathInPlace(v)
  PROVE  FileFit(v)'
<1>1. PICK q \in inbox[v] :
        /\ q.op = "open"
        /\ inbox' = [inbox EXCEPT ![v] = @ \ {q}]
        /\ doing' = [doing EXCEPT ![v] = @ \cup {[q EXCEPT !.op = "load"]}]
        /\ Reports(v, q.path)
        /\ UNCHANGED <<shell, win, bound, fromApi>>
  BY DEF openPathInPlace
<1>2. q \in ApiOpens(v) /\ q \in Requests /\ q.path \in Files /\ q.by # User
  BY <1>1, WindowsAssumption DEF ApiOpens, Shape, RequestsFit, Requests, Files
<1>3. /\ \A r \in ApiOpens(v) : r = q
      /\ \A r \in UserLoads(v) : FALSE
      /\ fromApi[v] = NoPath /\ bound[v] = NoPath /\ Registered(v, q.path)
  BY <1>2, UsersWindow DEF OneOpen, FileFit, StillNew, ClaimStands
<1>4. \A c \in Conns : OpensIn(c, v)' => call'[c].path = q.path /\ call'[c].at = "ask"
  BY <1>1, <1>2 DEF OneOpen, OpensIn, shell
<1>5. /\ told'[v] = q.path /\ Latest(v)' = q.path
      /\ paths'[v] = q.path /\ \A i \in 1 .. Len(report'[v]) : report'[v][i] = q.path
  BY <1>1, <1>2, <1>3, ReportsAdd DEF Registered, shell
<1>6. [q EXCEPT !.op = "load"].op = "load" /\ [q EXCEPT !.op = "load"].path = q.path
      /\ [q EXCEPT !.op = "load"].by = q.by
  BY <1>2 DEF Requests
<1>7. inbox'[v] = inbox[v] \ {q} /\ doing'[v] = doing[v] \cup {[q EXCEPT !.op = "load"]}
  BY <1>1 DEF Shape
<1>8. /\ \A r \in ApiOpens(v)' : r.op = "load" /\ r.path = q.path
      /\ \A r \in UserLoads(v)' : FALSE
  BY <1>2, <1>3, <1>6, <1>7 DEF ApiOpens, UserLoads
<1>9. fromApi'[v] = NoPath /\ bound'[v] = NoPath
  BY <1>1, <1>3
<1>. QED
  BY <1>4, <1>5, <1>8, <1>9 DEF FileFit, StillNew, ClaimStands, ToldTruly, Registered

LEMMA LoadsFits ==
  ASSUME Shape, CallsFit, RequestsFit, Aged, Next, NEW v \in Windows, OneOpen(v), OneSource(v), FileFit(v),
         Loads(v)
  PROVE  FileFit(v)'
<1>1. PICK q \in doing[v] :
        /\ q.op = "load" /\ BoundTo(v, q.path)
        /\ fromApi' = [fromApi EXCEPT ![v] = IF q.by = User THEN NoPath ELSE q.path]
        /\ Over(v, q)
        /\ UNCHANGED <<call, paths, win, inbox>>
  BY DEF Loads
<1>2. q.path \in Paths /\ q.path # NoPath
  BY <1>1, WindowsAssumption DEF RequestsFit
<1>3. told[v] = q.path
  BY <1>1 DEF FileFit, StillNew, UserLoads, ApiOpens
<1>4. /\ told'[v] = q.path /\ bound'[v] = q.path /\ report' = report /\ paths' = paths
      /\ fromApi'[v] = IF q.by = User THEN NoPath ELSE q.path
  BY <1>1, <1>3 DEF BoundTo, Shape
<1>5. Latest(v) = q.path
  BY <1>2, <1>3 DEF FileFit, ToldTruly
<1>6. doing'[v] = doing[v] \ {q}
  BY <1>1 DEF Over, Shape
<1>7. CASE q.by = User
  <2>1. q \in UserLoads(v)
    BY <1>1, <1>7 DEF UserLoads
  <2>2. /\ \A c \in Conns : ~OpensIn(c, v)'
        /\ \A r \in ApiOpens(v)' : FALSE
        /\ \A r \in UserLoads(v)' : FALSE
    BY <1>1, <1>6, <2>1, UsersWindow DEF ByUser, OneSource, OpensIn, ApiOpens, UserLoads
  <2>. QED
    BY <1>4, <1>5, <1>7, <2>2 DEF FileFit, StillNew, ClaimStands, ToldTruly, Latest
<1>8. CASE q.by # User
  <2>1. q \in ApiOpens(v)
    BY <1>1, <1>8 DEF ApiOpens
  <2>2. /\ \A r \in ApiOpens(v)' : FALSE
        /\ \A r \in UserLoads(v)' : FALSE
    BY <1>1, <1>6, <2>1, UsersWindow DEF OneOpen, ApiOpens, UserLoads
  <2>3. \A c \in Conns : OpensIn(c, v)' => call'[c].at = "ask" /\ call'[c].path = q.path
    BY <1>1, <2>1 DEF OneOpen, OpensIn
  <2>4. Registered(v, q.path)
    BY <2>1 DEF FileFit, ClaimStands
  <2>. QED
    BY <1>4, <1>5, <1>8, <2>2, <2>3, <2>4 DEF FileFit, StillNew, ClaimStands, ToldTruly, Latest, Registered
<1>. QED
  BY <1>7, <1>8

LEMMA LoadFailsFits ==
  ASSUME Shape, CallsFit, RequestsFit, Aged, Next, NEW v \in Windows, OneOpen(v), OneSource(v), FileFit(v),
         LoadFails(v)
  PROVE  FileFit(v)'
<1>1. PICK q \in doing[v] :
        /\ q.op = "load" /\ Reports(v, NoPath) /\ Over(v, q) /\ Answers(q, "refused")
        /\ UNCHANGED <<call, left, paths, win, bound, inbox, fromApi>>
  BY DEF LoadFails
<1>2. told'[v] = NoPath
  BY <1>1, ReportsAdd, Constants
<1>3. bound'[v] = NoPath
  BY <1>1 DEF FileFit, StillNew, UserLoads, ApiOpens
<1>4. doing'[v] = doing[v] \ {q}
  BY <1>1 DEF Over, Shape
<1>5. CASE q.by = User
  <2>1. q \in UserLoads(v)
    BY <1>1, <1>5 DEF UserLoads
  <2>2. /\ \A c \in Conns : ~OpensIn(c, v)'
        /\ \A r \in ApiOpens(v)' : FALSE
        /\ \A r \in UserLoads(v)' : FALSE
        /\ fromApi'[v] = NoPath
    BY <1>1, <1>4, <2>1, UsersWindow DEF ByUser, OneSource, OpensIn, ApiOpens, UserLoads
  <2>. QED
    BY <1>2, <1>3, <2>2 DEF FileFit, StillNew, ClaimStands, ToldTruly
<1>6. CASE q.by # User
  <2>1. q \in ApiOpens(v)
    BY <1>1, <1>6 DEF ApiOpens
  <2>2. /\ \A r \in ApiOpens(v)' : FALSE
        /\ \A r \in UserLoads(v)' : FALSE
        /\ fromApi'[v] = NoPath
    BY <1>1, <1>4, <2>1, UsersWindow DEF OneOpen, ApiOpens, UserLoads
  <2>3. ASSUME NEW c \in Conns, OpensIn(c, v)' PROVE call'[c].at = "ask" /\ answer'[c] = "refused"
    <3>1. OpensIn(c, v) /\ call[c].at = "ask" /\ q.by = c /\ q.n = left[c] /\ call'[c] = call[c]
      BY <1>1, <2>1, <2>3 DEF OneOpen, OpensIn
    <3>. QED
      BY <1>1, <3>1 DEF Answers, Shape
  <2>. QED
    BY <1>2, <1>3, <2>2, <2>3 DEF FileFit, StillNew, ClaimStands, ToldTruly
<1>. QED
  BY <1>5, <1>6

\* A save that ends while no open deals with the window.
LEMMA BindsFits ==
  ASSUME Shape, CallsFit, RequestsFit, Aged, Next, NEW v \in Windows, FileFit(v), v \notin overrun',
         NEW p \in Paths, Binds(v, p), call' = call, paths' = paths, inbox' = inbox,
         \A r \in doing'[v] : r \in doing[v]
  PROVE  FileFit(v)'
<1>1. ~Opening(v)
  BY DEF Binds, Shape
<1>2. /\ \A c \in Conns : ~OpensIn(c, v)'
      /\ \A r \in ApiOpens(v)' : FALSE
      /\ \A r \in UserLoads(v)' : FALSE
  BY <1>1 DEF Opening, OpensIn, ApiOpens, UserLoads
<1>3. bound'[v] = p /\ fromApi'[v] = (IF bound[v] = p THEN fromApi[v] ELSE NoPath)
  BY DEF Binds, BoundTo, Shape
<1>4. p # NoPath /\ p \in Files
  BY WindowsAssumption DEF Files
<1>5. told'[v] = p /\ Latest(v)' = p
  <2>1. CASE told[v] = p
    BY <1>4, <2>1 DEF Binds, BoundTo, FileFit, ToldTruly, Latest
  <2>2. CASE told[v] # p
    BY <1>4, <2>2, ReportsAdd DEF Binds, BoundTo
  <2>. QED
    BY <2>1, <2>2
<1>6. ASSUME fromApi'[v] # NoPath
      PROVE  Registered(v, p)' /\ fromApi'[v] = p
  <2>1. fromApi[v] # NoPath /\ bound[v] = p /\ fromApi[v] = p /\ Registered(v, p) /\ told[v] = p
    BY <1>3, <1>4, <1>6 DEF FileFit, ClaimStands, ToldTruly
  <2>2. report' = report /\ fromApi'[v] = p
    BY <1>3, <2>1 DEF Binds, BoundTo
  <2>. QED
    BY <2>1, <2>2 DEF Registered
<1>. QED
  BY <1>2, <1>3, <1>5, <1>6 DEF FileFit, StillNew, ClaimStands, ToldTruly, Registered

LEMMA SavesFit ==
  ASSUME Shape, CallsFit, RequestsFit, Aged, Next, NEW v \in Windows, FileFit(v), v \notin overrun',
         Saved(v) \/ UserSaves(v)
  PROVE  FileFit(v)'
<1>1. CASE UserSaves(v)
  BY <1>1, BindsFits DEF UserSaves, shell
<1>2. CASE Saved(v)
  <2>1. PICK q \in doing[v] :
          /\ q.op = "write"
          /\ \/ Binds(v, q.path)
             \/ UNCHANGED <<bound, told, report, fromApi>>
          /\ Over(v, q) /\ UNCHANGED <<call, paths, inbox, win>>
    BY <1>2 DEF Saved
  <2>2. doing'[v] = doing[v] \ {q} /\ q.path \in Paths
    BY <2>1 DEF Over, Shape, RequestsFit
  <2>3. CASE Binds(v, q.path)
    BY <2>1, <2>2, <2>3, BindsFits
  <2>4. CASE UNCHANGED <<bound, told, report, fromApi>>
    <3>0. q \in doing[v] /\ q \notin doing'[v] /\ q.op = "write"
      BY <2>1, <2>2
    <3>a. ASSUME NEW r \in doing[v], r.op = "load", Over(v, r) PROVE FALSE
      <4>1. doing'[v] = doing[v] \ {r}
        BY <3>a DEF Over, Shape
      <4>2. q # r
        BY <3>0, <3>a
      <4>. QED
        BY <3>0, <4>1, <4>2
    <3>b. ~Loads(v) /\ ~LoadFails(v)
      BY <3>a DEF Loads, LoadFails
    <3>c. ~Made(v)
      BY <2>1 DEF Made
    <3>1. ~Loads(v) /\ ~LoadFails(v) /\ ~Made(v)
      BY <3>b, <3>c
    <3>2. Steady(v)
      BY <2>1, <2>4, <3>1 DEF Steady, Exists
    <3>3. ApiOpens(v)' \subseteq ApiOpens(v) /\ UserLoads(v)' \subseteq UserLoads(v)
      BY <2>1, <2>2 DEF ApiOpens, UserLoads
    <3>. QED
      BY <3>2, <3>3, SteadyFits
  <2>. QED
    BY <2>1, <2>3, <2>4
<1>. QED
  BY <1>1, <1>2

LEMMA FileFitStays ==
  ASSUME Shape, CallsFit, Empty, RequestsFit, Aged, Next, NEW v \in Windows, OneOpen(v), OneSource(v),
         FileFit(v), v \notin overrun'
  PROVE  FileFit(v)'
<1>1. CASE Kept(v) \/ Made(v)
  BY <1>1, KeptFits, MadeFits
<1>2. ASSUME NEW c \in Conns, Asked(c, v) PROVE FileFit(v)'
  BY <1>2, AskedFits
<1>3. ASSUME NEW c \in Conns, Claim(c), call[c].win = v PROVE FileFit(v)'
  BY <1>3, ClaimFits, IdleFits
<1>4. CASE UserQueues /\ opening.win = v
  BY <1>4, IdleFits
<1>5. CASE UserSaves(v) \/ Saved(v)
  BY <1>5, SavesFit
<1>6. CASE Goes(v) \/ set_document_path(v)
  BY <1>6, GoneFits, ArrivesFits
<1>7. CASE Closes(v) \/ Cleared(v) \/ afterReply(v) \/ saveToRef(v)
  BY <1>7, IdleFits
<1>8. CASE Boots(v) \/ take_pending_window_open(v) \/ openPathInPlace(v)
  BY <1>8, BootsFits, TakeFits, OpenInPlaceFits
<1>9. CASE Loads(v) \/ LoadFails(v)
  BY <1>9, LoadsFits, LoadFailsFits
<1>. QED
  BY <1>1, <1>2, <1>3, <1>4, <1>5, <1>6, <1>7, <1>8, <1>9, CommandTurn, PageTurn, PersonTurn DEF Next, Page

\* Saves that overran an open are not forgotten.
LEMMA OverrunStays ==
  ASSUME Shape, Next, NEW v \in Windows, v \in overrun
  PROVE  v \in overrun'
<1>1. ASSUME NEW c \in Conns, Call(c) \/ cmd_save(c) \/ Command(c) PROVE v \in overrun'
  BY <1>1, CommandTurn DEF Kept, Made, Asked, Claim, pages
<1>2. CASE Person
  BY <1>2, PersonTurn DEF Kept, Made, UserQueues, UserSaves, Binds, pages
<1>3. ASSUME NEW w \in Windows, Page(w) \/ Goes(w) \/ set_document_path(w) PROVE v \in overrun'
  BY <1>3 DEF Page, Boots, take_pending_window_open, openPathInPlace, Loads, LoadFails, Closes, Cleared,
              afterReply, saveToRef, Saved, Binds, Goes, set_document_path, pages
<1>. QED
  BY <1>1, <1>2, <1>3 DEF Next

-----------------------------------------------------------------------------
(* One window a file                                                       *)

\* With no command in the way the registry has every file that is held.
LEMMA HeldIsRegistered ==
  ASSUME Shape, CallsFit, Empty, RequestsFit, ops = Nobody, NEW v \in Windows, FileFit(v),
         NEW p \in Paths, HeldFor(v, p)
  PROVE  v \in Holders(p)
<1>1. \A c \in Conns : ~OpensIn(c, v)
  BY Constants DEF CallsFit, OpensIn
<1>2. (\E r \in ApiOpens(v) : r.path = p) \/ fromApi[v] = p
  BY <1>1 DEF HeldFor
<1>3. inbox[v] # {} \/ doing[v] # {} \/ fromApi[v] # NoPath
  BY <1>2, WindowsAssumption DEF ApiOpens
<1>4. paths[v] = p
  BY <1>2, WindowsAssumption DEF FileFit, ClaimStands, Registered
<1>. QED
  BY <1>3, <1>4, PageIsUp DEF Holders, Registry

LEMMA ApartStays ==
  ASSUME Shape, CallsFit, Empty, RequestsFit, Aged, Next, \A w \in Windows \ overrun : FileFit(w), Apart
  PROVE  Apart'
<1>. SUFFICES ASSUME NEW v \in Windows \ overrun', NEW w \in Windows \ overrun', NEW p \in Paths, v # w,
                     HeldFor(v, p)', HeldFor(w, p)'
     PROVE  FALSE
  BY DEF Apart
<1>1. v \notin overrun /\ w \notin overrun
  BY OverrunStays
<1>2. ASSUME NEW u \in Windows, Made(u), NEW x \in Windows \ overrun, x # u, HeldFor(x, p)',
             NEW c \in Conns, cmd_open(c), call[c].path = p, Holders(p) = {}, ops = Nobody,
             call[c].op = "open", call[c].at = "lock"
      PROVE  FALSE
  <2>1. CASE HeldFor(x, p)
    BY <1>2, <2>1, HeldIsRegistered
  <2>2. CASE ~HeldFor(x, p)
    <3>1. Made(x)
      BY <1>2, <2>2, HeldTurn
    <3>2. PICK y \in Windows : CreateWindow(y) /\ UNCHANGED <<paths, pending, bound, told, report, inbox, doing,
                                                             fromApi, overrun>>
      BY <1>2 DEF cmd_open
    <3>3. (u # y => Kept(u)) /\ (x # y => Kept(x))
      BY <3>2, MadeOrKept
    <3>. QED
      BY <1>2, <3>1, <3>3 DEF Kept, Made
  <2>. QED
    BY <2>1, <2>2
<1>3. CASE HeldFor(v, p) /\ HeldFor(w, p)
  BY <1>1, <1>3 DEF Apart
<1>4. CASE ~HeldFor(v, p)
  BY <1>1, <1>2, <1>4, HeldTurn
<1>5. CASE ~HeldFor(w, p)
  BY <1>1, <1>2, <1>5, HeldTurn
<1>. QED
  BY <1>3, <1>4, <1>5

-----------------------------------------------------------------------------
(* The theorems                                                            *)

LEMMA InitIInv == Init => IInv
<1>. SUFFICES ASSUME Init PROVE IInv
  OBVIOUS
<1>1. Shape
  BY ShapeStarts
<1>2. CallsFit /\ Aged /\ RequestsFit /\ RefusedLeavesNothing
  BY DEF Init, CallsFit, Aged, RequestsFit, RefusedLeavesNothing, Idle
<1>3. \A w \in Windows : Blank(w) /\ paths[w] = NoPath /\ pending[w] = NoPath
  BY DEF Init, Blank
<1>4. Empty
  BY <1>3 DEF Empty
<1>5. \A w \in Windows : (\A r \in ApiOpens(w) : FALSE) /\ (\A r \in UserLoads(w) : FALSE)
  BY <1>3 DEF Blank, ApiOpens, UserLoads
<1>6. \A w \in Windows : ~QueuedFor(w) /\ \A c \in Conns : ~OpensIn(c, w)
  BY DEF Init, QueuedFor, OpensIn, NoOpening, Idle
<1>7. \A w \in Windows : OneOpen(w) /\ OneSource(w) /\ FileFit(w)
  BY <1>3, <1>5, <1>6 DEF Blank, OneOpen, OneSource, ByUser, FileFit, StillNew, ClaimStands, ToldTruly
<1>8. Apart
  BY <1>3, <1>5, <1>6, WindowsAssumption DEF Apart, HeldFor, Blank
<1>. QED
  BY <1>1, <1>2, <1>4, <1>7, <1>8 DEF IInv

LEMMA NextIInv == IInv /\ [Next]_vars => IInv'
<1>. SUFFICES ASSUME IInv, [Next]_vars PROVE IInv'
  OBVIOUS
<1>1. Shape' /\ CallsFit' /\ Empty' /\ RequestsFit' /\ Aged' /\ RefusedLeavesNothing'
  BY ShapeStays, CallsFitStays, EmptyStays, RequestsFitStays, AgedStays, RefusedStay DEF IInv
<1>2. CASE UNCHANGED vars
  <2>1. \A w \in Windows : /\ ApiOpens(w)' = ApiOpens(w) /\ UserLoads(w)' = UserLoads(w)
                           /\ QueuedFor(w)' = QueuedFor(w) /\ \A c \in Conns : OpensIn(c, w)' = OpensIn(c, w)
    BY <1>2 DEF ApiOpens, UserLoads, QueuedFor, OpensIn, vars, shell, pages
  <2>2. ASSUME NEW w \in Windows
        PROVE  /\ OneOpen(w) => OneOpen(w)'
               /\ FileFit(w) => FileFit(w)'
               /\ \A p \in Paths : HeldFor(w, p)' => HeldFor(w, p)
    BY <1>2, <2>1 DEF OneOpen, FileFit, StillNew, ClaimStands, ToldTruly, HeldFor, Registered, Latest, Exists,
                      vars, shell, pages
  <2>3. ASSUME NEW w \in Windows, OneSource(w) PROVE OneSource(w)'
    BY <1>2, <2>1, <2>2, <2>3 DEF OneSource, ByApi, ByUser, vars, shell, pages
  <2>4. Apart'
    BY <1>2, <2>2 DEF IInv, Apart, vars, pages
  <2>5. overrun' = overrun
    BY <1>2 DEF vars, pages
  <2>. QED
    BY <1>1, <2>2, <2>3, <2>4, <2>5 DEF IInv
<1>3. CASE Next
  <2>1. \A w \in Windows : OneOpen(w)' /\ OneSource(w)'
    BY <1>3, OneOpenStays, OneSourceStays DEF IInv
  <2>2. ASSUME NEW w \in Windows \ overrun' PROVE FileFit(w)'
    BY <1>3, <2>2, OverrunStays, FileFitStays DEF IInv
  <2>3. Apart'
    BY <1>3, ApartStays DEF IInv
  <2>. QED
    BY <1>1, <2>1, <2>2, <2>3 DEF IInv
<1>. QED
  BY <1>2, <1>3

LEMMA Invariance == Spec => []IInv
<1>. QED
  BY InitIInv, NextIInv, PTL DEF Spec

\* Every variable has its type; a window that has not been made or has gone has
\* no claim, request or report, and a command between its lock and its end has
\* window_ops (live_router.rs).
THEOREM TypeCorrect == Spec => []TypeOK
<1>1. IInv => TypeOK
  <2>. SUFFICES ASSUME IInv PROVE TypeOK
    OBVIOUS
  <2>1. \A w \in Windows : win[w] \in {"none", "gone"} =>
          paths[w] = NoPath /\ pending[w] = NoPath /\ inbox[w] = {} /\ doing[w] = {} /\ report[w] = <<>>
    BY DEF IInv, Empty, Exists, Blank
  <2>2. \A c \in Conns : call[c].at \in {"claim", "going"} => ops = c
    <3>1. \A c \in Conns : call[c].op \in {"none", "new", "open", "close", "save"}
      BY DEF IInv, Shape, Calls
    <3>. QED
      BY <3>1 DEF IInv, CallsFit
  <2>. QED
    BY <2>1, <2>2 DEF IInv, Shape, TypeOK, Calls, Files
<1>. QED
  BY <1>1, Invariance, PTL

\* A hew.doc.new or open that is refused part of the way, or given up on, has
\* its window destroyed (live_router.rs, cmd_new and cmd_open).
THEOREM RefusalsLeaveNothing == Spec => []RefusedLeavesNothing
<1>1. IInv => RefusedLeavesNothing
  BY DEF IInv
<1>. QED
  BY <1>1, Invariance, PTL

\* No two windows have one file from hew.doc.open, and the registry has the file
\* of every window whose reports are in, but for windows in which a save ended
\* while an open was under way (live_router.rs, cmd_open, and openPathInPlace).
THEOREM OneWindowPerFile == Spec => []FilesHaveOneWindow
<1>1. IInv => OpenedOnce
  <2>. SUFFICES ASSUME IInv, NEW v \in Windows \ overrun, NEW w \in Windows \ overrun, v # w,
                       fromApi[v] # NoPath, fromApi[v] = fromApi[w]
       PROVE  FALSE
    BY DEF OpenedOnce
  <2>1. fromApi[v] \in Paths
    BY DEF IInv, Shape, Files
  <2>. QED
    BY <2>1 DEF IInv, Apart, HeldFor
<1>2. IInv => RegistryKnowsWriters
  BY DEF IInv, FileFit, ToldTruly, Latest, RegistryKnowsWriters
<1>. QED
  BY <1>1, <1>2, Invariance, PTL DEF FilesHaveOneWindow
==============================================================================
