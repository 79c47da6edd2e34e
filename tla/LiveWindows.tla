---------------------------- MODULE LiveWindows ----------------------------
(***************************************************************************)
(* Document windows and the files they hold, on the desktop: the commands  *)
(* of the live API that make and close windows (hew.doc.new, open, close,  *)
(* one at a time under window_ops), hew.doc.save to a named path (under no *)
(* lock), the user's own opens, saves and closes, and each window's page,  *)
(* which loads, saves and closes in its own time and reports its path to   *)
(* the shell's registry (DocumentPaths) afterwards.                        *)
(*                                                                         *)
(* A page may hang at any step: nothing it does is fair.  A window the     *)
(* shell or its page destroys lasts until the event loop gets to it.       *)
(***************************************************************************)
EXTENDS Naturals, Sequences, FiniteSets

CONSTANTS
  Conns,      \* API connections
  Paths,      \* document files
  NoPath, Nobody, User,
  MaxWindow,  \* bound: windows ever made
  MaxCalls,   \* bound: calls of one connection
  MaxActs,    \* bound: edits, saves, closes and opens by the user
  MaxReports  \* bound: path reports of one page on their way to the shell

ASSUME WindowsAssumption ==
  /\ NoPath \notin Paths /\ Nobody \notin Conns /\ User \notin Conns
  /\ MaxWindow \in Nat \ {0} /\ MaxCalls \in Nat /\ MaxActs \in Nat /\ MaxReports \in Nat \ {0}

Windows == 1 .. MaxWindow

VARIABLES
  ops,      \* who holds window_ops
  call,     \* each connection's command
  left,     \* calls a connection, and acts the user, may still make
  answer,   \* what the page answered to the running command's operation
  win,      \* each window: none, live, dying, gone
  booting,  \* its page has no listener yet
  paths,    \* DocumentPaths
  pending,  \* PendingWindowOpen
  bound,    \* the file the page's document is bound to (currentRef)
  dirty,    \* the page's document has unsaved changes
  inbox,    \* operations sent to the page
  doing,    \* operations the page is in the middle of
  told,     \* lastReportedPathRef: the path the page reported last
  report,   \* set_document_path calls on their way
  opening,  \* the user's open_in_new_window under way
  fromApi,  \* history: the file the API loaded into the window
  overrun,  \* history: windows in which a save ended while an open was dealing with them
  doomed    \* history: windows made for a call that was refused

shell == <<ops, call, answer, paths, pending, opening, doomed>>
pages == <<booting, bound, dirty, inbox, doing, told, report, fromApi, overrun>>
vars == <<shell, left, win, pages>>

Requests == [by : Conns \cup {User}, n : 0 .. MaxCalls, path : Paths \cup {NoPath}, discard : BOOLEAN,
             op : {"open", "take", "load", "close", "clear", "destroy", "save", "write"}]
Idle == [op |-> "none", at |-> "idle", path |-> NoPath, win |-> 1, discard |-> FALSE]
NoOpening == [at |-> "no", path |-> NoPath, win |-> 1]

TypeOK ==
  /\ ops \in Conns \cup {Nobody}
  /\ call \in [Conns -> [op : {"none", "new", "open", "close", "save"}, win : Windows,
                         at : {"idle", "lock", "claim", "session", "ask", "going"},
                         path : Paths \cup {NoPath}, discard : BOOLEAN]]
  /\ left \in [Conns \cup {User} -> 0 .. MaxCalls + MaxActs]
  /\ answer \in [Conns -> {"none", "ok", "refused"}]
  /\ win \in [Windows -> {"none", "live", "dying", "gone"}]
  /\ booting \in [Windows -> BOOLEAN]
  /\ paths \in [Windows -> Paths \cup {NoPath}] /\ pending \in [Windows -> Paths \cup {NoPath}]
  /\ bound \in [Windows -> Paths \cup {NoPath}] /\ dirty \in [Windows -> BOOLEAN]
  /\ inbox \in [Windows -> SUBSET Requests] /\ doing \in [Windows -> SUBSET Requests]
  /\ told \in [Windows -> Paths \cup {NoPath}]
  /\ report \in [Windows -> Seq(Paths \cup {NoPath})]
  /\ opening \in [at : {"no", "create", "queue"}, path : Paths \cup {NoPath}, win : Windows]
  /\ fromApi \in [Windows -> Paths \cup {NoPath}]
  /\ doomed \subseteq Windows /\ overrun \subseteq Windows
  /\ \A w \in Windows : win[w] \in {"none", "gone"} =>
       paths[w] = NoPath /\ pending[w] = NoPath /\ inbox[w] = {} /\ doing[w] = {} /\ report[w] = <<>>
  /\ \A c \in Conns : call[c].at \in {"claim", "going"} => ops = c

Init ==
  /\ ops = Nobody /\ call = [c \in Conns |-> Idle]
  /\ left = [x \in Conns \cup {User} |-> IF x = User THEN MaxActs ELSE MaxCalls]
  /\ answer = [c \in Conns |-> "none"]
  /\ win = [w \in Windows |-> IF w = 1 THEN "live" ELSE "none"]
  /\ booting = [w \in Windows |-> FALSE]
  /\ paths = [w \in Windows |-> NoPath] /\ pending = [w \in Windows |-> NoPath]
  /\ bound = [w \in Windows |-> NoPath] /\ dirty = [w \in Windows |-> FALSE]
  /\ inbox = [w \in Windows |-> {}] /\ doing = [w \in Windows |-> {}]
  /\ told = [w \in Windows |-> NoPath] /\ report = [w \in Windows |-> <<>>]
  /\ opening = NoOpening
  /\ fromApi = [w \in Windows |-> NoPath] /\ doomed = {} /\ overrun = {}

(* get_webview_window: a window being destroyed is still there.            *)
Exists(w) == win[w] \in {"live", "dying"}
Count == Cardinality({w \in Windows : Exists(w)})

(* window_label_for_path: any of the windows the registry has the file     *)
(* for, whichever its hash map gives first; else any it is queued for.     *)
Registry(p) == {w \in Windows : Exists(w) /\ paths[w] = p}
Holders(p) ==
  IF Registry(p) # {} THEN Registry(p) ELSE {w \in Windows : Exists(w) /\ pending[w] = p}

---------------------------------------------------------------------------
(* The shell's side of the commands.                                       *)

\* create_document_window, beside some window that is there: the next label.
CreateWindow(w) ==
  /\ Count > 0
  /\ win[w] = "none" /\ \A v \in Windows : v < w => win[v] # "none"
  /\ win' = [win EXCEPT ![w] = "live"]
  /\ booting' = [booting EXCEPT ![w] = TRUE]

\* destroy_window: the event loop does it later.
Destroyed(w) == IF win[w] = "live" THEN [win EXCEPT ![w] = "dying"] ELSE win

Unlocked(c) == IF ops = c THEN Nobody ELSE ops
To(c, at) == call' = [call EXCEPT ![c].at = at]
Ends(c) ==
  /\ call' = [call EXCEPT ![c] = Idle] /\ ops' = Unlocked(c)
  /\ answer' = [answer EXCEPT ![c] = "none"]

Request(c) == [by |-> c, n |-> left[c], op |-> call[c].op, path |-> call[c].path,
               discard |-> call[c].discard]

\* run_op_within: emitted to the page, which may be gone or not listening.
Asks(c) ==
  LET w == call[c].win IN
  /\ inbox' = IF booting[w] THEN inbox ELSE [inbox EXCEPT ![w] = @ \cup {Request(c)}]
  /\ To(c, "ask")

(* A client calls.  hew.doc.new, open and close wait for window_ops; a     *)
(* save refuses a path whose first holder found is another window, and     *)
(* goes to its own window otherwise, which another may share the path with. *)
Call(c) ==
  /\ call[c] = Idle /\ left[c] > 0
  /\ left' = [left EXCEPT ![c] = @ - 1]
  /\ \E op \in {"new", "open", "close"}, p \in Paths, w \in Windows, discard \in BOOLEAN :
       /\ op # "open" => p = CHOOSE q \in Paths : TRUE
       /\ op # "close" => w = 1 /\ ~discard
       /\ op = "close" => Exists(w)
       /\ call' = [call EXCEPT ![c] = [op |-> op, at |-> "lock", win |-> w, discard |-> discard,
                                       path |-> IF op = "open" THEN p ELSE NoPath]]
  /\ UNCHANGED <<ops, answer, paths, pending, opening, doomed, win, pages>>

cmd_save(c) ==
  /\ call[c] = Idle /\ left[c] > 0
  /\ left' = [left EXCEPT ![c] = @ - 1]
  /\ \E p \in Paths, w \in {v \in Windows : Exists(v)} :
       /\ Holders(p) = {} \/ w \in Holders(p)
       /\ call' = [call EXCEPT ![c] = [op |-> "save", at |-> "ask", win |-> w,
                                       discard |-> FALSE, path |-> p]]
       /\ inbox' = IF booting[w] THEN inbox
                   ELSE [inbox EXCEPT ![w] = @ \cup {[by |-> c, n |-> left[c] - 1, op |-> "save",
                                                      path |-> p, discard |-> FALSE]}]
  /\ UNCHANGED <<ops, answer, paths, pending, opening, doomed, win,
                 booting, bound, dirty, doing, told, report, fromApi, overrun>>

(* The lock is taken and the first part of the command runs: what it finds *)
(* decides between the rest of it and an answer at once.                   *)
cmd_new(c) ==
  /\ call[c].op = "new" /\ call[c].at = "lock" /\ ops = Nobody
  /\ \E w \in Windows :
       /\ CreateWindow(w)
       /\ call' = [call EXCEPT ![c].at = "session", ![c].win = w]
  /\ ops' = c
  /\ UNCHANGED <<left, answer, paths, pending, opening, doomed, bound, dirty, inbox, doing, told, report, fromApi, overrun>>

\* (mutant: without window_ops)
cmd_openUnlocked(c) ==
  /\ call[c].op = "open" /\ call[c].at = "lock"
  /\ IF Holders(call[c].path) # {}
     THEN Ends(c) /\ UNCHANGED <<win, booting>>
     ELSE /\ \E w \in Windows :
               /\ CreateWindow(w)
               /\ call' = [call EXCEPT ![c].at = "claim", ![c].win = w]
          /\ UNCHANGED <<ops, answer>>
  /\ UNCHANGED <<left, paths, pending, opening, doomed, bound, dirty, inbox, doing, told, report, fromApi, overrun>>

\* A window has the file: attach to it.  None: make one.
cmd_open(c) ==
  /\ call[c].op = "open" /\ call[c].at = "lock" /\ ops = Nobody
  /\ IF Holders(call[c].path) # {}
     THEN Ends(c) /\ UNCHANGED <<win, booting>>
     ELSE /\ \E w \in Windows :
               /\ CreateWindow(w)
               /\ call' = [call EXCEPT ![c].at = "claim", ![c].win = w]
          /\ ops' = c /\ UNCHANGED answer
  /\ UNCHANGED <<left, paths, pending, opening, doomed, bound, dirty, inbox, doing, told, report, fromApi, overrun>>

\* No window to make one beside (or, here, none left to make): refused.
cmd_refused(c) ==
  /\ call[c].op \in {"new", "open"} /\ call[c].at = "lock" /\ ops = Nobody
  /\ Count = 0 \/ \A w \in Windows : win[w] # "none"
  /\ Ends(c)
  /\ UNCHANGED <<left, paths, pending, opening, doomed, win, pages>>

cmd_close(c) ==
  /\ call[c].op = "close" /\ call[c].at = "lock" /\ ops = Nobody
  /\ IF Count > 1 /\ Exists(call[c].win)
     THEN Asks(c) /\ ops' = c /\ UNCHANGED answer
     ELSE Ends(c) /\ UNCHANGED inbox
  /\ UNCHANGED <<left, paths, pending, opening, doomed, win, booting, bound, dirty, doing, told, report, fromApi, overrun>>

\* claim_document_path, before the load.
Claim(c) ==
  /\ call[c].at = "claim"
  /\ paths' = IF Exists(call[c].win) THEN [paths EXCEPT ![call[c].win] = call[c].path] ELSE paths
  /\ To(c, "session")
  /\ UNCHANGED <<ops, left, answer, pending, opening, doomed, win, pages>>

\* A refused open or new takes its window away again.
Refuses(c) ==
  /\ Ends(c)
  /\ win' = Destroyed(call[c].win) /\ doomed' = doomed \cup {call[c].win}

\* ensure_session: the page answers the probe.
SessionOpens(c) ==
  LET w == call[c].win IN
  /\ call[c].at = "session" /\ Exists(w) /\ ~booting[w]
  /\ IF call[c].op = "open"
     THEN Asks(c) /\ UNCHANGED <<ops, answer>>
     ELSE Ends(c) /\ UNCHANGED inbox
  /\ UNCHANGED <<left, paths, pending, opening, doomed, win, booting, bound, dirty, doing, told, report, fromApi, overrun>>

\* The window is gone, or 45 seconds are over.
SessionFails(c) ==
  /\ call[c].at = "session" /\ Refuses(c)
  /\ UNCHANGED <<left, paths, pending, opening, pages>>

\* What the page's answer, or its silence until the timeout, leads to.
Answered(c) ==
  /\ call[c].at = "ask" /\ answer[c] # "none"
  /\ CASE answer[c] = "refused" /\ call[c].op = "open" -> Refuses(c)
       [] answer[c] = "ok" /\ call[c].op = "close" ->
            To(c, "going") /\ UNCHANGED <<ops, answer, win, doomed>>
       [] OTHER -> Ends(c) /\ UNCHANGED <<win, doomed>>
  /\ UNCHANGED <<left, paths, pending, opening, pages>>

\* (mutant: an open that times out leaves its window)
TimesOutKeeps(c) ==
  /\ call[c].at = "ask" /\ answer[c] = "none"
  /\ IF call[c].op = "open" THEN Ends(c) /\ doomed' = doomed \cup {call[c].win} /\ UNCHANGED win
     ELSE Ends(c) /\ UNCHANGED <<win, doomed>>
  /\ UNCHANGED <<left, paths, pending, opening, pages>>

TimesOut(c) ==
  /\ call[c].at = "ask" /\ answer[c] = "none"
  /\ CASE call[c].op = "open" -> Refuses(c)
       [] call[c].op = "close" /\ call[c].discard ->
            /\ To(c, "going") /\ win' = Destroyed(call[c].win)
            /\ UNCHANGED <<ops, answer, doomed>>
       [] OTHER -> Ends(c) /\ UNCHANGED <<win, doomed>>
  /\ UNCHANGED <<left, paths, pending, opening, pages>>

\* The closed window is gone, or is waited for no longer.
Closed(c) ==
  /\ call[c].at = "going" /\ Ends(c)
  /\ UNCHANGED <<left, paths, pending, opening, doomed, win, pages>>

\* (mutant: the handler forgets the window's claim)
GoesClaimed(w) ==
  /\ win[w] = "dying"
  /\ win' = [win EXCEPT ![w] = "gone"]
  /\ booting' = [booting EXCEPT ![w] = FALSE] /\ pending' = [pending EXCEPT ![w] = NoPath]
  /\ bound' = [bound EXCEPT ![w] = NoPath] /\ dirty' = [dirty EXCEPT ![w] = FALSE]
  /\ fromApi' = [fromApi EXCEPT ![w] = NoPath]
  /\ inbox' = [inbox EXCEPT ![w] = {}] /\ doing' = [doing EXCEPT ![w] = {}]
  /\ told' = [told EXCEPT ![w] = NoPath] /\ report' = [report EXCEPT ![w] = <<>>]
  /\ UNCHANGED <<ops, call, left, answer, paths, opening, doomed, overrun>>

\* The event loop destroys the window: WindowEvent::Destroyed.
Goes(w) ==
  /\ win[w] = "dying"
  /\ win' = [win EXCEPT ![w] = "gone"]
  /\ booting' = [booting EXCEPT ![w] = FALSE]
  /\ paths' = [paths EXCEPT ![w] = NoPath] /\ pending' = [pending EXCEPT ![w] = NoPath]
  /\ bound' = [bound EXCEPT ![w] = NoPath] /\ dirty' = [dirty EXCEPT ![w] = FALSE]
  /\ fromApi' = [fromApi EXCEPT ![w] = NoPath]
  /\ inbox' = [inbox EXCEPT ![w] = {}] /\ doing' = [doing EXCEPT ![w] = {}]
  /\ told' = [told EXCEPT ![w] = NoPath] /\ report' = [report EXCEPT ![w] = <<>>]
  /\ UNCHANGED <<ops, call, left, answer, opening, doomed, overrun>>

\* A page's report arrives: set_document_path.
set_document_path(w) ==
  /\ report[w] # <<>>
  /\ paths' = [paths EXCEPT ![w] = Head(report[w])]
  /\ report' = [report EXCEPT ![w] = Tail(@)]
  /\ UNCHANGED <<ops, call, left, answer, pending, opening, doomed, win,
                 booting, bound, dirty, inbox, doing, told, fromApi, overrun>>

---------------------------------------------------------------------------
(* The page's side: operations run as they arrive, side by side.           *)

Answers(r, what) ==
  answer' = IF r.by \in Conns /\ call[r.by].at = "ask" /\ left[r.by] = r.n
            THEN [answer EXCEPT ![r.by] = what] ELSE answer

Becomes(w, r, op) == doing' = [doing EXCEPT ![w] = (@ \ {r}) \cup {[r EXCEPT !.op = op]}]
Over(w, r) == doing' = [doing EXCEPT ![w] = @ \ {r}]

Reports(w, p) ==
  /\ Len(report[w]) < MaxReports
  /\ report' = [report EXCEPT ![w] = Append(@, p)]
  /\ told' = [told EXCEPT ![w] = p]

\* The effect on currentRef: only a path that is news is reported.
BoundTo(w, p) ==
  /\ bound' = [bound EXCEPT ![w] = p]
  /\ IF told[w] = p THEN UNCHANGED <<told, report>> ELSE Reports(w, p)

(* An open is dealing with the window.                                     *)
Opening(w) ==
  \/ pending[w] # NoPath
  \/ \E r \in doing[w] \cup inbox[w] : r.op \in {"open", "take", "load"}
  \/ \E c \in Conns : call[c].op = "open" /\ call[c].win = w /\ call[c].at # "lock"

\* The page is up: take_pending_window_open unqueues its file.
Boots(w) ==
  /\ Exists(w) /\ booting[w]
  /\ booting' = [booting EXCEPT ![w] = FALSE]
  /\ pending' = [pending EXCEPT ![w] = NoPath]
  /\ doing' = IF pending[w] = NoPath THEN doing
              ELSE [doing EXCEPT ![w] = @ \cup {[by |-> User, n |-> 0, path |-> pending[w],
                                                 discard |-> FALSE, op |-> "take"]}]
  /\ UNCHANGED <<ops, call, left, answer, paths, opening, doomed, win, bound, dirty, inbox, told, report, fromApi, overrun>>

\* ... and claims it, under another lock; the page opens it in place unless
\* its own document is no longer blank or the window found to hold the file is
\* another: with two in the registry, its own and another, either is found.
take_pending_window_open(w) ==
  \E r \in doing[w] :
    /\ r.op = "take"
    /\ paths' = [paths EXCEPT ![w] = r.path]
    /\ \/ /\ bound[w] = NoPath /\ ~dirty[w]
          /\ Becomes(w, r, "load") /\ Reports(w, r.path)
       \/ /\ bound[w] # NoPath \/ dirty[w] \/ ~(Registry(r.path) \subseteq {w})
          /\ Over(w, r) /\ UNCHANGED <<told, report>>
    /\ UNCHANGED <<ops, call, left, answer, pending, opening, doomed, win,
                   booting, bound, dirty, inbox, fromApi, overrun>>

\* openPathInPlace claims the path, reads the file and applies it,
openPathInPlace(w) ==
  \E r \in inbox[w] :
    /\ r.op = "open"
    /\ inbox' = [inbox EXCEPT ![w] = @ \ {r}]
    /\ doing' = [doing EXCEPT ![w] = @ \cup {[r EXCEPT !.op = "load"]}]
    /\ Reports(w, r.path)
    /\ UNCHANGED <<shell, left, win, booting, bound, dirty, fromApi, overrun>>

Loads(w) ==
  \E r \in doing[w] :
    /\ r.op = "load"
    /\ BoundTo(w, r.path) /\ dirty' = [dirty EXCEPT ![w] = FALSE]
    /\ fromApi' = [fromApi EXCEPT ![w] = IF r.by = User THEN NoPath ELSE r.path]
    /\ Over(w, r) /\ Answers(r, "ok")
    /\ UNCHANGED <<ops, call, left, paths, pending, opening, doomed, win, booting, inbox, overrun>>

\* or releases the claim when the file cannot be read.
LoadFails(w) ==
  \E r \in doing[w] :
    /\ r.op = "load"
    /\ Reports(w, NoPath) /\ Over(w, r) /\ Answers(r, "refused")
    /\ UNCHANGED <<ops, call, left, paths, pending, opening, doomed, win, booting, bound, dirty, inbox, fromApi, overrun>>

\* hew.doc.close asks for unsaved work, drops the recovery snapshot,
Closes(w) ==
  \E r \in inbox[w] :
    /\ r.op = "close"
    /\ inbox' = [inbox EXCEPT ![w] = @ \ {r}]
    /\ IF dirty[w] /\ ~r.discard
       THEN Answers(r, "refused") /\ UNCHANGED doing
       ELSE doing' = [doing EXCEPT ![w] = @ \cup {[r EXCEPT !.op = "clear"]}] /\ UNCHANGED answer
    /\ UNCHANGED <<ops, call, left, paths, pending, opening, doomed, win, booting, bound, dirty, told, report, fromApi, overrun>>

\* asks again, answers,
Cleared(w) ==
  \E r \in doing[w] :
    /\ r.op = "clear"
    /\ IF dirty[w] /\ ~r.discard
       THEN Answers(r, "refused") /\ Over(w, r)
       ELSE Answers(r, "ok") /\ Becomes(w, r, "destroy")
    /\ UNCHANGED <<ops, call, left, paths, pending, opening, doomed, win, booting, bound, dirty, inbox, told, report, fromApi, overrun>>

\* and destroys its own window once the answer is with the shell.
afterReply(w) ==
  \E r \in doing[w] :
    /\ r.op = "destroy"
    /\ win' = Destroyed(w) /\ Over(w, r)
    /\ UNCHANGED <<shell, left, booting, bound, dirty, inbox, told, report, fromApi, overrun>>

\* A save writes its bytes, then binds the document to the file and, the
\* file being another one, tells the shell.  An edit meanwhile stays dirty.
saveToRef(w) ==
  \E r \in inbox[w] :
    /\ r.op = "save"
    /\ inbox' = [inbox EXCEPT ![w] = @ \ {r}]
    /\ doing' = [doing EXCEPT ![w] = @ \cup {[r EXCEPT !.op = "write"]}]
    /\ UNCHANGED <<shell, left, win, booting, bound, dirty, told, report, fromApi, overrun>>

Binds(w, p) ==
  /\ BoundTo(w, p)
  /\ fromApi' = [fromApi EXCEPT ![w] = IF bound[w] = p THEN @ ELSE NoPath]
  /\ overrun' = IF Opening(w) THEN overrun \cup {w} ELSE overrun
  /\ \E d \in BOOLEAN : (d => dirty[w]) /\ dirty' = [dirty EXCEPT ![w] = d]

Saved(w) ==
  \E r \in doing[w] :
    /\ r.op = "write"
    /\ \/ Binds(w, r.path) /\ Answers(r, "ok")
       \/ Answers(r, "refused") /\ UNCHANGED <<bound, dirty, told, report, fromApi, overrun>>
    /\ Over(w, r)
    /\ UNCHANGED <<ops, call, left, paths, pending, opening, doomed, win, booting, inbox>>

---------------------------------------------------------------------------
(* The user.                                                               *)

Acts == left[User] > 0 /\ left' = [left EXCEPT ![User] = @ - 1]

UserEdits(w) ==
  /\ Acts
  /\ Exists(w) /\ ~booting[w] /\ ~dirty[w]
  /\ dirty' = [dirty EXCEPT ![w] = TRUE]
  /\ UNCHANGED <<shell, win, booting, bound, inbox, doing, told, report, fromApi, overrun>>

\* Save or Save As, which asks nobody about the file.
UserSaves(w) ==
  /\ Acts
  /\ Exists(w) /\ ~booting[w]
  /\ \E p \in Paths : Binds(w, p)
  /\ UNCHANGED <<shell, win, booting, inbox, doing>>

\* The close button, the prompt answered.
UserCloses(w) ==
  /\ Acts
  /\ win[w] = "live" /\ win' = Destroyed(w)
  /\ UNCHANGED <<shell, pages>>

\* open_in_new_window: no window has the file, so one is made,
UserOpens ==
  /\ Acts
  /\ opening.at = "no" /\ Count > 0
  /\ \E p \in Paths :
       /\ Holders(p) = {}
       /\ opening' = [at |-> "create", path |-> p, win |-> 1]
  /\ UNCHANGED <<ops, call, answer, paths, pending, doomed, win, pages>>

UserWindow ==
  /\ opening.at = "create"
  /\ \E w \in Windows :
       /\ CreateWindow(w)
       /\ opening' = [opening EXCEPT !.at = "queue", !.win = w]
  /\ UNCHANGED <<ops, call, left, answer, paths, pending, doomed, bound, dirty, inbox, doing, told, report, fromApi, overrun>>

\* and the file is queued for it.
UserQueues ==
  /\ opening.at = "queue"
  /\ pending' = IF Exists(opening.win) THEN [pending EXCEPT ![opening.win] = opening.path] ELSE pending
  /\ opening' = NoOpening
  /\ UNCHANGED <<ops, call, left, answer, paths, doomed, win, pages>>

Command(c) ==
  \/ cmd_new(c) \/ cmd_open(c) \/ cmd_refused(c) \/ cmd_close(c)
  \/ Claim(c) \/ SessionOpens(c) \/ SessionFails(c)
  \/ Answered(c) \/ TimesOut(c) \/ Closed(c)

Page(w) ==
  \/ Boots(w) \/ take_pending_window_open(w) \/ openPathInPlace(w) \/ Loads(w) \/ LoadFails(w)
  \/ Closes(w) \/ Cleared(w) \/ afterReply(w) \/ saveToRef(w) \/ Saved(w)

Person ==
  \/ UserOpens \/ UserWindow \/ UserQueues
  \/ \E w \in Windows : UserEdits(w) \/ UserSaves(w) \/ UserCloses(w)

Next ==
  \/ \E c \in Conns : Call(c) \/ cmd_save(c) \/ Command(c)
  \/ \E w \in Windows : Page(w) \/ Goes(w) \/ set_document_path(w)
  \/ Person

Spec == Init /\ [][Next]_vars

---------------------------------------------------------------------------
(* Two windows never both hold a file that hew.doc.open loaded into them,  *)
(* whatever the pages, the timeouts and the user do: the second open of a  *)
(* file attaches to the window of the first, even while that one loads.    *)
(* (A window that was saved to a file while an open was loading another    *)
(* into it is outside this: the save's report takes the claim away.)       *)
OpenedOnce ==
  \A v, w \in Windows \ overrun : v # w /\ fromApi[v] # NoPath => fromApi[v] # fromApi[w]

(* The shell's registry has the file of every window whose reports have    *)
(* arrived and that no open is dealing with: a check for a second writer   *)
(* that comes after the reports finds the first.                           *)
RegistryKnowsWriters ==
  \A w \in Windows \ overrun :
    win[w] = "live" /\ bound[w] # NoPath /\ report[w] = <<>> /\ ~Opening(w) => paths[w] = bound[w]

(* So one file has one window, as far as hew.doc.open can see.             *)
FilesHaveOneWindow == OpenedOnce /\ RegistryKnowsWriters

(* A new or open that is refused part of the way leaves no window behind.  *)
RefusedLeavesNothing == \A w \in doomed : win[w] \in {"dying", "gone"}
=============================================================================
