---------------------------- MODULE LiveConnProofs ----------------------------
(***************************************************************************)
(* For any number of connections, windows, probes and frames: as long as   *)
(* no ensure_session gave up on a window that lives, a client never reads  *)
(* another request's reply and the shell's idea of its sessions is true;   *)
(* and no window is left with a session that nobody will end.              *)
(***************************************************************************)
EXTENDS LiveConn, SequenceTheorems, TLAPS

-----------------------------------------------------------------------------
(* The frames of a connection in a queue of events                         *)

IsFrame(e, c) == e.conn = c /\ e.kind \in Frames

Ids(s, c) == {n \in 0 .. MaxFrames : \E i \in 1 .. Len(s) : IsFrame(s[i], c) /\ s[i].id = n}

\* The frames of c are in the order of their ids, and no id is there twice.
Sorted(s, c) ==
  \A i, j \in 1 .. Len(s) :
    i < j /\ IsFrame(s[i], c) /\ IsFrame(s[j], c) => s[i].id < s[j].id

Below(A, B) == \A a \in A, b \in B : a < b

LEMMA EmptyQueue == ASSUME NEW c PROVE Ids(<<>>, c) = {} /\ Sorted(<<>>, c)
BY DEF Ids, Sorted

\* Behind a queue goes another.
LEMMA Queued ==
  ASSUME NEW c, NEW s \in Seq(Events), NEW t \in Seq(Events)
  PROVE  /\ s \o t \in Seq(Events)
         /\ Ids(s \o t, c) = Ids(s, c) \cup Ids(t, c)
         /\ Sorted(s, c) /\ Sorted(t, c) /\ Below(Ids(s, c), Ids(t, c))
              => Sorted(s \o t, c)
<1>1. /\ s \o t \in Seq(Events) /\ Len(s \o t) = Len(s) + Len(t)
      /\ Len(s) \in Nat /\ Len(t) \in Nat
      /\ \A i \in 1 .. Len(s) : (s \o t)[i] = s[i]
      /\ \A i \in 1 .. Len(t) : (s \o t)[Len(s) + i] = t[i]
  OBVIOUS
<1>2. \A i \in 1 .. Len(s \o t) :
        i \in 1 .. Len(s) \/ (i - Len(s) \in 1 .. Len(t) /\ Len(s) + (i - Len(s)) = i)
  BY <1>1
<1>3. \A i \in 1 .. Len(s) : i \in 1 .. Len(s \o t)
  BY <1>1
<1>4. \A i \in 1 .. Len(t) : Len(s) + i \in 1 .. Len(s \o t)
  BY <1>1
<1>. DEFINE u == s \o t
            m == Len(s)
            n == Len(t)
<1>5. /\ m \in Nat /\ n \in Nat /\ Len(u) = m + n
      /\ \A i \in 1 .. m : u[i] = s[i] /\ i \in 1 .. Len(u)
      /\ \A i \in 1 .. n : u[m + i] = t[i] /\ m + i \in 1 .. Len(u)
      /\ \A i \in 1 .. Len(u) :
           (i \in 1 .. m /\ u[i] = s[i]) \/ (i - m \in 1 .. n /\ u[i] = t[i - m])
  BY <1>1, <1>2, <1>3, <1>4
<1>. HIDE DEF u, m, n
<1>6. Ids(u, c) \subseteq Ids(s, c) \cup Ids(t, c)
  BY <1>5 DEF Ids, m, n
<1>7. Ids(s, c) \cup Ids(t, c) \subseteq Ids(u, c)
  BY <1>5 DEF Ids, m, n
<1>8. ASSUME Sorted(s, c), Sorted(t, c), Below(Ids(s, c), Ids(t, c))
      PROVE  Sorted(u, c)
  <2>. SUFFICES ASSUME NEW i \in 1 .. Len(u), NEW j \in 1 .. Len(u), i < j,
                       IsFrame(u[i], c), IsFrame(u[j], c)
                PROVE  u[i].id < u[j].id
    BY DEF Sorted
  <2>1. CASE i \in 1 .. m /\ j \in 1 .. m
    BY <1>5, <1>8, <2>1 DEF Sorted, m
  <2>2. CASE i \in 1 .. m /\ j \notin 1 .. m
    <3>1. u[j] = t[j - m] /\ j - m \in 1 .. n /\ u[i] = s[i]
      BY <1>5, <2>2
    <3>2. s[i] \in Events /\ t[j - m] \in Events
      BY <2>2, <3>1 DEF m, n
    <3>3. s[i].id \in Ids(s, c) /\ t[j - m].id \in Ids(t, c)
      BY <2>2, <3>1, <3>2 DEF Ids, Events, m, n
    <3>. QED
      BY <1>8, <3>1, <3>3 DEF Below
  <2>3. CASE i \notin 1 .. m
    <3>1. i - m \in 1 .. n /\ u[i] = t[i - m] /\ j \notin 1 .. m
      BY <1>5, <2>3
    <3>2. j - m \in 1 .. n /\ u[j] = t[j - m] /\ i - m < j - m
      BY <1>5, <3>1
    <3>. QED
      BY <1>8, <3>1, <3>2 DEF Sorted, n
  <2>. QED
    BY <2>1, <2>2, <2>3
<1>. QED
  BY <1>1, <1>6, <1>7, <1>8 DEF u

\* The first event is taken.
LEMMA Taken ==
  ASSUME NEW c, NEW s \in Seq(Events), s # <<>>
  PROVE  /\ Head(s) \in Events /\ Tail(s) \in Seq(Events)
         /\ Ids(Tail(s), c) \subseteq Ids(s, c)
         /\ ~IsFrame(Head(s), c) => Ids(Tail(s), c) = Ids(s, c)
         /\ IsFrame(Head(s), c) => Head(s).id \in Ids(s, c)
         /\ Sorted(s, c) =>
              /\ Sorted(Tail(s), c)
              /\ IsFrame(Head(s), c) => Below({Head(s).id}, Ids(Tail(s), c))
<1>. DEFINE t == Tail(s)
            n == Len(s)
<1>1. /\ Head(s) \in Events /\ t \in Seq(Events) /\ n \in Nat /\ n >= 1
      /\ Len(t) = n - 1 /\ Head(s) = s[1]
      /\ \A i \in 1 .. Len(t) : t[i] = s[i + 1] /\ i + 1 \in 1 .. n
  BY HeadTailProperties, EmptySeq
<1>2. \A i \in 1 .. n : i = 1 \/ (i - 1 \in 1 .. Len(t) /\ t[i - 1] = s[i])
  BY <1>1
<1>. HIDE DEF t
<1>3. Ids(t, c) \subseteq Ids(s, c)
  BY <1>1 DEF Ids
<1>4. ~IsFrame(Head(s), c) => Ids(s, c) \subseteq Ids(t, c)
  BY <1>1, <1>2 DEF Ids
<1>5. IsFrame(Head(s), c) => Head(s).id \in Ids(s, c)
  BY <1>1 DEF Ids, Events
<1>6. Sorted(s, c) => Sorted(t, c)
  <2>. SUFFICES ASSUME Sorted(s, c), NEW i \in 1 .. Len(t), NEW j \in 1 .. Len(t), i < j,
                       IsFrame(t[i], c), IsFrame(t[j], c)
                PROVE  t[i].id < t[j].id
    BY DEF Sorted
  <2>1. i + 1 < j + 1
    BY <1>1
  <2>. QED
    BY <1>1, <2>1 DEF Sorted
<1>7. Sorted(s, c) /\ IsFrame(Head(s), c) => Below({Head(s).id}, Ids(t, c))
  <2>. SUFFICES ASSUME Sorted(s, c), IsFrame(s[1], c), NEW j \in 1 .. Len(t), IsFrame(t[j], c)
                PROVE  s[1].id < t[j].id
    BY <1>1 DEF Below, Ids
  <2>1. 1 < j + 1 /\ 1 \in 1 .. n
    BY <1>1
  <2>. QED
    BY <1>1, <2>1 DEF Sorted
<1>. QED
  BY <1>1, <1>3, <1>4, <1>5, <1>6, <1>7 DEF t

\* What the shell emits at once: a frame, perhaps behind an announcement.
LEMMA OneEvent ==
  ASSUME NEW c, NEW e \in Events
  PROVE  /\ <<e>> \in Seq(Events) /\ Sorted(<<e>>, c)
         /\ Ids(<<e>>, c) = IF IsFrame(e, c) THEN {e.id} ELSE {}
BY DEF Ids, Sorted, Events

LEMMA TwoEvents ==
  ASSUME NEW c, NEW e \in Events, NEW f \in Events, ~IsFrame(e, c)
  PROVE  /\ <<e, f>> \in Seq(Events) /\ Sorted(<<e, f>>, c)
         /\ Ids(<<e, f>>, c) = IF IsFrame(f, c) THEN {f.id} ELSE {}
<1>1. <<e, f>> \in Seq(Events) /\ Len(<<e, f>>) = 2 /\ <<e, f>>[1] = e /\ <<e, f>>[2] = f
  OBVIOUS
<1>. QED
  BY <1>1 DEF Ids, Sorted, Events

-----------------------------------------------------------------------------
(* Types, and the frames each connection may still send                    *)

Named(c) == req[c].kind \in {"callAt", "attachTo"}

\* ensure_session has one id for each probe and one for its attach.
Budget(c) ==
  /\ Named(c) <=> req[c].window # NoWindow
  /\ pc[c] \in {"route", "probe", "pause", "attach", "await"} =>
       req[c].id \in 1 .. MaxFrames /\ req[c].id <= seq[c]
  /\ pc[c] \in {"route", "probe", "pause", "attach"} /\ Named(c) =>
       req[c].id + 1 + MaxProbes <= MaxFrames
  /\ pc[c] = "route" => seq[c] = req[c].id
  /\ pc[c] = "probe" => tries[c] < MaxProbes /\ seq[c] = req[c].id + tries[c] + 1
  /\ pc[c] = "pause" => seq[c] = req[c].id + tries[c]
  /\ pc[c] \in {"probe", "pause", "attach"} => Named(c)
  /\ pc[c] \in {"probe", "pause", "attach", "await"} => at[c] \in Windows

GoneIsEmpty == \A w \in Windows : page[w] = "gone" => inbox[w] = <<>>

TypeInv == TypeOK /\ GoneIsEmpty /\ \A c \in Conns : Budget(c)

\* An event of c reaches no frames of other connections.
LEMMA EmitOpenClose ==
  ASSUME NEW c \in Conns, NEW k \in {"open", "close"}
  PROVE  /\ Event(k, c, 0) \in Events
         /\ \A x : Ids(<<Event(k, c, 0)>>, x) = {} /\ Sorted(<<Event(k, c, 0)>>, x)
<1>1. Event(k, c, 0) \in Events /\ \A x : ~IsFrame(Event(k, c, 0), x)
  BY LiveAssumption DEF Event, Events, IsFrame, Frames, Hellos
<1>. QED
  BY <1>1, OneEvent

LEMMA EmitFrame ==
  ASSUME NEW c \in Conns, NEW k \in Frames, NEW n \in 0 .. MaxFrames
  PROVE  /\ Event(k, c, n) \in Events
         /\ Ids(<<Event(k, c, n)>>, c) = {n}
         /\ \A x : /\ Sorted(<<Event(k, c, n)>>, x)
                   /\ x # c => Ids(<<Event(k, c, n)>>, x) = {}
<1>1. Event(k, c, n) \in Events /\ \A x : IsFrame(Event(k, c, n), x) <=> x = c
  BY DEF Event, Events, IsFrame, Frames, Hellos
<1>2. Event(k, c, n).id = n
  BY DEF Event
<1>. QED
  BY <1>1, <1>2, OneEvent

LEMMA Emits ==
  ASSUME TypeOK, NEW w \in Windows, NEW es \in Seq(Events)
  PROVE  /\ Emitted(w, es) \in Seq(Events)
         /\ page[w] = "gone" => Emitted(w, es) = inbox[w]
<1>1. inbox[w] \in Seq(Events)
  BY DEF TypeOK
<1>. QED
  BY <1>1, Queued DEF Emitted

LEMMA EmitsNothing ==
  ASSUME TypeOK, NEW w \in Windows, NEW es \in Seq(Events), NEW x,
         Ids(es, x) = {}, Sorted(es, x)
  PROVE  /\ Ids(Emitted(w, es), x) = Ids(inbox[w], x)
         /\ Sorted(inbox[w], x) => Sorted(Emitted(w, es), x)
<1>1. inbox[w] \in Seq(Events)
  BY DEF TypeOK
<1>2. Below(Ids(inbox[w], x), Ids(es, x))
  BY DEF Below
<1>3. Ids(inbox[w] \o es, x) = Ids(inbox[w], x) \cup Ids(es, x)
  BY <1>1, Queued
<1>4. Sorted(inbox[w], x) => Sorted(inbox[w] \o es, x)
  BY <1>1, <1>2, Queued
<1>. QED
  BY <1>3, <1>4 DEF Emitted

LEMMA EmitsFrame ==
  ASSUME TypeOK, NEW w \in Windows, NEW es \in Seq(Events), NEW x, Sorted(es, x)
  PROVE  /\ Ids(Emitted(w, es), x) \subseteq Ids(inbox[w], x) \cup Ids(es, x)
         /\ Sorted(inbox[w], x) /\ Below(Ids(inbox[w], x), Ids(es, x))
              => Sorted(Emitted(w, es), x)
<1>1. inbox[w] \in Seq(Events)
  BY DEF TypeOK
<1>. QED
  BY <1>1, Queued DEF Emitted

\* What a step of c does to the queues when it sends no frame.
SameFrames ==
  /\ inbox' \in [Windows -> Seq(Events)]
  /\ \A v \in Windows :
       /\ page[v] = "gone" /\ inbox[v] = <<>> => inbox'[v] = <<>>
       /\ \A x : /\ Ids(inbox'[v], x) = Ids(inbox[v], x)
                 /\ Sorted(inbox[v], x) => Sorted(inbox'[v], x)

LEMMA SameInbox == ASSUME TypeOK, inbox' = inbox PROVE SameFrames
BY DEF TypeOK, SameFrames

LEMMA OpenCloseSent ==
  ASSUME TypeOK, NEW c \in Conns, NEW k \in {"open", "close"},
         inbox' = [v \in Windows |-> inbox'[v]],
         \A v \in Windows : inbox'[v] \in {inbox[v], Emitted(v, <<Event(k, c, 0)>>)}
  PROVE  SameFrames
<1>. DEFINE e == Event(k, c, 0)
<1>1. <<e>> \in Seq(Events) /\ \A x : Ids(<<e>>, x) = {} /\ Sorted(<<e>>, x)
  <2>1. e \in Events
    BY EmitOpenClose
  <2>2. <<e>> \in Seq(Events)
    BY <2>1, OneEvent
  <2>. QED
    BY <2>2, EmitOpenClose
<1>. HIDE DEF e
<1>2. ASSUME NEW v \in Windows
      PROVE  /\ inbox'[v] \in Seq(Events)
             /\ page[v] = "gone" /\ inbox[v] = <<>> => inbox'[v] = <<>>
             /\ \A x : /\ Ids(inbox'[v], x) = Ids(inbox[v], x)
                       /\ Sorted(inbox[v], x) => Sorted(inbox'[v], x)
  <2>1. CASE inbox'[v] = inbox[v]
    BY <2>1 DEF TypeOK
  <2>2. CASE inbox'[v] = Emitted(v, <<e>>)
    BY <1>1, <2>2, Emits, EmitsNothing
  <2>. QED
    BY <2>1, <2>2 DEF e
<1>. QED
  BY <1>2 DEF SameFrames

\* What a step of c does when it sends a frame with id n to w.
FrameSent(c, w, n) ==
  /\ inbox' \in [Windows -> Seq(Events)]
  /\ \A v \in Windows :
       /\ page[v] = "gone" /\ inbox[v] = <<>> => inbox'[v] = <<>>
       /\ \A x : x # c \/ v # w =>
            /\ Ids(inbox'[v], x) = Ids(inbox[v], x)
            /\ Sorted(inbox[v], x) => Sorted(inbox'[v], x)
  /\ Ids(inbox'[w], c) \subseteq Ids(inbox[w], c) \cup {n}
  /\ Sorted(inbox[w], c) /\ Below(Ids(inbox[w], c), {n}) => Sorted(inbox'[w], c)

LEMMA Sent ==
  ASSUME TypeOK, NEW c \in Conns, NEW w \in Windows, NEW n \in 0 .. MaxFrames,
         NEW k \in Frames, NEW before \in {<<>>, <<Event("open", c, 0)>>},
         inbox' = [inbox EXCEPT ![w] = Emitted(w, before \o <<Event(k, c, n)>>)]
  PROVE  FrameSent(c, w, n)
<1>. DEFINE e == Event(k, c, n)
            o == Event("open", c, 0)
            es == before \o <<e>>
<1>1. e \in Events /\ o \in Events
  BY EmitFrame, EmitOpenClose
<1>3. /\ Ids(<<e>>, c) = {n}
      /\ \A x : Sorted(<<e>>, x) /\ (x # c => Ids(<<e>>, x) = {})
  BY EmitFrame
<1>4. \A x : Ids(before, x) = {} /\ Sorted(before, x)
  BY EmitOpenClose, EmptyQueue
<1>. HIDE DEF e, o
<1>2. <<e>> \in Seq(Events) /\ before \in Seq(Events)
  <2>1. before = <<>> \/ before = <<o>>
    BY DEF o
  <2>. QED
    BY <1>1, <2>1, OneEvent, EmptySeq
<1>5. es \in Seq(Events) /\ Ids(es, c) = {n}
  <2>1. es \in Seq(Events) /\ Ids(es, c) = Ids(before, c) \cup Ids(<<e>>, c)
    BY <1>2, Queued
  <2>. QED
    BY <1>3, <1>4, <2>1
<1>11. \A x : Sorted(es, x) /\ (x # c => Ids(es, x) = {})
  <2>. TAKE x
  <2>1. Below(Ids(before, x), Ids(<<e>>, x))
    BY <1>4 DEF Below
  <2>2. Ids(es, x) = Ids(before, x) \cup Ids(<<e>>, x)
    BY <1>2, Queued
  <2>3. Sorted(before, x) /\ Sorted(<<e>>, x) => Sorted(es, x)
    BY <1>2, <2>1, Queued
  <2>. QED
    BY <1>3, <1>4, <2>2, <2>3
<1>6. inbox' = [inbox EXCEPT ![w] = Emitted(w, es)] /\ inbox \in [Windows -> Seq(Events)]
  BY DEF e, TypeOK
<1>. HIDE DEF es
<1>7. Emitted(w, es) \in Seq(Events) /\ inbox'[w] = Emitted(w, es)
  BY <1>5, <1>6, Emits
<1>8. inbox' \in [Windows -> Seq(Events)] /\ \A v \in Windows : v # w => inbox'[v] = inbox[v]
  BY <1>6, <1>7
<1>9. \A v \in Windows :
       /\ page[v] = "gone" /\ inbox[v] = <<>> => inbox'[v] = <<>>
       /\ \A x : x # c \/ v # w =>
            /\ Ids(inbox'[v], x) = Ids(inbox[v], x)
            /\ Sorted(inbox[v], x) => Sorted(inbox'[v], x)
  <2>1. page[w] = "gone" => inbox'[w] = inbox[w]
    BY <1>5, <1>7, Emits
  <2>2. \A x : x # c =>
          /\ Ids(inbox'[w], x) = Ids(inbox[w], x)
          /\ Sorted(inbox[w], x) => Sorted(inbox'[w], x)
    BY <1>5, <1>7, <1>11, EmitsNothing
  <2>. QED
    BY <1>8, <2>1, <2>2
<1>10. /\ Ids(inbox'[w], c) \subseteq Ids(inbox[w], c) \cup {n}
       /\ Sorted(inbox[w], c) /\ Below(Ids(inbox[w], c), {n}) => Sorted(inbox'[w], c)
  BY <1>5, <1>7, <1>11, EmitsFrame
<1>. QED
  BY <1>8, <1>9, <1>10 DEF FrameSent

-----------------------------------------------------------------------------
(* The invariant                                                           *)

Waiting == {"probe", "pause", "attach", "await"}

\* The id of the reply that the thread waits for.
Want(c) == IF pc[c] = "await" THEN req[c].id ELSE seq[c]

Quiet(c) == \A w \in Windows : Ids(inbox[w], c) = {}

\* Frames are only in the queue of the window the thread deals with, in order;
\* the awaited one is the last, so when its reply is there the queue is empty
\* of them.
InFlight(c) ==
  /\ \A w \in Windows : w # at[c] => Ids(inbox[w], c) = {}
  /\ Sorted(inbox[at[c]], c) /\ Ids(inbox[at[c]], c) \subseteq 1 .. Want(c)
  /\ rx[c].id \in 0 .. Want(c) /\ (rx[c].id = 0 => rx[c] = Nothing)
  /\ rx[c].id = Want(c) => Ids(inbox[at[c]], c) = {}
  /\ pc[c] \in {"attach", "await"} =>
       Ids(inbox[at[c]], c) \subseteq {Want(c)} /\ rx[c].id \in {0, Want(c)}

Tidy(c) ==
  pc[c] = "closed" \/ gaveUp[c] \/
    /\ pc[c] \in Waiting => InFlight(c)
    /\ pc[c] \notin Waiting => Quiet(c)
    /\ pc[c] \in {"new", "idle"} => answer[c].id = req[c].id

\* Nothing changed for connection x but the queues, and those not for its frames.
Left(x) ==
  /\ pc'[x] = pc[x] /\ req'[x] = req[x] /\ at'[x] = at[x] /\ seq'[x] = seq[x]
  /\ tries'[x] = tries[x] /\ rx'[x] = rx[x] /\ answer'[x] = answer[x]
  /\ gaveUp'[x] = gaveUp[x]

FramesLeft(x) ==
  \A v \in Windows :
    /\ Ids(inbox'[v], x) = Ids(inbox[v], x)
    /\ Sorted(inbox[v], x) => Sorted(inbox'[v], x)

LEMMA LeftTidy ==
  ASSUME TypeInv, NEW x \in Conns, Budget(x), Left(x), FramesLeft(x)
  PROVE  Budget(x)' /\ (Tidy(x) => Tidy(x)')
<1>1. Budget(x)'
  BY DEF Budget, Left, Named
<1>2. Want(x)' = Want(x) /\ (Quiet(x) => Quiet(x)')
  BY DEF Want, Quiet, Left, FramesLeft
<1>3. pc[x] \in Waiting => at[x] \in Windows
  BY DEF Budget, Waiting
<1>4. pc[x] \in Waiting /\ InFlight(x) => InFlight(x)'
  BY <1>2, <1>3 DEF InFlight, Left, FramesLeft, Waiting
<1>. QED
  BY <1>1, <1>2, <1>4 DEF Tidy, Left

LEMMA NoneIsSorted ==
  ASSUME NEW c, NEW s \in Seq(Events), Ids(s, c) = {} PROVE Sorted(s, c)
<1>1. \A i \in 1 .. Len(s) : s[i].id \in 0 .. MaxFrames
  <2>1. \A i \in 1 .. Len(s) : s[i] \in Events
    OBVIOUS
  <2>. QED
    BY <2>1 DEF Events
<1>2. \A i \in 1 .. Len(s) : ~IsFrame(s[i], c)
  BY <1>1 DEF Ids
<1>. QED
  BY <1>2 DEF Sorted

\* A frame sent when none is under way.
LEMMA TidyBegins ==
  ASSUME TypeInv, NEW c \in Conns, NEW w \in Windows, NEW n \in 1 .. MaxFrames,
         Quiet(c), FrameSent(c, w, n), at'[c] = w, rx'[c] = Nothing,
         pc'[c] \in Waiting, Want(c)' = n
  PROVE  Tidy(c)'
<1>1. \A v \in Windows : v # w => Ids(inbox'[v], c) = {}
  BY DEF FrameSent, Quiet
<1>2. Ids(inbox'[w], c) \subseteq {n}
  BY DEF FrameSent, Quiet
<1>3. Sorted(inbox'[w], c)
  <2>1. inbox[w] \in Seq(Events) /\ Ids(inbox[w], c) = {}
    BY DEF TypeInv, TypeOK, Quiet
  <2>2. Sorted(inbox[w], c) /\ Below(Ids(inbox[w], c), {n})
    BY <2>1, NoneIsSorted DEF Below
  <2>. QED
    BY <2>2 DEF FrameSent
<1>4. n \in Nat /\ n >= 1
  BY LiveAssumption
<1>5. rx'[c].id = 0
  BY DEF Nothing
<1>6. InFlight(c)'
  BY <1>1, <1>2, <1>3, <1>4, <1>5 DEF InFlight
<1>. QED
  BY <1>6 DEF Tidy, Waiting

\* An answer when nothing is under way.
LEMMA TidyEnds ==
  ASSUME TypeInv, NEW c \in Conns, Quiet(c), FramesLeft(c), pc'[c] \notin Waiting,
         pc'[c] \in {"new", "idle"} => answer'[c].id = req'[c].id
  PROVE  Tidy(c)'
BY DEF Tidy, Quiet, FramesLeft

LEMMA QuietWhenAnswered ==
  ASSUME TypeInv, NEW c \in Conns, InFlight(c), rx[c].id = Want(c)
  PROVE  Quiet(c)
BY DEF InFlight, Quiet

LEMMA QuietWhenGone ==
  ASSUME TypeInv, NEW c \in Conns, InFlight(c), at[c] \in Windows, ~Alive(at[c])
  PROVE  Quiet(c)
<1>1. inbox[at[c]] = <<>>
  BY LiveAssumption DEF TypeInv, GoneIsEmpty, Alive
<1>. QED
  BY <1>1, EmptyQueue DEF InFlight, Quiet

LEMMA TidyInit == Init => TypeInv /\ \A c \in Conns : Tidy(c)
<1>. SUFFICES ASSUME Init PROVE TypeInv /\ \A c \in Conns : Tidy(c)
  OBVIOUS
<1>1. TypeOK
  <2>1. <<>> \in Seq(Events)
    BY EmptySeq
  <2>. QED
    BY <2>1, LiveAssumption DEF Init, TypeOK, Requests, Kinds, Hellos, Replies, Codes, Nothing
<1>2. GoneIsEmpty /\ \A c \in Conns : Budget(c)
  BY DEF Init, GoneIsEmpty, Budget, Named
<1>3. \A c \in Conns : Tidy(c)
  BY EmptyQueue DEF Init, Tidy, Quiet, Waiting, Nothing
<1>. QED
  BY <1>1, <1>2, <1>3 DEF TypeInv

-----------------------------------------------------------------------------
(* Steps of a connection                                                   *)

StepOf(c) ==
  /\ TypeOK' /\ GoneIsEmpty' /\ Budget(c)'
  /\ \A x \in Conns : x # c => Left(x) /\ FramesLeft(x)
  /\ Tidy(c) => Tidy(c)'

\* The parts of TypeOK.
ThreadTyped ==
  /\ pc \in [Conns -> {"new", "idle", "route", "probe", "pause", "attach", "await", "closed"}]
  /\ req \in [Conns -> Requests]
  /\ at \in [Conns -> Windows \cup {NoWindow}]
  /\ seq \in [Conns -> 0 .. MaxFrames]
  /\ tries \in [Conns -> 0 .. MaxProbes]
RepliesTyped ==
  /\ slot \in [Conns -> BOOLEAN]
  /\ rx \in [Conns -> Replies]
  /\ answer \in [Conns -> Replies]
  /\ gaveUp \in [Conns -> BOOLEAN]
  /\ current \in [Conns -> Windows \cup {NoWindow}]
OpenedTyped == opened \in [Conns -> [Windows -> {"absent", "open", "attached"}]]
QueuesTyped == inbox \in [Windows -> Seq(Events)]
PagesTyped ==
  /\ page \in [Windows -> {"booting", "loading", "ready", "gone"}]
  /\ known \in [Windows -> SUBSET Conns]
  /\ session \in [Windows -> [Conns -> {"none", "fresh", "hello", "attached"}]]

LEMMA Parts ==
  TypeOK <=> ThreadTyped /\ RepliesTyped /\ OpenedTyped /\ QueuesTyped /\ PagesTyped
BY DEF TypeOK, ThreadTyped, RepliesTyped, OpenedTyped, QueuesTyped, PagesTyped

LEMMA PartsNext ==
  TypeOK' <=> (ThreadTyped /\ RepliesTyped /\ OpenedTyped /\ QueuesTyped /\ PagesTyped)'
BY Parts, PTL

LEMMA NothingIsReply == Nothing \in Replies
BY LiveAssumption DEF Nothing, Replies, Codes

LEMMA SameFramesLeft ==
  ASSUME SameFrames
  PROVE  /\ inbox' \in [Windows -> Seq(Events)] /\ \A x : FramesLeft(x)
         /\ \A v \in Windows : page[v] = "gone" /\ inbox[v] = <<>> => inbox'[v] = <<>>
BY DEF SameFrames, FramesLeft

LEMMA FrameSentLeft ==
  ASSUME NEW c, NEW w, NEW n, FrameSent(c, w, n)
  PROVE  /\ inbox' \in [Windows -> Seq(Events)] /\ \A x : x # c => FramesLeft(x)
         /\ \A v \in Windows : page[v] = "gone" /\ inbox[v] = <<>> => inbox'[v] = <<>>
BY DEF FrameSent, FramesLeft

LEMMA Unregistered ==
  ASSUME TypeInv, NEW c \in Conns, Unregister(c) PROVE SameFrames
<1>1. \A v \in Windows : inbox'[v] \in {inbox[v], Emitted(v, <<Event("close", c, 0)>>)}
  BY DEF Unregister
<1>2. inbox' = [v \in Windows |-> inbox'[v]]
  BY DEF Unregister
<1>. QED
  BY <1>1, <1>2, OpenCloseSent DEF TypeInv

LEMMA Forwarded ==
  ASSUME TypeInv, NEW c \in Conns, NEW w \in Windows, pc[c] \in {"route", "attach"}, Forward(c, w)
  PROVE  FrameSent(c, w, req[c].id) /\ req[c].id \in 1 .. MaxFrames
<1>. DEFINE k == IF req[c].kind \in Hellos THEN req[c].kind ELSE "call"
<1>1. req[c].id \in 1 .. MaxFrames /\ req[c].id \in 0 .. MaxFrames /\ k \in Frames
  BY DEF TypeInv, Budget, Frames, Hellos
<1>2. inbox' = [inbox EXCEPT ![w] = Emitted(w, <<>> \o <<Event(k, c, req[c].id)>>)]
  BY DEF Forward, SendAndAwait
<1>. HIDE DEF k
<1>. QED
  BY <1>1, <1>2, Sent DEF TypeInv

LEMMA Probed ==
  ASSUME TypeInv, NEW c \in Conns, NEW w \in Windows, seq[c] < MaxFrames, Probe(c, w)
  PROVE  FrameSent(c, w, seq[c] + 1)
<1>1. seq[c] + 1 \in 0 .. MaxFrames
  BY LiveAssumption DEF TypeInv, TypeOK
<1>2. inbox' = [inbox EXCEPT ![w] =
                  Emitted(w, <<Event("open", c, 0)>> \o <<Event(req[c].hello, c, seq[c] + 1)>>)]
  BY DEF Probe, SendAndAwait
<1>3. req[c].hello \in Frames
  BY DEF TypeInv, TypeOK, Requests, Frames
<1>. QED
  BY <1>1, <1>2, <1>3, Sent DEF TypeInv

LEMMA AttachSent ==
  ASSUME TypeInv, NEW c \in Conns, NEW w \in Windows, seq[c] < MaxFrames, AttachSession(c, w)
  PROVE  FrameSent(c, w, seq[c] + 1)
<1>1. seq[c] + 1 \in 0 .. MaxFrames
  BY LiveAssumption DEF TypeInv, TypeOK
<1>2. inbox' = [inbox EXCEPT ![w] = Emitted(w, <<>> \o <<Event("attach", c, seq[c] + 1)>>)]
  BY DEF AttachSession, SendAndAwait
<1>. QED
  BY <1>1, <1>2, Sent DEF TypeInv, Frames, Hellos

LEMMA EnsureFailed ==
  ASSUME TypeInv, NEW c \in Conns, at[c] \in Windows, EnsureFails(c)
  PROVE  SameFrames
<1>1. \A v \in Windows : inbox'[v] \in {inbox[v], Emitted(v, <<Event("close", c, 0)>>)}
  BY DEF EnsureFails, TypeInv, TypeOK
<1>2. inbox' = [v \in Windows |-> inbox'[v]]
  BY DEF EnsureFails, TypeInv, TypeOK
<1>. QED
  BY <1>1, <1>2, OpenCloseSent DEF TypeInv

LEMMA AcceptStep == ASSUME TypeInv, NEW c \in Conns, Accept(c) PROVE StepOf(c)
<1>1. PICK w \in Windows :
        /\ current' = [current EXCEPT ![c] = w]
        /\ opened' = [opened EXCEPT ![c][w] = "open"]
        /\ inbox' = [inbox EXCEPT ![w] = Emitted(w, <<Event("open", c, 0)>>)]
  BY DEF Accept
<1>2. SameFrames
  <2>1. \A v \in Windows : inbox'[v] \in {inbox[v], Emitted(v, <<Event("open", c, 0)>>)}
    BY <1>1 DEF TypeInv, TypeOK
  <2>2. inbox' = [v \in Windows |-> inbox'[v]]
    BY <1>1 DEF TypeInv, TypeOK
  <2>. QED
    BY <2>1, <2>2, OpenCloseSent DEF TypeInv
<1>3. TypeOK'
  BY <1>1, <1>2, SameFramesLeft DEF Accept, TypeInv, TypeOK
<1>4. GoneIsEmpty' /\ Budget(c)'
  BY <1>2, SameFramesLeft DEF Accept, TypeInv, TypeOK, GoneIsEmpty, Budget, Named
<1>5. \A x \in Conns : x # c => Left(x) /\ FramesLeft(x)
  BY <1>2, SameFramesLeft DEF Accept, TypeInv, TypeOK, Left
<1>6. Tidy(c) => Tidy(c)'
  <2>1. pc[c] = "new" /\ pc'[c] = "idle" /\ UNCHANGED <<gaveUp, answer, req>>
    BY DEF Accept, TypeInv, TypeOK
  <2>. QED
    BY <2>1, <1>2, SameFramesLeft, TidyEnds DEF Tidy, Waiting
<1>. QED
  BY <1>3, <1>4, <1>5, <1>6 DEF StepOf

LEMMA RequestStep == ASSUME TypeInv, NEW c \in Conns, Request(c) PROVE StepOf(c)
<1>1. PICK k \in Kinds, w \in Windows \cup {NoWindow} :
        /\ k \in {"callAt", "attachTo"} <=> w # NoWindow
        /\ w # NoWindow => seq[c] + 2 + MaxProbes <= MaxFrames
        /\ req' = [req EXCEPT ![c] = [kind |-> k, window |-> w, id |-> seq[c] + 1,
                                      hello |-> IF seq[c] = 0 THEN k ELSE @.hello]]
        /\ seq[c] = 0 => k \in Hellos
  BY DEF Request
<1>2. SameFrames
  BY SameInbox DEF TypeInv, Request, webview
<1>7. [kind |-> k, window |-> w, id |-> seq[c] + 1,
       hello |-> IF seq[c] = 0 THEN k ELSE req[c].hello] \in Requests
  <2>1. seq[c] + 1 \in 0 .. MaxFrames /\ req[c].hello \in Hellos
    BY LiveAssumption DEF Request, TypeInv, TypeOK, Requests
  <2>. QED
    BY <1>1, <2>1 DEF Requests
<1>3. TypeOK'
  BY <1>1, <1>2, <1>7, SameFramesLeft, LiveAssumption DEF Request, TypeInv, TypeOK, webview
<1>4. GoneIsEmpty' /\ Budget(c)'
  BY <1>1, <1>2, SameFramesLeft, LiveAssumption
     DEF Request, TypeInv, TypeOK, GoneIsEmpty, Budget, Named, webview
<1>5. \A x \in Conns : x # c => Left(x) /\ FramesLeft(x)
  BY <1>1, <1>2, SameFramesLeft DEF Request, TypeInv, TypeOK, Left
<1>6. Tidy(c) => Tidy(c)'
  <2>1. pc[c] = "idle" /\ pc'[c] = "route" /\ gaveUp' = gaveUp
    BY DEF Request, TypeInv, TypeOK
  <2>. QED
    BY <2>1, <1>2, SameFramesLeft, TidyEnds DEF Tidy, Waiting
<1>. QED
  BY <1>3, <1>4, <1>5, <1>6 DEF StepOf

\* c sends a frame and waits.
LEMMA SendStep ==
  ASSUME TypeInv, NEW c \in Conns, NEW w \in Windows, NEW n \in 1 .. MaxFrames,
         NEW p \in Waiting, FrameSent(c, w, n),
         pc' = [pc EXCEPT ![c] = p], at' = [at EXCEPT ![c] = w],
         slot' = [slot EXCEPT ![c] = TRUE], rx' = [rx EXCEPT ![c] = Nothing],
         seq' = seq \/ seq' = [seq EXCEPT ![c] = n],
         tries' = tries \/ tries' = [tries EXCEPT ![c] = 0],
         UNCHANGED <<req, answer, gaveUp, current, page, known, session>>,
         OpenedTyped', Budget(c)', Tidy(c) => Tidy(c)'
  PROVE  StepOf(c)
<1>1. ThreadTyped'
  BY Parts, LiveAssumption DEF TypeInv, ThreadTyped, Waiting
<1>2. RepliesTyped'
  BY Parts, NothingIsReply DEF TypeInv, RepliesTyped
<1>3. QueuesTyped' /\ PagesTyped' /\ GoneIsEmpty'
  BY FrameSentLeft, Parts DEF TypeInv, QueuesTyped, PagesTyped, GoneIsEmpty
<1>4. ASSUME NEW x \in Conns, x # c PROVE Left(x) /\ FramesLeft(x)
  BY <1>4, FrameSentLeft DEF TypeInv, TypeOK, Left
<1>. QED
  BY <1>1, <1>2, <1>3, <1>4, PartsNext DEF StepOf

\* c writes an answer.
LEMMA AnswerStep ==
  ASSUME TypeInv, NEW c \in Conns, NEW r \in Replies, NEW w \in Windows \cup {NoWindow},
         NEW b \in BOOLEAN, NEW g \in BOOLEAN, SameFrames, r.id = req[c].id,
         pc' = [pc EXCEPT ![c] = "idle"], answer' = [answer EXCEPT ![c] = r],
         current' = current \/ current' = [current EXCEPT ![c] = w],
         slot' = slot \/ slot' = [slot EXCEPT ![c] = b],
         gaveUp' = gaveUp \/ gaveUp' = [gaveUp EXCEPT ![c] = gaveUp[c] \/ g],
         tries' = tries \/ tries' = [tries EXCEPT ![c] = 0],
         UNCHANGED <<req, at, seq, rx, page, known, session>>, OpenedTyped',
         pc[c] # "closed",
         Tidy(c) /\ ~gaveUp[c] => Quiet(c) \/ gaveUp'[c]
  PROVE  StepOf(c)
<1>1. ThreadTyped'
  BY Parts, LiveAssumption DEF TypeInv, ThreadTyped
<1>2. RepliesTyped'
  BY Parts DEF TypeInv, RepliesTyped
<1>3. QueuesTyped' /\ PagesTyped' /\ GoneIsEmpty'
  BY SameFramesLeft, Parts DEF TypeInv, QueuesTyped, PagesTyped, GoneIsEmpty
<1>4. ASSUME NEW x \in Conns, x # c PROVE Left(x) /\ FramesLeft(x)
  BY <1>4, SameFramesLeft DEF TypeInv, TypeOK, Left
<1>5. pc'[c] = "idle" /\ answer'[c].id = req'[c].id /\ (gaveUp[c] => gaveUp'[c])
  BY DEF TypeInv, TypeOK
<1>6. Budget(c)'
  BY <1>5 DEF TypeInv, Budget, Named
<1>7. ASSUME Tidy(c) PROVE Tidy(c)'
  <2>1. CASE gaveUp'[c]
    BY <2>1 DEF Tidy
  <2>2. CASE ~gaveUp'[c]
    BY <1>5, <1>7, <2>2, TidyEnds, SameFramesLeft DEF Waiting
  <2>. QED
    BY <2>1, <2>2
<1>. QED
  BY <1>1, <1>2, <1>3, <1>4, <1>6, <1>7, PartsNext DEF StepOf

\* c does neither, or is over.
LEMMA OwnStep ==
  ASSUME TypeInv, NEW c \in Conns, SameFrames, ThreadTyped', RepliesTyped', OpenedTyped',
         UNCHANGED <<page, known, session>>, \A x \in Conns : x # c => Left(x),
         Budget(c)', Tidy(c) => Tidy(c)'
  PROVE  StepOf(c)
<1>1. QueuesTyped' /\ PagesTyped' /\ GoneIsEmpty'
  BY SameFramesLeft, Parts DEF TypeInv, QueuesTyped, PagesTyped, GoneIsEmpty
<1>. QED
  BY <1>1, SameFramesLeft, PartsNext DEF StepOf

\* In each of the two, the invariant of c itself.
LEMMA TidySent ==
  ASSUME TypeInv, NEW c \in Conns, NEW w \in Windows, NEW n \in 1 .. MaxFrames,
         NEW p \in Waiting, FrameSent(c, w, n), pc[c] # "closed",
         pc' = [pc EXCEPT ![c] = p], at' = [at EXCEPT ![c] = w],
         rx' = [rx EXCEPT ![c] = Nothing], gaveUp' = gaveUp, Want(c)' = n,
         Tidy(c) /\ ~gaveUp[c] => Quiet(c)
  PROVE  Tidy(c) => Tidy(c)'
<1>1. pc'[c] = p /\ at'[c] = w /\ rx'[c] = Nothing
  BY DEF TypeInv, TypeOK
<1>2. CASE gaveUp[c]
  BY <1>2 DEF Tidy
<1>3. CASE ~gaveUp[c]
  BY <1>1, <1>3, TidyBegins
<1>. QED
  BY <1>2, <1>3

LEMMA ReplyIs ==
  ASSUME TypeInv, NEW c \in Conns, NEW code \in Codes
  PROVE  /\ [id |-> req[c].id, code |-> code] \in Replies
         /\ [id |-> req[c].id, code |-> code].id = req[c].id
BY DEF TypeInv, TypeOK, Replies, Requests

LEMMA DisconnectStep == ASSUME TypeInv, NEW c \in Conns, Disconnect(c) PROVE StepOf(c)
<1>2. SameFrames
  BY Unregistered DEF Disconnect
<1>3. TypeOK'
  BY <1>2, SameFramesLeft DEF Disconnect, Unregister, TypeInv, TypeOK
<1>4. GoneIsEmpty' /\ Budget(c)'
  BY <1>2, SameFramesLeft DEF Disconnect, Unregister, TypeInv, TypeOK, GoneIsEmpty, Budget, Named
<1>5. \A x \in Conns : x # c => Left(x) /\ FramesLeft(x)
  BY <1>2, SameFramesLeft DEF Disconnect, Unregister, TypeInv, TypeOK, Left
<1>6. Tidy(c)'
  BY DEF Disconnect, Unregister, TypeInv, TypeOK, Tidy
<1>. QED
  BY <1>3, <1>4, <1>5, <1>6 DEF StepOf


LEMMA RouteCurrentStep == ASSUME TypeInv, NEW c \in Conns, RouteCurrent(c) PROVE StepOf(c)
<1>. DEFINE n == req[c].id
            w == current[c]
<1>1. /\ pc[c] = "route" /\ Named(c) = FALSE
      /\ UNCHANGED <<req, seq, tries, gaveUp, opened, page, known, session>>
  BY DEF RouteCurrent, Named, Hellos
<1>2. OpenedTyped'
  BY <1>1, Parts DEF TypeInv, OpenedTyped
<1>3. Tidy(c) /\ ~gaveUp[c] => Quiet(c)
  BY <1>1 DEF Tidy, Waiting
<1>4. CASE Alive(w) /\ Forward(c, w) /\ UNCHANGED <<answer, current>>
  <2>1. w \in Windows
    BY <1>4 DEF Alive, TypeInv, TypeOK
  <2>2. FrameSent(c, w, n) /\ n \in 1 .. MaxFrames
    BY <1>1, <1>4, <2>1, Forwarded
  <2>3. /\ pc' = [pc EXCEPT ![c] = "await"] /\ at' = [at EXCEPT ![c] = w]
        /\ slot' = [slot EXCEPT ![c] = TRUE] /\ rx' = [rx EXCEPT ![c] = Nothing]
    BY <1>4 DEF Forward, SendAndAwait
  <2>. HIDE DEF w, n
  <2>4. pc'[c] = "await" /\ at'[c] = w
    BY <2>3 DEF TypeInv, TypeOK
  <2>5. Budget(c)' /\ Want(c)' = n
    BY <1>1, <2>1, <2>4 DEF TypeInv, Budget, Named, Want, n
  <2>6. Tidy(c) => Tidy(c)'
    BY <1>1, <1>3, <2>1, <2>2, <2>3, <2>5, TidySent DEF Waiting
  <2>. QED
    BY <1>1, <1>2, <1>4, <2>1, <2>2, <2>3, <2>5, <2>6, SendStep DEF Waiting
<1>5. CASE /\ current' = [current EXCEPT ![c] = NoWindow] /\ Reply(c, "no_document")
           /\ UNCHANGED <<at, slot, rx, inbox>>
  <2>1. SameFrames /\ "no_document" \in Codes
    BY <1>5, SameInbox DEF TypeInv, Codes
  <2>. QED
    BY <1>1, <1>2, <1>3, <1>5, <2>1, ReplyIs, AnswerStep DEF Reply
<1>. QED
  BY <1>4, <1>5 DEF RouteCurrent

\* ensure_session gives up: on a window that lives, the connection is from then
\* on outside the invariant.
LEMMA EnsureFailsStep ==
  ASSUME TypeInv, NEW c \in Conns, EnsureFails(c), pc[c] \in {"probe", "pause", "attach"},
         UNCHANGED <<req, at, seq, tries, rx, opened, current, page, known, session>>
  PROVE  StepOf(c)
<1>1. at[c] \in Windows
  BY DEF TypeInv, Budget
<1>2. SameFrames /\ "refused" \in Codes /\ OpenedTyped'
  BY <1>1, EnsureFailed, Parts DEF Codes, TypeInv, OpenedTyped
<1>3. Tidy(c) /\ ~gaveUp[c] => Quiet(c) \/ gaveUp'[c]
  <2>1. CASE Alive(at[c])
    BY <2>1 DEF EnsureFails, TypeInv, TypeOK
  <2>2. CASE ~Alive(at[c])
    BY <1>1, <2>2, QuietWhenGone DEF Tidy, Waiting
  <2>. QED
    BY <2>1, <2>2
<1>4. Alive(at[c]) \in BOOLEAN
  BY DEF Alive
<1>. QED
  BY <1>2, <1>3, <1>4, ReplyIs, AnswerStep DEF EnsureFails, Reply

LEMMA ProceedStep ==
  ASSUME TypeInv, NEW c \in Conns, NEW w \in Windows, pc[c] \in {"route", "attach"}, Named(c),
         Proceed(c, w), UNCHANGED <<req, seq, gaveUp, page, known, session>>,
         tries' = tries \/ tries' = [tries EXCEPT ![c] = 0], OpenedTyped',
         Tidy(c) /\ ~gaveUp[c] => Quiet(c)
  PROVE  StepOf(c)
<1>. DEFINE n == req[c].id
<1>1. CASE Forward(c, w) /\ UNCHANGED <<answer, current>>
  <2>2. FrameSent(c, w, n) /\ n \in 1 .. MaxFrames
    BY <1>1, Forwarded
  <2>3. /\ pc' = [pc EXCEPT ![c] = "await"] /\ at' = [at EXCEPT ![c] = w]
        /\ slot' = [slot EXCEPT ![c] = TRUE] /\ rx' = [rx EXCEPT ![c] = Nothing]
    BY <1>1 DEF Forward, SendAndAwait
  <2>. HIDE DEF n
  <2>4. pc'[c] = "await" /\ at'[c] = w
    BY <2>3 DEF TypeInv, TypeOK
  <2>5. Budget(c)' /\ Want(c)' = n
    BY <2>4 DEF TypeInv, Budget, Named, Want, n
  <2>6. Tidy(c) => Tidy(c)'
    BY <2>2, <2>3, <2>5, TidySent DEF Waiting
  <2>. QED
    BY <1>1, <2>2, <2>3, <2>5, <2>6, SendStep DEF Waiting
<1>2. CASE /\ current' = [current EXCEPT ![c] = w] /\ Reply(c, "ok")
           /\ UNCHANGED <<at, slot, rx, inbox>>
  <2>1. SameFrames /\ "ok" \in Codes
    BY <1>2, SameInbox DEF TypeInv, Codes
  <2>. QED
    BY <1>2, <2>1, ReplyIs, AnswerStep DEF Reply
<1>. QED
  BY <1>1, <1>2 DEF Proceed

LEMMA AttachSessionStep ==
  ASSUME TypeInv, NEW c \in Conns, NEW w \in Windows, pc[c] \in {"route", "probe"}, Named(c),
         AttachSession(c, w),
         UNCHANGED <<req, answer, gaveUp, opened, current, page, known, session>>,
         tries' = tries \/ tries' = [tries EXCEPT ![c] = 0],
         Tidy(c) /\ ~gaveUp[c] => Quiet(c)
  PROVE  StepOf(c)
<1>. DEFINE n == seq[c] + 1
<1>1. n \in 1 .. MaxFrames /\ seq[c] < MaxFrames
  BY LiveAssumption DEF TypeInv, TypeOK, Budget, Requests
<1>2. FrameSent(c, w, n)
  BY <1>1, AttachSent
<1>3. /\ pc' = [pc EXCEPT ![c] = "attach"] /\ at' = [at EXCEPT ![c] = w]
      /\ slot' = [slot EXCEPT ![c] = TRUE] /\ rx' = [rx EXCEPT ![c] = Nothing]
      /\ seq' = [seq EXCEPT ![c] = n]
  BY DEF AttachSession, SendAndAwait, TypeInv, TypeOK
<1>4. pc'[c] = "attach" /\ at'[c] = w /\ seq'[c] = n /\ req'[c] = req[c]
  BY <1>3 DEF TypeInv, TypeOK
<1>5. Budget(c)' /\ Want(c)' = n
  <2>1. /\ req[c].id \in 1 .. MaxFrames /\ req[c].id <= seq[c] /\ seq[c] \in 0 .. MaxFrames
        /\ req[c].id + 1 + MaxProbes <= MaxFrames
        /\ Named(c) <=> req[c].window # NoWindow
    BY DEF TypeInv, TypeOK, Budget
  <2>. QED
    BY <1>1, <1>4, <2>1 DEF Budget, Named, Want
<1>6. OpenedTyped'
  BY Parts DEF TypeInv, OpenedTyped
<1>. HIDE DEF n
<1>7. Tidy(c) => Tidy(c)'
  BY <1>1, <1>2, <1>3, <1>5, TidySent DEF Waiting
<1>. QED
  BY <1>1, <1>2, <1>3, <1>5, <1>6, <1>7, SendStep DEF Waiting

LEMMA RouteNamedStep == ASSUME TypeInv, NEW c \in Conns, RouteNamed(c) PROVE StepOf(c)
<1>. DEFINE w == req[c].window
<1>1. /\ pc[c] = "route" /\ Named(c) /\ tries' = [tries EXCEPT ![c] = 0]
      /\ UNCHANGED <<req, gaveUp, opened, page, known, session>>
  BY DEF RouteNamed, Named
<1>2. OpenedTyped' /\ w \in Windows
  BY <1>1, Parts DEF TypeInv, OpenedTyped, TypeOK, Budget, Requests
<1>3. Tidy(c) /\ ~gaveUp[c] => Quiet(c)
  BY <1>1 DEF Tidy, Waiting
<1>4. CASE Reply(c, "refused") /\ UNCHANGED <<at, seq, slot, rx, current, inbox>>
  <2>1. SameFrames /\ "refused" \in Codes
    BY <1>4, SameInbox DEF TypeInv, Codes
  <2>. QED
    BY <1>1, <1>2, <1>3, <1>4, <2>1, ReplyIs, AnswerStep DEF Reply
<1>5. CASE Proceed(c, w) /\ UNCHANGED seq
  BY <1>1, <1>2, <1>3, <1>5, ProceedStep
<1>6. CASE AttachSession(c, w) /\ UNCHANGED <<answer, current>>
  BY <1>1, <1>2, <1>3, <1>6, AttachSessionStep
<1>7. CASE Probe(c, w) /\ UNCHANGED <<answer, current>>
  <2>. DEFINE n == seq[c] + 1
  <2>1. /\ req[c].id \in 1 .. MaxFrames /\ seq[c] = req[c].id
        /\ req[c].id + 1 + MaxProbes <= MaxFrames
    BY <1>1 DEF TypeInv, Budget
  <2>2. n \in 1 .. MaxFrames /\ seq[c] < MaxFrames
    BY <2>1, LiveAssumption
  <2>3. FrameSent(c, w, n)
    BY <1>2, <1>7, <2>2, Probed
  <2>4. /\ pc' = [pc EXCEPT ![c] = "probe"] /\ at' = [at EXCEPT ![c] = w]
        /\ slot' = [slot EXCEPT ![c] = TRUE] /\ rx' = [rx EXCEPT ![c] = Nothing]
        /\ seq' = [seq EXCEPT ![c] = n]
    BY <1>7 DEF Probe, SendAndAwait, TypeInv, TypeOK
  <2>5. pc'[c] = "probe" /\ at'[c] = w /\ seq'[c] = n /\ req'[c] = req[c] /\ tries'[c] = 0
    BY <1>1, <2>4 DEF TypeInv, TypeOK
  <2>6. Budget(c)' /\ Want(c)' = n
    BY <1>1, <1>2, <2>1, <2>5, LiveAssumption DEF TypeInv, Budget, Named, Want
  <2>. HIDE DEF n, w
  <2>7. Tidy(c) => Tidy(c)'
    BY <1>1, <1>2, <1>3, <2>2, <2>3, <2>4, <2>6, TidySent DEF Waiting
  <2>. QED
    BY <1>1, <1>2, <1>7, <2>2, <2>3, <2>4, <2>6, <2>7, SendStep DEF Waiting
<1>. QED
  BY <1>4, <1>5, <1>6, <1>7 DEF RouteNamed

\* The next probe goes behind those the window has not handled.
LEMMA ProbeAgainStep == ASSUME TypeInv, NEW c \in Conns, ProbeAgain(c) PROVE StepOf(c)
<1>. DEFINE w == at[c]
            n == seq[c] + 1
<1>1. /\ pc[c] = "pause" /\ tries[c] < MaxProbes /\ Probe(c, w)
      /\ UNCHANGED <<req, tries, answer, gaveUp, opened, current, page, known, session>>
  BY DEF ProbeAgain
<1>2. /\ req[c].id \in 1 .. MaxFrames /\ seq[c] = req[c].id + tries[c] /\ tries[c] \in Nat
      /\ req[c].id + 1 + MaxProbes <= MaxFrames /\ Named(c) /\ w \in Windows
  BY <1>1 DEF TypeInv, TypeOK, Budget
<1>3. n \in 1 .. MaxFrames /\ seq[c] < MaxFrames /\ seq[c] \in Nat /\ n = seq[c] + 1
  BY <1>1, <1>2, LiveAssumption
<1>4. FrameSent(c, w, n)
  BY <1>1, <1>2, <1>3, Probed
<1>5. /\ pc' = [pc EXCEPT ![c] = "probe"] /\ at' = [at EXCEPT ![c] = w]
      /\ slot' = [slot EXCEPT ![c] = TRUE] /\ rx' = [rx EXCEPT ![c] = Nothing]
      /\ seq' = [seq EXCEPT ![c] = n]
  BY <1>1 DEF Probe, SendAndAwait, TypeInv, TypeOK
<1>6. /\ pc'[c] = "probe" /\ at'[c] = w /\ seq'[c] = n /\ req'[c] = req[c]
      /\ tries'[c] = tries[c] /\ rx'[c] = Nothing /\ gaveUp'[c] = gaveUp[c]
  BY <1>1, <1>5 DEF TypeInv, TypeOK
<1>7. Budget(c)' /\ Want(c)' = n
  BY <1>1, <1>2, <1>6 DEF TypeInv, Budget, Named, Want
<1>8. OpenedTyped'
  BY <1>1, Parts DEF TypeInv, OpenedTyped
<1>. HIDE DEF n
<1>9. ASSUME InFlight(c) PROVE InFlight(c)'
  <2>1. Want(c) = seq[c]
    BY <1>1 DEF Want
  <2>2. Ids(inbox[w], c) \subseteq 1 .. seq[c] /\ Sorted(inbox[w], c)
    BY <1>9, <2>1 DEF InFlight
  <2>3. Ids(inbox'[w], c) \subseteq 1 .. n
    BY <1>3, <1>4, <2>2 DEF FrameSent
  <2>4. Below(Ids(inbox[w], c), {n})
    BY <1>3, <2>2 DEF Below
  <2>5. Sorted(inbox'[w], c)
    BY <1>4, <2>2, <2>4 DEF FrameSent
  <2>6. \A v \in Windows : v # w => Ids(inbox'[v], c) = {}
    BY <1>4, <1>9 DEF InFlight, FrameSent
  <2>7. rx'[c].id = 0
    BY <1>6 DEF Nothing
  <2>8. n >= 1 /\ 0 \in 0 .. n /\ at'[c] = w /\ pc'[c] = "probe" /\ rx'[c] = Nothing
    BY <1>3, <1>6
  <2>. HIDE DEF w
  <2>. QED
    BY <1>7, <2>3, <2>5, <2>6, <2>7, <2>8 DEF InFlight
<1>10. Tidy(c) => Tidy(c)'
  BY <1>1, <1>6, <1>9 DEF Tidy, Waiting
<1>. QED
  BY <1>1, <1>2, <1>3, <1>4, <1>5, <1>7, <1>8, <1>10, SendStep DEF Waiting

\* A probe ends without its answer.
LEMMA PauseStep ==
  ASSUME TypeInv, NEW c \in Conns, pc[c] = "probe", NEW b \in BOOLEAN,
         pc' = [pc EXCEPT ![c] = "pause"], tries' = [tries EXCEPT ![c] = tries[c] + 1],
         slot' = slot \/ slot' = [slot EXCEPT ![c] = b],
         UNCHANGED <<req, at, seq, rx, answer, gaveUp, opened, current, webview>>
  PROVE  StepOf(c)
<1>1. /\ tries[c] \in Nat /\ tries[c] < MaxProbes /\ seq[c] = req[c].id + tries[c] + 1
      /\ req[c].id \in 1 .. MaxFrames
  BY DEF TypeInv, TypeOK, Budget
<1>2. ThreadTyped'
  BY <1>1, Parts, LiveAssumption DEF TypeInv, ThreadTyped
<1>3. RepliesTyped' /\ OpenedTyped'
  BY Parts DEF TypeInv, RepliesTyped, OpenedTyped
<1>4. SameFrames
  BY SameInbox DEF TypeInv, webview
<1>5. \A x \in Conns : x # c => Left(x)
  BY DEF TypeInv, TypeOK, Left
<1>6. pc'[c] = "pause" /\ tries'[c] = tries[c] + 1
  BY DEF TypeInv, TypeOK
<1>7. Budget(c)'
  BY <1>1, <1>6 DEF TypeInv, Budget, Named
<1>8. Want(c)' = Want(c) /\ inbox' = inbox
  BY <1>6 DEF Want, webview
<1>9. Tidy(c) => Tidy(c)'
  BY <1>6, <1>8 DEF Tidy, Waiting, InFlight
<1>. QED
  BY <1>2, <1>3, <1>4, <1>5, <1>7, <1>9, OwnStep DEF webview

LEMMA ProbeAnsweredStep == ASSUME TypeInv, NEW c \in Conns, ProbeAnswered(c) PROVE StepOf(c)
<1>1. pc[c] = "probe" /\ rx[c] # Nothing /\ UNCHANGED <<req, opened, current, page, known, session>>
  BY DEF ProbeAnswered
<1>2. at[c] \in Windows /\ Named(c)
  BY <1>1 DEF TypeInv, Budget
<1>3. CASE OwnReply(c) /\ AttachSession(c, at[c]) /\ UNCHANGED <<tries, answer, gaveUp>>
  <2>1. Tidy(c) /\ ~gaveUp[c] => Quiet(c)
    BY <1>1, <1>3, QuietWhenAnswered DEF Tidy, Waiting, Want, OwnReply
  <2>. QED
    BY <1>1, <1>2, <1>3, <2>1, AttachSessionStep
<1>4. CASE /\ pc' = [pc EXCEPT ![c] = "pause"] /\ tries' = [tries EXCEPT ![c] = @ + 1]
           /\ UNCHANGED <<at, seq, slot, rx, answer, gaveUp, inbox>>
  BY <1>1, <1>4, PauseStep DEF webview
<1>5. CASE OwnReply(c) /\ EnsureFails(c) /\ UNCHANGED <<at, seq, tries, rx>>
  BY <1>1, <1>5, EnsureFailsStep
<1>. QED
  BY <1>3, <1>4, <1>5 DEF ProbeAnswered

LEMMA AttachAnsweredStep == ASSUME TypeInv, NEW c \in Conns, AttachAnswered(c) PROVE StepOf(c)
<1>1. /\ pc[c] = "attach" /\ rx[c] # Nothing
      /\ UNCHANGED <<req, seq, tries, page, known, session>>
  BY DEF AttachAnswered
<1>2. at[c] \in Windows /\ Named(c)
  BY <1>1 DEF TypeInv, Budget
<1>3. CASE /\ opened' = [opened EXCEPT ![c][at[c]] = "attached"]
           /\ Proceed(c, at[c]) /\ UNCHANGED gaveUp
  <2>1. Tidy(c) /\ ~gaveUp[c] => Quiet(c)
    BY <1>1, QuietWhenAnswered DEF Tidy, Waiting, InFlight
  <2>2. OpenedTyped'
    BY <1>2, <1>3, Parts DEF TypeInv, OpenedTyped
  <2>. QED
    BY <1>1, <1>2, <1>3, <2>1, <2>2, ProceedStep
<1>4. CASE EnsureFails(c) /\ UNCHANGED <<at, rx, opened, current>>
  BY <1>1, <1>4, EnsureFailsStep
<1>. QED
  BY <1>3, <1>4 DEF AttachAnswered

LEMMA AnsweredStep == ASSUME TypeInv, NEW c \in Conns, Answered(c) PROVE StepOf(c)
<1>1. /\ pc[c] = "await" /\ rx[c] # Nothing /\ pc' = [pc EXCEPT ![c] = "idle"]
      /\ answer' = [answer EXCEPT ![c] = rx[c]]
      /\ UNCHANGED <<req, at, seq, tries, slot, rx, gaveUp, opened, current, webview>>
  BY DEF Answered
<1>2. rx[c] \in Replies /\ SameFrames /\ OpenedTyped'
  BY <1>1, SameInbox, Parts DEF TypeInv, TypeOK, OpenedTyped, webview
<1>3. ThreadTyped' /\ RepliesTyped'
  BY <1>1, <1>2, Parts DEF TypeInv, ThreadTyped, RepliesTyped
<1>4. \A x \in Conns : x # c => Left(x)
  BY <1>1 DEF TypeInv, TypeOK, Left
<1>5. pc'[c] = "idle" /\ answer'[c] = rx[c]
  BY <1>1 DEF TypeInv, TypeOK
<1>6. Budget(c)'
  BY <1>1, <1>5 DEF TypeInv, Budget, Named
<1>7. ASSUME Tidy(c) PROVE Tidy(c)'
  <2>1. CASE gaveUp[c]
    BY <1>1, <2>1 DEF Tidy
  <2>2. CASE ~gaveUp[c]
    <3>1. InFlight(c) /\ rx[c].id = Want(c) /\ Want(c) = req[c].id
      BY <1>1, <1>7, <2>2 DEF Tidy, Waiting, InFlight, Want
    <3>. QED
      BY <1>1, <1>2, <1>5, <3>1, QuietWhenAnswered, TidyEnds, SameFramesLeft DEF Waiting
  <2>. QED
    BY <2>1, <2>2
<1>. QED
  BY <1>1, <1>2, <1>3, <1>4, <1>6, <1>7, OwnStep DEF webview

LEMMA TimeoutStep == ASSUME TypeInv, NEW c \in Conns, Timeout(c) PROVE StepOf(c)
<1>1. /\ SameFrames /\ pc' = [pc EXCEPT ![c] = "closed"] /\ "timeout" \in Codes
      /\ UNCHANGED <<req, at, seq, tries, rx, gaveUp, page, known, session>>
  BY Unregistered DEF Timeout, Unregister, Codes
<1>2. answer' = [answer EXCEPT ![c] = [id |-> req[c].id, code |-> "timeout"]]
  BY DEF Timeout
<1>3. ThreadTyped' /\ OpenedTyped'
  BY <1>1, Parts DEF TypeInv, ThreadTyped, OpenedTyped, Timeout, Unregister
<1>4. RepliesTyped'
  BY <1>1, <1>2, ReplyIs, Parts DEF TypeInv, RepliesTyped, Timeout, Unregister
<1>5. \A x \in Conns : x # c => Left(x)
  BY <1>1, <1>2 DEF TypeInv, TypeOK, Left
<1>6. Budget(c)' /\ Tidy(c)'
  BY <1>1 DEF TypeInv, TypeOK, Budget, Named, Tidy
<1>. QED
  BY <1>1, <1>3, <1>4, <1>5, <1>6, OwnStep

LEMMA WindowGoneStep == ASSUME TypeInv, NEW c \in Conns, WindowGone(c) PROVE StepOf(c)
<1>1. /\ pc[c] = "await" /\ ~Alive(at[c]) /\ Reply(c, "no_document") /\ "no_document" \in Codes
      /\ current' = [current EXCEPT ![c] = NoWindow] /\ slot' = [slot EXCEPT ![c] = FALSE]
      /\ UNCHANGED <<req, at, seq, tries, rx, gaveUp, opened, webview>>
  BY DEF WindowGone, Codes
<1>2. SameFrames /\ OpenedTyped' /\ at[c] \in Windows
  BY <1>1, SameInbox, Parts DEF TypeInv, OpenedTyped, Budget, webview
<1>3. Tidy(c) /\ ~gaveUp[c] => Quiet(c)
  BY <1>1, <1>2, QuietWhenGone DEF Tidy, Waiting
<1>. QED
  BY <1>1, <1>2, <1>3, ReplyIs, AnswerStep DEF Reply, webview

LEMMA ServeStep == ASSUME TypeInv, NEW c \in Conns, Serve(c) PROVE StepOf(c)
<1>1. CASE RouteCurrent(c) \/ RouteNamed(c)
  BY <1>1, RouteCurrentStep, RouteNamedStep
<1>2. CASE ProbeAnswered(c)
  BY <1>2, ProbeAnsweredStep
<1>3. CASE ProbeTimeout(c)
  BY <1>3, PauseStep DEF ProbeTimeout
<1>4. CASE ProbeGone(c)
  BY <1>4, EnsureFailsStep DEF ProbeGone
<1>5. CASE ProbeAgain(c)
  BY <1>5, ProbeAgainStep
<1>6. CASE ProbeDeadline(c)
  BY <1>6, EnsureFailsStep DEF ProbeDeadline
<1>7. CASE AttachAnswered(c)
  BY <1>7, AttachAnsweredStep
<1>8. CASE AttachFails(c)
  BY <1>8, EnsureFailsStep DEF AttachFails
<1>9. CASE Answered(c) \/ Timeout(c) \/ WindowGone(c)
  BY <1>9, AnsweredStep, TimeoutStep, WindowGoneStep
<1>. QED
  BY <1>1, <1>2, <1>3, <1>4, <1>5, <1>6, <1>7, <1>8, <1>9 DEF Serve

-----------------------------------------------------------------------------
(* Steps of a window                                                       *)

PageStep == TypeOK' /\ GoneIsEmpty' /\ \A c \in Conns : Budget(c)' /\ (Tidy(c) => Tidy(c)')

LEMMA PageBootsStep == ASSUME TypeInv, NEW w \in Windows, PageBoots(w) PROVE PageStep
<1>1. /\ page' = [page EXCEPT ![w] = "loading"] \/ page' = [page EXCEPT ![w] = "ready"]
      /\ UNCHANGED <<thread, inbox, known, session>>
  BY DEF PageBoots
<1>2. TypeOK'
  BY <1>1, Parts, PartsNext
     DEF TypeInv, thread, ThreadTyped, RepliesTyped, OpenedTyped, QueuesTyped, PagesTyped
<1>3. GoneIsEmpty'
  BY <1>1 DEF TypeInv, TypeOK, GoneIsEmpty
<1>4. ASSUME NEW c \in Conns PROVE Left(c) /\ FramesLeft(c)
  BY <1>1 DEF Left, FramesLeft, thread
<1>. QED
  BY <1>2, <1>3, <1>4, LeftTidy DEF PageStep, TypeInv

LEMMA PageClosesStep == ASSUME TypeInv, NEW w \in Windows, PageCloses(w) PROVE PageStep
<1>1. /\ page' = [page EXCEPT ![w] = "gone"] /\ inbox' = [inbox EXCEPT ![w] = <<>>]
      /\ known' = [known EXCEPT ![w] = {}]
      /\ session' = [session EXCEPT ![w] = [c \in Conns |-> "none"]]
      /\ UNCHANGED <<pc, req, at, seq, tries, slot, rx, answer, gaveUp, opened, current>>
  BY DEF PageCloses, thread
<1>2. TypeOK'
  <2>1. ThreadTyped' /\ RepliesTyped' /\ OpenedTyped'
    BY <1>1, Parts DEF TypeInv, ThreadTyped, RepliesTyped, OpenedTyped
  <2>2. QueuesTyped'
    BY <1>1, Parts, EmptySeq DEF TypeInv, QueuesTyped
  <2>3. PagesTyped'
    BY <1>1, Parts DEF TypeInv, PagesTyped
  <2>. QED
    BY <2>1, <2>2, <2>3, PartsNext
<1>3. inbox'[w] = <<>> /\ \A v \in Windows : v # w => inbox'[v] = inbox[v] /\ page'[v] = page[v]
  BY <1>1 DEF TypeInv, TypeOK
<1>4. GoneIsEmpty'
  BY <1>3 DEF TypeInv, GoneIsEmpty
<1>5. ASSUME NEW c \in Conns PROVE Budget(c)'
  BY <1>1 DEF TypeInv, Budget, Named
<1>6. ASSUME NEW c \in Conns, Tidy(c) PROVE Tidy(c)'
  <2>1. Ids(inbox'[w], c) = {} /\ Sorted(inbox'[w], c)
    BY <1>3, EmptyQueue
  <2>2. Quiet(c) => Quiet(c)'
    BY <1>3, <2>1 DEF Quiet
  <2>3. Want(c)' = Want(c)
    BY <1>1 DEF Want
  <2>4. pc[c] \in Waiting => at[c] \in Windows
    BY DEF TypeInv, Budget, Waiting
  <2>5. pc[c] \in Waiting /\ InFlight(c) => InFlight(c)'
    BY <1>1, <1>3, <2>1, <2>3, <2>4 DEF InFlight
  <2>. QED
    BY <1>1, <1>6, <2>2, <2>5 DEF Tidy
<1>. QED
  BY <1>2, <1>4, <1>5, <1>6 DEF PageStep

\* An announcement or an end of a session is handled.
LEMMA HandleEventStep ==
  ASSUME TypeInv, NEW w \in Windows, HandleOpen(w) \/ HandleClose(w)
  PROVE  PageStep
<1>. DEFINE e == Head(inbox[w])
<1>1. /\ inbox[w] # <<>> /\ e.kind \in {"open", "close"}
      /\ inbox' = [inbox EXCEPT ![w] = Tail(inbox[w])]
      /\ UNCHANGED <<page, pc, req, at, seq, tries, slot, rx, answer, gaveUp, opened, current>>
  BY DEF HandleOpen, HandleClose, thread
<1>2. inbox[w] \in Seq(Events)
  BY DEF TypeInv, TypeOK
<1>3. /\ e \in Events /\ Tail(inbox[w]) \in Seq(Events) /\ \A c : ~IsFrame(e, c)
  BY <1>1, <1>2, Taken DEF IsFrame, Frames, Hellos
<1>. HIDE DEF e
<1>4. e.conn \in Conns
  BY <1>3 DEF Events
<1>5. TypeOK'
  <2>1. ThreadTyped' /\ RepliesTyped' /\ OpenedTyped'
    BY <1>1, Parts DEF TypeInv, ThreadTyped, RepliesTyped, OpenedTyped
  <2>2. QueuesTyped'
    BY <1>1, <1>3, Parts DEF TypeInv, QueuesTyped
  <2>3. PagesTyped'
    <3>1. CASE HandleOpen(w)
      BY <1>4, <3>1, Parts DEF TypeInv, PagesTyped, HandleOpen, e
    <3>2. CASE HandleClose(w)
      BY <1>4, <3>2, Parts DEF TypeInv, PagesTyped, HandleClose, e
    <3>. QED
      BY <3>1, <3>2
  <2>. QED
    BY <2>1, <2>2, <2>3, PartsNext
<1>6. inbox'[w] = Tail(inbox[w]) /\ \A v \in Windows : v # w => inbox'[v] = inbox[v]
  BY <1>1 DEF TypeInv, TypeOK
<1>7. GoneIsEmpty'
  BY <1>1, <1>6 DEF TypeInv, GoneIsEmpty
<1>8. ASSUME NEW c \in Conns PROVE Left(c) /\ FramesLeft(c)
  <2>1. /\ Ids(Tail(inbox[w]), c) = Ids(inbox[w], c)
        /\ Sorted(inbox[w], c) => Sorted(Tail(inbox[w]), c)
    BY <1>1, <1>2, <1>3, Taken DEF e
  <2>. QED
    BY <1>1, <1>6, <2>1 DEF Left, FramesLeft
<1>. QED
  BY <1>5, <1>7, <1>8, LeftTidy DEF PageStep, TypeInv

SessionStates == {"none", "fresh", "hello", "attached"}

LEMMA Dispatched ==
  ASSUME NEW s \in SessionStates, NEW k \in Frames
  PROVE  AfterFrame(s, k) \in SessionStates /\ CodeOf(s, k) \in Codes
BY DEF SessionStates, Frames, Hellos, AfterFrame, CodeOf, Codes

\* A frame is handled and, perhaps, its reply taken by the wait of its connection.
LEMMA HandleFrameStep == ASSUME TypeInv, NEW w \in Windows, HandleFrame(w) PROVE PageStep
<1>. DEFINE e == Head(inbox[w])
<1>1. /\ inbox[w] # <<>> /\ e.kind \in Frames
      /\ inbox' = [inbox EXCEPT ![w] = Tail(inbox[w])]
      /\ UNCHANGED <<pc, req, at, seq, tries, answer, gaveUp, opened, current, page, known>>
  BY DEF HandleFrame, Frames, Hellos
<1>2. inbox[w] \in Seq(Events)
  BY DEF TypeInv, TypeOK
<1>3. e \in Events /\ Tail(inbox[w]) \in Seq(Events)
  BY <1>1, <1>2, Taken
<1>4. e.conn \in Conns /\ e.id \in 0 .. MaxFrames
  BY <1>3 DEF Events
<1>5. PICK r \in Replies, b \in BOOLEAN, t \in SessionStates :
        /\ r.id = e.id /\ slot' = [slot EXCEPT ![e.conn] = b]
        /\ rx' = rx \/ rx' = [rx EXCEPT ![e.conn] = r]
        /\ session' = [session EXCEPT ![w][e.conn] = t]
  <2>. DEFINE s == session[w][e.conn]
              up == page[w] = "ready"
              code == IF up THEN CodeOf(s, e.kind) ELSE "not_ready"
              reaches == e.conn \in known[w] /\ slot[e.conn]
              r == [id |-> e.id, code |-> code]
              t == IF e.conn \in known[w] /\ up THEN AfterFrame(s, e.kind) ELSE s
  <2>1. s \in SessionStates
    BY <1>4, Parts DEF TypeInv, PagesTyped, SessionStates
  <2>2. t \in SessionStates /\ code \in Codes
    BY <1>1, <2>1, Dispatched DEF Codes
  <2>3. r \in Replies /\ r.id = e.id
    BY <1>4, <2>2 DEF Replies
  <2>4. session' = [session EXCEPT ![w][e.conn] = t]
    BY DEF HandleFrame
  <2>5. rx' = [rx EXCEPT ![e.conn] = IF reaches THEN r ELSE rx[e.conn]]
    BY DEF HandleFrame
  <2>6. slot' = [slot EXCEPT ![e.conn] = slot[e.conn] /\ ~reaches]
    BY DEF HandleFrame
  <2>7. (slot[e.conn] /\ ~reaches) \in BOOLEAN
    OBVIOUS
  <2>8. rx' = rx \/ rx' = [rx EXCEPT ![e.conn] = r]
    BY <1>4, <2>5, Parts DEF TypeInv, RepliesTyped
  <2>. HIDE DEF e, s, code, reaches, r, t
  <2>. QED
    BY <2>2, <2>3, <2>4, <2>6, <2>7, <2>8
<1>. HIDE DEF e
<1>6. TypeOK'
  <2>1. ThreadTyped' /\ OpenedTyped'
    BY <1>1, Parts DEF TypeInv, ThreadTyped, OpenedTyped
  <2>2. QueuesTyped'
    BY <1>1, <1>3, Parts DEF TypeInv, QueuesTyped
  <2>3. RepliesTyped'
    BY <1>1, <1>4, <1>5, Parts DEF TypeInv, RepliesTyped
  <2>4. PagesTyped'
    BY <1>1, <1>4, <1>5, Parts DEF TypeInv, PagesTyped, SessionStates
  <2>. QED
    BY <2>1, <2>2, <2>3, <2>4, PartsNext
<1>7. inbox'[w] = Tail(inbox[w]) /\ \A v \in Windows : v # w => inbox'[v] = inbox[v]
  BY <1>1 DEF TypeInv, TypeOK
<1>8. GoneIsEmpty'
  BY <1>1, <1>7 DEF TypeInv, GoneIsEmpty
<1>9. ASSUME NEW c \in Conns, c # e.conn PROVE Left(c) /\ FramesLeft(c)
  <2>1. ~IsFrame(e, c)
    BY <1>9 DEF IsFrame
  <2>2. /\ Ids(Tail(inbox[w]), c) = Ids(inbox[w], c)
        /\ Sorted(inbox[w], c) => Sorted(Tail(inbox[w]), c)
    BY <1>1, <1>2, <2>1, Taken DEF e
  <2>3. rx'[c] = rx[c]
    BY <1>5, <1>9 DEF TypeInv, TypeOK
  <2>. QED
    BY <1>1, <1>7, <2>2, <2>3 DEF Left, FramesLeft
<1>10. ASSUME NEW c \in Conns, c = e.conn PROVE Budget(c)' /\ (Tidy(c) => Tidy(c)')
  <2>1. Budget(c)'
    BY <1>1 DEF TypeInv, Budget, Named
  <2>2. /\ IsFrame(e, c) /\ e.id \in Ids(inbox[w], c)
        /\ Ids(inbox'[w], c) \subseteq Ids(inbox[w], c)
        /\ Sorted(inbox[w], c) => /\ Sorted(inbox'[w], c)
                                  /\ Below({e.id}, Ids(inbox'[w], c))
    <3>1. IsFrame(e, c)
      BY <1>1, <1>10 DEF IsFrame, Frames, Hellos
    <3>2. /\ Head(inbox[w]).id \in Ids(inbox[w], c)
          /\ Ids(Tail(inbox[w]), c) \subseteq Ids(inbox[w], c)
          /\ Sorted(inbox[w], c) => /\ Sorted(Tail(inbox[w]), c)
                                    /\ Below({Head(inbox[w]).id}, Ids(Tail(inbox[w]), c))
      BY <1>1, <1>2, <3>1, Taken DEF e
    <3>. QED
      BY <1>7, <3>1, <3>2 DEF e
  <2>3. rx'[c] = rx[c] \/ rx'[c].id = e.id
    BY <1>4, <1>5, <1>10 DEF TypeInv, TypeOK
  <2>4. ~Quiet(c)
    BY <2>2 DEF Quiet
  <2>5. Want(c)' = Want(c)
    BY <1>1 DEF Want
  <2>6. ASSUME pc[c] \in Waiting, InFlight(c) PROVE InFlight(c)'
    <3>1. at[c] = w
      BY <2>2, <2>6 DEF InFlight
    <3>2. Ids(inbox[w], c) \subseteq 1 .. Want(c) /\ Sorted(inbox[w], c)
      BY <2>6, <3>1 DEF InFlight
    <3>3. e.id \in 1 .. Want(c) /\ Want(c) \in Nat
      <4>1. Want(c) \in Nat
        BY DEF Want, TypeInv, TypeOK, Requests
      <4>. QED
        BY <2>2, <3>2, <4>1
    <3>4. e.id = Want(c) => Ids(inbox'[w], c) = {}
      BY <2>2, <3>2, <3>3 DEF Below
    <3>5. \A v \in Windows : v # w => Ids(inbox'[v], c) = {}
      BY <1>7, <2>6, <3>1 DEF InFlight
    <3>6. rx[c].id = Want(c) => Ids(inbox'[w], c) = {}
      BY <2>2, <2>6, <3>1 DEF InFlight
    <3>7. rx'[c].id \in 0 .. Want(c) /\ (rx'[c].id = 0 => rx'[c] = Nothing)
      BY <2>3, <2>6, <3>3 DEF InFlight
    <3>8. pc[c] \in {"attach", "await"} =>
            Ids(inbox'[w], c) \subseteq {Want(c)} /\ rx'[c].id \in {0, Want(c)}
      BY <2>2, <2>3, <2>6, <3>1 DEF InFlight
    <3>9. rx'[c].id = Want(c) => Ids(inbox'[w], c) = {}
      BY <2>3, <3>4, <3>6
    <3>. QED
      BY <1>1, <2>2, <2>5, <3>1, <3>2, <3>5, <3>7, <3>8, <3>9 DEF InFlight
  <2>. QED
    BY <1>1, <2>1, <2>4, <2>6 DEF Tidy
<1>11. \A c \in Conns : Budget(c)' /\ (Tidy(c) => Tidy(c)')
  BY <1>9, <1>10, LeftTidy DEF TypeInv
<1>. QED
  BY <1>6, <1>8, <1>11 DEF PageStep

-----------------------------------------------------------------------------
(* The theorems                                                            *)

Inv == TypeInv /\ \A c \in Conns : Tidy(c)

LEMMA InvStep == Inv /\ [Next]_vars => Inv'
<1>. SUFFICES ASSUME Inv, [Next]_vars PROVE Inv'
  OBVIOUS
<1>1. ASSUME NEW c \in Conns, StepOf(c) PROVE Inv'
  <2>1. \A x \in Conns : x # c => Budget(x)' /\ Tidy(x)'
    BY <1>1, LeftTidy DEF StepOf, Inv, TypeInv
  <2>. QED
    BY <1>1, <2>1 DEF StepOf, Inv, TypeInv
<1>2. ASSUME NEW c \in Conns, Accept(c) \/ Request(c) \/ Disconnect(c) \/ Serve(c)
      PROVE  Inv'
  BY <1>1, <1>2, AcceptStep, RequestStep, DisconnectStep, ServeStep DEF Inv
<1>3. ASSUME PageStep PROVE Inv'
  BY <1>3 DEF PageStep, Inv, TypeInv
<1>4. ASSUME NEW w \in Windows, PageBoots(w) \/ PageCloses(w) \/ Handle(w) PROVE Inv'
  BY <1>3, <1>4, PageBootsStep, PageClosesStep, HandleEventStep, HandleFrameStep DEF Handle, Inv
<1>5. CASE UNCHANGED vars
  <2>1. /\ page' = page /\ inbox' = inbox /\ known' = known /\ session' = session
        /\ UNCHANGED <<pc, req, at, seq, tries, slot, rx, answer, gaveUp, opened, current>>
    BY <1>5 DEF vars, thread, webview
  <2>2. \A c \in Conns : Left(c) /\ FramesLeft(c)
    BY <2>1 DEF Left, FramesLeft
  <2>3. TypeOK' /\ GoneIsEmpty'
    BY <2>1 DEF Inv, TypeInv, TypeOK, GoneIsEmpty
  <2>. QED
    BY <2>2, <2>3, LeftTidy DEF Inv, TypeInv
<1>. QED
  BY <1>2, <1>4, <1>5 DEF Next

LEMMA Invariance == Spec => []Inv
<1>1. Init => Inv
  BY TidyInit DEF Inv
<1>. QED
  BY <1>1, InvStep, PTL DEF Spec

\* Types, and with them the ids: ensure_session never asks for one beyond those
\* that its request left it.
THEOREM TypeCorrect == Spec => []TypeOK
<1>1. Inv => TypeOK
  BY DEF Inv, TypeInv
<1>. QED
  BY <1>1, Invariance, PTL

\* Replies are matched by connection only, and still the client never reads the
\* reply to another request, however late windows handle probes and frames, as
\* long as no ensure_session gave up on a window that lives.
THEOREM AnswersMatch == Spec => []RightAnswer
<1>1. Inv => RightAnswer
  BY DEF Inv, Tidy, RightAnswer
<1>. QED
  BY <1>1, Invariance, PTL

-----------------------------------------------------------------------------
(* What the shell believes of the sessions, and the ends it owes           *)

HasKind(s, c, k) == \E i \in 1 .. Len(s) : s[i].conn = c /\ s[i].kind = k

\* A close of c is queued with no announcement behind it.
EndIsLast(s, c) ==
  \E i \in 1 .. Len(s) :
    /\ s[i] = Event("close", c, 0)
    /\ \A j \in 1 .. Len(s) : j > i => ~(s[j].conn = c /\ s[j].kind = "open")

LEMMA EmptyHasNone == \A c, k : ~HasKind(<<>>, c, k)
BY DEF HasKind

LEMMA KindQueued ==
  ASSUME NEW c, NEW s \in Seq(Events), NEW t \in Seq(Events)
  PROVE  /\ \A k : HasKind(s \o t, c, k) <=> HasKind(s, c, k) \/ HasKind(t, c, k)
         /\ EndIsLast(s, c) /\ ~HasKind(t, c, "open") => EndIsLast(s \o t, c)
         /\ EndIsLast(t, c) => EndIsLast(s \o t, c)
<1>. DEFINE u == s \o t
            m == Len(s)
            n == Len(t)
<1>1. /\ m \in Nat /\ n \in Nat /\ Len(u) = m + n
      /\ \A i \in 1 .. m : u[i] = s[i]
      /\ \A i \in 1 .. n : u[m + i] = t[i]
  OBVIOUS
<1>. HIDE DEF u, m, n
<1>2. /\ \A i \in 1 .. m : i \in 1 .. Len(u)
      /\ \A i \in 1 .. n : m + i \in 1 .. Len(u)
      /\ \A i \in 1 .. Len(u) : i \in 1 .. m \/ (i - m \in 1 .. n /\ u[i] = t[i - m])
  <2>1. \A i \in 1 .. Len(u) : i \in 1 .. m \/ (i - m \in 1 .. n /\ m + (i - m) = i)
    BY <1>1
  <2>. QED
    BY <1>1, <2>1
<1>3. \A k : HasKind(u, c, k) <=> HasKind(s, c, k) \/ HasKind(t, c, k)
  BY <1>1, <1>2 DEF HasKind, m, n
<1>4. ASSUME EndIsLast(s, c), ~HasKind(t, c, "open") PROVE EndIsLast(u, c)
  <2>1. PICK i \in 1 .. m :
          /\ s[i] = Event("close", c, 0)
          /\ \A j \in 1 .. m : j > i => ~(s[j].conn = c /\ s[j].kind = "open")
    BY <1>4 DEF EndIsLast, m
  <2>2. \A j \in 1 .. Len(u) : j > i => ~(u[j].conn = c /\ u[j].kind = "open")
    BY <1>1, <1>2, <1>4, <2>1 DEF HasKind, n
  <2>. QED
    BY <1>1, <1>2, <2>1, <2>2 DEF EndIsLast
<1>5. ASSUME EndIsLast(t, c) PROVE EndIsLast(u, c)
  <2>1. PICK i \in 1 .. n :
          /\ t[i] = Event("close", c, 0)
          /\ \A j \in 1 .. n : j > i => ~(t[j].conn = c /\ t[j].kind = "open")
    BY <1>5 DEF EndIsLast, n
  <2>2. \A j \in 1 .. Len(u) : j > m + i => j - m > i /\ j \notin 1 .. m
    BY <1>1
  <2>3. \A j \in 1 .. Len(u) : j > m + i => ~(u[j].conn = c /\ u[j].kind = "open")
    BY <1>2, <2>1, <2>2
  <2>4. m + i \in 1 .. Len(u) /\ u[m + i] = Event("close", c, 0)
    BY <1>1, <1>2, <2>1
  <2>. QED
    BY <2>3, <2>4 DEF EndIsLast
<1>. QED
  BY <1>3, <1>4, <1>5 DEF u

LEMMA KindTaken ==
  ASSUME NEW c, NEW s \in Seq(Events), s # <<>>
  PROVE  /\ \A k : HasKind(s, c, k) <=>
                     HasKind(Tail(s), c, k) \/ (Head(s).conn = c /\ Head(s).kind = k)
         /\ EndIsLast(s, c) =>
              \/ EndIsLast(Tail(s), c)
              \/ /\ Head(s).conn = c /\ Head(s).kind = "close"
                 /\ ~HasKind(Tail(s), c, "open")
<1>. DEFINE t == Tail(s)
            n == Len(s)
<1>1. /\ n \in Nat /\ n >= 1 /\ Len(t) = n - 1 /\ Head(s) = s[1]
      /\ \A i \in 1 .. Len(t) : t[i] = s[i + 1]
  BY HeadTailProperties, EmptySeq
<1>. HIDE DEF t, n
<1>2. /\ \A i \in 1 .. n : i = 1 \/ (i - 1 \in 1 .. Len(t) /\ t[i - 1] = s[i])
      /\ \A i \in 1 .. Len(t) : i + 1 \in 1 .. n
      /\ 1 \in 1 .. n
  <2>1. \A i \in 1 .. n : i = 1 \/ (i - 1 \in 1 .. Len(t) /\ (i - 1) + 1 = i)
    BY <1>1
  <2>. QED
    BY <1>1, <2>1
<1>3. \A k : HasKind(s, c, k) <=> HasKind(t, c, k) \/ (Head(s).conn = c /\ Head(s).kind = k)
  BY <1>1, <1>2 DEF HasKind, n
<1>4. ASSUME EndIsLast(s, c)
      PROVE  \/ EndIsLast(t, c)
             \/ Head(s).conn = c /\ Head(s).kind = "close" /\ ~HasKind(t, c, "open")
  <2>1. PICK i \in 1 .. n :
          /\ s[i] = Event("close", c, 0)
          /\ \A j \in 1 .. n : j > i => ~(s[j].conn = c /\ s[j].kind = "open")
    BY <1>4 DEF EndIsLast, n
  <2>2. \A j \in 1 .. Len(t) : j > i - 1 => ~(t[j].conn = c /\ t[j].kind = "open")
    <3>1. \A j \in 1 .. Len(t) : j > i - 1 => j + 1 > i
      BY <1>1
    <3>. QED
      BY <1>1, <1>2, <2>1, <3>1
  <2>3. CASE i = 1
    <3>1. \A j \in 1 .. Len(t) : j > i - 1
      BY <1>1, <2>3
    <3>2. Head(s).conn = c /\ Head(s).kind = "close"
      BY <1>1, <2>1, <2>3 DEF Event
    <3>. QED
      BY <2>2, <3>1, <3>2 DEF HasKind
  <2>4. CASE i # 1
    <3>1. i - 1 \in 1 .. Len(t) /\ t[i - 1] = Event("close", c, 0)
      BY <1>2, <2>1, <2>4
    <3>. QED
      BY <2>2, <3>1 DEF EndIsLast
  <2>. QED
    BY <2>3, <2>4
<1>. QED
  BY <1>3, <1>4 DEF t

LEMMA KindOfOne ==
  ASSUME NEW c, NEW k
  PROVE  /\ \A x, l : HasKind(<<Event(k, c, 0)>>, x, l) <=> x = c /\ l = k
         /\ k = "close" => EndIsLast(<<Event(k, c, 0)>>, c)
BY DEF HasKind, EndIsLast, Event

LEMMA KindOfFrame ==
  ASSUME NEW c, NEW k, NEW n
  PROVE  \A x, l : HasKind(<<Event(k, c, n)>>, x, l) <=> x = c /\ l = k
BY DEF HasKind, Event

LEMMA NoneIsNoKind ==
  ASSUME NEW c, NEW s \in Seq(Events), NEW k \in Frames, Ids(s, c) = {}
  PROVE  ~HasKind(s, c, k)
<1>1. \A i \in 1 .. Len(s) : s[i].id \in 0 .. MaxFrames
  <2>1. \A i \in 1 .. Len(s) : s[i] \in Events
    OBVIOUS
  <2>. QED
    BY <2>1 DEF Events
<1>2. \A i \in 1 .. Len(s) : ~IsFrame(s[i], c)
  BY <1>1 DEF Ids
<1>. QED
  BY <1>2 DEF HasKind, IsFrame, Frames, Hellos

PagesAgree ==
  \A w \in Windows :
    /\ page[w] \in {"booting", "gone"} => inbox[w] = <<>> /\ known[w] = {}
    /\ \A c \in Conns : session[w][c] # "none" => c \in known[w]

Served(c, w) == session[w][c] = "attached" \/ page[w] = "gone"

OnlyKind(s, c, k) == \A l \in Frames \ {k} : ~HasKind(s, c, l)

\* No end of a session is on its way; the reply to an attach that says so is
\* from a window that did it, and so is what a named request finds.
Trusted(c) ==
  /\ \A w \in Windows : ~HasKind(inbox[w], c, "close")
  /\ \A w \in Windows : opened[c][w] = "attached" => Served(c, w)
  /\ pc[c] = "attach" =>
       /\ OnlyKind(inbox[at[c]], c, "attach")
       /\ rx[c].id = seq[c] /\ rx[c].code = "ok" => Served(c, at[c])
  /\ pc[c] = "await" /\ req[c].kind = "callAt" =>
       /\ opened[c][at[c]] = "attached" /\ rx[c].code # "no_document"
       /\ OnlyKind(inbox[at[c]], c, "call")

Believed(c) ==
  /\ pc[c] = "closed" => \A w \in Windows : opened[c][w] = "absent"
  /\ pc[c] = "closed" \/ gaveUp[c] \/ Trusted(c)

Ensuring == {"probe", "pause", "attach"}

\* ensure_session is at work on w, or has done it.
Exempt(c, w) == opened[c][w] # "absent" \/ (pc[c] \in Ensuring /\ at[c] = w)

Owed(c) ==
  \A w \in Windows :
    \/ Exempt(c, w)
    \/ c \in known[w] \/ HasKind(inbox[w], c, "open") => EndIsLast(inbox[w], c)

Sound(c) == Believed(c) /\ Owed(c)

\* For x the queues say what they said.
Untouched(x) ==
  \A v \in Windows :
    /\ \A k : HasKind(inbox'[v], x, k) <=> HasKind(inbox[v], x, k)
    /\ EndIsLast(inbox[v], x) => EndIsLast(inbox'[v], x)

LEMMA LeftSound ==
  ASSUME TypeInv, NEW x \in Conns, Left(x), opened'[x] = opened[x], Untouched(x),
         UNCHANGED <<page, known, session>>, Sound(x)
  PROVE  Sound(x)'
<1>1. pc[x] \in {"attach", "await"} => at[x] \in Windows
  BY DEF TypeInv, Budget
<1>2. \A w \in Windows : Served(x, w)' <=> Served(x, w)
  BY DEF Served
<1>3. \A w \in Windows : \A k : OnlyKind(inbox[w], x, k) => OnlyKind(inbox'[w], x, k)
  BY DEF OnlyKind, Untouched
<1>4. Trusted(x) => Trusted(x)'
  BY <1>1, <1>2, <1>3 DEF Trusted, Left, Untouched
<1>5. Believed(x)'
  BY <1>4 DEF Sound, Believed, Left
<1>6. Owed(x)'
  BY DEF Sound, Owed, Exempt, Left, Untouched
<1>. QED
  BY <1>5, <1>6 DEF Sound

LEMMA EmitKinds ==
  ASSUME TypeOK, NEW w \in Windows, NEW es \in Seq(Events), NEW x
  PROVE  /\ \A k : /\ HasKind(inbox[w], x, k) => HasKind(Emitted(w, es), x, k)
                   /\ HasKind(Emitted(w, es), x, k) =>
                        HasKind(inbox[w], x, k) \/ HasKind(es, x, k)
         /\ EndIsLast(inbox[w], x) /\ ~HasKind(es, x, "open") => EndIsLast(Emitted(w, es), x)
         /\ EndIsLast(es, x) /\ page[w] \notin {"booting", "gone"} => EndIsLast(Emitted(w, es), x)
         /\ page[w] \in {"booting", "gone"} => Emitted(w, es) = inbox[w]
<1>1. inbox[w] \in Seq(Events) /\ page[w] \in {"booting", "loading", "ready", "gone"}
  BY DEF TypeOK
<1>2. /\ \A k : HasKind(inbox[w] \o es, x, k) <=> HasKind(inbox[w], x, k) \/ HasKind(es, x, k)
      /\ EndIsLast(inbox[w], x) /\ ~HasKind(es, x, "open") => EndIsLast(inbox[w] \o es, x)
      /\ EndIsLast(es, x) => EndIsLast(inbox[w] \o es, x)
  BY <1>1, KindQueued
<1>. QED
  BY <1>1, <1>2 DEF Emitted

\* One event of c without an id goes to some of the windows.
LEMMA OpenCloseKinds ==
  ASSUME TypeInv, PagesAgree, NEW c \in Conns, NEW k \in {"open", "close"},
         \A v \in Windows : inbox'[v] \in {inbox[v], Emitted(v, <<Event(k, c, 0)>>)},
         UNCHANGED <<page, known, session>>
  PROVE  /\ PagesAgree' /\ \A x \in Conns : x # c => Untouched(x)
         /\ \A v \in Windows : \A l :
              l # k => (HasKind(inbox'[v], c, l) <=> HasKind(inbox[v], c, l))
<1>. DEFINE es == <<Event(k, c, 0)>>
<1>1. es \in Seq(Events)
  BY EmitOpenClose, OneEvent
<1>2. \A x, l : HasKind(es, x, l) <=> x = c /\ l = k
  BY KindOfOne
<1>. HIDE DEF es
<1>3. \A v \in Windows : inbox'[v] = inbox[v] \/ inbox'[v] = Emitted(v, es)
  BY DEF es
<1>4. PagesAgree'
  BY <1>1, <1>3, EmitKinds DEF PagesAgree, TypeInv
<1>5. ASSUME NEW x, NEW v \in Windows
      PROVE  /\ \A l : x # c \/ l # k => (HasKind(inbox'[v], x, l) <=> HasKind(inbox[v], x, l))
             /\ x # c /\ EndIsLast(inbox[v], x) => EndIsLast(inbox'[v], x)
  <2>1. CASE inbox'[v] = inbox[v]
    BY <2>1
  <2>2. CASE inbox'[v] = Emitted(v, es)
    <3>1. /\ \A l : /\ HasKind(inbox[v], x, l) => HasKind(Emitted(v, es), x, l)
                    /\ HasKind(Emitted(v, es), x, l) =>
                         HasKind(inbox[v], x, l) \/ HasKind(es, x, l)
          /\ EndIsLast(inbox[v], x) /\ ~HasKind(es, x, "open") => EndIsLast(Emitted(v, es), x)
      BY <1>1, EmitKinds DEF TypeInv
    <3>2. \A l : HasKind(es, x, l) => x = c /\ l = k
      BY <1>2
    <3>. QED
      BY <2>2, <3>1, <3>2
  <2>. QED
    BY <1>3, <2>1, <2>2
<1>. QED
  BY <1>4, <1>5 DEF Untouched

\* The kinds of events of c in the queue of w after it sent a frame of kind k.
Gained(c, w, k, before) ==
  \A l : HasKind(inbox'[w], c, l) =>
         HasKind(inbox[w], c, l) \/ l = k \/ (l = "open" /\ before # <<>>)

Announced(before, c) == before \in {<<>>, <<Event("open", c, 0)>>}

LEMMA SendKinds ==
  ASSUME TypeInv, PagesAgree, NEW c \in Conns, NEW w \in Windows, NEW n \in 0 .. MaxFrames,
         NEW k \in Frames, NEW before, Announced(before, c), NEW p,
         SendAndAwait(c, w, p, before, Event(k, c, n)),
         UNCHANGED <<page, known, session>>
  PROVE  /\ PagesAgree' /\ \A x \in Conns : x # c => Untouched(x)
         /\ \A v \in Windows : v # w => inbox'[v] = inbox[v]
         /\ Gained(c, w, k, before)
         /\ before = <<>> /\ EndIsLast(inbox[w], c) => EndIsLast(inbox'[w], c)
<1>. DEFINE e == Event(k, c, n)
            o == Event("open", c, 0)
            es == before \o <<e>>
<1>0. before \in {<<>>, <<o>>}
  BY DEF Announced
<1>1. e \in Events /\ o \in Events
  BY EmitFrame, EmitOpenClose
<1>2. <<e>> \in Seq(Events) /\ <<o>> \in Seq(Events) /\ <<>> \in Seq(Events)
  BY <1>1, OneEvent, EmptySeq
<1>3. \A x, l : HasKind(<<e>>, x, l) <=> x = c /\ l = k
  BY KindOfFrame
<1>4. \A x, l : HasKind(before, x, l) => x = c /\ l = "open" /\ before # <<>>
  <2>3. \A x, l : HasKind(<<o>>, x, l) <=> x = c /\ l = "open"
    BY KindOfOne
  <2>. HIDE DEF o
  <2>. TAKE x, l
  <2>1. CASE before = <<>>
    BY <2>1, EmptyHasNone
  <2>2. CASE before = <<o>>
    <3>1. before # <<>>
      BY <2>2
    <3>. QED
      BY <2>2, <2>3, <3>1
  <2>. QED
    BY <1>0, <2>1, <2>2 DEF o
<1>. HIDE DEF e, o
<1>5. before \in Seq(Events)
  BY <1>0, <1>2 DEF o
<1>6. es \in Seq(Events)
  BY <1>2, <1>5, KindQueued, ConcatProperties
<1>7. \A x, l : HasKind(es, x, l) => x = c /\ (l = k \/ (l = "open" /\ before # <<>>))
  <2>. TAKE x, l
  <2>1. HasKind(es, x, l) <=> HasKind(before, x, l) \/ HasKind(<<e>>, x, l)
    BY <1>2, <1>5, KindQueued
  <2>. QED
    BY <1>3, <1>4, <2>1
<1>8. inbox' = [inbox EXCEPT ![w] = Emitted(w, es)] /\ inbox \in [Windows -> Seq(Events)]
  BY DEF e, SendAndAwait, TypeInv, TypeOK
<1>. HIDE DEF es
<1>9. inbox'[w] = Emitted(w, es) /\ \A v \in Windows : v # w => inbox'[v] = inbox[v]
  BY <1>8
<1>10. PagesAgree'
  BY <1>6, <1>9, EmitKinds DEF PagesAgree, TypeInv
<1>11. k # "open"
  BY DEF Frames, Hellos
<1>12. ASSUME NEW x \in Conns, x # c PROVE Untouched(x)
  <2>1. /\ \A l : HasKind(inbox'[w], x, l) <=> HasKind(inbox[w], x, l)
        /\ EndIsLast(inbox[w], x) => EndIsLast(inbox'[w], x)
    BY <1>6, <1>7, <1>9, <1>12, EmitKinds DEF TypeInv
  <2>. QED
    BY <1>9, <2>1 DEF Untouched
<1>13. /\ \A l : HasKind(inbox'[w], c, l) =>
              HasKind(inbox[w], c, l) \/ l = k \/ (l = "open" /\ before # <<>>)
       /\ before = <<>> /\ EndIsLast(inbox[w], c) => EndIsLast(inbox'[w], c)
  <2>1. \A l : HasKind(inbox'[w], c, l) => HasKind(inbox[w], c, l) \/ HasKind(es, c, l)
    <3>1. \A l : HasKind(Emitted(w, es), c, l) => HasKind(inbox[w], c, l) \/ HasKind(es, c, l)
      BY <1>6, EmitKinds DEF TypeInv
    <3>. QED
      BY <1>9, <3>1
  <2>2. before = <<>> => ~HasKind(es, c, "open")
    BY <1>7, <1>11
  <2>3. EndIsLast(inbox[w], c) /\ ~HasKind(es, c, "open") => EndIsLast(inbox'[w], c)
    BY <1>6, <1>9, EmitKinds DEF TypeInv
  <2>. QED
    BY <1>7, <2>1, <2>2, <2>3
<1>. QED
  BY <1>9, <1>10, <1>12, <1>13 DEF Gained

-----------------------------------------------------------------------------
(* Steps of a connection, and what the shell believes                      *)

SoundStep(c) ==
  /\ PagesAgree' /\ Sound(c)' /\ UNCHANGED <<page, known, session>>
  /\ \A x \in Conns : x # c => opened'[x] = opened[x] /\ Untouched(x)

LEMMA OpenedEdit ==
  ASSUME TypeInv, NEW c \in Conns, NEW w,
         opened' = opened \/ (w \in Windows /\ opened' = [opened EXCEPT ![c][w] = "attached"])
  PROVE  /\ \A x \in Conns : x # c => opened'[x] = opened[x]
         /\ \A v \in Windows : /\ v # w => opened'[c][v] = opened[c][v]
                             /\ opened[c][v] # "absent" => opened'[c][v] # "absent"
<1>1. opened \in [Conns -> [Windows -> {"absent", "open", "attached"}]]
  BY DEF TypeInv, TypeOK
<1>2. CASE opened' = opened
  BY <1>2
<1>3. CASE w \in Windows /\ opened' = [opened EXCEPT ![c][w] = "attached"]
  <2>1. /\ opened'[c] = [opened[c] EXCEPT ![w] = "attached"]
        /\ \A x \in Conns : x # c => opened'[x] = opened[x]
    BY <1>1, <1>3
  <2>2. opened[c] \in [Windows -> {"absent", "open", "attached"}]
    BY <1>1
  <2>. QED
    BY <2>1, <2>2
<1>. QED
  BY <1>2, <1>3

\* c sends a frame and waits.
LEMMA SendSound ==
  ASSUME TypeInv, PagesAgree, NEW c \in Conns, Sound(c), Tidy(c),
         NEW w \in Windows, NEW p \in Waiting, NEW k \in Frames, NEW n \in 0 .. MaxFrames,
         NEW before \in {<<>>, <<Event("open", c, 0)>>},
         SendAndAwait(c, w, p, before, Event(k, c, n)),
         UNCHANGED <<gaveUp, page, known, session>>,
         opened' \in [Conns -> [Windows -> {"absent", "open", "attached"}]],
         opened' = opened \/ opened' = [opened EXCEPT ![c][w] = "attached"],
         opened'[c][w] = "attached" /\ Trusted(c) /\ ~gaveUp[c] => Served(c, w),
         p = "probe" \/ before = <<>>,
         p = "attach" => k = "attach" /\ seq'[c] >= 1,
         p = "await" /\ req'[c].kind = "callAt" => k = "call" /\ opened'[c][w] = "attached",
         p \in {"attach", "await"} /\ ~gaveUp[c] => Quiet(c),
         \/ pc[c] = "route"
         \/ pc[c] \in Ensuring /\ at[c] = w /\ (p # "await" \/ opened'[c][w] # "absent")
  PROVE  SoundStep(c)
<1>. DEFINE es == before \o <<Event(k, c, n)>>
<1>1. /\ pc' = [pc EXCEPT ![c] = p] /\ at' = [at EXCEPT ![c] = w]
      /\ rx' = [rx EXCEPT ![c] = Nothing]
      /\ inbox' = [inbox EXCEPT ![w] = Emitted(w, es)]
  BY DEF SendAndAwait
<1>2. pc'[c] = p /\ at'[c] = w /\ rx'[c] = Nothing /\ gaveUp'[c] = gaveUp[c] /\ pc[c] # "closed"
  BY <1>1 DEF TypeInv, TypeOK, Ensuring
<1>3. /\ PagesAgree' /\ \A x \in Conns : x # c => Untouched(x)
      /\ \A v \in Windows : v # w => inbox'[v] = inbox[v]
      /\ Gained(c, w, k, before)
      /\ before = <<>> /\ EndIsLast(inbox[w], c) => EndIsLast(inbox'[w], c)
  <2>. HIDE DEF es
  <2>0. UNCHANGED <<page, known, session>> /\ Announced(before, c)
    BY DEF Announced
  <2>1. PagesAgree'
    BY <2>0, SendKinds
  <2>2. \A x \in Conns : x # c => Untouched(x)
    BY <2>0, SendKinds
  <2>3. \A v \in Windows : v # w => inbox'[v] = inbox[v]
    BY <2>0, SendKinds
  <2>4. Gained(c, w, k, before)
    BY <2>0, SendKinds
  <2>5. before = <<>> /\ EndIsLast(inbox[w], c) => EndIsLast(inbox'[w], c)
    BY <2>0, SendKinds
  <2>. QED
    BY <2>1, <2>2, <2>3, <2>4, <2>5
<1>. HIDE DEF es
<1>4. \A x \in Conns : x # c => opened'[x] = opened[x]
  BY OpenedEdit
<1>5. \A v \in Windows : v # w => opened'[c][v] = opened[c][v]
  BY OpenedEdit
<1>6. ASSUME ~gaveUp[c] PROVE Trusted(c)'
  <2>1. Trusted(c)
    BY <1>2, <1>6 DEF Sound, Believed
  <2>2. \A v \in Windows : ~HasKind(inbox'[v], c, "close")
    BY <1>3, <2>1 DEF Trusted, Frames, Hellos, Gained
  <2>3. \A v \in Windows : opened'[c][v] = "attached" => Served(c, v)'
    <3>1. \A v \in Windows : Served(c, v)' <=> Served(c, v)
      BY DEF Served
    <3>. QED
      BY <1>5, <1>6, <2>1, <3>1 DEF Trusted
  <2>4. p \in {"attach", "await"} => OnlyKind(inbox'[w], c, k)
    <3>. SUFFICES ASSUME p \in {"attach", "await"} PROVE OnlyKind(inbox'[w], c, k)
      OBVIOUS
    <3>1. Ids(inbox[w], c) = {} /\ inbox[w] \in Seq(Events) /\ before = <<>>
      BY <1>6 DEF Quiet, TypeInv, TypeOK
    <3>2. \A l \in Frames : ~HasKind(inbox[w], c, l)
      BY <3>1, NoneIsNoKind
    <3>. QED
      BY <1>3, <3>1, <3>2 DEF OnlyKind, Gained
  <2>5. rx'[c].id = 0 /\ rx'[c].code = "ok"
    BY <1>2 DEF Nothing
  <2>6. p = "attach" => rx'[c].id # seq'[c]
    BY <2>5
  <2>. QED
    BY <1>2, <2>2, <2>3, <2>4, <2>5, <2>6 DEF Trusted
<1>7. Believed(c)'
  BY <1>2, <1>6 DEF Believed, Waiting
<1>8. Owed(c)'
  <2>. SUFFICES ASSUME NEW v \in Windows, ~Exempt(c, v)'
                PROVE  c \in known'[v] \/ HasKind(inbox'[v], c, "open") => EndIsLast(inbox'[v], c)
    BY DEF Owed
  <2>1. CASE v # w
    <3>1. ~Exempt(c, v)
      BY <1>5, <2>1 DEF Exempt, Ensuring
    <3>. QED
      BY <1>3, <2>1, <3>1 DEF Sound, Owed
  <2>2. CASE v = w
    <3>1. p = "await" /\ opened'[c][w] = "absent" /\ before = <<>>
      BY <1>2, <2>2 DEF Exempt, Ensuring, Waiting
    <3>2. pc[c] = "route" /\ opened[c][w] = "absent"
      BY <3>1 DEF TypeInv, TypeOK
    <3>3. ~Exempt(c, w)
      BY <3>2 DEF Exempt, Ensuring
    <3>4. HasKind(inbox'[w], c, "open") => HasKind(inbox[w], c, "open")
      BY <1>3, <3>1 DEF Frames, Hellos, Gained
    <3>. QED
      BY <1>3, <2>2, <3>1, <3>3, <3>4 DEF Sound, Owed
  <2>. QED
    BY <2>1, <2>2
<1>. QED
  BY <1>3, <1>4, <1>7, <1>8 DEF SoundStep, Sound

\* c sends nothing.
LEMMA StillSound ==
  ASSUME TypeInv, PagesAgree, NEW c \in Conns, Sound(c), NEW p, NEW w,
         pc' = [pc EXCEPT ![c] = p], p \in {"idle", "route", "pause"}, pc[c] # "closed",
         UNCHANGED <<inbox, gaveUp, page, known, session>>,
         opened' \in [Conns -> [Windows -> {"absent", "open", "attached"}]],
         \/ opened' = opened
         \/ /\ w \in Windows /\ opened' = [opened EXCEPT ![c][w] = "attached"]
            /\ Trusted(c) /\ ~gaveUp[c] => Served(c, w),
         \/ pc[c] \notin Ensuring
         \/ at[c] = w /\ opened'[c][w] # "absent"
         \/ p = "pause" /\ at' = at
  PROVE  SoundStep(c)
<1>1. pc'[c] = p /\ \A x \in Conns : x # c => opened'[x] = opened[x]
  BY OpenedEdit DEF TypeInv, TypeOK
<1>2. \A v \in Windows : /\ v # w => opened'[c][v] = opened[c][v]
                         /\ opened[c][v] # "absent" => opened'[c][v] # "absent"
  BY OpenedEdit
<1>3. \A x : Untouched(x)
  BY DEF Untouched
<1>4. \A v \in Windows : Served(c, v)' <=> Served(c, v)
  BY DEF Served
<1>5. Believed(c)'
  <2>1. ASSUME Trusted(c), ~gaveUp[c], NEW v \in Windows, opened'[c][v] = "attached"
        PROVE  Served(c, v)
    BY <1>2, <2>1 DEF Trusted
  <2>. QED
    BY <1>1, <1>4, <2>1 DEF Sound, Believed, Trusted
<1>6. \A v \in Windows : Exempt(c, v) => Exempt(c, v)'
  <2>. SUFFICES ASSUME NEW v \in Windows, Exempt(c, v), opened[c][v] = "absent",
                       opened'[c][v] = "absent"
                PROVE  pc'[c] \in Ensuring /\ at'[c] = v
    BY <1>2 DEF Exempt
  <2>1. pc[c] \in Ensuring /\ at[c] = v
    BY DEF Exempt
  <2>2. p = "pause" /\ at' = at
    BY <2>1
  <2>. QED
    BY <1>1, <2>1, <2>2 DEF Ensuring
<1>7. Owed(c)'
  BY <1>6 DEF Sound, Owed
<1>8. PagesAgree'
  BY DEF PagesAgree
<1>. QED
  BY <1>1, <1>3, <1>5, <1>7, <1>8 DEF SoundStep, Sound

LEMMA EnsureFailsSound ==
  ASSUME TypeInv, PagesAgree, NEW c \in Conns, Sound(c), EnsureFails(c), pc[c] \in Ensuring,
         UNCHANGED <<opened, page, known, session>>
  PROVE  SoundStep(c)
<1>. DEFINE w == at[c]
            es == <<Event("close", c, 0)>>
<1>1. w \in Windows
  BY DEF TypeInv, Budget, Ensuring
<1>2. /\ pc' = [pc EXCEPT ![c] = "idle"]
      /\ gaveUp' = [gaveUp EXCEPT ![c] = gaveUp[c] \/ Alive(w)]
      /\ inbox' = [inbox EXCEPT ![w] =
                     IF opened[c][w] = "absent" THEN Emitted(w, es) ELSE inbox[w]]
  BY DEF EnsureFails, Reply
<1>3. pc'[c] = "idle" /\ gaveUp'[c] = (gaveUp[c] \/ Alive(w))
  BY <1>2 DEF TypeInv, TypeOK
<1>4. /\ \A v \in Windows : v # w => inbox'[v] = inbox[v]
      /\ inbox'[w] = IF opened[c][w] = "absent" THEN Emitted(w, es) ELSE inbox[w]
  BY <1>1, <1>2 DEF TypeInv, TypeOK
<1>5. es \in Seq(Events) /\ EndIsLast(es, c)
  BY EmitOpenClose, OneEvent, KindOfOne
<1>6. PagesAgree' /\ \A x \in Conns : x # c => Untouched(x)
  BY <1>4, OpenCloseKinds
<1>. HIDE DEF es
<1>7. Believed(c)'
  <2>1. CASE gaveUp'[c]
    BY <1>3, <2>1 DEF Believed
  <2>2. CASE ~gaveUp'[c]
    <3>1. page[w] = "gone" /\ Trusted(c)
      BY <1>1, <1>3, <2>2, LiveAssumption DEF Alive, Sound, Believed, Ensuring
    <3>2. inbox'[w] = inbox[w]
      BY <1>1, <1>4, <1>5, <3>1, EmitKinds DEF TypeInv
    <3>. QED
      BY <1>1, <1>3, <1>4, <3>1, <3>2 DEF Believed, Trusted, Served
  <2>. QED
    BY <2>1, <2>2
<1>8. Owed(c)'
  <2>. SUFFICES ASSUME NEW v \in Windows, ~Exempt(c, v)'
                PROVE  c \in known'[v] \/ HasKind(inbox'[v], c, "open") => EndIsLast(inbox'[v], c)
    BY DEF Owed
  <2>1. opened[c][v] = "absent"
    BY DEF Exempt
  <2>2. CASE v # w
    BY <1>4, <2>1, <2>2 DEF Sound, Owed, Exempt
  <2>3. CASE v = w
    <3>1. inbox'[w] = Emitted(w, es)
      BY <1>4, <2>1, <2>3
    <3>2. CASE page[w] \in {"booting", "gone"}
      <4>1. inbox'[w] = <<>> /\ known'[w] = {}
        BY <1>1, <1>5, <3>1, <3>2, EmitKinds DEF TypeInv, PagesAgree
      <4>. QED
        BY <2>3, <4>1, EmptyHasNone
    <3>3. CASE page[w] \notin {"booting", "gone"}
      BY <1>1, <1>5, <2>3, <3>1, <3>3, EmitKinds DEF TypeInv
    <3>. QED
      BY <3>2, <3>3
  <2>. QED
    BY <2>2, <2>3
<1>. QED
  BY <1>6, <1>7, <1>8 DEF SoundStep, Sound

LEMMA UnregisterSound ==
  ASSUME TypeInv, PagesAgree, NEW c \in Conns, Sound(c), Unregister(c), pc[c] \notin Ensuring,
         UNCHANGED <<page, known, session>>
  PROVE  SoundStep(c)
<1>. DEFINE es == <<Event("close", c, 0)>>
<1>1. /\ pc' = [pc EXCEPT ![c] = "closed"]
      /\ opened' = [opened EXCEPT ![c] = [w \in Windows |-> "absent"]]
      /\ \A w \in Windows :
           inbox'[w] = IF opened[c][w] # "absent" THEN Emitted(w, es) ELSE inbox[w]
  BY DEF Unregister
<1>2. es \in Seq(Events) /\ EndIsLast(es, c)
  BY EmitOpenClose, OneEvent, KindOfOne
<1>3. PagesAgree' /\ \A x \in Conns : x # c => Untouched(x)
  BY <1>1, OpenCloseKinds
<1>. HIDE DEF es
<1>4. Believed(c)'
  BY <1>1 DEF Believed, TypeInv, TypeOK
<1>5. \A x \in Conns : x # c => opened'[x] = opened[x]
  BY <1>1 DEF TypeInv, TypeOK
<1>6. Owed(c)'
  <2>. SUFFICES ASSUME NEW v \in Windows
                PROVE  c \in known'[v] \/ HasKind(inbox'[v], c, "open") => EndIsLast(inbox'[v], c)
    BY DEF Owed
  <2>1. CASE opened[c][v] = "absent"
    BY <1>1, <2>1 DEF Sound, Owed, Exempt
  <2>2. CASE opened[c][v] # "absent" /\ page[v] \in {"booting", "gone"}
    <3>1. inbox'[v] = <<>> /\ known'[v] = {}
      BY <1>1, <1>2, <2>2, EmitKinds DEF TypeInv, PagesAgree
    <3>. QED
      BY <3>1, EmptyHasNone
  <2>3. CASE opened[c][v] # "absent" /\ page[v] \notin {"booting", "gone"}
    BY <1>1, <1>2, <2>3, EmitKinds DEF TypeInv
  <2>. QED
    BY <2>1, <2>2, <2>3
<1>. QED
  BY <1>3, <1>4, <1>5, <1>6 DEF SoundStep, Sound

-----------------------------------------------------------------------------
(* The steps of a connection, one by one                                   *)

OpenedNext == opened' \in [Conns -> [Windows -> {"absent", "open", "attached"}]]

LEMMA OpenedSame == ASSUME TypeInv, UNCHANGED opened PROVE OpenedNext
BY DEF TypeInv, TypeOK, OpenedNext

\* c sends nothing and its sessions stay as they are.
LEMMA QuietSound ==
  ASSUME TypeInv, PagesAgree, NEW c \in Conns, Sound(c), NEW p \in {"idle", "route", "pause"},
         pc' = [pc EXCEPT ![c] = p], pc[c] # "closed",
         UNCHANGED <<inbox, gaveUp, opened, page, known, session>>,
         pc[c] \notin Ensuring \/ (p = "pause" /\ at' = at)
  PROVE  SoundStep(c)
<1>1. UNCHANGED opened /\ UNCHANGED <<inbox, gaveUp, page, known, session>>
  OBVIOUS
<1>2. OpenedNext
  BY <1>1, OpenedSame
<1>. QED
  BY <1>1, <1>2, StillSound DEF OpenedNext

LEMMA AcceptSound ==
  ASSUME TypeInv, PagesAgree, NEW c \in Conns, Sound(c), Accept(c)
  PROVE  SoundStep(c)
<1>1. PICK w \in Windows :
        /\ opened' = [opened EXCEPT ![c][w] = "open"]
        /\ inbox' = [inbox EXCEPT ![w] = Emitted(w, <<Event("open", c, 0)>>)]
  BY DEF Accept
<1>2. /\ pc[c] = "new" /\ pc'[c] = "idle" /\ gaveUp' = gaveUp
      /\ UNCHANGED <<page, known, session>>
  BY DEF Accept, TypeInv, TypeOK
<1>3. /\ inbox'[w] = Emitted(w, <<Event("open", c, 0)>>)
      /\ \A v \in Windows : v # w => inbox'[v] = inbox[v]
  BY <1>1 DEF TypeInv, TypeOK
<1>4. /\ PagesAgree' /\ \A x \in Conns : x # c => Untouched(x)
      /\ \A v \in Windows : HasKind(inbox'[v], c, "close") <=> HasKind(inbox[v], c, "close")
  BY <1>2, <1>3, OpenCloseKinds
<1>5. /\ \A x \in Conns : x # c => opened'[x] = opened[x]
      /\ opened'[c][w] = "open"
      /\ \A v \in Windows : v # w => opened'[c][v] = opened[c][v]
  BY <1>1 DEF TypeInv, TypeOK
<1>6. Believed(c)'
  BY <1>2, <1>4, <1>5 DEF Sound, Believed, Trusted, Served
<1>7. Owed(c)'
  BY <1>2, <1>3, <1>5 DEF Sound, Owed, Exempt, Ensuring
<1>. QED
  BY <1>2, <1>4, <1>5, <1>6, <1>7 DEF SoundStep, Sound

LEMMA RequestSound ==
  ASSUME TypeInv, PagesAgree, NEW c \in Conns, Sound(c), Request(c)
  PROVE  SoundStep(c)
<1>1. /\ pc[c] = "idle" /\ pc' = [pc EXCEPT ![c] = "route"]
      /\ UNCHANGED <<inbox, gaveUp, opened, page, known, session>>
  BY DEF Request, webview
<1>. QED
  BY <1>1, QuietSound DEF Ensuring

\* The client's frame goes to w, where a request that names w has its session.
LEMMA ForwardSound ==
  ASSUME TypeInv, PagesAgree, NEW c \in Conns, Sound(c), Tidy(c), NEW w \in Windows,
         Forward(c, w), UNCHANGED <<req, gaveUp, page, known, session>>, OpenedNext,
         opened' = opened \/ opened' = [opened EXCEPT ![c][w] = "attached"],
         opened'[c][w] = "attached" /\ Trusted(c) /\ ~gaveUp[c] => Served(c, w),
         req[c].kind = "callAt" => opened'[c][w] = "attached",
         ~gaveUp[c] => Quiet(c),
         pc[c] = "route" \/ (pc[c] = "attach" /\ at[c] = w /\ opened'[c][w] # "absent")
  PROVE  SoundStep(c)
<1>. DEFINE k == IF req[c].kind \in Hellos THEN req[c].kind ELSE "call"
            n == req[c].id
<1>1. k \in Frames /\ n \in 0 .. MaxFrames /\ (req'[c].kind = "callAt" => k = "call")
  BY DEF Frames, Hellos, TypeInv, TypeOK, Requests
<1>2. SendAndAwait(c, w, "await", <<>>, Event(k, c, n))
  BY DEF Forward
<1>. HIDE DEF k, n
<1>3. "await" \in Waiting /\ <<>> \in {<<>>, <<Event("open", c, 0)>>} /\ "attach" \in Ensuring
  BY DEF Waiting, Ensuring
<1>4. UNCHANGED <<gaveUp, page, known, session>> /\ req' = req
  OBVIOUS
<1>. QED
  BY <1>1, <1>2, <1>3, <1>4, SendSound DEF OpenedNext

LEMMA AttachSound ==
  ASSUME TypeInv, PagesAgree, NEW c \in Conns, Sound(c), Tidy(c), NEW w \in Windows,
         AttachSession(c, w), UNCHANGED <<gaveUp, opened, page, known, session>>,
         seq[c] < MaxFrames, ~gaveUp[c] => Quiet(c),
         pc[c] = "route" \/ (pc[c] = "probe" /\ at[c] = w)
  PROVE  SoundStep(c)
<1>. DEFINE n == seq[c] + 1
<1>1. SendAndAwait(c, w, "attach", <<>>, Event("attach", c, n))
  BY DEF AttachSession
<1>2. n \in 0 .. MaxFrames /\ seq'[c] >= 1
  BY LiveAssumption DEF AttachSession, TypeInv, TypeOK
<1>. HIDE DEF n
<1>3. UNCHANGED <<gaveUp, page, known, session>> /\ opened' = opened /\ OpenedNext
  BY OpenedSame
<1>4. opened'[c][w] = "attached" /\ Trusted(c) /\ ~gaveUp[c] => Served(c, w)
  BY <1>3 DEF Trusted
<1>5. "attach" \in Waiting /\ "attach" \in Frames /\ "probe" \in Ensuring
  BY DEF Waiting, Frames, Hellos, Ensuring
<1>. QED
  BY <1>1, <1>2, <1>3, <1>4, <1>5, SendSound DEF OpenedNext

LEMMA ProbeSound ==
  ASSUME TypeInv, PagesAgree, NEW c \in Conns, Sound(c), Tidy(c), NEW w \in Windows,
         Probe(c, w), UNCHANGED <<gaveUp, opened, page, known, session>>, seq[c] < MaxFrames,
         pc[c] = "route" \/ (pc[c] = "pause" /\ at[c] = w)
  PROVE  SoundStep(c)
<1>. DEFINE n == seq[c] + 1
            before == <<Event("open", c, 0)>>
<1>1. SendAndAwait(c, w, "probe", before, Event(req[c].hello, c, n))
  BY DEF Probe
<1>2. n \in 0 .. MaxFrames
  BY LiveAssumption DEF TypeInv, TypeOK
<1>6. before \in {<<>>, <<Event("open", c, 0)>>}
  OBVIOUS
<1>. HIDE DEF n, before
<1>3. UNCHANGED <<gaveUp, page, known, session>> /\ opened' = opened /\ OpenedNext
  BY OpenedSame
<1>4. opened'[c][w] = "attached" /\ Trusted(c) /\ ~gaveUp[c] => Served(c, w)
  BY <1>3 DEF Trusted
<1>5. "probe" \in Waiting /\ req[c].hello \in Frames /\ "pause" \in Ensuring
  BY DEF Waiting, Frames, Ensuring, TypeInv, TypeOK, Requests
<1>. QED
  BY <1>1, <1>2, <1>3, <1>4, <1>5, <1>6, SendSound DEF OpenedNext

LEMMA RouteCurrentSound ==
  ASSUME TypeInv, PagesAgree, NEW c \in Conns, Sound(c), Tidy(c), RouteCurrent(c)
  PROVE  SoundStep(c)
<1>1. /\ pc[c] = "route" /\ req[c].kind # "callAt" /\ (~gaveUp[c] => Quiet(c))
      /\ UNCHANGED <<req, gaveUp, opened, page, known, session>>
  BY DEF RouteCurrent, Tidy, Waiting, Hellos
<1>2. CASE Alive(current[c]) /\ Forward(c, current[c])
  <2>. DEFINE w == current[c]
  <2>1. w \in Windows
    BY <1>2 DEF Alive, TypeInv, TypeOK
  <2>. HIDE DEF w
  <2>2. opened' = opened /\ OpenedNext
    BY <1>1, OpenedSame
  <2>3. opened'[c][w] = "attached" /\ Trusted(c) /\ ~gaveUp[c] => Served(c, w)
    BY <2>1, <2>2 DEF Trusted
  <2>4. Forward(c, w)
    BY <1>2 DEF w
  <2>. QED
    BY <1>1, <2>1, <2>2, <2>3, <2>4, ForwardSound
<1>3. CASE Reply(c, "no_document") /\ UNCHANGED <<at, slot, rx, inbox>>
  BY <1>1, <1>3, QuietSound DEF Reply, Ensuring
<1>. QED
  BY <1>2, <1>3 DEF RouteCurrent

LEMMA RouteNamedSound ==
  ASSUME TypeInv, PagesAgree, NEW c \in Conns, Sound(c), Tidy(c), RouteNamed(c)
  PROVE  SoundStep(c)
<1>. DEFINE w == req[c].window
<1>1. /\ pc[c] = "route" /\ Named(c) /\ (~gaveUp[c] => Quiet(c))
      /\ UNCHANGED <<req, gaveUp, opened, page, known, session>>
  BY DEF RouteNamed, Named, Tidy, Waiting
<1>2. w \in Windows /\ seq[c] < MaxFrames
  BY <1>1, LiveAssumption DEF TypeInv, TypeOK, Budget, Requests
<1>3. opened' = opened /\ OpenedNext
  BY <1>1, OpenedSame
<1>4. opened'[c][w] = "attached" /\ Trusted(c) /\ ~gaveUp[c] => Served(c, w)
  BY <1>2, <1>3 DEF Trusted
<1>5. CASE Reply(c, "refused") /\ UNCHANGED <<at, seq, slot, rx, current, inbox>>
  BY <1>1, <1>5, QuietSound DEF Reply, Ensuring
<1>6. CASE Ready(c, w) /\ Proceed(c, w)
  <2>1. CASE Forward(c, w)
    <3>1. opened'[c][w] = "attached"
      BY <1>3, <1>6 DEF Ready
    <3>. HIDE DEF w
    <3>. QED
      BY <1>1, <1>2, <1>3, <1>4, <2>1, <3>1, ForwardSound
  <2>2. CASE Reply(c, "ok") /\ UNCHANGED <<at, slot, rx, inbox>>
    BY <1>1, <2>2, QuietSound DEF Reply, Ensuring
  <2>. QED
    BY <1>6, <2>1, <2>2 DEF Proceed
<1>7. CASE AttachSession(c, w)
  BY <1>1, <1>2, <1>7, AttachSound
<1>8. CASE Probe(c, w)
  BY <1>1, <1>2, <1>8, ProbeSound
<1>. QED
  BY <1>5, <1>6, <1>7, <1>8 DEF RouteNamed

LEMMA ProbeAnsweredSound ==
  ASSUME TypeInv, PagesAgree, NEW c \in Conns, Sound(c), Tidy(c), ProbeAnswered(c)
  PROVE  SoundStep(c)
<1>1. pc[c] = "probe" /\ UNCHANGED <<opened, page, known, session>>
  BY DEF ProbeAnswered
<1>2. at[c] \in Windows /\ seq[c] < MaxFrames
  <2>1. /\ req[c].id + 1 + MaxProbes <= MaxFrames /\ seq[c] = req[c].id + tries[c] + 1
        /\ tries[c] < MaxProbes /\ tries[c] \in Nat /\ req[c].id \in 1 .. MaxFrames
        /\ at[c] \in Windows
    BY <1>1 DEF TypeInv, TypeOK, Budget
  <2>. QED
    BY <2>1, LiveAssumption
<1>3. CASE OwnReply(c) /\ AttachSession(c, at[c]) /\ gaveUp' = gaveUp
  <2>1. ~gaveUp[c] => Quiet(c)
    BY <1>1, <1>3, QuietWhenAnswered DEF Tidy, Waiting, Want, OwnReply
  <2>. QED
    BY <1>1, <1>2, <1>3, <2>1, AttachSound
<1>4. CASE pc' = [pc EXCEPT ![c] = "pause"] /\ UNCHANGED <<at, seq, slot, rx, gaveUp, inbox>>
  BY <1>1, <1>4, QuietSound
<1>5. CASE EnsureFails(c)
  BY <1>1, <1>5, EnsureFailsSound DEF Ensuring
<1>. QED
  BY <1>3, <1>4, <1>5 DEF ProbeAnswered

LEMMA ProbeAgainSound ==
  ASSUME TypeInv, PagesAgree, NEW c \in Conns, Sound(c), Tidy(c), ProbeAgain(c)
  PROVE  SoundStep(c)
<1>1. /\ pc[c] = "pause" /\ Probe(c, at[c]) /\ tries[c] < MaxProbes
      /\ UNCHANGED <<gaveUp, opened, page, known, session>>
  BY DEF ProbeAgain
<1>2. at[c] \in Windows /\ seq[c] < MaxFrames
  <2>1. /\ req[c].id + 1 + MaxProbes <= MaxFrames /\ seq[c] = req[c].id + tries[c]
        /\ tries[c] \in Nat /\ req[c].id \in 1 .. MaxFrames /\ at[c] \in Windows
    BY <1>1 DEF TypeInv, TypeOK, Budget
  <2>. QED
    BY <1>1, <2>1, LiveAssumption
<1>. QED
  BY <1>1, <1>2, ProbeSound

\* A window that says attached has done it.
LEMMA AttachAnsweredSound ==
  ASSUME TypeInv, PagesAgree, NEW c \in Conns, Sound(c), Tidy(c), AttachAnswered(c)
  PROVE  SoundStep(c)
<1>. DEFINE w == at[c]
<1>1. /\ pc[c] = "attach" /\ rx[c] # Nothing /\ w \in Windows
      /\ UNCHANGED <<req, page, known, session>>
  BY DEF AttachAnswered, TypeInv, Budget
<1>2. ASSUME ~gaveUp[c] PROVE rx[c].id = seq[c] /\ Quiet(c)
  <2>1. InFlight(c) /\ rx[c].id = Want(c) /\ Want(c) = seq[c]
    BY <1>1, <1>2 DEF Tidy, Waiting, InFlight, Want
  <2>. QED
    BY <2>1, QuietWhenAnswered
<1>3. CASE /\ rx[c].code = "ok" /\ opened' = [opened EXCEPT ![c][w] = "attached"]
           /\ Proceed(c, w) /\ UNCHANGED gaveUp
  <2>1. OpenedNext /\ opened'[c][w] = "attached"
    BY <1>1, <1>3 DEF TypeInv, TypeOK, OpenedNext
  <2>2. Trusted(c) /\ ~gaveUp[c] => Served(c, w)
    BY <1>1, <1>2, <1>3 DEF Trusted
  <2>. HIDE DEF w
  <2>3. CASE Forward(c, w)
    BY <1>1, <1>2, <1>3, <2>1, <2>2, <2>3, ForwardSound DEF w
  <2>4. CASE Reply(c, "ok") /\ UNCHANGED <<at, slot, rx, inbox>>
    <3>1. pc' = [pc EXCEPT ![c] = "idle"] /\ UNCHANGED <<inbox, gaveUp, page, known, session>>
      BY <1>1, <1>3, <2>4 DEF Reply
    <3>2. pc[c] # "closed" /\ at[c] = w /\ opened'[c][w] # "absent"
      BY <1>1, <2>1 DEF w
    <3>. QED
      BY <1>1, <1>3, <2>1, <2>2, <3>1, <3>2, StillSound DEF OpenedNext
  <2>. QED
    BY <1>3, <2>3, <2>4 DEF Proceed
<1>4. CASE EnsureFails(c) /\ UNCHANGED <<at, rx, opened, current>>
  BY <1>1, <1>4, EnsureFailsSound DEF Ensuring
<1>. QED
  BY <1>3, <1>4 DEF AttachAnswered

LEMMA ServeSound ==
  ASSUME TypeInv, PagesAgree, NEW c \in Conns, Sound(c), Tidy(c), Serve(c)
  PROVE  SoundStep(c)
<1>1. CASE RouteCurrent(c) \/ RouteNamed(c)
  BY <1>1, RouteCurrentSound, RouteNamedSound
<1>2. CASE ProbeAnswered(c) \/ ProbeAgain(c) \/ AttachAnswered(c)
  BY <1>2, ProbeAnsweredSound, ProbeAgainSound, AttachAnsweredSound
<1>3. CASE ProbeTimeout(c)
  <2>1. /\ pc[c] = "probe" /\ pc' = [pc EXCEPT ![c] = "pause"] /\ at' = at
        /\ UNCHANGED <<inbox, gaveUp, opened, page, known, session>>
    BY <1>3 DEF ProbeTimeout, webview
  <2>. QED
    BY <2>1, QuietSound
<1>4. CASE ProbeGone(c) \/ ProbeDeadline(c) \/ AttachFails(c)
  <2>1. EnsureFails(c) /\ pc[c] \in Ensuring /\ UNCHANGED <<opened, page, known, session>>
    BY <1>4 DEF ProbeGone, ProbeDeadline, AttachFails, Ensuring
  <2>. QED
    BY <2>1, EnsureFailsSound
<1>5. CASE Answered(c) \/ WindowGone(c)
  <2>1. /\ pc[c] = "await" /\ pc' = [pc EXCEPT ![c] = "idle"]
        /\ UNCHANGED <<inbox, gaveUp, opened, page, known, session>>
    BY <1>5 DEF Answered, WindowGone, Reply, webview
  <2>. QED
    BY <2>1, QuietSound DEF Ensuring
<1>6. CASE Timeout(c)
  <2>1. Unregister(c) /\ pc[c] \notin Ensuring /\ UNCHANGED <<page, known, session>>
    BY <1>6 DEF Timeout, Ensuring
  <2>. QED
    BY <2>1, UnregisterSound
<1>. QED
  BY <1>1, <1>2, <1>3, <1>4, <1>5, <1>6 DEF Serve

LEMMA DisconnectSound ==
  ASSUME TypeInv, PagesAgree, NEW c \in Conns, Sound(c), Disconnect(c)
  PROVE  SoundStep(c)
<1>1. Unregister(c) /\ pc[c] \notin Ensuring /\ UNCHANGED <<page, known, session>>
  BY DEF Disconnect, Ensuring
<1>. QED
  BY <1>1, UnregisterSound

-----------------------------------------------------------------------------
(* The steps of a window, and what the shell believes                      *)

\* For c, a step of a window shortens queues and keeps sessions.
LEMMA PageSound ==
  ASSUME TypeInv, NEW c \in Conns, Sound(c),
         pc'[c] = pc[c], req'[c] = req[c], at'[c] = at[c], seq'[c] = seq[c],
         gaveUp'[c] = gaveUp[c], opened'[c] = opened[c],
         \A v \in Windows : \A k : HasKind(inbox'[v], c, k) => HasKind(inbox[v], c, k),
         \A v \in Windows : Served(c, v) => Served(c, v)',
         \/ rx'[c] = rx[c]
         \/ Trusted(c) /\ ~gaveUp[c] /\ pc[c] # "closed" =>
              /\ pc[c] = "attach" /\ rx'[c].code = "ok" => Served(c, at[c])'
              /\ pc[c] = "await" /\ req[c].kind = "callAt" => rx'[c].code # "no_document",
         Owed(c)'
  PROVE  Sound(c)'
<1>1. pc[c] \in {"attach", "await"} => at[c] \in Windows
  BY DEF TypeInv, Budget
<1>2. \A v \in Windows : \A k : OnlyKind(inbox[v], c, k) => OnlyKind(inbox'[v], c, k)
  BY DEF OnlyKind
<1>3. ASSUME Trusted(c), ~gaveUp[c], pc[c] # "closed" PROVE Trusted(c)'
  <2>1. \A v \in Windows : ~HasKind(inbox'[v], c, "close")
    BY <1>3 DEF Trusted
  <2>2. \A v \in Windows : opened'[c][v] = "attached" => Served(c, v)'
    BY <1>3 DEF Trusted
  <2>3. pc'[c] = "attach" =>
          /\ OnlyKind(inbox'[at'[c]], c, "attach")
          /\ rx'[c].id = seq'[c] /\ rx'[c].code = "ok" => Served(c, at[c])'
    BY <1>1, <1>2, <1>3 DEF Trusted
  <2>4. pc'[c] = "await" /\ req'[c].kind = "callAt" =>
          /\ opened'[c][at'[c]] = "attached" /\ rx'[c].code # "no_document"
          /\ OnlyKind(inbox'[at'[c]], c, "call")
    BY <1>1, <1>2, <1>3 DEF Trusted
  <2>. QED
    BY <2>1, <2>2, <2>3, <2>4 DEF Trusted
<1>4. Believed(c)'
  BY <1>3 DEF Sound, Believed
<1>. QED
  BY <1>4 DEF Sound

\* The window has handled the first event of its queue.
HandledFirst(w) ==
  /\ inbox[w] # <<>> /\ inbox' = [inbox EXCEPT ![w] = Tail(inbox[w])]
  /\ page' = page

LEMMA HandledKinds ==
  ASSUME TypeInv, NEW w \in Windows, HandledFirst(w), NEW c
  PROVE  /\ \A v \in Windows : \A k : HasKind(inbox'[v], c, k) => HasKind(inbox[v], c, k)
         /\ HasKind(inbox[w], c, "open") =>
              \/ HasKind(inbox'[w], c, "open")
              \/ Head(inbox[w]).conn = c /\ Head(inbox[w]).kind = "open"
         /\ Head(inbox[w]).conn = c => HasKind(inbox[w], c, Head(inbox[w]).kind)
         /\ EndIsLast(inbox[w], c) =>
              \/ EndIsLast(inbox'[w], c)
              \/ /\ Head(inbox[w]).conn = c /\ Head(inbox[w]).kind = "close"
                 /\ ~HasKind(inbox'[w], c, "open")
         /\ \A v \in Windows : v # w => inbox'[v] = inbox[v]
<1>1. /\ inbox[w] \in Seq(Events) /\ inbox'[w] = Tail(inbox[w])
      /\ \A v \in Windows : v # w => inbox'[v] = inbox[v]
  BY DEF TypeInv, TypeOK, HandledFirst
<1>2. inbox[w] # <<>>
  BY DEF HandledFirst
<1>3. /\ \A k : HasKind(inbox[w], c, k) <=>
             HasKind(Tail(inbox[w]), c, k) \/ (Head(inbox[w]).conn = c /\ Head(inbox[w]).kind = k)
      /\ EndIsLast(inbox[w], c) =>
           \/ EndIsLast(Tail(inbox[w]), c)
           \/ /\ Head(inbox[w]).conn = c /\ Head(inbox[w]).kind = "close"
              /\ ~HasKind(Tail(inbox[w]), c, "open")
  BY <1>1, <1>2, KindTaken
<1>. QED
  BY <1>1, <1>3

LEMMA HandledOwed ==
  ASSUME TypeInv, NEW c \in Conns, Owed(c), NEW w \in Windows, HandledFirst(w),
         pc'[c] = pc[c], at'[c] = at[c], opened'[c] = opened[c],
         \A v \in Windows : v # w => known'[v] = known[v],
         c \in known'[w] =>
           \/ c \in known[w]
           \/ Head(inbox[w]).conn = c /\ Head(inbox[w]).kind = "open",
         Head(inbox[w]).conn = c /\ Head(inbox[w]).kind = "close" => c \notin known'[w]
  PROVE  Owed(c)'
<1>. SUFFICES ASSUME NEW v \in Windows, ~Exempt(c, v)'
              PROVE  c \in known'[v] \/ HasKind(inbox'[v], c, "open") => EndIsLast(inbox'[v], c)
  BY DEF Owed
<1>1. ~Exempt(c, v)
  BY DEF Exempt
<1>2. c \in known[v] \/ HasKind(inbox[v], c, "open") => EndIsLast(inbox[v], c)
  BY <1>1 DEF Owed
<1>3. CASE v # w
  BY <1>2, <1>3, HandledKinds
<1>4. CASE v = w
  <2>1. c \in known'[w] \/ HasKind(inbox'[w], c, "open") => EndIsLast(inbox[w], c)
    BY <1>2, <1>4, HandledKinds
  <2>2. EndIsLast(inbox[w], c) =>
          \/ EndIsLast(inbox'[w], c)
          \/ /\ Head(inbox[w]).conn = c /\ Head(inbox[w]).kind = "close"
             /\ ~HasKind(inbox'[w], c, "open")
    BY HandledKinds
  <2>. QED
    BY <1>4, <2>1, <2>2
<1>. QED
  BY <1>3, <1>4

PageStepSound == PagesAgree' /\ \A c \in Conns : Sound(c)'

LEMMA PageBootsSound ==
  ASSUME TypeInv, PagesAgree, \A c \in Conns : Sound(c), NEW w \in Windows, PageBoots(w)
  PROVE  PageStepSound
<1>1. /\ UNCHANGED <<pc, req, at, seq, rx, gaveUp, opened, inbox, known, session>>
      /\ \A v \in Windows : /\ page'[v] = "gone" <=> page[v] = "gone"
                            /\ page'[v] = "booting" => page[v] = "booting"
  BY DEF PageBoots, thread, TypeInv, TypeOK
<1>2. PagesAgree'
  BY <1>1 DEF PagesAgree
<1>3. ASSUME NEW c \in Conns PROVE Sound(c)'
  <2>1. \A v \in Windows : Served(c, v) => Served(c, v)'
    BY <1>1 DEF Served
  <2>2. Owed(c)'
    BY <1>1 DEF Sound, Owed, Exempt
  <2>. QED
    BY <1>1, <2>1, <2>2, PageSound
<1>. QED
  BY <1>2, <1>3 DEF PageStepSound

LEMMA PageClosesSound ==
  ASSUME TypeInv, PagesAgree, \A c \in Conns : Sound(c), NEW w \in Windows, PageCloses(w)
  PROVE  PageStepSound
<1>1. /\ UNCHANGED <<pc, req, at, seq, rx, gaveUp, opened>>
      /\ inbox'[w] = <<>> /\ known'[w] = {} /\ page'[w] = "gone"
      /\ session'[w] = [c \in Conns |-> "none"]
      /\ \A v \in Windows : v # w => /\ inbox'[v] = inbox[v] /\ known'[v] = known[v]
                                     /\ page'[v] = page[v] /\ session'[v] = session[v]
  BY DEF PageCloses, thread, TypeInv, TypeOK
<1>2. PagesAgree'
  BY <1>1 DEF PagesAgree
<1>3. ASSUME NEW c \in Conns PROVE Sound(c)'
  <2>1. \A v \in Windows : Served(c, v) => Served(c, v)'
    BY <1>1 DEF Served
  <2>2. \A v \in Windows : \A k : HasKind(inbox'[v], c, k) => HasKind(inbox[v], c, k)
    BY <1>1, EmptyHasNone
  <2>3. Owed(c)'
    BY <1>1, EmptyHasNone DEF Sound, Owed, Exempt
  <2>. QED
    BY <1>1, <2>1, <2>2, <2>3, PageSound
<1>. QED
  BY <1>2, <1>3 DEF PageStepSound

\* An event finds a window that has listeners.
LEMMA HandledListens ==
  ASSUME TypeInv, PagesAgree, NEW w \in Windows, HandledFirst(w)
  PROVE  page[w] \notin {"booting", "gone"} /\ Head(inbox[w]) \in Events
<1>1. inbox[w] \in Seq(Events) /\ inbox[w] # <<>>
  BY DEF HandledFirst, TypeInv, TypeOK
<1>. QED
  BY <1>1, Taken DEF PagesAgree

LEMMA HandleOpenSound ==
  ASSUME TypeInv, PagesAgree, \A c \in Conns : Sound(c), NEW w \in Windows, HandleOpen(w)
  PROVE  PageStepSound
<1>. DEFINE e == Head(inbox[w])
<1>1. /\ HandledFirst(w) /\ e.kind = "open"
      /\ UNCHANGED <<pc, req, at, seq, rx, gaveUp, opened>>
      /\ known' = [known EXCEPT ![w] = known[w] \cup {e.conn}]
      /\ session' = [session EXCEPT ![w][e.conn] =
                       IF session[w][e.conn] = "none" /\ page[w] = "ready"
                         THEN "fresh" ELSE session[w][e.conn]]
  BY DEF HandleOpen, HandledFirst, thread
<1>2. page[w] \notin {"booting", "gone"} /\ e.conn \in Conns /\ page' = page
  BY <1>1, HandledListens DEF Events, HandledFirst
<1>3. /\ known'[w] = known[w] \cup {e.conn}
      /\ \A v \in Windows : v # w => known'[v] = known[v] /\ session'[v] = session[v]
      /\ \A c \in Conns :
           /\ c # e.conn => session'[w][c] = session[w][c]
           /\ session[w][c] = "attached" => session'[w][c] = "attached"
  <2>. HIDE DEF e
  <2>. QED
    BY <1>1, <1>2 DEF TypeInv, TypeOK
<1>4. \A v \in Windows : v # w => inbox'[v] = inbox[v]
  BY <1>1, HandledKinds
<1>5. PagesAgree'
  <2>. HIDE DEF e
  <2>. QED
    BY <1>2, <1>3, <1>4 DEF PagesAgree
<1>6. ASSUME NEW c \in Conns PROVE Sound(c)'
  <2>1. \A v \in Windows : Served(c, v) => Served(c, v)'
    BY <1>2, <1>3 DEF Served
  <2>2. Owed(c)
    BY DEF Sound
  <2>3. /\ c \in known'[w] => c \in known[w] \/ (e.conn = c /\ e.kind = "open")
        /\ e.conn = c /\ e.kind = "close" => c \notin known'[w]
    BY <1>1, <1>3
  <2>4. Owed(c)'
    BY <1>1, <1>3, <2>2, <2>3, HandledOwed
  <2>5. \A v \in Windows : \A k : HasKind(inbox'[v], c, k) => HasKind(inbox[v], c, k)
    BY <1>1, HandledKinds
  <2>. HIDE DEF e
  <2>. QED
    BY <1>1, <2>1, <2>4, <2>5, PageSound
<1>. QED
  BY <1>5, <1>6 DEF PageStepSound

\* The end of a session was sent on its connection's behalf, or by an
\* ensure_session that gave up.
LEMMA HandleCloseSound ==
  ASSUME TypeInv, PagesAgree, \A c \in Conns : Sound(c), NEW w \in Windows, HandleClose(w)
  PROVE  PageStepSound
<1>. DEFINE e == Head(inbox[w])
<1>1. /\ HandledFirst(w) /\ e.kind = "close"
      /\ UNCHANGED <<pc, req, at, seq, rx, gaveUp, opened>>
      /\ known' = [known EXCEPT ![w] = known[w] \ {e.conn}]
      /\ session' = [session EXCEPT ![w][e.conn] = "none"]
  BY DEF HandleClose, HandledFirst, thread
<1>2. page[w] \notin {"booting", "gone"} /\ e.conn \in Conns /\ page' = page
  BY <1>1, HandledListens DEF Events, HandledFirst
<1>3. /\ known'[w] = known[w] \ {e.conn}
      /\ \A v \in Windows : v # w => known'[v] = known[v] /\ session'[v] = session[v]
      /\ \A c \in Conns : c # e.conn => session'[w][c] = session[w][c]
      /\ session'[w][e.conn] = "none"
  <2>. HIDE DEF e
  <2>. QED
    BY <1>1, <1>2 DEF TypeInv, TypeOK
<1>4. \A v \in Windows : v # w => inbox'[v] = inbox[v]
  BY <1>1, HandledKinds
<1>5. PagesAgree'
  <2>. HIDE DEF e
  <2>. QED
    BY <1>2, <1>3, <1>4 DEF PagesAgree
<1>6. ASSUME NEW c \in Conns PROVE Sound(c)'
  <2>2. Owed(c)
    BY DEF Sound
  <2>3. /\ c \in known'[w] => c \in known[w]
        /\ e.conn = c /\ e.kind = "close" => c \notin known'[w]
    BY <1>1, <1>3
  <2>4. Owed(c)'
    BY <1>1, <1>3, <2>2, <2>3, HandledOwed
  <2>5. \A v \in Windows : \A k : HasKind(inbox'[v], c, k) => HasKind(inbox[v], c, k)
    BY <1>1, HandledKinds
  <2>6. CASE c = e.conn
    <3>1. HasKind(inbox[w], c, "close")
      BY <1>1, <2>6, HandledKinds
    <3>2. pc[c] = "closed" \/ gaveUp[c]
      BY <3>1 DEF Sound, Believed, Trusted
    <3>3. Believed(c)
      BY DEF Sound
    <3>. HIDE DEF e
    <3>. QED
      BY <1>1, <2>4, <3>2, <3>3 DEF Sound, Believed
  <2>7. CASE c # e.conn
    <3>1. \A v \in Windows : Served(c, v) => Served(c, v)'
      BY <1>2, <1>3, <2>7 DEF Served
    <3>. HIDE DEF e
    <3>. QED
      BY <1>1, <2>4, <2>5, <3>1, PageSound
  <2>. QED
    BY <2>6, <2>7
<1>. QED
  BY <1>5, <1>6 DEF PageStepSound

\* A frame is handled: a session that was attached is so and has a document, and
\* an attach that is answered without an error has made it so.
LEMMA Attaches ==
  ASSUME NEW s \in SessionStates, NEW k \in Frames
  PROVE  /\ s = "attached" => AfterFrame(s, k) = "attached" /\ CodeOf(s, k) # "no_document"
         /\ k = "attach" /\ CodeOf(s, k) = "ok" => AfterFrame(s, k) = "attached"
BY DEF SessionStates, Frames, Hellos, AfterFrame, CodeOf

LEMMA HandleFrameSound ==
  ASSUME TypeInv, PagesAgree, \A c \in Conns : Sound(c) /\ Tidy(c),
         NEW w \in Windows, HandleFrame(w)
  PROVE  PageStepSound
<1>. DEFINE e == Head(inbox[w])
            s == session[w][e.conn]
            up == page[w] = "ready"
            code == IF up THEN CodeOf(s, e.kind) ELSE "not_ready"
            reaches == e.conn \in known[w] /\ slot[e.conn]
            t == IF e.conn \in known[w] /\ up THEN AfterFrame(s, e.kind) ELSE s
            r == IF reaches THEN [id |-> e.id, code |-> code] ELSE rx[e.conn]
<1>1. /\ HandledFirst(w) /\ e.kind \in Frames
      /\ UNCHANGED <<pc, req, at, seq, gaveUp, opened, known>>
      /\ session' = [session EXCEPT ![w][e.conn] = t]
      /\ rx' = [rx EXCEPT ![e.conn] = r]
  BY DEF HandleFrame, HandledFirst, Frames, Hellos
<1>2. page[w] \notin {"booting", "gone"} /\ e.conn \in Conns /\ page' = page
  BY <1>1, HandledListens DEF Events, HandledFirst
<1>3. s \in SessionStates
  BY <1>2 DEF TypeInv, TypeOK, SessionStates
<1>4. /\ s = "attached" => t = "attached" /\ code # "no_document"
      /\ t # "none" => s # "none" \/ e.conn \in known[w]
      /\ reaches /\ e.kind = "attach" /\ code = "ok" => t = "attached"
  BY <1>1, <1>3, Attaches
<1>5. r = rx[e.conn] \/ (reaches /\ r.code = code)
  OBVIOUS
<1>. HIDE DEF t, r, code, reaches
<1>6. /\ \A v \in Windows : v # w => session'[v] = session[v]
      /\ \A c \in Conns : c # e.conn => session'[w][c] = session[w][c] /\ rx'[c] = rx[c]
      /\ session'[w][e.conn] = t /\ rx'[e.conn] = r
  <2>. HIDE DEF e
  <2>. QED
    BY <1>1, <1>2 DEF TypeInv, TypeOK
<1>7. \A v \in Windows : v # w => inbox'[v] = inbox[v]
  BY <1>1, HandledKinds
<1>8. PagesAgree'
  <2>1. s # "none" => e.conn \in known[w]
    BY <1>2 DEF PagesAgree
  <2>2. \A c \in Conns : session'[w][c] # "none" => c \in known'[w]
    <3>. HIDE DEF e, s
    <3>. QED
      BY <1>1, <1>4, <1>6, <2>1 DEF PagesAgree
  <2>. HIDE DEF e, s
  <2>. QED
    BY <1>1, <1>2, <1>6, <1>7, <2>2 DEF PagesAgree
<1>9. ASSUME NEW c \in Conns PROVE Sound(c)'
  <2>1. \A v \in Windows : Served(c, v) => Served(c, v)'
    <3>1. session[w][c] = "attached" => session'[w][c] = "attached"
      BY <1>4, <1>6
    <3>. HIDE DEF e, s
    <3>. QED
      BY <1>2, <1>6, <3>1 DEF Served
  <2>2. Owed(c)
    BY DEF Sound
  <2>3. c \in known'[w] => c \in known[w]
    BY <1>1
  <2>4. ~(e.conn = c /\ e.kind = "close")
    BY <1>1 DEF Frames, Hellos
  <2>5. Owed(c)'
    BY <1>1, <2>2, <2>3, <2>4, HandledOwed
  <2>6. \A v \in Windows : \A k : HasKind(inbox'[v], c, k) => HasKind(inbox[v], c, k)
    BY <1>1, HandledKinds
  <2>7. CASE rx'[c] = rx[c]
    <3>. HIDE DEF e, s
    <3>. QED
      BY <1>1, <2>1, <2>5, <2>6, <2>7, PageSound
  <2>8. CASE rx'[c] # rx[c]
    <3>1. c = e.conn /\ reaches /\ rx'[c].code = code
      BY <1>5, <1>6, <2>8
    <3>2. HasKind(inbox[w], c, e.kind)
      BY <1>1, <3>1, HandledKinds
    <3>3. ASSUME Trusted(c), ~gaveUp[c], pc[c] # "closed", pc[c] \in {"attach", "await"}
          PROVE  at[c] = w
      <4>1. InFlight(c)
        BY <3>3 DEF Tidy, Waiting
      <4>2. Ids(inbox[w], c) # {}
        <5>1. inbox[w] \in Seq(Events)
          BY DEF TypeInv, TypeOK
        <5>. HIDE DEF e
        <5>. QED
          BY <1>1, <3>2, <5>1, NoneIsNoKind
      <4>. QED
        BY <4>1, <4>2 DEF InFlight
    <3>4. ASSUME Trusted(c), ~gaveUp[c], pc[c] # "closed", pc[c] = "attach", rx'[c].code = "ok"
          PROVE  Served(c, at[c])'
      <4>1. at[c] = w
        BY <3>3, <3>4
      <4>2. e.kind = "attach"
        BY <1>1, <3>2, <3>4, <4>1 DEF Trusted, OnlyKind
      <4>3. session'[w][c] = "attached"
        BY <1>4, <1>6, <3>1, <3>4, <4>2
      <4>. HIDE DEF e, s
      <4>4. at'[c] = w
        BY <1>1, <4>1
      <4>. QED
        BY <4>3, <4>4 DEF Served
    <3>5. ASSUME Trusted(c), ~gaveUp[c], pc[c] # "closed", pc[c] = "await", req[c].kind = "callAt"
          PROVE  rx'[c].code # "no_document"
      <4>1. at[c] = w
        BY <3>3, <3>5
      <4>2. session[w][c] = "attached"
        BY <1>2, <3>5, <4>1 DEF Trusted, Served
      <4>. QED
        BY <1>4, <3>1, <4>2
    <3>. HIDE DEF e, s
    <3>. QED
      BY <1>1, <2>1, <2>5, <2>6, <3>4, <3>5, PageSound
  <2>. QED
    BY <2>7, <2>8
<1>. QED
  BY <1>8, <1>9 DEF PageStepSound

-----------------------------------------------------------------------------
(* The shell and the windows agree                                         *)

Agreement == Inv /\ PagesAgree /\ \A c \in Conns : Sound(c)

LEMMA SoundInit == Init => PagesAgree /\ \A c \in Conns : Sound(c)
<1>. SUFFICES ASSUME Init PROVE PagesAgree /\ \A c \in Conns : Sound(c)
  OBVIOUS
<1>1. PagesAgree
  BY DEF Init, PagesAgree
<1>2. ASSUME NEW c \in Conns PROVE Trusted(c) /\ Owed(c) /\ pc[c] = "new"
  BY EmptyHasNone DEF Init, Trusted, Owed
<1>. QED
  BY <1>1, <1>2 DEF Sound, Believed

LEMMA AgreementStep == Agreement /\ [Next]_vars => Agreement'
<1>. SUFFICES ASSUME Agreement, [Next]_vars PROVE Agreement'
  OBVIOUS
<1>0. /\ Inv' /\ TypeInv /\ PagesAgree
      /\ \A c \in Conns : Sound(c) /\ Tidy(c)
  BY InvStep DEF Agreement, Inv
<1>1. ASSUME NEW c \in Conns, StepOf(c), SoundStep(c) PROVE Agreement'
  <2>1. \A x \in Conns : x # c => Sound(x)'
    BY <1>0, <1>1, LeftSound DEF StepOf, SoundStep
  <2>. QED
    BY <1>0, <1>1, <2>1 DEF SoundStep, Agreement
<1>2. ASSUME NEW c \in Conns, Accept(c) \/ Request(c) \/ Disconnect(c) \/ Serve(c)
      PROVE  Agreement'
  <2>1. StepOf(c)
    BY <1>0, <1>2, AcceptStep, RequestStep, DisconnectStep, ServeStep
  <2>2. SoundStep(c)
    BY <1>0, <1>2, AcceptSound, RequestSound, DisconnectSound, ServeSound
  <2>. QED
    BY <1>1, <2>1, <2>2
<1>3. ASSUME NEW w \in Windows, PageBoots(w) \/ PageCloses(w) \/ Handle(w)
      PROVE  Agreement'
  <2>1. PageStepSound
    BY <1>0, <1>3, PageBootsSound, PageClosesSound, HandleOpenSound, HandleCloseSound,
       HandleFrameSound DEF Handle
  <2>. QED
    BY <1>0, <2>1 DEF PageStepSound, Agreement
<1>4. CASE UNCHANGED vars
  <2>1. UNCHANGED <<pc, req, at, seq, rx, gaveUp, opened, page, inbox, known, session>>
    BY <1>4 DEF vars, thread, webview
  <2>2. PagesAgree'
    BY <1>0, <2>1 DEF PagesAgree
  <2>3. ASSUME NEW c \in Conns PROVE Sound(c)'
    <3>1. Owed(c)'
      BY <1>0, <2>1 DEF Sound, Owed, Exempt
    <3>2. \A v \in Windows : Served(c, v) => Served(c, v)'
      BY <2>1 DEF Served
    <3>. QED
      BY <1>0, <2>1, <3>1, <3>2, PageSound
  <2>. QED
    BY <1>0, <2>2, <2>3 DEF Agreement
<1>. QED
  BY <1>2, <1>3, <1>4 DEF Next

\* What the shell holds of a connection agrees with what the windows hold: an
\* attached session is there and serves the request that names its window, as
\* long as no ensure_session gave up on a window that lives; and whenever the
\* shell is done with a session, its end is on the way to the window.
THEOREM SessionsMatch == Spec => []SessionsAgree
<1>1. Init => Agreement
  BY TidyInit, SoundInit DEF Agreement, Inv
<1>2. Agreement => SessionsAgree
  <2>. SUFFICES ASSUME Agreement PROVE SessionsAgree
    OBVIOUS
  <2>1. ASSUME NEW c \in Conns, pc[c] # "closed", ~gaveUp[c] PROVE Trusted(c)
    BY <2>1 DEF Agreement, Sound, Believed
  <2>2. ASSUME NEW c \in Conns, NEW w \in Windows, opened[c][w] = "attached",
               page[w] # "gone", ~gaveUp[c]
        PROVE  session[w][c] = "attached"
    <3>1. pc[c] # "closed"
      BY <2>2 DEF Agreement, Sound, Believed
    <3>. QED
      BY <2>1, <2>2, <3>1 DEF Trusted, Served
  <2>3. NamedIsAttached
    BY <2>1 DEF NamedIsAttached, Trusted
  <2>4. ASSUME NEW c \in Conns, NEW w \in Windows,
               c \in known[w] \/ session[w][c] # "none",
               pc[c] \in {"idle", "closed"}, opened[c][w] = "absent"
        PROVE  EndIsQueued(c, w)
    <3>1. c \in known[w]
      BY <2>4 DEF Agreement, PagesAgree
    <3>2. ~Exempt(c, w)
      BY <2>4 DEF Exempt, Ensuring
    <3>3. EndIsLast(inbox[w], c)
      BY <3>1, <3>2 DEF Agreement, Sound, Owed
    <3>4. PICK i \in 1 .. Len(inbox[w]) : inbox[w][i] = Event("close", c, 0)
      BY <3>3 DEF EndIsLast
    <3>5. DOMAIN inbox[w] = 1 .. Len(inbox[w])
      BY DEF Agreement, Inv, TypeInv, TypeOK
    <3>. QED
      BY <3>4, <3>5 DEF EndIsQueued
  <2>. QED
    BY <2>2, <2>3, <2>4 DEF SessionsAgree, BeliefIsTrue, NoOrphan
<1>. QED
  BY <1>1, <1>2, AgreementStep, PTL DEF Spec
=============================================================================
