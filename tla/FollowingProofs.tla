---------------------------- MODULE FollowingProofs ---------------------------
(***************************************************************************)
(* The two ends of following a report.  For any number of overlapping      *)
(* COMMITs, forgets, posts and replies, until a Forget overtakes a COMMIT: *)
(* a row that is marked as followed has a thread that knows the reporter's *)
(* secret, and a secret that was forgotten opens nothing again.  For any   *)
(* number of overlapping calls, attachments and messages: the reporter's   *)
(* record is the thread as it stood at one moment, and neither side of a   *)
(* thread shuts the other out or starts its end unseen.                    *)
(***************************************************************************)
EXTENDS ReportThread, FollowClient, FiniteSetTheorems, SequenceTheorems,
        WellFoundedInduction, TLAPS

-----------------------------------------------------------------------------
(* The life of a thread (ReportThread)                                     *)

-----------------------------------------------------------------------------
(* The inductive invariant                                                 *)

\* No COMMIT runs, and none will begin.
CommitsSettled ==
  /\ \A c \in Commits : ~Running(c)
  /\ reporter # "sending" \/ \A c \in Commits : commit[c] = "done"

\* ... or a Forget has begun: what a COMMIT does from then on overtakes it.
Settled == CommitsSettled \/ Begun

\* A client forgets what it has an answer for.
ForgetsComeLater == (reporter = "forgot" => Begun) /\ (Begun => reporter # "sending")

\* Nothing ends a thread, or is about to, before that.
EndsComeLater ==
  /\ Flying # {} => Settled
  /\ thread # NoThread /\ (thread.dying \/ thread.overdue) => Settled

Kept == row # NoRow /\ delete = "idle"
SecretKnown == thread # NoThread /\ thread.secret

\* Until then the thread of a followed report, if there is one, is the
\* reporter's; and there is one once a COMMIT has been to it.
ThreadOfCommit ==
  Kept /\ wanted /\ ~Settled =>
    /\ (\E c \in Commits : commit[c] = "index") => SecretKnown
    /\ row.committed \/ thread # NoThread => SecretKnown

\* The maintainer replies to a committed report.
RepliesFollow == \A r \in Replies : reply[r] = "found" => row = NoRow \/ row.committed

\* What is told to the index before it is done to the thread.
RowIsTold ==
  /\ \A e \in Enders : ends[e].at = "told" => row = NoRow \/ ~row.following
  /\ expiry = "thread" => row = NoRow

\* NeverOrphaned, also while a destroy is under way.
RowHasThread == Kept /\ row.following => SecretKnown

ForgottenForGood == reporter = "forgot" => ~SecretKnown

LifeInv ==
  /\ ForgetsComeLater /\ EndsComeLater /\ ThreadOfCommit
  /\ RepliesFollow /\ RowIsTold /\ RowHasThread /\ ForgottenForGood

-----------------------------------------------------------------------------
(* Types                                                                   *)

\* What a write needs of the count of messages: each is one post's or one
\* reply's.
Written == {p \in Posts : post[p] = "done"}
Replied == {r \in Replies : reply[r] = "done"}
MessagesCounted ==
  thread # NoThread => thread.msgs <= Cardinality(Written) + Cardinality(Replied)

Meta == [secret : BOOLEAN, dying : BOOLEAN, overdue : BOOLEAN, msgs : Nat]

\* TypeOK, with the count of messages left to MessagesCounted.
Shape ==
  /\ wanted \in BOOLEAN /\ overtaken \in BOOLEAN
  /\ thread \in Meta \cup {NoThread}
  /\ armed \in BOOLEAN /\ fired \in BOOLEAN
  /\ row = NoRow \/ row \in Row
  /\ drop \in {"uploaded", "committed", "gone"}
  /\ ends \in [Enders -> [at : {"off", "telling", "told", "done"}, mine : BOOLEAN]]
  /\ commit \in [Commits -> {"idle", "sent", "create", "index", "done"}]
  /\ post \in [Posts -> {"idle", "verified", "done"}]
  /\ reply \in [Replies -> {"idle", "found", "created", "done"}]
  /\ delete \in {"idle", "drop", "row", "done", "died"}
  /\ expiry \in {"idle", "retry", "index", "thread", "wipe"}
  /\ reporter \in {"sending", "following", "forgot"}
  /\ polls \in 0 .. MaxPolls /\ fails \in 0 .. MaxFails

LEMMA CountsAreNumbers ==
  /\ IsFiniteSet(Written) /\ IsFiniteSet(Replied)
  /\ Cardinality(Written) \in Nat /\ Cardinality(Replied) \in Nat
  /\ Cardinality(Posts) \in Nat /\ Cardinality(Replies) \in Nat
  /\ Cardinality(Written) <= Cardinality(Posts)
  /\ Cardinality(Replied) <= Cardinality(Replies)
<1>1. /\ IsFiniteSet(Written) /\ Cardinality(Written) <= Cardinality(Posts)
      /\ IsFiniteSet(Replied) /\ Cardinality(Replied) <= Cardinality(Replies)
  BY FS_Subset, ThreadAssumption DEF Written, Replied
<1>. QED
  BY <1>1, FS_CardinalityType, ThreadAssumption

LEMMA TypesFollow == Shape /\ MessagesCounted => TypeOK
<1>. SUFFICES ASSUME Shape, MessagesCounted PROVE TypeOK
  OBVIOUS
<1>1. thread \in Threads \cup {NoThread}
  BY CountsAreNumbers DEF Shape, MessagesCounted, Meta, Threads
<1>. QED
  BY <1>1 DEF Shape, TypeOK

LEMMA ShapeStarts == Init => Shape /\ MessagesCounted
<1>. SUFFICES ASSUME Init PROVE Shape /\ MessagesCounted
  OBVIOUS
<1>1. row \in Row
  BY DEF Init, Reserved, Row
<1>2. ends \in [Enders -> [at : {"off", "telling", "told", "done"}, mine : BOOLEAN]]
  BY DEF Init
<1>3. /\ polls \in 0 .. MaxPolls /\ fails \in 0 .. MaxFails
  BY ThreadAssumption DEF Init
<1>4. /\ commit \in [Commits -> {"idle", "sent", "create", "index", "done"}]
      /\ post \in [Posts -> {"idle", "verified", "done"}]
      /\ reply \in [Replies -> {"idle", "found", "created", "done"}]
  BY DEF Init
<1>5. Shape
  BY <1>1, <1>2, <1>3, <1>4 DEF Init, Shape
<1>. QED
  BY <1>5 DEF Init, MessagesCounted

\* Writing, and creating, keep the kind of thing a thread is.
LEMMA ThreadShapes ==
  ASSUME thread \in Meta \cup {NoThread}, armed \in BOOLEAN
  PROVE  /\ \A n \in Nat : thread # NoThread /\ Write(n) =>
              thread' \in Meta /\ armed' \in BOOLEAN /\ thread'.msgs = thread.msgs + n
         /\ \A secret \in BOOLEAN : Create(secret) =>
              thread' \in Meta \cup {NoThread} /\ armed' \in BOOLEAN
         /\ Destroy => thread' = NoThread /\ armed' \in BOOLEAN
         /\ \A e : thread # NoThread /\ BeginDestroy(e) => thread' \in Meta
<1>1. ASSUME NEW n \in Nat, thread # NoThread, Write(n)
      PROVE  thread' \in Meta /\ armed' \in BOOLEAN /\ thread'.msgs = thread.msgs + n
  <2>1. PICK late \in {FALSE, thread.overdue} :
          thread' = [thread EXCEPT !.msgs = @ + n, !.overdue = late]
    BY <1>1 DEF Write
  <2>2. thread \in Meta /\ thread.overdue \in BOOLEAN /\ thread.msgs \in Nat
    BY <1>1 DEF Meta
  <2>3. late \in BOOLEAN
    BY <2>1, <2>2
  <2>4. thread.msgs + n \in Nat
    BY <2>2
  <2>5. thread' \in Meta /\ thread'.msgs = thread.msgs + n
    BY <2>1, <2>2, <2>3, <2>4 DEF Meta
  <2>. QED
    BY <1>1, <2>5 DEF Write
<1>2. ASSUME NEW secret \in BOOLEAN, Create(secret)
      PROVE  thread' \in Meta \cup {NoThread} /\ armed' \in BOOLEAN
  <2>1. [secret |-> secret, dying |-> FALSE, overdue |-> FALSE, msgs |-> 0] \in Meta
    BY DEF Meta
  <2>. QED
    BY <1>2, <2>1 DEF Create
<1>3. Destroy => thread' = NoThread /\ armed' \in BOOLEAN
  BY DEF Destroy
<1>4. ASSUME NEW e, thread # NoThread, BeginDestroy(e) PROVE thread' \in Meta
  BY <1>4 DEF BeginDestroy, Meta
<1>. QED
  BY <1>1, <1>2, <1>3, <1>4

LEMMA EndShapes ==
  ASSUME Shape, NEW e \in Enders, thread # NoThread, BeginDestroy(e)
  PROVE  ends' \in [Enders -> [at : {"off", "telling", "told", "done"}, mine : BOOLEAN]]
BY DEF Shape, BeginDestroy, Meta

LEMMA ShapeStays ==
  ASSUME Shape, Next PROVE Shape'
<1>. /\ thread \in Meta \cup {NoThread} /\ armed \in BOOLEAN
     /\ 0 \in Nat /\ 1 \in Nat /\ TRUE \in BOOLEAN /\ FALSE \in BOOLEAN
  BY DEF Shape
<1>1. ASSUME NEW e \in Enders, TellIndex(e) PROVE Shape'
  <2>1. row' = NoRow \/ row' \in Row
    BY <1>1 DEF Shape, TellIndex, ThreadEnded, Row
  <2>. QED
    BY <1>1, <2>1 DEF Shape, TellIndex, requests, bounds
<1>2. ASSUME NEW e \in Enders, Wipe(e) PROVE Shape'
  <2>1. ends' \in [Enders -> [at : {"off", "telling", "told", "done"}, mine : BOOLEAN]]
    BY <1>2 DEF Shape, Wipe
  <2>2. reporter' \in {"sending", "following", "forgot"}
    BY <1>2 DEF Shape, Wipe
  <2>3. thread' = NoThread /\ armed' = FALSE /\ row' = row /\ drop' = drop
    BY <1>2 DEF Wipe, Destroy
  <2>4. overtaken' = overtaken /\ wanted' = wanted /\ fired' = fired
    BY <1>2 DEF Wipe
  <2>5. UNCHANGED <<commit, post, reply, delete, expiry, polls, fails>>
    BY <1>2 DEF Wipe, requests, bounds
  <2>. QED
    BY <2>1, <2>2, <2>3, <2>4, <2>5 DEF Shape
<1>3. ASSUME NEW e \in Enders, TellFails(e) PROVE Shape'
  <2>1. thread' \in Meta \cup {NoThread}
    BY <1>3 DEF Shape, TellFails, Unmarked, Meta
  <2>2. ends' \in [Enders -> [at : {"off", "telling", "told", "done"}, mine : BOOLEAN]]
    BY <1>3 DEF Shape, TellFails
  <2>. QED
    BY <1>3, <2>1, <2>2, ThreadAssumption DEF Shape, TellFails, requests, bounds
<1>4. CASE Evicted
  <2>1. ends' \in [Enders -> [at : {"off", "telling", "told", "done"}, mine : BOOLEAN]]
    BY <1>4 DEF Shape, Evicted
  <2>. QED
    BY <1>4, <2>1, ThreadAssumption DEF Shape, Evicted, requests, bounds
<1>5. CASE TimePasses
  <2>1. thread' \in Meta
    BY <1>5 DEF TimePasses, Meta
  <2>2. commit' \in [Commits -> {"idle", "sent", "create", "index", "done"}]
    BY <1>5 DEF TimePasses, CommitsAreOver
  <2>3. UNCHANGED <<wanted, overtaken, armed, fired>>
    BY <1>5 DEF TimePasses
  <2>4. UNCHANGED <<row, drop, ends, post, reply, delete, expiry, reporter, polls, fails>>
    BY <1>5 DEF TimePasses, bounds
  <2>. QED
    BY <2>1, <2>2, <2>3, <2>4 DEF Shape
<1>6. CASE AlarmFires
  <2>1. armed' = FALSE /\ fired' = TRUE
    BY <1>6 DEF AlarmFires
  <2>2. overtaken' = overtaken /\ wanted' = wanted
    BY <1>6 DEF AlarmFires
  <2>3. thread' \in Meta \cup {NoThread} /\ (row' = NoRow \/ row' \in Row)
    BY <1>6 DEF AlarmFires, Shape
  <2>4. UNCHANGED <<drop, ends, commit, post, reply, delete, expiry, reporter, polls, fails>>
    BY <1>6 DEF AlarmFires, requests, bounds
  <2>. QED
    BY <2>1, <2>2, <2>3, <2>4 DEF Shape
<1>7. CASE Alarm
  <2>1. thread' \in Meta \cup {NoThread} /\ armed' \in BOOLEAN
    BY <1>7, ThreadShapes DEF Alarm
  <2>2. ends' \in [Enders -> [at : {"off", "telling", "told", "done"}, mine : BOOLEAN]]
    BY <1>7, EndShapes DEF Shape, Alarm, Enders
  <2>3. fired' = FALSE /\ overtaken' = overtaken /\ wanted' = wanted
    BY <1>7 DEF Alarm
  <2>4. UNCHANGED <<row, drop, commit, post, reply, delete, expiry, reporter, polls, fails>>
    BY <1>7 DEF Alarm, requests, bounds
  <2>. QED
    BY <2>1, <2>2, <2>3, <2>4 DEF Shape
<1>8. ASSUME NEW f \in Forgets, Forget(f) PROVE Shape'
  <2>. f \in Enders
    BY DEF Enders
  <2>1. thread' \in Meta \cup {NoThread}
    BY <1>8, ThreadShapes DEF Forget, MayRevoke
  <2>2. ends' \in [Enders -> [at : {"off", "telling", "told", "done"}, mine : BOOLEAN]]
    <3>1. CASE MayRevoke
      BY <1>8, <3>1, EndShapes DEF Forget, MayRevoke
    <3>2. CASE ~MayRevoke
      BY <1>8, <3>2 DEF Shape, Forget
    <3>. QED
      BY <3>1, <3>2
  <2>3. reporter' \in {"sending", "following", "forgot"}
    BY <1>8 DEF Shape, Forget
  <2>. QED
    BY <1>8, <2>1, <2>2, <2>3 DEF Shape, Forget, requests, bounds
<1>9. CASE Poll
  <2>1. thread' \in Meta /\ armed' \in BOOLEAN
    BY <1>9, ThreadShapes DEF Poll, Authorized, Live
  <2>2. polls' \in 0 .. MaxPolls
    BY <1>9, ThreadAssumption DEF Shape, Poll
  <2>. QED
    BY <1>9, <2>1, <2>2 DEF Shape, Poll, requests
<1>10. ASSUME NEW p \in Posts, PostVerify(p) PROVE Shape'
  BY <1>10 DEF Shape, PostVerify, bounds
<1>11. ASSUME NEW p \in Posts, PostReporter(p) PROVE Shape'
  <2>1. thread' \in Meta \cup {NoThread} /\ armed' \in BOOLEAN
    BY <1>11, ThreadShapes DEF PostReporter, Authorized, Live
  <2>. QED
    BY <1>11, <2>1 DEF Shape, PostReporter, bounds
<1>12. ASSUME NEW c \in Commits, CommitSend(c) \/ CommitDrop(c) \/ CommitDies(c) PROVE Shape'
  <2>1. CASE CommitDrop(c)
    BY <2>1 DEF Shape, CommitDrop, bounds
  <2>2. CASE CommitSend(c) \/ CommitDies(c)
    BY <2>2 DEF Shape, CommitSend, CommitDies, bounds
  <2>. QED
    BY <1>12, <2>1, <2>2
<1>13. ASSUME NEW c \in Commits, CommitThread(c) PROVE Shape'
  <2>1. thread' \in Meta \cup {NoThread} /\ armed' \in BOOLEAN
    BY <1>13, ThreadShapes DEF CommitThread
  <2>. QED
    BY <1>13, <2>1 DEF Shape, CommitThread, bounds
<1>14. ASSUME NEW c \in Commits, CommitIndex(c) PROVE Shape'
  <2>1. row' = NoRow \/ row' \in Row
    BY <1>14 DEF Shape, CommitIndex, CommitReport, Row
  <2>2. reporter' \in {"sending", "following", "forgot"}
    BY <1>14 DEF Shape, CommitIndex
  <2>. QED
    BY <1>14, <2>1, <2>2 DEF Shape, CommitIndex, bounds
<1>15. ASSUME NEW r \in Replies, ReplyFind(r) PROVE Shape'
  BY <1>15 DEF Shape, ReplyFind, bounds
<1>16. ASSUME NEW r \in Replies, ReplyCreate(r) PROVE Shape'
  <2>1. thread' \in Meta \cup {NoThread} /\ armed' \in BOOLEAN
    BY <1>16, ThreadShapes DEF ReplyCreate
  <2>. QED
    BY <1>16, <2>1 DEF Shape, ReplyCreate, bounds
<1>17. ASSUME NEW r \in Replies, ReplyPost(r) PROVE Shape'
  <2>1. thread' \in Meta \cup {NoThread} /\ armed' \in BOOLEAN
    BY <1>17, ThreadShapes DEF ReplyPost, Live
  <2>. QED
    BY <1>17, <2>1 DEF Shape, ReplyPost, bounds
<1>18. CASE DeleteThread \/ DeleteDrop \/ DeleteRow
  <2>1. UNCHANGED <<wanted, overtaken, fired>>
    BY <1>18 DEF DeleteThread, DeleteDrop, DeleteRow
  <2>2. thread' \in {thread, NoThread} /\ row' \in {row, NoRow} /\ drop' \in {drop, "gone"}
    BY <1>18 DEF DeleteThread, DeleteDrop, DeleteRow, Destroy
  <2>3. armed' \in BOOLEAN
    BY <1>18 DEF DeleteThread, DeleteDrop, DeleteRow, Destroy
  <2>4. delete' \in {"drop", "row", "done"}
    BY <1>18 DEF DeleteThread, DeleteDrop, DeleteRow
  <2>5. UNCHANGED <<ends, commit, post, reply, expiry, reporter, polls, fails>>
    BY <1>18 DEF DeleteThread, DeleteDrop, DeleteRow, bounds
  <2>. QED
    BY <2>1, <2>2, <2>3, <2>4, <2>5 DEF Shape
<1>19. CASE DeleteDies \/ ExpireFails
  BY <1>19, ThreadAssumption DEF Shape, DeleteDies, ExpireFails
<1>20. CASE ExpireBegins
  <2>1. commit' \in [Commits -> {"idle", "sent", "create", "index", "done"}]
    BY <1>20 DEF Shape, ExpireBegins, CommitsAreOver
  <2>. QED
    BY <1>20, <2>1 DEF Shape, ExpireBegins, bounds
<1>21. CASE ExpireIndex
  <2>1. row' = NoRow \/ row' \in Row
    BY <1>21 DEF Shape, ExpireIndex, BundleExpired, Row
  <2>. QED
    BY <1>21, <2>1 DEF Shape, ExpireIndex, bounds
<1>22. CASE ExpireThread \/ ExpireWipe
  <2>1. UNCHANGED <<wanted, overtaken, fired>>
    BY <1>22 DEF ExpireThread, ExpireWipe
  <2>2. thread' \in {thread, NoThread} /\ row' = row /\ drop' \in {drop, "gone"}
    BY <1>22 DEF ExpireThread, ExpireWipe, Destroy
  <2>3. armed' \in BOOLEAN
    BY <1>22 DEF ExpireThread, ExpireWipe, Destroy
  <2>4. expiry' \in {"wipe", "idle"}
    BY <1>22 DEF ExpireThread, ExpireWipe
  <2>5. UNCHANGED <<ends, commit, post, reply, delete, reporter, polls, fails>>
    BY <1>22 DEF ExpireThread, ExpireWipe, bounds
  <2>. QED
    BY <2>1, <2>2, <2>3, <2>4, <2>5 DEF Shape
<1>. QED
  BY <1>1, <1>2, <1>3, <1>4, <1>5, <1>6, <1>7, <1>8, <1>9, <1>10, <1>11, <1>12, <1>13,
     <1>14, <1>15, <1>16, <1>17, <1>18, <1>19, <1>20, <1>21, <1>22 DEF Next

LEMMA OneMoreCounted ==
  /\ \A p \in Posts : Shape /\ post[p] # "done" /\ post' = [post EXCEPT ![p] = "done"] =>
       Cardinality(Written') = Cardinality(Written) + 1
  /\ \A r \in Replies : Shape /\ reply[r] # "done" /\ reply' = [reply EXCEPT ![r] = "done"] =>
       Cardinality(Replied') = Cardinality(Replied) + 1
<1>1. ASSUME NEW p \in Posts, post[p] # "done", post' = [post EXCEPT ![p] = "done"], Shape
      PROVE  Cardinality(Written') = Cardinality(Written) + 1
  <2>1. Written' = Written \cup {p} /\ p \notin Written
    BY <1>1 DEF Written, Shape
  <2>. QED
    BY <2>1, CountsAreNumbers, FS_AddElement
<1>2. ASSUME NEW r \in Replies, reply[r] # "done", reply' = [reply EXCEPT ![r] = "done"], Shape
      PROVE  Cardinality(Replied') = Cardinality(Replied) + 1
  <2>1. Replied' = Replied \cup {r} /\ r \notin Replied
    BY <1>2 DEF Replied, Shape
  <2>. QED
    BY <2>1, CountsAreNumbers, FS_AddElement
<1>. QED
  BY <1>1, <1>2

LEMMA MessagesStayCounted ==
  ASSUME Shape, MessagesCounted, Next PROVE MessagesCounted'
<1>. DEFINE Count == Cardinality(Written) + Cardinality(Replied)
<1>. Count \in Nat /\ thread \in Meta \cup {NoThread} /\ armed \in BOOLEAN
     /\ 0 \in Nat /\ 1 \in Nat /\ TRUE \in BOOLEAN /\ FALSE \in BOOLEAN
  BY CountsAreNumbers DEF Shape
<1>0. thread # NoThread => thread.msgs \in Nat /\ thread.msgs <= Count
  BY DEF Meta, MessagesCounted
<1>1. ASSUME UNCHANGED <<post, reply>>,
             thread' = NoThread \/ thread'.msgs = 0 \/ (thread # NoThread /\ thread'.msgs = thread.msgs)
      PROVE  MessagesCounted'
  <2>1. Written' = Written /\ Replied' = Replied
    BY <1>1 DEF Written, Replied
  <2>2. Count' = Count
    BY <2>1
  <2>. QED
    BY <1>0, <1>1, <2>1, <2>2 DEF MessagesCounted
<1>2. ASSUME thread # NoThread, Write(0), UNCHANGED <<post, reply>> PROVE MessagesCounted'
  BY <1>0, <1>1, <1>2, ThreadShapes
<1>3. ASSUME NEW secret \in BOOLEAN, Create(secret), UNCHANGED post,
             Cardinality(Replied') = Cardinality(Replied)
      PROVE  MessagesCounted'
  <2>1. Written' = Written
    BY <1>3 DEF Written
  <2>2. thread' = NoThread \/ thread'.msgs = 0 \/ (thread # NoThread /\ thread'.msgs = thread.msgs)
    BY <1>3 DEF Create
  <2>. QED
    BY <1>0, <1>3, <2>1, <2>2 DEF MessagesCounted
<1>4. ASSUME NEW e \in Enders, BeginDestroy(e), thread # NoThread, UNCHANGED <<post, reply>>
      PROVE  MessagesCounted'
  <2>1. thread'.msgs = thread.msgs
    BY <1>4 DEF BeginDestroy, Meta
  <2>. QED
    BY <1>1, <1>4, <2>1
<1>5. ASSUME NEW e \in Enders, TellIndex(e) \/ Wipe(e) PROVE MessagesCounted'
  BY <1>1, <1>5 DEF TellIndex, Wipe, Destroy, requests, MessagesCounted, Written, Replied
<1>6. ASSUME NEW e \in Enders, TellFails(e) PROVE MessagesCounted'
  <2>1. thread' = NoThread \/ (thread # NoThread /\ thread'.msgs = thread.msgs)
    BY <1>6 DEF TellFails, Unmarked, Meta
  <2>. QED
    BY <1>1, <1>6, <2>1 DEF TellFails, requests
<1>7. CASE TimePasses
  <2>1. thread # NoThread /\ thread'.msgs = thread.msgs
    BY <1>7 DEF TimePasses, Meta
  <2>. QED
    BY <1>1, <1>7, <2>1 DEF TimePasses
<1>8. CASE Alarm
  <2>. "alarm" \in Enders
    BY DEF Enders
  <2>. QED
    BY <1>4, <1>8 DEF Alarm, requests, MessagesCounted, Written, Replied
<1>9. ASSUME NEW f \in Forgets, Forget(f) PROVE MessagesCounted'
  <2>. f \in Enders
    BY DEF Enders
  <2>. QED
    BY <1>4, <1>9 DEF Forget, MayRevoke, requests, MessagesCounted, Written, Replied
<1>10. CASE Poll
  BY <1>2, <1>10 DEF Poll, Authorized, Live, requests
<1>11. ASSUME NEW p \in Posts, PostVerify(p) \/ PostReporter(p) PROVE MessagesCounted'
  <2>. Replied' = Replied
    BY <1>11 DEF PostVerify, PostReporter, Replied
  <2>1. CASE post[p] # "done" /\ post' = [post EXCEPT ![p] = "done"]
    <3>. Cardinality(Written') = Cardinality(Written) + 1
      BY <2>1, OneMoreCounted
    <3>1. thread' = NoThread \/ (thread # NoThread /\ thread'.msgs <= thread.msgs + 1)
      BY <1>0, <1>11, ThreadShapes DEF PostVerify, PostReporter, Authorized, Live
    <3>2. thread' # NoThread => thread'.msgs \in Nat
      BY ShapeStays DEF Shape, Meta
    <3>. QED
      BY <1>0, <3>1, <3>2, CountsAreNumbers DEF MessagesCounted
  <2>2. CASE PostVerify(p) /\ post' = [post EXCEPT ![p] = "verified"] /\ post[p] = "idle"
    <3>. Written' = Written
      BY <2>2 DEF Written, Shape
    <3>. QED
      BY <1>0, <2>2 DEF PostVerify, MessagesCounted
  <2>. QED
    BY <1>11, <2>1, <2>2 DEF PostVerify, PostReporter
<1>12. ASSUME NEW c \in Commits, CommitSend(c) \/ CommitDrop(c) \/ CommitIndex(c) \/ CommitDies(c)
       PROVE  MessagesCounted'
  BY <1>12 DEF CommitSend, CommitDrop, CommitIndex, CommitDies, MessagesCounted, Written, Replied
<1>13. ASSUME NEW c \in Commits, CommitThread(c) PROVE MessagesCounted'
  BY <1>3, <1>13 DEF CommitThread, Replied
<1>14. ASSUME NEW r \in Replies, ReplyFind(r) \/ ReplyCreate(r) PROVE MessagesCounted'
  <2>1. Replied' = Replied
    BY <1>14 DEF ReplyFind, ReplyCreate, Replied, Shape
  <2>. QED
    BY <1>3, <1>14, <2>1 DEF ReplyFind, ReplyCreate, MessagesCounted, Written
<1>15. ASSUME NEW r \in Replies, ReplyPost(r) PROVE MessagesCounted'
  <2>. Written' = Written /\ Cardinality(Replied') = Cardinality(Replied) + 1
    BY <1>15, OneMoreCounted DEF ReplyPost, Written
  <2>1. thread' = NoThread \/ (thread # NoThread /\ thread'.msgs <= thread.msgs + 1)
    BY <1>0, <1>15, ThreadShapes DEF ReplyPost, Live
  <2>2. thread' # NoThread => thread'.msgs \in Nat
    BY ShapeStays DEF Shape, Meta
  <2>. QED
    BY <1>0, <2>1, <2>2, CountsAreNumbers DEF MessagesCounted
<1>16. CASE Evicted \/ AlarmFires \/ DeleteDrop \/ DeleteRow \/ DeleteDies
            \/ ExpireBegins \/ ExpireIndex \/ ExpireWipe \/ ExpireFails
  BY <1>16 DEF Evicted, AlarmFires, DeleteDrop, DeleteRow, DeleteDies, ExpireBegins,
               ExpireIndex, ExpireWipe, ExpireFails, requests, MessagesCounted, Written, Replied
<1>17. CASE DeleteThread \/ ExpireThread
  BY <1>17 DEF DeleteThread, ExpireThread, Destroy, MessagesCounted
<1>. QED
  BY <1>5, <1>6, <1>7, <1>8, <1>9, <1>10, <1>11, <1>12, <1>13, <1>14, <1>15, <1>16, <1>17
     DEF Next

\* TypeOK is an invariant: also the count of messages is bounded, whatever
\* threads were ended and created again.
THEOREM TypeCorrect == Spec => []TypeOK
<1>1. Init => Shape /\ MessagesCounted
  BY ShapeStarts
<1>2. Shape /\ MessagesCounted /\ [Next]_vars => (Shape /\ MessagesCounted)'
  <2>1. CASE UNCHANGED vars
    BY <2>1 DEF vars, requests, bounds, Shape, MessagesCounted, Written, Replied
  <2>. QED
    BY <2>1, ShapeStays, MessagesStayCounted
<1>3. Shape /\ MessagesCounted => TypeOK
  BY TypesFollow
<1>. QED
  BY <1>1, <1>2, <1>3, PTL DEF Spec

-----------------------------------------------------------------------------
(* The inductive steps                                                     *)

LEMMA InvariantStarts == Init => LifeInv
<1>. SUFFICES ASSUME Init PROVE LifeInv
  OBVIOUS
<1>1. /\ \A c \in Commits : commit[c] = "idle"
      /\ \A e \in Enders : ends[e].at = "off"
      /\ \A r \in Replies : reply[r] = "idle"
      /\ row.committed = FALSE /\ row.following = FALSE
  BY DEF Init, Reserved
<1>2. ~Begun
  BY <1>1 DEF Begun, Enders
<1>. QED
  BY <1>1, <1>2 DEF Init, LifeInv, ForgetsComeLater, EndsComeLater, ThreadOfCommit, RepliesFollow,
       RowIsTold, RowHasThread, ForgottenForGood, Flying, SecretKnown

\* No COMMIT begins again.
LEMMA CommitsStaySettled ==
  ASSUME Shape, Next, CommitsSettled PROVE CommitsSettled'
<1>. /\ \A c \in Commits : commit[c] \in {"idle", "done"}
     /\ reporter # "sending" \/ \A c \in Commits : commit[c] = "done"
     /\ reporter \in {"sending", "following", "forgot"}
  BY DEF CommitsSettled, Running, Shape
<1>1. ASSUME UNCHANGED commit, reporter' = reporter \/ reporter' # "sending" PROVE CommitsSettled'
  BY <1>1 DEF CommitsSettled, Running
<1>2. ASSUME CommitsAreOver PROVE CommitsSettled'
  BY <1>2 DEF CommitsSettled, CommitsAreOver, Running
<1>3. ASSUME NEW c \in Commits,
             \/ CommitSend(c) \/ CommitDrop(c) \/ CommitThread(c)
             \/ CommitIndex(c) \/ CommitDies(c)
      PROVE  FALSE
  BY <1>3 DEF CommitSend, CommitDrop, CommitThread, CommitIndex, CommitDies, Running
<1>4. CASE TimePasses \/ ExpireBegins
  BY <1>1, <1>2, <1>4 DEF TimePasses, ExpireBegins
<1>5. ASSUME NEW e \in Enders, TellIndex(e) \/ Wipe(e) \/ TellFails(e) PROVE CommitsSettled'
  BY <1>1, <1>5 DEF TellIndex, Wipe, TellFails, requests
<1>6. ASSUME NEW f \in Forgets, Forget(f) PROVE CommitsSettled'
  BY <1>1, <1>6 DEF Forget, requests
<1>7. ASSUME NEW p \in Posts, PostVerify(p) \/ PostReporter(p) PROVE CommitsSettled'
  BY <1>1, <1>7 DEF PostVerify, PostReporter
<1>8. ASSUME NEW r \in Replies, ReplyFind(r) \/ ReplyCreate(r) \/ ReplyPost(r)
      PROVE  CommitsSettled'
  BY <1>1, <1>8 DEF ReplyFind, ReplyCreate, ReplyPost
<1>9. CASE Evicted \/ AlarmFires \/ Alarm \/ Poll
  BY <1>1, <1>9 DEF Evicted, AlarmFires, Alarm, Poll, requests
<1>10. CASE DeleteThread \/ DeleteDrop \/ DeleteRow \/ DeleteDies
            \/ ExpireIndex \/ ExpireThread \/ ExpireWipe \/ ExpireFails
  BY <1>1, <1>10 DEF DeleteThread, DeleteDrop, DeleteRow, DeleteDies,
       ExpireIndex, ExpireThread, ExpireWipe, ExpireFails
<1>. QED
  BY <1>3, <1>4, <1>5, <1>6, <1>7, <1>8, <1>9, <1>10 DEF Next

\* Where a Forget is, changes only forwards, and only a Forget begins one.
LEMMA ForgetsMoveOn ==
  ASSUME Shape, Next, NEW f \in Forgets
  PROVE  /\ ends[f].at # "off" => ends'[f].at # "off"
         /\ ends[f].at = "off" /\ ends'[f].at # "off" => Forget(f)
<1>. f \in Enders /\ "alarm" \in Enders /\ f # "alarm"
  BY ThreadAssumption DEF Enders
<1>. ends \in [Enders -> [at : {"off", "telling", "told", "done"}, mine : BOOLEAN]]
  BY DEF Shape
<1>1. ASSUME UNCHANGED ends
      PROVE  /\ ends[f].at # "off" => ends'[f].at # "off"
             /\ ends[f].at = "off" /\ ends'[f].at # "off" => Forget(f)
  BY <1>1
<1>2. ASSUME NEW e \in Enders, TellIndex(e) \/ Wipe(e) \/ TellFails(e)
      PROVE  /\ ends[f].at # "off" => ends'[f].at # "off"
             /\ ends[f].at = "off" /\ ends'[f].at # "off" => Forget(f)
  BY <1>2 DEF TellIndex, Wipe, TellFails, Flying
<1>3. CASE Evicted
  BY <1>3 DEF Evicted, Flying
<1>4. CASE Alarm
  BY <1>4 DEF Alarm, BeginDestroy
<1>5. ASSUME NEW g \in Forgets, Forget(g)
      PROVE  /\ ends[f].at # "off" => ends'[f].at # "off"
             /\ ends[f].at = "off" /\ ends'[f].at # "off" => Forget(f)
  <2>. g \in Enders
    BY DEF Enders
  <2>1. g # f => ends'[f] = ends[f]
    BY <1>5 DEF Forget, BeginDestroy
  <2>2. g = f => ends'[f].at # "off"
    BY <1>5 DEF Forget, BeginDestroy
  <2>. QED
    BY <1>5, <2>1, <2>2
<1>6. ASSUME NEW p \in Posts, PostVerify(p) \/ PostReporter(p) PROVE UNCHANGED ends
  BY <1>6 DEF PostVerify, PostReporter
<1>7. ASSUME NEW c \in Commits,
             \/ CommitSend(c) \/ CommitDrop(c) \/ CommitThread(c)
             \/ CommitIndex(c) \/ CommitDies(c)
      PROVE  UNCHANGED ends
  BY <1>7 DEF CommitSend, CommitDrop, CommitThread, CommitIndex, CommitDies
<1>8. ASSUME NEW r \in Replies, ReplyFind(r) \/ ReplyCreate(r) \/ ReplyPost(r)
      PROVE  UNCHANGED ends
  BY <1>8 DEF ReplyFind, ReplyCreate, ReplyPost
<1>9. CASE TimePasses \/ AlarmFires \/ Poll
  BY <1>1, <1>9 DEF TimePasses, AlarmFires, Poll
<1>10. CASE DeleteThread \/ DeleteDrop \/ DeleteRow \/ DeleteDies
  BY <1>1, <1>10 DEF DeleteThread, DeleteDrop, DeleteRow, DeleteDies
<1>11. CASE ExpireBegins \/ ExpireIndex \/ ExpireThread \/ ExpireWipe \/ ExpireFails
  BY <1>1, <1>11 DEF ExpireBegins, ExpireIndex, ExpireThread, ExpireWipe, ExpireFails
<1>. QED
  BY <1>1, <1>2, <1>3, <1>4, <1>5, <1>6, <1>7, <1>8, <1>9, <1>10, <1>11 DEF Next

LEMMA SettledStays ==
  ASSUME Shape, Next, Settled PROVE Settled'
<1>1. CASE CommitsSettled
  BY <1>1, CommitsStaySettled DEF Settled
<1>2. CASE Begun
  BY <1>2, ForgetsMoveOn DEF Settled, Begun
<1>. QED
  BY <1>1, <1>2 DEF Settled

LEMMA ForgetsStayLater ==
  ASSUME Shape, Next, ForgetsComeLater PROVE ForgetsComeLater'
<1>1. Begun => Begun'
  BY ForgetsMoveOn DEF Begun
<1>2. Begun' => Begun \/ \E f \in Forgets : Forget(f)
  BY ForgetsMoveOn DEF Begun
<1>3. ASSUME NEW f \in Forgets, Forget(f) PROVE ForgetsComeLater'
  <2>. f \in Enders /\ ends \in [Enders -> [at : {"off", "telling", "told", "done"}, mine : BOOLEAN]]
    BY DEF Enders, Shape
  <2>1. ends'[f].at # "off"
    BY <1>3 DEF Forget, BeginDestroy
  <2>2. reporter' # "sending"
    BY <1>3 DEF Forget
  <2>. QED
    BY <2>1, <2>2 DEF ForgetsComeLater, Begun
<1>4. ASSUME NEW e \in Enders, Wipe(e), Begun' => Begun PROVE ForgetsComeLater'
  <2>1. CASE e = "alarm"
    BY <1>1, <1>4, <2>1 DEF Wipe, ForgetsComeLater
  <2>2. CASE e \in Forgets
    <3>1. Begun
      BY <1>4, <2>2 DEF Wipe, Begun
    <3>2. reporter' # "sending"
      BY <1>4, <3>1 DEF Wipe, ForgetsComeLater
    <3>. QED
      BY <1>1, <3>1, <3>2 DEF ForgetsComeLater
  <2>. QED
    BY <2>1, <2>2 DEF Enders
<1>5. ASSUME NEW c \in Commits, CommitIndex(c), Begun' => Begun PROVE ForgetsComeLater'
  BY <1>1, <1>5 DEF CommitIndex, ForgetsComeLater
<1>6. ASSUME reporter' = reporter, Begun' => Begun PROVE ForgetsComeLater'
  BY <1>1, <1>6 DEF ForgetsComeLater
<1>7. ASSUME NEW e \in Enders, TellIndex(e) \/ TellFails(e) PROVE reporter' = reporter
  BY <1>7 DEF TellIndex, TellFails
<1>8. ASSUME NEW p \in Posts, PostVerify(p) \/ PostReporter(p) PROVE reporter' = reporter
  BY <1>8 DEF PostVerify, PostReporter
<1>9. ASSUME NEW c \in Commits, CommitSend(c) \/ CommitDrop(c) \/ CommitThread(c) \/ CommitDies(c)
      PROVE  reporter' = reporter
  BY <1>9 DEF CommitSend, CommitDrop, CommitThread, CommitDies
<1>10. ASSUME NEW r \in Replies, ReplyFind(r) \/ ReplyCreate(r) \/ ReplyPost(r)
      PROVE  reporter' = reporter
  BY <1>10 DEF ReplyFind, ReplyCreate, ReplyPost
<1>11. ASSUME Evicted \/ TimePasses \/ AlarmFires \/ Alarm \/ Poll PROVE reporter' = reporter
  BY <1>11 DEF Evicted, TimePasses, AlarmFires, Alarm, Poll
<1>12. ASSUME \/ DeleteThread \/ DeleteDrop \/ DeleteRow \/ DeleteDies
              \/ ExpireBegins \/ ExpireIndex \/ ExpireThread \/ ExpireWipe \/ ExpireFails
       PROVE  reporter' = reporter
  BY <1>12 DEF DeleteThread, DeleteDrop, DeleteRow, DeleteDies,
       ExpireBegins, ExpireIndex, ExpireThread, ExpireWipe, ExpireFails
<1>13. CASE ~(Begun' => Begun)
  BY <1>2, <1>3, <1>13
<1>14. CASE Begun' => Begun
  BY <1>3, <1>4, <1>5, <1>6, <1>7, <1>8, <1>9, <1>10, <1>11, <1>12, <1>14 DEF Next
<1>. QED
  BY <1>13, <1>14

\* A step that takes from the state only what the invariant can spare.
LEMMA Undisturbed ==
  ASSUME Shape, LifeInv, Next,
         UNCHANGED <<wanted, row, commit>>,
         reporter' = "forgot" /\ SecretKnown => reporter = "forgot",
         delete' = "idle" => delete = "idle",
         expiry' = "thread" => expiry = "thread",
         \A r \in Replies : reply'[r] = "found" => reply[r] = "found",
         \A e \in Enders : ends'[e].at = "told" => ends[e].at = "told",
         Flying' # {} => Flying # {} \/ Settled',
         thread' # NoThread <=> thread # NoThread,
         thread' # NoThread => thread'.secret = thread.secret,
         thread' # NoThread /\ (thread'.dying \/ thread'.overdue)
           => thread.dying \/ thread.overdue \/ Settled'
  PROVE  LifeInv'
<1>. USE DEF LifeInv
<1>1. SecretKnown' <=> SecretKnown
  BY DEF SecretKnown
<1>2. Kept' => Kept
  BY DEF Kept
<1>3. Settled => Settled'
  BY SettledStays
<1>4. ForgetsComeLater'
  BY ForgetsStayLater
<1>5. EndsComeLater'
  BY <1>3 DEF EndsComeLater
<1>6. ThreadOfCommit'
  BY <1>1, <1>2, <1>3 DEF ThreadOfCommit
<1>7. RepliesFollow' /\ RowIsTold'
  BY DEF RepliesFollow, RowIsTold
<1>8. RowHasThread' /\ ForgottenForGood'
  BY <1>1, <1>2 DEF RowHasThread, ForgottenForGood
<1>. QED
  BY <1>4, <1>5, <1>6, <1>7, <1>8

\* A destroy begins when no COMMIT may run any more, or is a Forget.
LEMMA BeginUndisturbed ==
  ASSUME Shape, LifeInv, Next, NEW e \in Enders, thread # NoThread, BeginDestroy(e), Settled',
         UNCHANGED <<wanted, row, requests, reporter>>
  PROVE  LifeInv'
<1>1. thread \in Meta
  BY DEF Shape
<1>2. thread' \in Meta /\ thread' = [thread EXCEPT !.dying = TRUE]
  BY <1>1, ThreadShapes DEF BeginDestroy, Shape
<1>3. thread' # NoThread /\ thread'.secret = thread.secret
  <2>1. [thread EXCEPT !.dying = TRUE] # NoThread
    BY <1>1 DEF Meta, NoThread
  <2>. QED
    BY <1>1, <1>2, <2>1 DEF Meta
<1>4. \A x \in Enders : ends'[x].at = "told" => ends[x].at = "told"
  BY DEF BeginDestroy, Shape
<1>. QED
  BY <1>3, <1>4, Undisturbed DEF requests

LEMMA EndSteps ==
  ASSUME Shape, LifeInv, Next, NEW e \in Enders, TellIndex(e) \/ Wipe(e) \/ TellFails(e)
  PROVE  LifeInv'
<1>1. CASE TellIndex(e)
  <2>. Settled /\ Settled'
    BY <1>1, SettledStays DEF LifeInv, EndsComeLater, TellIndex, Flying
  <2>1. row' = NoRow \/ ~row'.following
    BY <1>1 DEF TellIndex, ThreadEnded, Shape, Row
  <2>2. row' # NoRow => row # NoRow /\ row'.committed = row.committed
    BY <1>1 DEF TellIndex, ThreadEnded, Shape, Row
  <2>3. ForgetsComeLater' /\ EndsComeLater'
    BY ForgetsStayLater DEF LifeInv, EndsComeLater
  <2>4. ThreadOfCommit'
    BY DEF ThreadOfCommit
  <2>5. RepliesFollow' /\ RowIsTold' /\ RowHasThread'
    BY <1>1, <2>1, <2>2 DEF LifeInv, RepliesFollow, RowIsTold, RowHasThread, Kept, TellIndex, requests
  <2>6. ForgottenForGood'
    BY <1>1 DEF LifeInv, ForgottenForGood, SecretKnown, TellIndex
  <2>. QED
    BY <2>3, <2>4, <2>5, <2>6 DEF LifeInv
<1>2. CASE Wipe(e)
  <2>. Settled /\ Settled'
    BY <1>2, SettledStays DEF LifeInv, EndsComeLater, Wipe, Flying
  <2>1. row = NoRow \/ ~row.following
    BY <1>2 DEF LifeInv, RowIsTold, Wipe
  <2>2. thread' = NoThread /\ UNCHANGED <<row, reply, expiry>>
    BY <1>2 DEF Wipe, Destroy, requests
  <2>3. \A x \in Enders : ends'[x].at = "told" => ends[x].at = "told"
    BY <1>2 DEF Wipe, Shape
  <2>4. ForgetsComeLater' /\ EndsComeLater'
    BY ForgetsStayLater DEF LifeInv, EndsComeLater
  <2>5. ThreadOfCommit'
    BY DEF ThreadOfCommit
  <2>6. RepliesFollow' /\ RowIsTold' /\ RowHasThread' /\ ForgottenForGood'
    BY <2>1, <2>2, <2>3 DEF LifeInv, RepliesFollow, RowIsTold, RowHasThread, Kept,
                            ForgottenForGood, SecretKnown
  <2>. QED
    BY <2>4, <2>5, <2>6 DEF LifeInv
<1>3. CASE TellFails(e)
  <2>1. Settled'
    BY <1>3, SettledStays DEF LifeInv, EndsComeLater, TellFails
  <2>2. thread # NoThread => thread \in Meta
    BY DEF Shape
  <2>3. thread # NoThread =>
          thread' # NoThread /\ thread'.secret = thread.secret
    BY <1>3, <2>2 DEF TellFails, Unmarked, Meta, NoThread
  <2>4. thread = NoThread => thread' = NoThread
    BY <1>3 DEF TellFails, Unmarked
  <2>5. \A x \in Enders : ends'[x].at = "told" => ends[x].at = "told"
    BY <1>3 DEF TellFails, Shape
  <2>. QED
    BY <1>3, <2>1, <2>3, <2>4, <2>5, Undisturbed DEF TellFails, requests
<1>. QED
  BY <1>1, <1>2, <1>3

LEMMA ClockSteps ==
  ASSUME Shape, LifeInv, Next, Evicted \/ TimePasses \/ AlarmFires \/ Alarm
  PROVE  LifeInv'
<1>1. CASE Evicted
  <2>1. Settled'
    BY <1>1, SettledStays DEF LifeInv, EndsComeLater, Evicted
  <2>2. \A x \in Enders : ends'[x].at = "told" => ends[x].at = "told"
    BY <1>1 DEF Evicted, Shape
  <2>. QED
    BY <1>1, <2>1, <2>2, Undisturbed DEF Evicted, requests
<1>2. CASE TimePasses
  <2>. Settled'
    BY <1>2 DEF TimePasses, CommitsAreOver, Settled, CommitsSettled, Running
  <2>1. thread \in Meta /\ thread # NoThread
    BY <1>2 DEF TimePasses, Shape
  <2>2. SecretKnown' => SecretKnown
    BY <1>2, <2>1 DEF TimePasses, SecretKnown, Meta
  <2>3. SecretKnown => SecretKnown'
    BY <1>2, <2>1 DEF TimePasses, SecretKnown, Meta, NoThread
  <2>4. ForgetsComeLater' /\ EndsComeLater'
    BY ForgetsStayLater DEF LifeInv, EndsComeLater
  <2>5. ThreadOfCommit'
    BY DEF ThreadOfCommit
  <2>6. RepliesFollow' /\ RowIsTold' /\ RowHasThread' /\ ForgottenForGood'
    BY <1>2, <2>2, <2>3 DEF LifeInv, RepliesFollow, RowIsTold, RowHasThread, Kept,
                            ForgottenForGood, TimePasses
  <2>. QED
    BY <2>4, <2>5, <2>6 DEF LifeInv
<1>3. CASE AlarmFires
  BY <1>3, Undisturbed DEF AlarmFires, requests, Flying
<1>4. CASE Alarm
  <2>. "alarm" \in Enders
    BY DEF Enders
  <2>1. CASE thread # NoThread /\ (thread.dying \/ thread.overdue)
    <3>1. Settled'
      BY <2>1, SettledStays DEF LifeInv, EndsComeLater
    <3>. QED
      BY <1>4, <2>1, <3>1, BeginUndisturbed DEF Alarm
  <2>2. CASE thread = NoThread \/ (~thread.dying /\ ~thread.overdue)
    <3>1. UNCHANGED <<thread, ends>>
      BY <1>4, <2>2 DEF Alarm
    <3>. QED
      BY <1>4, <3>1, Undisturbed DEF Alarm, requests, Flying
  <2>. QED
    BY <2>1, <2>2
<1>. QED
  BY <1>1, <1>2, <1>3, <1>4

\* A message or a poll changes neither what the thread knows nor its end.
LEMMA WriteKeeps ==
  ASSUME NEW n \in Nat, thread \in Meta, thread # NoThread, Write(n)
  PROVE  /\ thread' # NoThread /\ thread'.secret = thread.secret
         /\ thread'.dying \/ thread'.overdue => thread.dying \/ thread.overdue
<1>1. PICK late \in {FALSE, thread.overdue} :
        thread' = [thread EXCEPT !.msgs = @ + n, !.overdue = late]
  BY DEF Write
<1>2. thread'.secret = thread.secret /\ thread'.dying = thread.dying /\ thread'.overdue = late
  BY <1>1 DEF Meta
<1>3. thread' # NoThread
  BY <1>1 DEF Meta, NoThread
<1>. QED
  BY <1>1, <1>2, <1>3

LEMMA ReporterSteps ==
  ASSUME Shape, LifeInv, Next,
         \/ \E f \in Forgets : Forget(f)
         \/ Poll
         \/ \E p \in Posts : PostVerify(p) \/ PostReporter(p)
  PROVE  LifeInv'
<1>. thread \in Meta \cup {NoThread} /\ armed \in BOOLEAN /\ 0 \in Nat /\ 1 \in Nat
  BY DEF Shape
<1>1. ASSUME NEW f \in Forgets, Forget(f) PROVE LifeInv'
  <2>. f \in Enders
    BY DEF Enders
  <2>. Settled'
    BY <1>1 DEF Forget, BeginDestroy, Shape, Settled, Begun
  <2>1. CASE MayRevoke
    BY <1>1, <2>1, BeginUndisturbed DEF Forget, MayRevoke
  <2>2. CASE ~MayRevoke
    <3>1. \A x \in Enders : ends'[x].at = "told" => ends[x].at = "told"
      BY <1>1, <2>2 DEF Forget, Shape
    <3>2. ~SecretKnown /\ UNCHANGED thread
      BY <1>1, <2>2 DEF Forget, MayRevoke, SecretKnown
    <3>. QED
      BY <1>1, <3>1, <3>2, Undisturbed DEF Forget, requests
  <2>. QED
    BY <2>1, <2>2
<1>2. CASE Poll
  BY WriteKeeps, <1>2, Undisturbed DEF Poll, Authorized, Live, requests, Flying
<1>3. ASSUME NEW p \in Posts, PostVerify(p) PROVE LifeInv'
  BY <1>3, Undisturbed DEF PostVerify, Flying
<1>4. ASSUME NEW p \in Posts, PostReporter(p) PROVE LifeInv'
  <2>1. CASE Authorized
    BY WriteKeeps, <1>4, <2>1, Undisturbed DEF PostReporter, Authorized, Live, Flying
  <2>2. CASE ~Authorized
    BY <1>4, <2>2, Undisturbed DEF PostReporter, Flying
  <2>. QED
    BY <2>1, <2>2
<1>. QED
  BY <1>1, <1>2, <1>3, <1>4

\* A COMMIT of before any end finds the thread it needs or creates it; one of
\* after a Forget changes nothing, or is overtaken.
LEMMA CommitSteps ==
  ASSUME Shape, LifeInv, Next, ~overtaken', NEW c \in Commits,
         \/ CommitSend(c) \/ CommitDrop(c) \/ CommitThread(c)
         \/ CommitIndex(c) \/ CommitDies(c)
  PROVE  LifeInv'
<1>. ForgetsComeLater' /\ (Settled => Settled')
  BY SettledStays, ForgetsStayLater DEF LifeInv
<1>1. CASE CommitSend(c) \/ CommitDrop(c) \/ CommitDies(c)
  <2>1. /\ \A d \in Commits : commit'[d] = "index" => commit[d] = "index" \/ ~wanted
        /\ UNCHANGED <<wanted, thread, row, ends, reply, delete, expiry, reporter>>
    BY <1>1 DEF CommitSend, CommitDrop, CommitDies, Shape
  <2>2. EndsComeLater'
    BY <2>1 DEF LifeInv, EndsComeLater, Flying
  <2>3. ThreadOfCommit'
    BY <2>1 DEF LifeInv, ThreadOfCommit, Kept, SecretKnown
  <2>. QED
    BY <2>1, <2>2, <2>3 DEF LifeInv, RepliesFollow, RowIsTold, RowHasThread, Kept,
                            ForgottenForGood, SecretKnown
<1>2. CASE Settled /\ (CommitThread(c) \/ CommitIndex(c))
  <2>1. Begun
    BY <1>2 DEF CommitThread, CommitIndex, Settled, CommitsSettled, Running
  <2>2. UNCHANGED <<wanted, row, thread, ends, reply, delete, expiry>>
    BY <1>2, <2>1 DEF CommitThread, CommitIndex
  <2>3. reporter' = reporter
    BY <1>2, <2>1 DEF CommitThread, CommitIndex, LifeInv, ForgetsComeLater
  <2>4. EndsComeLater' /\ ThreadOfCommit'
    BY <1>2 DEF EndsComeLater, ThreadOfCommit
  <2>. QED
    BY <2>2, <2>3, <2>4 DEF LifeInv, RepliesFollow, RowIsTold, RowHasThread, Kept,
                            ForgottenForGood, SecretKnown
<1>3. CASE ~Settled /\ CommitThread(c)
  <2>1. /\ UNCHANGED <<wanted, row, ends, reply, delete, expiry, reporter>>
        /\ thread # NoThread => thread' = thread
        /\ thread = NoThread => /\ thread' # NoThread /\ thread'.secret
                                /\ ~thread'.dying /\ ~thread'.overdue
    BY <1>3 DEF CommitThread, Create, NoThread
  <2>2. EndsComeLater'
    BY <2>1 DEF LifeInv, EndsComeLater, Flying
  <2>3. Kept' /\ wanted' => SecretKnown'
    BY <1>3, <2>1 DEF LifeInv, ThreadOfCommit, Kept, SecretKnown
  <2>4. ThreadOfCommit'
    BY <2>3 DEF ThreadOfCommit
  <2>5. SecretKnown => SecretKnown'
    BY <2>1 DEF SecretKnown
  <2>6. reporter # "forgot"
    BY <1>3 DEF LifeInv, ForgetsComeLater, Settled
  <2>. QED
    BY <2>1, <2>2, <2>4, <2>5, <2>6 DEF LifeInv, RepliesFollow, RowIsTold, RowHasThread, Kept,
                                        ForgottenForGood
<1>4. CASE ~Settled /\ CommitIndex(c)
  <2>1. /\ UNCHANGED <<wanted, thread, ends, reply, delete, expiry>>
        /\ reporter' = reporter \/ reporter' = "following"
        /\ commit[c] = "index"
    BY <1>4 DEF CommitIndex
  <2>2. /\ row' = NoRow <=> row = NoRow
        /\ row # NoRow => row'.committed /\ row'.following = (row.following \/ wanted)
    BY <1>4 DEF CommitIndex, CommitReport, Shape, Row, NoRow
  <2>3. EndsComeLater'
    BY <2>1 DEF LifeInv, EndsComeLater, Flying
  <2>4. Kept' /\ wanted' => SecretKnown'
    BY <1>4, <2>1, <2>2 DEF LifeInv, ThreadOfCommit, Kept, SecretKnown
  <2>5. ThreadOfCommit'
    BY <2>4 DEF ThreadOfCommit
  <2>6. RepliesFollow' /\ RowHasThread'
    BY <2>1, <2>2, <2>4 DEF LifeInv, RepliesFollow, RowHasThread, Kept, SecretKnown
  <2>7. Flying = {}
    BY <1>4 DEF LifeInv, EndsComeLater
  <2>8. RowIsTold'
    BY <2>1, <2>2, <2>7 DEF LifeInv, RowIsTold, Flying
  <2>9. ForgottenForGood'
    BY <2>1 DEF LifeInv, ForgottenForGood, SecretKnown
  <2>. QED
    BY <2>3, <2>5, <2>6, <2>8, <2>9 DEF LifeInv
<1>. QED
  BY <1>1, <1>2, <1>3, <1>4

LEMMA ReplySteps ==
  ASSUME Shape, LifeInv, Next, NEW r \in Replies, ReplyFind(r) \/ ReplyCreate(r) \/ ReplyPost(r)
  PROVE  LifeInv'
<1>. thread \in Meta \cup {NoThread} /\ armed \in BOOLEAN
  BY DEF Shape
<1>1. CASE ReplyFind(r)
  <2>1. RepliesFollow'
    BY <1>1 DEF LifeInv, RepliesFollow, ReplyFind, Shape
  <2>. QED
    BY <1>1, <2>1, SettledStays, ForgetsStayLater DEF LifeInv, ReplyFind, EndsComeLater,
         ThreadOfCommit, RowIsTold, RowHasThread, ForgottenForGood, Flying, Kept, SecretKnown
<1>2. CASE ReplyCreate(r) /\ thread # NoThread
  BY <1>2, Undisturbed DEF ReplyCreate, Create, Flying, Shape
<1>3. CASE ReplyCreate(r) /\ thread = NoThread
  \* A thread of the maintainer's own: the reporter's, if there was one, ended.
  <2>1. /\ thread' # NoThread /\ ~thread'.secret /\ ~thread'.dying /\ ~thread'.overdue
        /\ UNCHANGED <<wanted, row, ends, commit, delete, expiry, reporter>>
    BY <1>3 DEF ReplyCreate, Create, NoThread
  <2>2. row = NoRow \/ row.committed
    BY <1>3 DEF LifeInv, RepliesFollow, ReplyCreate
  <2>3. Kept /\ wanted => Settled'
    BY <1>3, <2>2, SettledStays DEF LifeInv, ThreadOfCommit, SecretKnown, Kept
  <2>4. ForgetsComeLater' /\ EndsComeLater'
    BY <2>1, SettledStays, ForgetsStayLater DEF LifeInv, EndsComeLater, Flying
  <2>5. ThreadOfCommit'
    BY <2>1, <2>3 DEF ThreadOfCommit, Kept
  <2>6. RepliesFollow'
    BY <1>3 DEF LifeInv, RepliesFollow, ReplyCreate, Shape
  <2>7. RowIsTold' /\ RowHasThread' /\ ForgottenForGood'
    BY <1>3, <2>1 DEF LifeInv, RowIsTold, RowHasThread, ForgottenForGood, Kept, SecretKnown
  <2>. QED
    BY <2>4, <2>5, <2>6, <2>7 DEF LifeInv
<1>4. CASE ReplyPost(r)
  <2>1. /\ thread' # NoThread <=> thread # NoThread
        /\ thread' # NoThread => thread'.secret = thread.secret
        /\ thread' # NoThread /\ (thread'.dying \/ thread'.overdue)
             => thread.dying \/ thread.overdue
    <3>1. CASE Live
      BY <1>4, <3>1, WriteKeeps DEF ReplyPost, Live
    <3>2. CASE ~Live
      BY <1>4, <3>2 DEF ReplyPost
    <3>. QED
      BY <3>1, <3>2
  <2>2. \A x \in Replies : reply'[x] = "found" => reply[x] = "found"
    BY <1>4 DEF ReplyPost, Shape
  <2>. QED
    BY <1>4, <2>1, <2>2, Undisturbed DEF ReplyPost, Flying
<1>. QED
  BY <1>1, <1>2, <1>3, <1>4

LEMMA DeleteSteps ==
  ASSUME Shape, LifeInv, Next, DeleteThread \/ DeleteDrop \/ DeleteRow \/ DeleteDies
  PROVE  LifeInv'
<1>1. CASE DeleteThread
  <2>1. /\ thread' = NoThread /\ delete' = "drop"
        /\ UNCHANGED <<row, ends, commit, reply, expiry, reporter>>
    BY <1>1 DEF DeleteThread, Destroy
  <2>. QED
    BY <2>1, SettledStays, ForgetsStayLater DEF LifeInv, EndsComeLater, ThreadOfCommit,
         RepliesFollow, RowIsTold, RowHasThread, ForgottenForGood, Flying, Kept, SecretKnown
<1>2. CASE DeleteDrop \/ DeleteDies
  BY <1>2, Undisturbed DEF DeleteDrop, DeleteDies, Flying
<1>3. CASE DeleteRow
  <2>1. /\ row' = NoRow
        /\ UNCHANGED <<thread, ends, commit, reply, expiry, reporter>>
    BY <1>3 DEF DeleteRow
  <2>. QED
    BY <2>1, SettledStays, ForgetsStayLater DEF LifeInv, EndsComeLater, ThreadOfCommit,
         RepliesFollow, RowIsTold, RowHasThread, ForgottenForGood, Flying, Kept, SecretKnown
<1>. QED
  BY <1>1, <1>2, <1>3

LEMMA ExpirySteps ==
  ASSUME Shape, LifeInv, Next,
         ExpireBegins \/ ExpireIndex \/ ExpireThread \/ ExpireWipe \/ ExpireFails
  PROVE  LifeInv'
<1>1. CASE ExpireBegins
  <2>1. CASE UNCHANGED commit
    BY <1>1, <2>1, Undisturbed DEF ExpireBegins, Flying
  <2>2. CASE CommitsAreOver
    <3>. Settled'
      BY <1>1, <2>2 DEF ExpireBegins, CommitsAreOver, Settled, CommitsSettled, Running
    <3>1. ForgetsComeLater' /\ EndsComeLater' /\ ThreadOfCommit'
      BY ForgetsStayLater DEF LifeInv, EndsComeLater, ThreadOfCommit
    <3>2. RepliesFollow' /\ RowIsTold' /\ RowHasThread' /\ ForgottenForGood'
      BY <1>1 DEF ExpireBegins, LifeInv, RepliesFollow, RowIsTold, RowHasThread, Kept,
                  ForgottenForGood, SecretKnown
    <3>. QED
      BY <3>1, <3>2 DEF LifeInv
  <2>. QED
    BY <1>1, <2>1, <2>2 DEF ExpireBegins
<1>2. CASE ExpireIndex
  <2>1. /\ row' # NoRow => row # NoRow /\ row'.committed = row.committed
                           /\ row'.following = row.following
        /\ expiry' = "thread" => row' = NoRow
        /\ UNCHANGED <<wanted, thread, ends, commit, reply, delete, reporter>>
    BY <1>2 DEF ExpireIndex, BundleExpired, Shape, Row
  <2>2. ForgetsComeLater' /\ EndsComeLater'
    BY <2>1, SettledStays, ForgetsStayLater DEF LifeInv, EndsComeLater, Flying
  <2>3. ThreadOfCommit'
    BY <2>1, SettledStays DEF LifeInv, ThreadOfCommit, Kept, SecretKnown
  <2>4. RepliesFollow' /\ RowIsTold' /\ RowHasThread' /\ ForgottenForGood'
    BY <2>1 DEF LifeInv, RepliesFollow, RowIsTold, RowHasThread, ForgottenForGood, Kept, SecretKnown
  <2>. QED
    BY <2>2, <2>3, <2>4 DEF LifeInv
<1>3. CASE ExpireThread
  <2>1. /\ thread' = NoThread /\ row = NoRow /\ row' = NoRow /\ expiry' = "wipe"
        /\ UNCHANGED <<ends, commit, reply, reporter>>
    BY <1>3 DEF ExpireThread, Destroy, LifeInv, RowIsTold
  <2>. QED
    BY <2>1, SettledStays, ForgetsStayLater DEF LifeInv, EndsComeLater, ThreadOfCommit,
         RepliesFollow, RowIsTold, RowHasThread, ForgottenForGood, Flying, Kept, SecretKnown
<1>4. CASE ExpireWipe \/ ExpireFails
  BY <1>4, Undisturbed DEF ExpireWipe, ExpireFails, Flying
<1>. QED
  BY <1>1, <1>2, <1>3, <1>4

\* Once a COMMIT is overtaken nothing more is said.
LifeOrOvertaken == overtaken \/ LifeInv

LEMMA OvertakenStays == ASSUME Next, overtaken PROVE overtaken'
<1>1. ASSUME NEW e \in Enders, TellIndex(e) \/ Wipe(e) \/ TellFails(e) PROVE overtaken'
  BY <1>1 DEF TellIndex, Wipe, TellFails
<1>2. ASSUME NEW f \in Forgets, Forget(f) PROVE overtaken'
  BY <1>2 DEF Forget
<1>3. ASSUME NEW p \in Posts, PostVerify(p) \/ PostReporter(p) PROVE overtaken'
  BY <1>3 DEF PostVerify, PostReporter
<1>4. ASSUME NEW c \in Commits,
             \/ CommitSend(c) \/ CommitDrop(c) \/ CommitThread(c)
             \/ CommitIndex(c) \/ CommitDies(c)
      PROVE  overtaken'
  BY <1>4 DEF CommitSend, CommitDrop, CommitThread, CommitIndex, CommitDies
<1>5. ASSUME NEW r \in Replies, ReplyFind(r) \/ ReplyCreate(r) \/ ReplyPost(r) PROVE overtaken'
  BY <1>5 DEF ReplyFind, ReplyCreate, ReplyPost
<1>6. CASE Evicted \/ TimePasses \/ AlarmFires \/ Alarm \/ Poll
  BY <1>6 DEF Evicted, TimePasses, AlarmFires, Alarm, Poll
<1>7. CASE \/ DeleteThread \/ DeleteDrop \/ DeleteRow \/ DeleteDies
           \/ ExpireBegins \/ ExpireIndex \/ ExpireThread \/ ExpireWipe \/ ExpireFails
  BY <1>7 DEF DeleteThread, DeleteDrop, DeleteRow, DeleteDies,
       ExpireBegins, ExpireIndex, ExpireThread, ExpireWipe, ExpireFails
<1>. QED
  BY <1>1, <1>2, <1>3, <1>4, <1>5, <1>6, <1>7 DEF Next

LEMMA InvariantHolds == Spec => [](Shape /\ LifeOrOvertaken)
<1>1. Init => Shape /\ LifeOrOvertaken
  BY ShapeStarts, InvariantStarts DEF LifeOrOvertaken
<1>2. Shape /\ LifeOrOvertaken /\ [Next]_vars => (Shape /\ LifeOrOvertaken)'
  <2>. SUFFICES ASSUME Shape, LifeOrOvertaken, [Next]_vars PROVE (Shape /\ LifeOrOvertaken)'
    OBVIOUS
  <2>1. CASE UNCHANGED vars
    <3>1. Shape'
      BY <2>1 DEF vars, requests, bounds, Shape
    <3>2. LifeInv => LifeInv'
      BY <2>1 DEF vars, requests, bounds, LifeInv, ForgetsComeLater, EndsComeLater,
           ThreadOfCommit, RepliesFollow, RowIsTold, RowHasThread, ForgottenForGood,
           Settled, CommitsSettled, Begun, Running, Flying, Kept, SecretKnown
    <3>. QED
      BY <2>1, <3>1, <3>2 DEF LifeOrOvertaken, vars
  <2>2. CASE Next /\ overtaken'
    BY <2>2, ShapeStays DEF LifeOrOvertaken
  <2>3. CASE Next /\ ~overtaken'
    <3>1. LifeInv
      BY <2>3, OvertakenStays DEF LifeOrOvertaken
    <3>2. LifeInv'
      BY <2>3, <3>1, EndSteps, ClockSteps, ReporterSteps, CommitSteps, ReplySteps,
         DeleteSteps, ExpirySteps DEF Next
    <3>. QED
      BY <2>3, <3>2, ShapeStays DEF LifeOrOvertaken
  <2>. QED
    BY <2>1, <2>2, <2>3
<1>. QED
  BY <1>1, <1>2, PTL DEF Spec

-----------------------------------------------------------------------------
(* The theorems                                                            *)

\* However many COMMITs overlap, a row that says it is followed has a thread
\* that knows the reporter's secret, whatever else ends, fails or is created,
\* unless a COMMIT that a Forget had overtaken undid what the Forget ended.
THEOREM FollowedRowsHaveThreads == Spec => []FollowingMeansThread
<1>1. LifeOrOvertaken => FollowingMeansThread
  BY DEF LifeOrOvertaken, LifeInv, RowHasThread, FollowingMeansThread, NeverOrphaned, Kept,
       SecretKnown
<1>. QED
  BY <1>1, InvariantHolds, PTL

\* ... and, with the same exception, a Forget that was answered as done is final.
THEOREM ForgetIsFinal == Spec => []ForgottenIsRefused
<1>1. LifeOrOvertaken => ForgottenIsRefused
  BY DEF LifeOrOvertaken, LifeInv, ForgottenForGood, ForgottenIsRefused, SecretIsRevoked,
       Authorized, Live, SecretKnown
<1>. QED
  BY <1>1, InvariantHolds, PTL
-----------------------------------------------------------------------------
(* The reporter's record (FollowClient)                                    *)

\* A bounded set of numbers has a greatest one: their order is well-founded.
LEMMA GreatestExists ==
  ASSUME NEW N \in Nat, NEW S \in SUBSET (0 .. N), S # {}
  PROVE  \E n \in S : \A m \in S : m <= n
<1>. DEFINE T == {N - n : n \in S}
<1>. \A n \in S : n \in Nat /\ n <= N /\ N - n \in Nat
  OBVIOUS
<1>1. T \subseteq Nat /\ T # {}
  OBVIOUS
<1>2. \E x \in T : \A y \in T : ~ (<<y, x>> \in OpToRel(<, Nat))
  BY <1>1, NatLessThanWellFounded, WFMin
<1>3. PICK x \in T : \A y \in T : ~ (y < x)
  BY <1>1, <1>2 DEF OpToRel
<1>4. PICK n \in S : x = N - n
  OBVIOUS
<1>5. ASSUME NEW m \in S PROVE m <= n
  <2>1. N - m \in T
    OBVIOUS
  <2>2. ~ (N - m < N - n) /\ m \in Nat /\ n \in Nat
    BY <1>3, <1>4, <2>1
  <2>. QED
    BY <2>2
<1>. QED
  BY <1>5

-----------------------------------------------------------------------------
(* The inductive invariant                                                 *)

Messages == [kind : Kinds, leaves : Status]
Records == [status : Status \cup {"gone"}, known : SUBSET Seqs,
            latest : Seqs, seen : Seqs, synced : Seqs]

\* The status is the one the last message left.
StatusIsLeft == ~ended => status = StatusAt(latestSeq)

\* The worker's mark is not ahead of the reporter's own.
SeenFollows == rec # NoRec => seen <= rec.seen

\* An answer under way says what the thread was when it was given.
Truthful(v) ==
  /\ v = Forbidden => ended
  /\ v.got = "view" => v.latest <= latestSeq /\ v.status = StatusAt(v.latest)

\* A call asks for what follows a message the record has, and sends a mark that
\* the record has.
CallAgrees(x) ==
  /\ x.at \in {"answer", "acked"} => Truthful(x.view)
  /\ rec # NoRec =>
       /\ x.at \in {"fetch", "post", "attach"} => x.after <= rec.latest
       /\ x.at = "answer" => (x.view.got = "view" => x.view.after <= rec.latest)
       /\ x.at = "seen" => x.sent <= rec.seen

CallsAgree == \A c \in Slots : CallAgrees(call[c])

ThreadInv ==
  /\ msgs \in Seq(Messages) /\ Len(msgs) <= MaxMessages
  /\ status \in Status /\ seen \in Seqs /\ finalSeen \in BOOLEAN /\ ended \in BOOLEAN
  /\ StatusIsLeft /\ AttachedOnce /\ RoomForMaintainer

FollowInv ==
  /\ ThreadInv
  /\ rec = NoRec \/ rec \in Records
  /\ call \in [Slots -> CallStates]
  /\ SeenFollows /\ CallsAgree /\ RecordIsThread /\ GraceNeedsSeen

-----------------------------------------------------------------------------
(* Messages                                                                *)

LEMMA Bounds ==
  /\ MaxMessages \in Nat /\ 0 \in Seqs /\ Seqs \subseteq Nat
  /\ \A n \in Nat : n \in Seqs <=> n <= MaxMessages
  /\ "launch" \in Slots /\ Calls \subseteq Slots
  /\ {"reply", "status", "reopen", "text"} \cap Children = {}
  /\ Reserve \in Nat /\ Reserve <= MaxMessages
BY FollowAssumption DEF Seqs, Slots

\* The thread has all its messages still, and perhaps more.
Grown ==
  /\ Len(msgs) <= Len(msgs')
  /\ \A i \in 1 .. Len(msgs) : msgs'[i] = msgs[i]

LEMMA OneMore ==
  ASSUME msgs \in Seq(Messages), NEW m \in Messages, msgs' = Append(msgs, m)
  PROVE  /\ msgs' \in Seq(Messages) /\ Len(msgs') = Len(msgs) + 1 /\ Len(msgs) \in Nat
         /\ msgs'[Len(msgs) + 1] = m /\ Grown
BY DEF Grown

LEMMA TwoMore ==
  ASSUME msgs \in Seq(Messages), NEW m \in Messages, NEW n \in Messages, msgs' = msgs \o <<m, n>>
  PROVE  /\ msgs' \in Seq(Messages) /\ Len(msgs') = Len(msgs) + 2 /\ Len(msgs) \in Nat
         /\ msgs'[Len(msgs) + 1] = m /\ msgs'[Len(msgs) + 2] = n /\ Grown
<1>1. <<m, n>> \in Seq(Messages) /\ Len(<<m, n>>) = 2 /\ <<m, n>>[1] = m /\ <<m, n>>[2] = n
  OBVIOUS
<1>2. Len(msgs) \in Nat
  OBVIOUS
<1>. HIDE DEF Messages
<1>3. /\ msgs' \in Seq(Messages) /\ Len(msgs') = Len(msgs) + 2
      /\ \A i \in 1 .. Len(msgs) + 2 : msgs'[i] = IF i <= Len(msgs) THEN msgs[i] ELSE <<m, n>>[i - Len(msgs)]
  BY <1>1, ConcatProperties
<1>4. msgs'[Len(msgs) + 1] = m /\ msgs'[Len(msgs) + 2] = n
  BY <1>1, <1>2, <1>3
<1>. QED
  BY <1>2, <1>3, <1>4 DEF Grown

\* What a message left does not change with later ones.
LEMMA StatusStays ==
  ASSUME msgs \in Seq(Messages), msgs' \in Seq(Messages), Grown, NEW n \in Nat, n <= Len(msgs)
  PROVE  StatusAt(n)' = StatusAt(n)
<1>1. n = 0 \/ n \in 1 .. Len(msgs)
  OBVIOUS
<1>. QED
  BY <1>1 DEF StatusAt, Grown

\* The last of the status messages, when there is one.
LEMMA LastStatus ==
  msgs \in Seq(Messages) =>
    /\ LastStatusSeq(1 .. latestSeq) \in 0 .. latestSeq
    /\ LastStatusSeq(1 .. latestSeq) # 0 => IsStatus(LastStatusSeq(1 .. latestSeq))
    /\ \A i \in 1 .. latestSeq : IsStatus(i) => i <= LastStatusSeq(1 .. latestSeq)
<1>. SUFFICES ASSUME msgs \in Seq(Messages)
     PROVE  /\ LastStatusSeq(1 .. latestSeq) \in 0 .. latestSeq
            /\ LastStatusSeq(1 .. latestSeq) # 0 => IsStatus(LastStatusSeq(1 .. latestSeq))
            /\ \A i \in 1 .. latestSeq : IsStatus(i) => i <= LastStatusSeq(1 .. latestSeq)
  OBVIOUS
<1>. DEFINE N == latestSeq
            S == {0} \cup {i \in 1 .. N : IsStatus(i)}
            m == LastStatusSeq(1 .. N)
<1>1. N \in Nat
  BY DEF latestSeq
<1>. HIDE DEF N
<1>2. S \in SUBSET (0 .. N) /\ S # {}
  BY <1>1
<1>3. PICK n \in S : \A i \in S : i <= n
  BY <1>1, <1>2, GreatestExists
<1>4. m \in S /\ \A i \in 1 .. N : IsStatus(i) => i <= m
  BY <1>3 DEF LastStatusSeq
<1>. QED
  BY <1>1, <1>4 DEF N

LEMMA LastStatusNext ==
  (msgs \in Seq(Messages) =>
    /\ LastStatusSeq(1 .. latestSeq) \in 0 .. latestSeq
    /\ LastStatusSeq(1 .. latestSeq) # 0 => IsStatus(LastStatusSeq(1 .. latestSeq))
    /\ \A i \in 1 .. latestSeq : IsStatus(i) => i <= LastStatusSeq(1 .. latestSeq))'
BY LastStatus, PTL

-----------------------------------------------------------------------------
(* The thread's steps                                                      *)

LEMMA InsertStep ==
  ASSUME ThreadInv, ~ended, ended' = ended, NEW kind \in Kinds, NEW s \in Status,
         insertMessage(kind, s), status' = s, seen' \in Seqs, finalSeen' \in BOOLEAN,
         Len(msgs) + 1 <= MaxMessages,
         kind \in Children => ~AttachedBefore(kind),
         kind \in {"text", "reopen"} \cup Children => Len(msgs) + 1 <= MaxMessages - Reserve
  PROVE  ThreadInv' /\ Grown
<1>. DEFINE m == [kind |-> kind, leaves |-> s]
            n == Len(msgs) + 1
<1>1. m \in Messages /\ m.kind = kind /\ m.leaves = s
  BY DEF Messages
<1>2. /\ msgs' \in Seq(Messages) /\ Len(msgs') = n /\ Len(msgs) \in Nat
      /\ msgs'[n] = m /\ Grown
  BY <1>1, OneMore DEF ThreadInv, insertMessage
<1>. HIDE DEF m
<1>3. StatusIsLeft'
  BY <1>1, <1>2 DEF StatusIsLeft, StatusAt, latestSeq
<1>4. AttachedOnce'
  BY <1>1, <1>2 DEF ThreadInv, AttachedOnce, AttachedBefore, Grown, latestSeq
<1>5. RoomForMaintainer'
  BY <1>1, <1>2 DEF ThreadInv, RoomForMaintainer, Grown, latestSeq
<1>. QED
  BY <1>2, <1>3, <1>4, <1>5, Bounds DEF ThreadInv

\* A reporter's post stops the clock, if it ran.
LEMMA PostStep ==
  ASSUME ThreadInv, GraceNeedsSeen, ~ended, postReporter
  PROVE  ThreadInv' /\ Grown /\ ended' = ended /\ seen' = seen /\ finalSeen' = FALSE
<1>. USE Bounds
<1>1. {"text", "reopen"} \subseteq Kinds /\ AfterReply \in Status /\ {"open", "final"} \subseteq Status
  BY DEF Kinds, AfterReply, Status, ThreadInv
<1>2. Len(msgs) \in Nat
  BY DEF ThreadInv
<1>3. CASE status # "final"
  <2>1. /\ Len(msgs) + 1 <= MaxMessages - Reserve /\ insertMessage("text", AfterReply)
        /\ status' = AfterReply /\ UNCHANGED <<seen, finalSeen, ended>>
    BY <1>3 DEF postReporter, ReporterRoom, latestSeq
  <2>2. finalSeen' = FALSE
    BY <1>3, <2>1 DEF GraceNeedsSeen, ThreadInv
  <2>3. Len(msgs) + 1 <= MaxMessages /\ seen' \in Seqs /\ "text" \notin Children
    BY <1>2, <2>1 DEF ThreadInv
  <2>. QED
    BY <1>1, <2>1, <2>2, <2>3, InsertStep
<1>4. CASE status = "final"
  <2>. DEFINE m == [kind |-> "text", leaves |-> "final"]
              o == [kind |-> "reopen", leaves |-> "open"]
              n == Len(msgs)
  <2>1. /\ n + 2 <= MaxMessages - Reserve /\ msgs' = msgs \o <<m, o>>
        /\ status' = "open" /\ finalSeen' = FALSE /\ UNCHANGED <<seen, ended>>
    BY <1>4 DEF postReporter, ReporterRoom, latestSeq, Clock
  <2>2. /\ m \in Messages /\ m.kind = "text" /\ m.leaves = "final"
        /\ o \in Messages /\ o.kind = "reopen" /\ o.leaves = "open"
    BY <1>1 DEF Messages
  <2>. HIDE DEF m, o
  <2>3. /\ msgs' \in Seq(Messages) /\ Len(msgs') = n + 2
        /\ msgs'[n + 1] = m /\ msgs'[n + 2] = o /\ Grown
    BY <2>1, <2>2, TwoMore DEF ThreadInv
  <2>4. StatusIsLeft'
    BY <1>2, <2>1, <2>2, <2>3 DEF StatusIsLeft, StatusAt, latestSeq
  <2>5. \A i \in 1 .. Len(msgs') : i \in 1 .. n \/ i = n + 1 \/ i = n + 2
    BY <1>2, <2>3
  <2>6. AttachedOnce'
    BY <2>2, <2>3, <2>5 DEF ThreadInv, AttachedOnce, Grown, latestSeq
  <2>7. RoomForMaintainer'
    BY <1>2, <2>1, <2>3, <2>5 DEF ThreadInv, RoomForMaintainer, Grown, latestSeq
  <2>8. Len(msgs') <= MaxMessages /\ status' \in Status
    BY <1>1, <1>2, <2>1, <2>3
  <2>. QED
    BY <2>1, <2>3, <2>4, <2>6, <2>7, <2>8 DEF ThreadInv
<1>. QED
  BY <1>3, <1>4

\* So does an attachment, which is appended once.
LEMMA AttachStep ==
  ASSUME ThreadInv, GraceNeedsSeen, NEW child \in Children, appendAttachment(child)
  PROVE  \/ UNCHANGED threadState
         \/ ThreadInv' /\ Grown /\ ended' = ended /\ seen' = seen /\ finalSeen' = FALSE
<1>. USE Bounds
<1>1. CASE ended \/ AttachedBefore(child) \/ ~ReporterRoom(1)
  BY <1>1 DEF appendAttachment
<1>2. CASE ~(ended \/ AttachedBefore(child) \/ ~ReporterRoom(1))
  <2>1. /\ insertMessage(child, AfterReply) /\ status' = AfterReply
        /\ finalSeen' = (finalSeen /\ status # "final") /\ UNCHANGED <<seen, ended>>
    BY <1>2 DEF appendAttachment, Clock
  <2>2. child \in Kinds /\ AfterReply \in Status
    BY DEF Kinds, AfterReply, Status, ThreadInv
  <2>3. finalSeen' = FALSE
    BY <2>1 DEF GraceNeedsSeen
  <2>4. Len(msgs) \in Nat /\ Len(msgs) + 1 <= MaxMessages - Reserve /\ seen' \in Seqs
    BY <1>2, <2>1 DEF ThreadInv, ReporterRoom, latestSeq
  <2>5. Len(msgs) + 1 <= MaxMessages
    BY <2>4
  <2>. QED
    BY <1>2, <2>1, <2>2, <2>3, <2>4, <2>5, InsertStep
<1>. QED
  BY <1>1, <1>2

LEMMA DestroyStep ==
  ASSUME ThreadInv, destroy
  PROVE  ThreadInv' /\ Grown /\ ended' /\ seen' = 0 /\ finalSeen' = FALSE
<1>1. msgs' = msgs /\ Grown
  BY DEF destroy, Grown, ThreadInv
<1>. QED
  BY <1>1, Bounds DEF destroy, ThreadInv, StatusIsLeft, AttachedOnce, RoomForMaintainer, latestSeq, Status

\* The clock starts for a mark that reaches the message of the final status.
LEMMA SeenStep ==
  ASSUME ThreadInv, NEW upTo \in Seqs, markSeen(upTo)
  PROVE  /\ ThreadInv' /\ Grown /\ UNCHANGED <<msgs, status, ended>>
         /\ seen' \in {seen, upTo} \cup 0 .. latestSeq /\ seen' <= (IF upTo > seen THEN upTo ELSE seen)
         /\ seen' >= seen
         /\ finalSeen' => finalSeen \/ (status = "final" /\ seen' >= LastStatusSeq(1 .. latestSeq))
<1>. DEFINE known == IF upTo < latestSeq THEN upTo ELSE latestSeq
            now == IF known > seen THEN known ELSE seen
<1>1. seen' = now /\ finalSeen' = (finalSeen \/ StartsClock(now)) /\ UNCHANGED <<msgs, status, ended>>
  BY DEF markSeen
<1>2. Grown /\ latestSeq \in Nat /\ latestSeq <= MaxMessages /\ seen \in Nat /\ seen <= MaxMessages
  BY <1>1, Bounds DEF Grown, ThreadInv, latestSeq
<1>3. upTo \in Nat /\ upTo <= MaxMessages
  BY Bounds
<1>4. /\ seen' \in Seqs /\ seen' >= seen /\ seen' <= (IF upTo > seen THEN upTo ELSE seen)
      /\ seen' \in {seen, upTo} \cup 0 .. latestSeq
  BY <1>1, <1>2, <1>3, Bounds
<1>5. finalSeen' \in BOOLEAN
  BY <1>1 DEF ThreadInv, StartsClock
<1>6. ThreadInv'
  BY <1>1, <1>4, <1>5 DEF ThreadInv, StatusIsLeft, StatusAt, AttachedOnce, RoomForMaintainer, latestSeq
<1>7. finalSeen' => finalSeen \/ (status = "final" /\ seen' >= LastStatusSeq(1 .. latestSeq))
  BY <1>1 DEF StartsClock
<1>. QED
  BY <1>1, <1>2, <1>4, <1>6, <1>7

-----------------------------------------------------------------------------
(* Calls                                                                   *)

Views3 == Views \cup {Failed, Forbidden}

\* What a call holds, by how far it has come.
LEMMA CallHolds ==
  ASSUME NEW x \in CallStates
  PROVE  /\ x.at \in {"idle", "fetch", "answer", "seen", "acked", "post", "attach", "forget"}
         /\ x.at = "idle" => x = Idle
         /\ x.at \in {"fetch", "answer", "seen", "acked"} => x.why \in Whys
         /\ x.at \in {"fetch", "post", "attach"} => x.after \in Seqs
         /\ x.at = "answer" => x.view \in Views3
         /\ x.at = "acked" => x.view \in {Ack, Failed, Forbidden}
         /\ x.at \in {"seen", "acked"} => x.sent \in Seqs
         /\ x.at = "attach" => x.child \in Children
BY DEF CallStates, Idle, Views3

LEMMA CallMade ==
  /\ Idle \in CallStates /\ Idle.at = "idle"
  /\ \A why \in Whys, n \in Seqs : fetchOne(why, n) \in CallStates
  /\ \A why \in Whys, v \in Views3 : [at |-> "answer", why |-> why, view |-> v] \in CallStates
  /\ \A why \in Whys, n \in Seqs : [at |-> "seen", why |-> why, sent |-> n] \in CallStates
  /\ \A why \in Whys, n \in Seqs, v \in {Ack, Failed, Forbidden} :
       [at |-> "acked", why |-> why, sent |-> n, view |-> v] \in CallStates
  /\ \A n \in Seqs : [at |-> "post", after |-> n] \in CallStates
  /\ \A n \in Seqs, child \in Children :
       [at |-> "attach", after |-> n, child |-> child] \in CallStates
  /\ [at |-> "forget"] \in CallStates
BY DEF CallStates, Idle, Views3, fetchOne

LEMMA ViewHolds ==
  ASSUME NEW v \in Views \cup {Ack, Failed, Forbidden}, v.got = "view"
  PROVE  v \in Views /\ v.latest \in Seqs /\ v.after \in Seqs /\ v.status \in Status
<1>1. v \in Views
  BY DEF Ack, Failed, Forbidden
<1>. QED
  BY <1>1 DEF Views

LEMMA RecordIs ==
  ASSUME NEW r \in Records
  PROVE  /\ r # NoRec /\ r.status \in Status \cup {"gone"} /\ r.known \subseteq Seqs
         /\ r.latest \in Nat /\ r.seen \in Nat /\ r.synced \in Nat
<1>1. r.status \in Status \cup {"gone"} /\ r.known \subseteq Seqs
  BY DEF Records
<1>2. r.latest \in Nat /\ r.seen \in Nat /\ r.synced \in Nat
  <2>1. r.latest \in Seqs /\ r.seen \in Seqs /\ r.synced \in Seqs
    BY DEF Records
  <2>. QED
    BY <2>1, Bounds
<1>. QED
  BY <1>1, <1>2 DEF NoRec, Status

\* A call that starts next, or ends, agrees with the record it was made from.
LEMMA MarkAgrees ==
  ASSUME NEW r, r = NoRec \/ r \in Records, NEW why \in Whys
  PROVE  \/ Resend(why, r) = Idle
         \/ /\ Resend(why, r) \in CallStates /\ Resend(why, r).at = "seen"
            /\ r # NoRec /\ Resend(why, r).sent = r.seen
BY CallMade DEF Resend, syncSeen, postThreadSeen, Records, Whys

LEMMA FetchedAgrees ==
  ASSUME NEW r, r = NoRec \/ r \in Records, NEW why \in Whys, NEW v
  PROVE  \/ AfterFetch(why, v, r) = Idle
         \/ /\ AfterFetch(why, v, r) \in CallStates /\ AfterFetch(why, v, r).at = "seen"
            /\ r # NoRec /\ AfterFetch(why, v, r).sent = r.seen
<1>1. SeenDue(r) => /\ postThreadSeen(why, r) \in CallStates /\ postThreadSeen(why, r).at = "seen"
                    /\ r # NoRec /\ postThreadSeen(why, r).sent = r.seen
  BY CallMade DEF SeenDue, postThreadSeen, Records
<1>. QED
  BY <1>1, MarkAgrees DEF AfterFetch, syncSeen

-----------------------------------------------------------------------------
(* What lasts                                                              *)

\* The record is gone, or has all it had.
RecordKept == rec' # NoRec => rec # NoRec /\ rec.latest <= rec'.latest /\ rec.seen <= rec'.seen

LEMMA AgreesStays ==
  ASSUME msgs \in Seq(Messages), msgs' \in Seq(Messages), Grown, ended => ended',
         rec = NoRec \/ rec \in Records, rec' = NoRec \/ rec' \in Records, RecordKept,
         NEW x \in CallStates, CallAgrees(x)
  PROVE  CallAgrees(x)'
<1>. USE Bounds
<1>1. Len(msgs) \in Nat /\ Len(msgs') \in Nat /\ Len(msgs) <= Len(msgs')
  BY DEF Grown
<1>2. x.at \in {"answer", "acked"} => Truthful(x.view)'
  <2>. SUFFICES ASSUME x.at \in {"answer", "acked"} PROVE Truthful(x.view)'
    OBVIOUS
  <2>1. Truthful(x.view) /\ x.view \in Views \cup {Ack, Failed, Forbidden}
    BY CallHolds DEF CallAgrees, Views3
  <2>2. ASSUME x.view.got = "view" PROVE x.view.latest \in Nat /\ x.view.latest <= Len(msgs)
    BY <2>1, <2>2, ViewHolds DEF Truthful, latestSeq
  <2>3. x.view.got = "view" => StatusAt(x.view.latest)' = StatusAt(x.view.latest)
    BY <2>2, StatusStays
  <2>. QED
    BY <1>1, <2>1, <2>2, <2>3 DEF Truthful, latestSeq
<1>3. CASE rec' = NoRec
  BY <1>2, <1>3 DEF CallAgrees
<1>4. CASE rec' # NoRec
  <2>1. rec \in Records /\ rec' \in Records /\ rec # NoRec
    BY <1>4 DEF RecordKept
  <2>2. rec.latest \in Nat /\ rec'.latest \in Nat /\ rec.seen \in Nat /\ rec'.seen \in Nat
        /\ rec.latest <= rec'.latest /\ rec.seen <= rec'.seen
    BY <1>4, <2>1 DEF RecordKept, Records
  <2>3. /\ x.at \in {"fetch", "post", "attach"} => x.after \in Nat
        /\ x.at = "answer" => (x.view.got = "view" => x.view.after \in Nat)
        /\ x.at = "seen" => x.sent \in Nat
    BY CallHolds, ViewHolds DEF Views3
  <2>. QED
    BY <1>2, <2>1, <2>2, <2>3 DEF CallAgrees
<1>. QED
  BY <1>3, <1>4

LEMMA RecordStays ==
  ASSUME msgs \in Seq(Messages), msgs' \in Seq(Messages), Grown, ended => ended',
         rec = NoRec \/ rec \in Records, rec' = rec, RecordIsThread
  PROVE  RecordIsThread'
<1>1. CASE rec = NoRec
  BY <1>1 DEF RecordIsThread
<1>2. CASE rec \in Records
  <2>0. rec # NoRec /\ rec.latest \in Seqs
    BY <1>2, RecordIs DEF Records
  <2>1. rec.latest \in Nat /\ rec.latest <= Len(msgs) /\ Len(msgs) \in Nat /\ Len(msgs') \in Nat
    <3>1. rec.latest <= latestSeq
      BY <2>0 DEF RecordIsThread
    <3>2. rec.latest \in Nat
      BY <2>0, Bounds
    <3>3. Len(msgs) \in Nat /\ Len(msgs') \in Nat
      OBVIOUS
    <3>. QED
      BY <3>1, <3>2, <3>3 DEF latestSeq
  <2>2. StatusAt(rec.latest)' = StatusAt(rec.latest)
    <3>. DEFINE n == rec.latest
    <3>1. n = 0 \/ n \in 1 .. Len(msgs)
      BY <2>1
    <3>. QED
      BY <3>1 DEF StatusAt, Grown
  <2>3. Len(msgs) <= Len(msgs')
    BY DEF Grown
  <2>. QED
    BY <1>2, <2>1, <2>2, <2>3 DEF RecordIsThread, latestSeq
<1>. QED
  BY <1>1, <1>2

\* One call moves on, the others wait.
LEMMA CallsMove ==
  ASSUME FollowInv, msgs' \in Seq(Messages), Grown, ended => ended',
         rec' = NoRec \/ rec' \in Records, RecordKept,
         NEW c \in Slots, NEW x \in CallStates, CallAgrees(x)', call' = [call EXCEPT ![c] = x]
  PROVE  call' \in [Slots -> CallStates] /\ CallsAgree'
<1>1. call' \in [Slots -> CallStates]
  BY DEF FollowInv
<1>2. ASSUME NEW d \in Slots PROVE CallAgrees(call[d])'
  <2>1. CASE d = c
    <3>1. call'[d] = x
      BY <2>1 DEF FollowInv
    <3>. QED
      BY <3>1 DEF CallAgrees, Truthful, StatusAt, latestSeq
  <2>2. CASE d # c
    <3>1. PICK y \in CallStates : y = call[d] /\ y = call'[d]
      BY <2>2 DEF FollowInv
    <3>2. CallAgrees(y)
      BY <3>1 DEF FollowInv, CallsAgree
    <3>3. CallAgrees(y)'
      BY <3>2, AgreesStays DEF FollowInv, ThreadInv
    <3>. QED
      BY <3>1, <3>3 DEF CallAgrees, Truthful, StatusAt, latestSeq
  <2>. QED
    BY <2>1, <2>2
<1>. QED
  BY <1>1, <1>2 DEF CallsAgree

LEMMA CallsWait ==
  ASSUME FollowInv, msgs' \in Seq(Messages), Grown, ended => ended',
         rec' = NoRec \/ rec' \in Records, RecordKept, call' = call
  PROVE  call' \in [Slots -> CallStates] /\ CallsAgree'
<1>1. PICK x \in CallStates : x = call["launch"]
  BY Bounds DEF FollowInv
<1>2. CallAgrees(x)
  BY <1>1, Bounds DEF FollowInv, CallsAgree
<1>3. CallAgrees(x)'
  BY <1>2, AgreesStays DEF FollowInv, ThreadInv
<1>4. call' = [call EXCEPT !["launch"] = x]
  BY <1>1 DEF FollowInv
<1>. QED
  BY <1>3, <1>4, CallsMove, Bounds

-----------------------------------------------------------------------------
(* Every step keeps the invariant                                          *)

LEMMA InitFollowInv ==
  ASSUME FollowInit
  PROVE  FollowInv
<1>. USE Bounds
<1>1. /\ Earlier \in Seq(Status) /\ Len(Earlier) \in Nat /\ DOMAIN Earlier = 1 .. Len(Earlier)
      /\ Len(Earlier) <= MaxMessages /\ \A n \in 1 .. Len(Earlier) : Earlier[n] \in Status
  BY FollowAssumption DEF Status
<1>2. /\ msgs \in Seq(Messages) /\ Len(msgs) = Len(Earlier)
      /\ \A n \in 1 .. Len(msgs) : msgs[n].kind = "status" /\ msgs[n].leaves = Earlier[n]
  <2>1. msgs = [n \in 1 .. Len(Earlier) |-> [kind |-> "status", leaves |-> Earlier[n]]]
    BY <1>1 DEF FollowInit
  <2>2. \A n \in 1 .. Len(Earlier) : [kind |-> "status", leaves |-> Earlier[n]] \in Messages
    BY <1>1 DEF Messages, Kinds
  <2>3. msgs \in Seq(Messages)
    BY <1>1, <2>1, <2>2
  <2>4. Len(msgs) = Len(Earlier)
    BY <1>1, <2>1
  <2>. QED
    BY <2>1, <2>3, <2>4
<1>3. Earlier = <<>> <=> Len(Earlier) = 0
  BY <1>1
<1>4. status \in Status /\ StatusIsLeft
  BY <1>1, <1>2, <1>3 DEF FollowInit, StatusIsLeft, StatusAt, latestSeq, Status
<1>5. AttachedOnce /\ RoomForMaintainer
  BY <1>2 DEF AttachedOnce, RoomForMaintainer, latestSeq
<1>6. ThreadInv
  BY <1>1, <1>2, <1>4, <1>5 DEF FollowInit, ThreadInv
<1>7. rec \in Records /\ rec.seen = 0 /\ rec.latest = 0 /\ rec.known = {} /\ rec.status = "open"
  BY DEF FollowInit, Records, Status
<1>8. RecordIsThread
  <2>1. 0 <= latestSeq /\ {} = 1 .. 0
    BY <1>1, <1>2 DEF latestSeq
  <2>. QED
    BY <1>7, <2>1 DEF RecordIsThread, StatusAt
<1>9. SeenFollows /\ GraceNeedsSeen
  BY <1>7 DEF FollowInit, SeenFollows, GraceNeedsSeen
<1>10. call \in [Slots -> CallStates] /\ CallsAgree
  BY CallMade DEF FollowInit, CallsAgree, CallAgrees
<1>. QED
  BY <1>6, <1>7, <1>8, <1>9, <1>10 DEF FollowInv

LEMMA LastStays ==
  ASSUME msgs' = msgs
  PROVE  LastStatusSeq(1 .. latestSeq)' = LastStatusSeq(1 .. latestSeq)
BY DEF LastStatusSeq, IsStatus, latestSeq

LEMMA RecordWaits ==
  ASSUME FollowInv, rec' = rec
  PROVE  (rec' = NoRec \/ rec' \in Records) /\ RecordKept
<1>1. rec = NoRec \/ rec \in Records
  BY DEF FollowInv
<1>2. rec \in Records => rec.latest <= rec.latest /\ rec.seen <= rec.seen
  <2>. SUFFICES ASSUME rec \in Records PROVE rec.latest <= rec.latest /\ rec.seen <= rec.seen
    OBVIOUS
  <2>1. rec.latest \in Nat /\ rec.seen \in Nat
    BY RecordIs
  <2>. QED
    BY <2>1
<1>. QED
  BY <1>1, <1>2 DEF RecordKept

LEMMA ThreadWaits ==
  ASSUME FollowInv, UNCHANGED threadState, rec' = NoRec \/ rec' \in Records, RecordKept
  PROVE  /\ ThreadInv' /\ Grown /\ (ended => ended')
         /\ SeenFollows' /\ GraceNeedsSeen'
<1>1. UNCHANGED <<msgs, status, seen, finalSeen, ended>>
  BY DEF threadState
<1>2. ThreadInv'
  BY <1>1 DEF FollowInv, ThreadInv, StatusIsLeft, StatusAt, AttachedOnce, RoomForMaintainer, latestSeq
<1>3. Grown
  BY <1>1 DEF Grown, FollowInv, ThreadInv
<1>4. /\ rec' # NoRec => rec # NoRec /\ rec.seen <= rec'.seen
                         /\ rec.seen \in Nat /\ rec'.seen \in Nat
      /\ seen \in Nat
  <2>1. rec \in Records => rec.seen \in Seqs
    BY DEF Records
  <2>2. rec' \in Records => rec'.seen \in Seqs
    BY DEF Records
  <2>3. seen \in Seqs
    BY DEF FollowInv, ThreadInv
  <2>. QED
    BY <2>1, <2>2, <2>3, Bounds DEF FollowInv, RecordKept
<1>5. SeenFollows'
  BY <1>1, <1>4 DEF FollowInv, SeenFollows
<1>6. GraceNeedsSeen'
  <2>1. LastStatusSeq(1 .. latestSeq) \in Nat
    BY LastStatus DEF FollowInv, ThreadInv, latestSeq
  <2>2. LastStatusSeq(1 .. latestSeq)' = LastStatusSeq(1 .. latestSeq)
    BY <1>1, LastStays
  <2>. QED
    BY <1>1, <1>4, <2>1, <2>2 DEF FollowInv, GraceNeedsSeen
<1>. QED
  BY <1>1, <1>2, <1>3, <1>5, <1>6

\* A step of the thread that stops the clock and leaves the mark.
LEMMA ThreadMoves ==
  ASSUME FollowInv, ThreadInv', Grown, ended => ended', finalSeen' = FALSE,
         seen' = seen \/ seen' = 0, rec' = rec
  PROVE  SeenFollows' /\ RecordIsThread' /\ GraceNeedsSeen'
<1>1. RecordIsThread'
  BY RecordStays DEF FollowInv, ThreadInv
<1>2. rec # NoRec => rec.seen \in Nat
  BY Bounds DEF FollowInv, Records
<1>3. SeenFollows'
  BY <1>2 DEF FollowInv, SeenFollows
<1>. QED
  BY <1>1, <1>3 DEF GraceNeedsSeen

\* A maintainer's reply is no status message: the clock runs on.
LEMMA ReplyKeeps ==
  ASSUME FollowInv, postMaintainer
  PROVE  FollowInv'
<1>. USE Bounds
<1>. DEFINE m == [kind |-> "reply", leaves |-> status]
            N == Len(msgs)
            L == LastStatusSeq(1 .. latestSeq)
<1>1. /\ ~ended /\ N + 1 <= MaxMessages /\ msgs' = Append(msgs, m)
      /\ UNCHANGED <<status, seen, finalSeen, ended, rec, call>>
  BY DEF postMaintainer, Room, insertMessage, latestSeq
<1>2. ThreadInv /\ "reply" \in Kinds /\ m \in Messages /\ m.kind = "reply"
  BY DEF FollowInv, ThreadInv, Kinds, Messages
<1>3. ThreadInv' /\ Grown
  <2>1. insertMessage("reply", status) /\ status \in Status /\ seen' \in Seqs /\ finalSeen' \in BOOLEAN
    BY <1>1, <1>2 DEF insertMessage, ThreadInv
  <2>. QED
    BY <1>1, <1>2, <2>1, InsertStep
<1>4. /\ msgs' \in Seq(Messages) /\ Len(msgs') = N + 1 /\ N \in Nat /\ msgs'[N + 1] = m
      /\ \A i \in 1 .. N : msgs'[i] = msgs[i]
  BY <1>1, <1>2, OneMore DEF ThreadInv, Grown
<1>5. RecordIsThread'
  BY <1>1, <1>3, RecordStays DEF FollowInv, ThreadInv
<1>6. L' <= L
  <2>1. L' \in 0 .. N + 1 /\ (L' # 0 => msgs'[L'].kind \in {"status", "reopen"})
    BY <1>4, LastStatusNext DEF latestSeq, IsStatus
  <2>2. L \in 0 .. N /\ \A i \in 1 .. N : IsStatus(i) => i <= L
    BY <1>2, LastStatus DEF ThreadInv, latestSeq
  <2>3. CASE L' = 0
    BY <1>4, <2>2, <2>3
  <2>4. CASE L' # 0
    <3>. DEFINE k == L'
    <3>1. k \in 1 .. N + 1 /\ msgs'[k].kind \in {"status", "reopen"}
      BY <1>4, <2>1, <2>4 DEF IsStatus
    <3>. HIDE DEF k
    <3>2. k # N + 1
      BY <1>2, <1>4, <3>1
    <3>3. k \in 1 .. N
      BY <1>4, <3>1, <3>2
    <3>4. IsStatus(k)
      BY <1>4, <3>1, <3>3 DEF IsStatus
    <3>5. k <= L
      BY <2>2, <3>3, <3>4
    <3>. QED
      BY <3>5 DEF k
  <2>. QED
    BY <2>3, <2>4
<1>7. GraceNeedsSeen'
  <2>1. L \in Nat /\ L' \in Nat
    BY <1>2, <1>4, LastStatus, LastStatusNext DEF ThreadInv, latestSeq
  <2>2. rec # NoRec => rec.seen \in Nat
    BY RecordIs DEF FollowInv
  <2>. QED
    BY <1>1, <1>6, <2>1, <2>2 DEF FollowInv, GraceNeedsSeen
<1>8. SeenFollows'
  BY <1>1 DEF FollowInv, SeenFollows
<1>. QED
  BY <1>1, <1>3, <1>5, <1>7, <1>8, RecordWaits, CallsWait DEF FollowInv, ThreadInv

LEMMA StatusKeeps ==
  ASSUME FollowInv, setStatus
  PROVE  FollowInv'
<1>1. PICK s \in Status : /\ ~ended /\ Len(msgs) + 1 <= MaxMessages /\ insertMessage("status", s)
                          /\ status' = s /\ finalSeen' = FALSE
                          /\ UNCHANGED <<seen, ended, rec, call>>
  BY DEF setStatus, Room, latestSeq, Clock
<1>2. "status" \in Kinds /\ "status" \notin Children /\ ThreadInv /\ seen' \in Seqs
  BY <1>1, Bounds DEF Kinds, FollowInv, ThreadInv
<1>3. ThreadInv' /\ Grown
  BY <1>1, <1>2, InsertStep
<1>4. SeenFollows' /\ RecordIsThread' /\ GraceNeedsSeen'
  BY <1>1, <1>3, ThreadMoves
<1>. QED
  BY <1>1, <1>3, <1>4, RecordWaits, CallsWait DEF FollowInv, ThreadInv

LEMMA EndKeeps ==
  ASSUME FollowInv, End
  PROVE  FollowInv'
<1>1. ThreadInv' /\ Grown /\ ended' /\ seen' = 0 /\ finalSeen' = FALSE /\ UNCHANGED <<rec, call>>
  BY DestroyStep DEF End, FollowInv
<1>2. SeenFollows' /\ RecordIsThread' /\ GraceNeedsSeen'
  BY <1>1, ThreadMoves
<1>. QED
  BY <1>1, <1>2, RecordWaits, CallsWait DEF FollowInv, ThreadInv

\* A call of the host begins: nothing else moves.
LEMMA BeginKeeps ==
  ASSUME FollowInv, UNCHANGED <<threadState, rec>>, rec # NoRec,
         NEW c \in Slots, NEW x \in CallStates, call' = [call EXCEPT ![c] = x],
         x.at \in {"fetch", "post", "attach"} => x.after = rec.latest,
         x.at = "seen" => x.sent = rec.seen,
         x.at \notin {"answer", "acked"}
  PROVE  FollowInv'
<1>1. /\ ThreadInv' /\ Grown /\ (ended => ended') /\ SeenFollows' /\ GraceNeedsSeen'
      /\ (rec' = NoRec \/ rec' \in Records) /\ RecordKept
  BY RecordWaits, ThreadWaits
<1>2. rec.latest \in Nat /\ rec.seen \in Nat
  BY RecordIs DEF FollowInv
<1>3. CallAgrees(x)'
  BY <1>2 DEF CallAgrees
<1>4. RecordIsThread'
  BY <1>1, RecordStays DEF FollowInv, ThreadInv
<1>. QED
  BY <1>1, <1>3, <1>4, CallsMove DEF FollowInv, ThreadInv

LEMMA LaunchKeeps ==
  ASSUME FollowInv, Launch
  PROVE  FollowInv'
<1>. DEFINE first == IF Done(rec) THEN Resend("launch", rec) ELSE fetchOne("launch", rec.latest)
<1>1. /\ rec # NoRec /\ rec \in Records /\ "launch" \in Slots /\ "launch" \in Whys
      /\ first # Idle /\ call' = [call EXCEPT !["launch"] = first] /\ UNCHANGED <<threadState, rec>>
  BY Bounds DEF Launch, Starts, FollowInv, Whys
<1>2. rec.latest \in Seqs
  BY <1>1 DEF Records
<1>3. PICK x \in CallStates : /\ x = first
                              /\ \/ x.at = "seen" /\ x.sent = rec.seen
                                 \/ x.at = "fetch" /\ x.after = rec.latest
  BY <1>1, <1>2, CallMade, MarkAgrees DEF fetchOne
<1>. QED
  BY <1>1, <1>3, BeginKeeps

LEMMA CheckKeeps ==
  ASSUME FollowInv, NEW c \in Calls, Check(c)
  PROVE  FollowInv'
<1>1. /\ rec # NoRec /\ rec \in Records /\ c \in Slots /\ "check" \in Whys
      /\ call' = [call EXCEPT ![c] = fetchOne("check", rec.latest)] /\ UNCHANGED <<threadState, rec>>
  BY Bounds DEF Check, Starts, FollowInv, Whys
<1>2. rec.latest \in Seqs
  BY <1>1 DEF Records
<1>3. PICK x \in CallStates : x = fetchOne("check", rec.latest)
  BY <1>1, <1>2, CallMade
<1>4. x.at = "fetch" /\ x.after = rec.latest
  BY <1>3 DEF fetchOne
<1>. QED
  BY <1>1, <1>3, <1>4, BeginKeeps

LEMMA PostKeeps ==
  ASSUME FollowInv, NEW c \in Calls, Post(c)
  PROVE  FollowInv'
<1>1. /\ rec # NoRec /\ rec \in Records /\ c \in Slots
      /\ call' = [call EXCEPT ![c] = [at |-> "post", after |-> rec.latest]] /\ UNCHANGED <<threadState, rec>>
  BY Bounds DEF Post, Starts, FollowInv
<1>2. rec.latest \in Seqs
  BY <1>1 DEF Records
<1>3. PICK x \in CallStates : x = [at |-> "post", after |-> rec.latest]
  BY <1>2, CallMade
<1>4. x.at = "post" /\ x.after = rec.latest
  BY <1>3
<1>. QED
  BY <1>1, <1>3, <1>4, BeginKeeps

LEMMA AttachKeeps ==
  ASSUME FollowInv, NEW c \in Calls, Attach(c)
  PROVE  FollowInv'
<1>1. PICK child \in Children :
      /\ rec # NoRec /\ rec \in Records /\ c \in Slots
      /\ call' = [call EXCEPT ![c] = [at |-> "attach", after |-> rec.latest, child |-> child]]
      /\ UNCHANGED <<threadState, rec>>
  BY Bounds DEF Attach, Starts, FollowInv
<1>2. rec.latest \in Seqs
  BY <1>1 DEF Records
<1>3. PICK x \in CallStates : x = [at |-> "attach", after |-> rec.latest, child |-> child]
  BY <1>2, CallMade
<1>4. x.at = "attach" /\ x.after = rec.latest
  BY <1>3
<1>. QED
  BY <1>1, <1>3, <1>4, BeginKeeps

LEMMA ForgetKeeps ==
  ASSUME FollowInv, NEW c \in Calls, ForgetReport(c)
  PROVE  FollowInv'
<1>1. /\ rec # NoRec /\ c \in Slots
      /\ call' = [call EXCEPT ![c] = [at |-> "forget"]] /\ UNCHANGED <<threadState, rec>>
  BY Bounds DEF ForgetReport, Starts
<1>2. PICK x \in CallStates : x = [at |-> "forget"]
  BY CallMade
<1>3. x.at = "forget"
  BY <1>2
<1>. QED
  BY <1>1, <1>2, <1>3, BeginKeeps

\* A mark only moves up.
LEMMA MarkSeenKeeps ==
  ASSUME FollowInv, NEW c \in Calls, MarkSeen(c)
  PROVE  FollowInv'
<1>1. PICK upTo \in 1 .. rec.latest :
      /\ rec # NoRec /\ rec \in Records /\ c \in Slots /\ UNCHANGED threadState
      /\ rec' = [rec EXCEPT !.seen = IF upTo > @ THEN upTo ELSE @]
      /\ call' = [call EXCEPT ![c] = syncSeen("check", rec', Idle)]
  BY Bounds DEF MarkSeen, FollowInv
<1>2. /\ rec.latest \in Nat /\ rec.seen \in Nat /\ rec.synced \in Nat /\ rec.known \subseteq Seqs
      /\ rec.latest <= Len(msgs) /\ Len(msgs) \in Nat /\ Len(msgs) <= MaxMessages
  BY <1>1, RecordIs DEF FollowInv, ThreadInv, RecordIsThread, latestSeq
<1>3. upTo \in Seqs
  BY <1>1, <1>2, Bounds
<1>4. /\ rec' \in Records /\ rec'.latest = rec.latest /\ rec'.known = rec.known
      /\ rec'.status = rec.status /\ rec'.seen = IF upTo > rec.seen THEN upTo ELSE rec.seen
  BY <1>1, <1>3 DEF Records
<1>5. RecordKept
  BY <1>1, <1>2, <1>4 DEF RecordKept
<1>6. ThreadInv' /\ Grown /\ (ended => ended') /\ SeenFollows' /\ GraceNeedsSeen'
  BY <1>1, <1>4, <1>5, ThreadWaits
<1>7. RecordIsThread'
  <2>1. rec'.latest <= latestSeq' /\ rec'.known = 1 .. rec'.latest
    BY <1>1, <1>2, <1>4 DEF FollowInv, RecordIsThread, threadState, latestSeq
  <2>2. IF rec'.status = "gone" THEN ended' ELSE rec'.status = StatusAt(rec.latest)'
    BY <1>1, <1>4 DEF FollowInv, RecordIsThread, threadState, StatusAt
  <2>3. rec' # NoRec
    BY <1>4, RecordIs
  <2>. QED
    BY <1>4, <2>1, <2>2 DEF RecordIsThread, StatusAt
<1>8. PICK x \in CallStates : /\ x = syncSeen("check", rec', Idle)
                              /\ x = Idle \/ (x.at = "seen" /\ x.sent = rec'.seen)
  <2>1. rec'.seen \in Seqs /\ "check" \in Whys
    BY <1>4 DEF Records, Whys
  <2>. QED
    BY <2>1, CallMade DEF syncSeen, postThreadSeen
<1>9. CallAgrees(x)'
  <2>1. rec'.seen \in Nat
    BY <1>4, RecordIs
  <2>. QED
    BY <1>8, <2>1, CallMade DEF CallAgrees
<1>. QED
  BY <1>1, <1>4, <1>5, <1>6, <1>7, <1>8, <1>9, CallsMove DEF FollowInv, ThreadInv

\* The call is answered, or lost, and nothing else moves.
LEMMA CallEnds ==
  ASSUME FollowInv, UNCHANGED <<threadState, rec>>, NEW c \in Slots, NEW x \in CallStates,
         CallAgrees(x), call' = [call EXCEPT ![c] = x]
  PROVE  FollowInv'
<1>1. /\ ThreadInv' /\ Grown /\ (ended => ended') /\ SeenFollows' /\ GraceNeedsSeen'
      /\ (rec' = NoRec \/ rec' \in Records) /\ RecordKept
  BY RecordWaits, ThreadWaits
<1>2. CallAgrees(x)'
  BY <1>1, AgreesStays DEF FollowInv, ThreadInv
<1>3. RecordIsThread'
  BY <1>1, RecordStays DEF FollowInv, ThreadInv
<1>. QED
  BY <1>1, <1>2, <1>3, CallsMove DEF FollowInv, ThreadInv

\* The answer the call of c gets.
AnswerIs(c, v) ==
  IF call[c].at = "fetch" THEN [at |-> "answer", why |-> call[c].why, view |-> v]
  ELSE [at |-> "acked", why |-> call[c].why, sent |-> call[c].sent, view |-> v]

LEMMA AnswerMade ==
  ASSUME FollowInv, NEW c \in Slots, NEW v, Truthful(v),
         \/ /\ call[c].at = "fetch" /\ v \in Views3
            /\ v.got = "view" => v.after = call[c].after
         \/ call[c].at = "seen" /\ v \in {Ack, Failed, Forbidden}
  PROVE  AnswerIs(c, v) \in CallStates /\ CallAgrees(AnswerIs(c, v))
<1>1. call[c] \in CallStates /\ CallAgrees(call[c])
  BY DEF FollowInv, CallsAgree
<1>2. CASE call[c].at = "fetch"
  <2>1. AnswerIs(c, v) = [at |-> "answer", why |-> call[c].why, view |-> v] /\ v \in Views3
    BY <1>2 DEF AnswerIs
  <2>2. AnswerIs(c, v) \in CallStates
    BY <1>1, <1>2, <2>1, CallHolds, CallMade
  <2>3. CallAgrees(AnswerIs(c, v))
    BY <1>1, <1>2, <2>1 DEF CallAgrees
  <2>. QED
    BY <2>2, <2>3
<1>3. CASE call[c].at = "seen"
  <2>1. /\ AnswerIs(c, v) = [at |-> "acked", why |-> call[c].why, sent |-> call[c].sent, view |-> v]
        /\ v \in {Ack, Failed, Forbidden}
    BY <1>3 DEF AnswerIs
  <2>2. AnswerIs(c, v) \in CallStates
    <3>1. call[c].why \in Whys /\ call[c].sent \in Seqs
      BY <1>1, <1>3, CallHolds
    <3>. QED
      BY <2>1, <3>1, CallMade
  <2>3. CallAgrees(AnswerIs(c, v))
    BY <2>1 DEF CallAgrees
  <2>. QED
    BY <2>2, <2>3
<1>. QED
  BY <1>2, <1>3

LEMMA LoseKeeps ==
  ASSUME FollowInv, NEW c \in Slots, Lose(c)
  PROVE  FollowInv'
<1>1. UNCHANGED <<threadState, rec>>
  BY DEF Lose
<1>2. CASE call[c].at \in {"fetch", "seen"} /\ Answer(c, Failed)
  <2>1. call' = [call EXCEPT ![c] = AnswerIs(c, Failed)]
    BY <1>2 DEF Answer, Becomes, AnswerIs
  <2>2. Truthful(Failed) /\ Failed \in Views3 /\ Failed.got # "view"
    BY DEF Truthful, Failed, Forbidden, Views3
  <2>3. AnswerIs(c, Failed) \in CallStates /\ CallAgrees(AnswerIs(c, Failed))
    BY <1>2, <2>2, AnswerMade
  <2>. QED
    BY <1>1, <2>1, <2>3, CallEnds
<1>3. CASE Becomes(c, Idle)
  <2>1. call' = [call EXCEPT ![c] = Idle] /\ Idle \in CallStates /\ CallAgrees(Idle)
    BY <1>3, CallMade DEF Becomes, CallAgrees
  <2>. QED
    BY <1>1, <2>1, CallEnds
<1>. QED
  BY <1>2, <1>3 DEF Lose

LEMMA ServeReadKeeps ==
  ASSUME FollowInv, NEW c \in Slots, ServeRead(c)
  PROVE  FollowInv'
<1>. DEFINE v == IF ended THEN Forbidden
                 ELSE [got |-> "view", status |-> status, latest |-> latestSeq, after |-> call[c].after]
<1>1. call[c].at = "fetch" /\ call' = [call EXCEPT ![c] = AnswerIs(c, v)] /\ UNCHANGED <<threadState, rec>>
  BY DEF ServeRead, Answer, Becomes, AnswerIs
<1>2. call[c] \in CallStates /\ call[c].after \in Seqs
  BY <1>1, CallHolds DEF FollowInv
<1>3. CASE ended
  <2>1. v = Forbidden /\ Truthful(v) /\ v \in Views3 /\ v.got # "view"
    BY <1>3 DEF Truthful, Forbidden, Views3
  <2>2. AnswerIs(c, v) \in CallStates /\ CallAgrees(AnswerIs(c, v))
    BY <1>1, <2>1, AnswerMade
  <2>. QED
    BY <1>1, <2>2, CallEnds
<1>4. CASE ~ended
  <2>1. latestSeq \in Seqs /\ status \in Status /\ status = StatusAt(latestSeq) /\ latestSeq <= latestSeq
    BY <1>4, Bounds DEF FollowInv, ThreadInv, StatusIsLeft, latestSeq
  <2>2. /\ v \in Views /\ v.after = call[c].after /\ v.latest = latestSeq
        /\ v.status = status /\ v # Forbidden
    BY <1>2, <1>4, <2>1 DEF Views, Forbidden
  <2>. HIDE DEF v
  <2>3. v \in Views3 /\ Truthful(v)
    BY <2>1, <2>2 DEF Truthful, Views3
  <2>4. AnswerIs(c, v) \in CallStates /\ CallAgrees(AnswerIs(c, v))
    BY <1>1, <2>2, <2>3, AnswerMade
  <2>. QED
    BY <1>1, <2>4, CallEnds
<1>. QED
  BY <1>3, <1>4

LEMMA ServeSeenKeeps ==
  ASSUME FollowInv, NEW c \in Slots, ServeSeen(c)
  PROVE  FollowInv'
<1>1. call[c].at = "seen" /\ rec' = rec
  BY DEF ServeSeen
<1>2. PICK y \in CallStates : y = call[c]
  BY DEF FollowInv
<1>3. y.sent \in Seqs /\ (rec # NoRec => y.sent <= rec.seen)
  BY <1>1, <1>2, CallHolds DEF FollowInv, CallsAgree, CallAgrees
<1>4. CASE ended
  <2>1. call' = [call EXCEPT ![c] = AnswerIs(c, Forbidden)] /\ UNCHANGED <<threadState, rec>>
    BY <1>1, <1>4 DEF ServeSeen, Answer, Becomes, AnswerIs
  <2>2. Truthful(Forbidden)
    BY <1>4 DEF Truthful, Forbidden
  <2>3. AnswerIs(c, Forbidden) \in CallStates /\ CallAgrees(AnswerIs(c, Forbidden))
    BY <1>1, <2>2, AnswerMade
  <2>. QED
    BY <2>1, <2>3, CallEnds
<1>5. CASE ~ended
  <2>1. PICK v \in {Ack, Failed} :
        markSeen(y.sent) /\ call' = [call EXCEPT ![c] = AnswerIs(c, v)]
    BY <1>1, <1>2, <1>5 DEF ServeSeen, Answer, Becomes, AnswerIs
  <2>2. /\ ThreadInv' /\ Grown /\ UNCHANGED <<msgs, status, ended>>
        /\ seen' <= (IF y.sent > seen THEN y.sent ELSE seen) /\ seen' >= seen
        /\ finalSeen' => finalSeen \/ (status = "final" /\ seen' >= LastStatusSeq(1 .. latestSeq))
    BY <1>3, <2>1, SeenStep DEF FollowInv
  <2>3. /\ rec # NoRec => rec.seen \in Nat
        /\ y.sent \in Nat /\ seen \in Nat /\ seen' \in Nat
    BY <1>3, <2>2, Bounds, RecordIs DEF FollowInv, ThreadInv
  <2>4. rec # NoRec => seen' <= rec.seen
    BY <1>3, <2>2, <2>3 DEF FollowInv, SeenFollows
  <2>5. SeenFollows'
    BY <1>1, <2>4 DEF SeenFollows
  <2>6. GraceNeedsSeen'
    <3>1. LastStatusSeq(1 .. latestSeq) \in Nat
      BY LastStatus DEF FollowInv, ThreadInv, latestSeq
    <3>2. LastStatusSeq(1 .. latestSeq)' = LastStatusSeq(1 .. latestSeq)
      BY <2>2, LastStays
    <3>. QED
      BY <1>1, <2>2, <2>3, <2>4, <3>1, <3>2 DEF FollowInv, GraceNeedsSeen
  <2>7. RecordIsThread'
    BY <1>1, <2>2, RecordStays DEF FollowInv, ThreadInv
  <2>8. Truthful(v) /\ v \in {Ack, Failed, Forbidden}
    BY DEF Truthful, Ack, Failed, Forbidden
  <2>9. AnswerIs(c, v) \in CallStates /\ CallAgrees(AnswerIs(c, v))
    BY <1>1, <2>8, AnswerMade
  <2>10. PICK x \in CallStates : x = AnswerIs(c, v) /\ CallAgrees(x)
    BY <2>9
  <2>11. (rec' = NoRec \/ rec' \in Records) /\ RecordKept
    BY <1>1, RecordWaits
  <2>12. CallAgrees(x)'
    BY <2>2, <2>10, <2>11, AgreesStays DEF FollowInv, ThreadInv
  <2>. QED
    BY <2>1, <2>2, <2>5, <2>6, <2>7, <2>10, <2>11, <2>12, CallsMove DEF FollowInv, ThreadInv
<1>. QED
  BY <1>4, <1>5

\* A thread that has ended makes the record say so.
LEMMA GoneKeeps ==
  ASSUME FollowInv, ended, UNCHANGED threadState, rec' = goneRecord(rec),
         NEW c \in Slots, NEW x \in CallStates, call' = [call EXCEPT ![c] = x],
         \/ x = Idle
         \/ x.at = "seen" /\ rec' # NoRec /\ x.sent = rec'.seen
  PROVE  FollowInv'
<1>1. CASE rec = NoRec
  <2>1. rec' = rec
    BY <1>1 DEF goneRecord
  <2>2. CallAgrees(x)
    BY <1>1, <2>1, CallMade DEF CallAgrees
  <2>. QED
    BY <2>1, <2>2, CallEnds
<1>2. CASE rec # NoRec
  <2>1. rec \in Records /\ rec' = [rec EXCEPT !.status = "gone"]
    BY <1>2 DEF goneRecord, FollowInv
  <2>2. /\ rec' \in Records /\ rec'.latest = rec.latest /\ rec'.known = rec.known
        /\ rec'.seen = rec.seen /\ rec'.status = "gone"
    BY <2>1 DEF Records
  <2>3. rec.latest \in Nat /\ rec.seen \in Nat
    BY <2>1, RecordIs
  <2>4. RecordKept
    BY <1>2, <2>2, <2>3 DEF RecordKept
  <2>5. ThreadInv' /\ Grown /\ (ended => ended') /\ SeenFollows' /\ GraceNeedsSeen'
    BY <2>2, <2>4, ThreadWaits
  <2>6. RecordIsThread'
    BY <1>2, <2>2, <2>5 DEF FollowInv, RecordIsThread, threadState, latestSeq
  <2>7. CallAgrees(x)'
    BY <2>2, <2>3, CallMade DEF CallAgrees
  <2>. QED
    BY <2>2, <2>4, <2>5, <2>6, <2>7, CallsMove DEF FollowInv, ThreadInv
<1>. QED
  BY <1>1, <1>2

\* A step of the thread by the call of c, which fetches with it or ends.
LEMMA OwnKeeps ==
  ASSUME FollowInv, rec' = rec, NEW c \in Slots, call[c].at \in {"post", "attach"},
         ThreadInv', Grown, ended' = ended, seen' = seen, finalSeen' = FALSE,
         \/ call' = [call EXCEPT ![c] = fetchOne("own", call[c].after)]
         \/ call' = [call EXCEPT ![c] = Idle]
         \/ call' = call
  PROVE  FollowInv'
<1>1. SeenFollows' /\ RecordIsThread' /\ GraceNeedsSeen'
  BY ThreadMoves
<1>2. (rec' = NoRec \/ rec' \in Records) /\ RecordKept
  BY RecordWaits
<1>3. PICK y \in CallStates : y = call[c] /\ CallAgrees(y)
  BY DEF FollowInv, CallsAgree
<1>4. y.after \in Seqs /\ "own" \in Whys /\ (rec # NoRec => y.after <= rec.latest)
  BY <1>3, CallHolds DEF CallAgrees, Whys
<1>5. ASSUME NEW x \in CallStates, CallAgrees(x), call' = [call EXCEPT ![c] = x]
      PROVE  FollowInv'
  <2>1. CallAgrees(x)'
    BY <1>2, <1>5, AgreesStays DEF FollowInv, ThreadInv
  <2>. QED
    BY <1>1, <1>2, <1>5, <2>1, CallsMove DEF FollowInv, ThreadInv
<1>6. fetchOne("own", y.after) \in CallStates /\ CallAgrees(fetchOne("own", y.after))
  BY <1>4, CallMade DEF CallAgrees, fetchOne
<1>7. Idle \in CallStates /\ CallAgrees(Idle)
  BY CallMade DEF CallAgrees
<1>8. CASE call' = call
  BY <1>1, <1>2, <1>8, CallsWait DEF FollowInv, ThreadInv
<1>. QED
  BY <1>3, <1>5, <1>6, <1>7, <1>8

\* The same when the thread stays as it was.
LEMMA OwnWaits ==
  ASSUME FollowInv, UNCHANGED <<threadState, rec>>, NEW c \in Slots, call[c].at \in {"post", "attach"},
         \/ call' = [call EXCEPT ![c] = fetchOne("own", call[c].after)]
         \/ call' = [call EXCEPT ![c] = Idle]
         \/ call' = call
  PROVE  FollowInv'
<1>1. PICK y \in CallStates : y = call[c] /\ CallAgrees(y)
  BY DEF FollowInv, CallsAgree
<1>2. y.after \in Seqs /\ "own" \in Whys /\ (rec # NoRec => y.after <= rec.latest)
  BY <1>1, CallHolds DEF CallAgrees, Whys
<1>3. fetchOne("own", y.after) \in CallStates /\ CallAgrees(fetchOne("own", y.after))
  BY <1>2, CallMade DEF CallAgrees, fetchOne
<1>4. Idle \in CallStates /\ CallAgrees(Idle)
  BY CallMade DEF CallAgrees
<1>5. call' = call => call' = [call EXCEPT ![c] = y]
  BY <1>1 DEF FollowInv
<1>. QED
  BY <1>1, <1>3, <1>4, <1>5, CallEnds

LEMMA ServePostKeeps ==
  ASSUME FollowInv, NEW c \in Slots, ServePost(c)
  PROVE  FollowInv'
<1>1. call[c].at = "post"
  BY DEF ServePost
<1>2. CASE ended
  BY <1>2, CallMade, GoneKeeps DEF ServePost, Becomes
<1>3. CASE ~ended /\ UNCHANGED threadState /\ Becomes(c, Idle) /\ rec' = rec
  BY <1>1, <1>3, OwnWaits DEF Becomes
<1>4. CASE /\ ~ended /\ rec' = rec /\ postReporter
           /\ Becomes(c, fetchOne("own", call[c].after)) \/ Becomes(c, Idle)
  <2>1. ThreadInv' /\ Grown /\ ended' = ended /\ seen' = seen /\ finalSeen' = FALSE
    BY <1>4, PostStep DEF FollowInv
  <2>. QED
    BY <1>1, <1>4, <2>1, OwnKeeps DEF Becomes
<1>. QED
  BY <1>2, <1>3, <1>4 DEF ServePost

LEMMA ServeAttachKeeps ==
  ASSUME FollowInv, NEW c \in Slots, ServeAttach(c)
  PROVE  FollowInv'
<1>1. call[c].at = "attach" /\ rec' = rec
  BY DEF ServeAttach
<1>2. call[c].child \in Children
  BY <1>1, CallHolds DEF FollowInv
<1>3. CASE ended /\ Becomes(c, Idle) /\ UNCHANGED threadState
  BY <1>1, <1>3, OwnWaits DEF Becomes
<1>4. CASE /\ appendAttachment(call[c].child)
           /\ Becomes(c, fetchOne("own", call[c].after)) \/ UNCHANGED call
  <2>1. \/ UNCHANGED threadState
        \/ ThreadInv' /\ Grown /\ ended' = ended /\ seen' = seen /\ finalSeen' = FALSE
    BY <1>2, <1>4, AttachStep DEF FollowInv
  <2>. QED
    BY <1>1, <1>4, <2>1, OwnKeeps, OwnWaits DEF Becomes
<1>. QED
  BY <1>3, <1>4 DEF ServeAttach

LEMMA ServeForgetKeeps ==
  ASSUME FollowInv, NEW c \in Slots, ServeForget(c)
  PROVE  FollowInv'
<1>1. rec' = NoRec /\ call' = [call EXCEPT ![c] = Idle] /\ (destroy \/ UNCHANGED threadState)
  BY DEF ServeForget, Becomes
<1>2. RecordKept /\ SeenFollows' /\ RecordIsThread'
  BY <1>1 DEF RecordKept, SeenFollows, RecordIsThread
<1>3. ThreadInv' /\ Grown /\ (ended => ended') /\ GraceNeedsSeen'
  <2>1. CASE destroy
    BY <2>1, DestroyStep DEF FollowInv, GraceNeedsSeen
  <2>2. CASE UNCHANGED threadState
    BY <1>1, <1>2, <2>2, ThreadWaits
  <2>. QED
    BY <1>1, <2>1, <2>2
<1>4. PICK x \in CallStates : x = Idle
  BY CallMade
<1>5. CallAgrees(x)'
  BY <1>1, <1>4, CallMade DEF CallAgrees
<1>. QED
  BY <1>1, <1>2, <1>3, <1>4, <1>5, CallsMove DEF FollowInv, ThreadInv

\* An answer told the truth when it was given; the messages up to its latest
\* have not changed since, so the record it is merged with is the thread still.
LEMMA MergeKeeps ==
  ASSUME FollowInv, UNCHANGED threadState, rec # NoRec, NEW v \in Views, Truthful(v), v.after <= rec.latest,
         rec' = mergeThread(rec, v),
         NEW c \in Slots, NEW x \in CallStates, call' = [call EXCEPT ![c] = x],
         \/ x = Idle
         \/ x.at = "seen" /\ x.sent = rec'.seen
  PROVE  FollowInv'
<1>. USE Bounds
<1>1. rec \in Records /\ UNCHANGED <<msgs, ended>>
  BY DEF FollowInv, threadState
<1>2. /\ rec.latest \in Nat /\ rec.seen \in Nat /\ rec.known = 1 .. rec.latest
      /\ rec.latest <= Len(msgs) /\ Len(msgs) \in Nat /\ Len(msgs) <= MaxMessages
  BY <1>1, RecordIs DEF FollowInv, ThreadInv, RecordIsThread, latestSeq
<1>3. /\ v.got = "view" /\ v.latest \in Nat /\ v.after \in Nat /\ v.status \in Status
      /\ v.latest <= Len(msgs) /\ v.status = StatusAt(v.latest)
  BY DEF Views, Truthful, latestSeq
<1>. DEFINE new == IF v.latest > rec.latest THEN v.latest ELSE rec.latest
            known == rec.known \cup (v.after + 1 .. v.latest)
            st == IF v.latest >= rec.latest THEN v.status ELSE rec.status
<1>4. new \in Nat /\ new <= Len(msgs) /\ new >= rec.latest /\ new \in Seqs
  BY <1>2, <1>3
<1>5. known = 1 .. new
  BY <1>2, <1>3
<1>6. rec' = [rec EXCEPT !.known = known, !.latest = new, !.status = st]
  BY DEF mergeThread
<1>7. st \in Status \cup {"gone"} /\ known \in SUBSET Seqs
  BY <1>1, <1>2, <1>3, <1>4, <1>5, RecordIs
<1>8. IF st = "gone" THEN ended ELSE st = StatusAt(new)
  <2>1. CASE v.latest >= rec.latest
    <3>1. new = v.latest /\ st = v.status /\ "gone" \notin Status
      BY <1>2, <1>3, <2>1 DEF Status
    <3>. QED
      BY <1>3, <3>1
  <2>2. CASE ~(v.latest >= rec.latest)
    <3>1. new = rec.latest /\ st = rec.status
      BY <1>2, <1>3, <2>2
    <3>. QED
      BY <1>1, <3>1, RecordIs DEF FollowInv, RecordIsThread
  <2>. QED
    BY <2>1, <2>2
<1>. HIDE DEF new, known, st
<1>9. /\ rec' \in Records /\ rec'.latest = new /\ rec'.known = known /\ rec'.status = st
      /\ rec'.seen = rec.seen
  BY <1>1, <1>4, <1>6, <1>7 DEF Records
<1>10. RecordKept
  BY <1>1, <1>2, <1>4, <1>9, RecordIs DEF RecordKept
<1>11. ThreadInv' /\ Grown /\ (ended => ended') /\ SeenFollows' /\ GraceNeedsSeen'
  BY <1>9, <1>10, ThreadWaits
<1>12. RecordIsThread'
  <2>1. IF rec'.status = "gone" THEN ended' ELSE rec'.status = StatusAt(rec.latest)'
    BY <1>1, <1>8, <1>9 DEF StatusAt
  <2>2. rec'.latest <= latestSeq' /\ rec'.known = 1 .. rec'.latest
    BY <1>1, <1>4, <1>5, <1>9 DEF latestSeq
  <2>. QED
    BY <2>1, <2>2 DEF RecordIsThread
<1>13. CallAgrees(x)'
  BY <1>2, <1>9, CallMade DEF CallAgrees
<1>. QED
  BY <1>9, <1>10, <1>11, <1>12, <1>13, CallsMove DEF FollowInv, ThreadInv

\* The record stays, or what it holds of the mark does.
LEMMA AckKeeps ==
  ASSUME FollowInv, UNCHANGED threadState, rec # NoRec, NEW sent \in Seqs, rec' = Acked(rec, sent),
         NEW c \in Slots, NEW x \in CallStates, call' = [call EXCEPT ![c] = x],
         \/ x = Idle
         \/ x.at = "seen" /\ x.sent = rec'.seen
  PROVE  FollowInv'
<1>1. rec \in Records /\ UNCHANGED <<msgs, ended>>
  BY DEF FollowInv, threadState
<1>2. rec.latest \in Nat /\ rec.seen \in Nat
  BY <1>1, RecordIs
<1>3. /\ rec' \in Records /\ rec'.latest = rec.latest /\ rec'.known = rec.known
      /\ rec'.status = rec.status /\ rec'.seen = rec.seen
  BY <1>1 DEF Acked, Records
<1>4. RecordKept
  BY <1>1, <1>2, <1>3, RecordIs DEF RecordKept
<1>5. ThreadInv' /\ Grown /\ (ended => ended') /\ SeenFollows' /\ GraceNeedsSeen'
  BY <1>3, <1>4, ThreadWaits
<1>6. RecordIsThread'
  BY <1>1, <1>3 DEF FollowInv, RecordIsThread, StatusAt, latestSeq
<1>7. CallAgrees(x)'
  BY <1>2, <1>3, CallMade DEF CallAgrees
<1>. QED
  BY <1>3, <1>4, <1>5, <1>6, <1>7, CallsMove DEF FollowInv, ThreadInv

LEMMA StayKeeps ==
  ASSUME FollowInv, UNCHANGED <<threadState, rec>>,
         NEW c \in Slots, NEW x \in CallStates, call' = [call EXCEPT ![c] = x],
         \/ x = Idle
         \/ x.at = "seen" /\ rec # NoRec /\ x.sent = rec.seen
  PROVE  FollowInv'
<1>1. rec # NoRec => rec.seen \in Nat
  BY RecordIs DEF FollowInv
<1>2. CallAgrees(x)
  BY <1>1, CallMade DEF CallAgrees
<1>. QED
  BY <1>2, CallEnds

LEMMA TakeViewKeeps ==
  ASSUME FollowInv, NEW c \in Slots, TakeView(c)
  PROVE  FollowInv'
<1>1. PICK y \in CallStates : y = call[c] /\ CallAgrees(y)
  BY DEF FollowInv, CallsAgree
<1>2. /\ y.at = "answer" /\ y.why \in Whys /\ y.view \in Views3 /\ Truthful(y.view)
      /\ UNCHANGED threadState /\ rec' = applyFetched(rec, y.view)
      /\ call' = [call EXCEPT ![c] = AfterFetch(y.why, y.view, rec')]
  BY <1>1, CallHolds DEF TakeView, Becomes, CallAgrees
<1>3. ASSUME rec' = NoRec \/ rec' \in Records
      PROVE  \E x \in CallStates : /\ x = AfterFetch(y.why, y.view, rec')
                                   /\ \/ x = Idle
                                      \/ x.at = "seen" /\ rec' # NoRec /\ x.sent = rec'.seen
  BY <1>2, <1>3, FetchedAgrees, CallMade
<1>4. CASE rec = NoRec \/ y.view = Failed
  <2>1. rec' = rec
    BY <1>2, <1>4 DEF applyFetched
  <2>2. rec' = NoRec \/ rec' \in Records
    BY <2>1 DEF FollowInv
  <2>. QED
    BY <1>2, <1>3, <2>1, <2>2, StayKeeps
<1>5. CASE ~(rec = NoRec \/ y.view = Failed) /\ y.view = Forbidden
  <2>1. rec' = goneRecord(rec) /\ ended
    BY <1>2, <1>5 DEF applyFetched, Truthful
  <2>2. rec' \in Records
    BY <1>5, <2>1 DEF goneRecord, Records, FollowInv
  <2>. QED
    BY <1>2, <1>3, <2>1, <2>2, GoneKeeps
<1>6. CASE ~(rec = NoRec \/ y.view = Failed) /\ y.view # Forbidden
  <2>1. rec' = mergeThread(rec, y.view) /\ y.view \in Views /\ rec # NoRec
    BY <1>2, <1>6 DEF applyFetched, Views3
  <2>2. y.view.got = "view" /\ y.view.after <= rec.latest
    BY <1>1, <1>2, <2>1 DEF CallAgrees, Views
  <2>3. rec' \in Records
    <3>1. rec \in Records /\ rec.latest \in Seqs /\ rec.status \in Status \cup {"gone"}
          /\ rec.known \subseteq Seqs
      BY <2>1 DEF FollowInv, Records
    <3>2. y.view.latest \in Seqs /\ y.view.after \in Seqs /\ y.view.status \in Status
      BY <2>1, ViewHolds DEF Views
    <3>3. (y.view.after + 1 .. y.view.latest) \subseteq Seqs
      BY <3>2, FollowAssumption DEF Seqs
    <3>. QED
      BY <2>1, <3>1, <3>2, <3>3 DEF mergeThread, Records
  <2>. QED
    BY <1>2, <1>3, <2>1, <2>2, <2>3, MergeKeeps
<1>. QED
  BY <1>4, <1>5, <1>6

LEMMA TakeAckKeeps ==
  ASSUME FollowInv, NEW c \in Slots, TakeAck(c)
  PROVE  FollowInv'
<1>1. PICK y \in CallStates : y = call[c] /\ CallAgrees(y)
  BY DEF FollowInv, CallsAgree
<1>2. /\ y.at = "acked" /\ y.why \in Whys /\ y.sent \in Seqs /\ Truthful(y.view)
      /\ UNCHANGED threadState /\ call' = [call EXCEPT ![c] = Resend(y.why, rec')]
  BY <1>1, CallHolds DEF TakeAck, Becomes, CallAgrees
<1>3. ASSUME rec' = NoRec \/ rec' \in Records
      PROVE  \E x \in CallStates : /\ x = Resend(y.why, rec')
                                   /\ \/ x = Idle
                                      \/ x.at = "seen" /\ rec' # NoRec /\ x.sent = rec'.seen
  BY <1>2, <1>3, MarkAgrees, CallMade
<1>4. CASE rec = NoRec \/ y.view = Failed
  <2>1. rec' = rec
    BY <1>1, <1>4 DEF TakeAck, Failed, Forbidden
  <2>2. rec' = NoRec \/ rec' \in Records
    BY <2>1 DEF FollowInv
  <2>. QED
    BY <1>2, <1>3, <2>1, <2>2, StayKeeps
<1>5. CASE ~(rec = NoRec \/ y.view = Failed) /\ y.view = Forbidden
  <2>1. rec' = goneRecord(rec) /\ ended
    BY <1>1, <1>2, <1>5 DEF TakeAck, Truthful
  <2>2. rec' \in Records
    BY <1>5, <2>1 DEF goneRecord, Records, FollowInv
  <2>. QED
    BY <1>2, <1>3, <2>1, <2>2, GoneKeeps
<1>6. CASE ~(rec = NoRec \/ y.view = Failed) /\ y.view # Forbidden
  <2>1. rec' = Acked(rec, y.sent) /\ rec # NoRec
    BY <1>1, <1>6 DEF TakeAck
  <2>2. rec' \in Records
    BY <1>2, <2>1 DEF Acked, Records, FollowInv
  <2>. QED
    BY <1>2, <1>3, <2>1, <2>2, AckKeeps
<1>. QED
  BY <1>4, <1>5, <1>6

LEMMA NextFollowInv == FollowInv /\ [FollowNext]_followVars => FollowInv'
<1>. SUFFICES ASSUME FollowInv, [FollowNext]_followVars PROVE FollowInv'
  OBVIOUS
<1>1. CASE FollowNext
  <2>1. CASE postMaintainer \/ setStatus \/ End \/ Launch
    BY <2>1, ReplyKeeps, StatusKeeps, EndKeeps, LaunchKeeps
  <2>2. ASSUME NEW c \in Calls, Check(c) \/ MarkSeen(c) \/ Post(c) \/ Attach(c) \/ ForgetReport(c)
        PROVE  FollowInv'
    BY <2>2, CheckKeeps, MarkSeenKeeps, PostKeeps, AttachKeeps, ForgetKeeps
  <2>3. ASSUME NEW c \in Slots, Serve(c)
        PROVE  FollowInv'
    BY <2>3, ServeReadKeeps, ServeSeenKeeps, ServePostKeeps, ServeAttachKeeps, ServeForgetKeeps DEF Serve
  <2>4. ASSUME NEW c \in Slots, Lose(c) \/ Take(c)
        PROVE  FollowInv'
    BY <2>4, LoseKeeps, TakeViewKeeps, TakeAckKeeps DEF Take
  <2>. QED
    BY <1>1, <2>1, <2>2, <2>3, <2>4 DEF FollowNext
<1>2. CASE UNCHANGED followVars
  <2>1. UNCHANGED <<threadState, rec, call>>
    BY <1>2 DEF followVars
  <2>2. PICK x \in CallStates : x = call["launch"] /\ CallAgrees(x)
    BY Bounds DEF FollowInv, CallsAgree
  <2>3. call' = [call EXCEPT !["launch"] = x]
    BY <2>1, <2>2 DEF FollowInv
  <2>. QED
    BY <2>1, <2>2, <2>3, CallEnds, Bounds
<1>. QED
  BY <1>1, <1>2

-----------------------------------------------------------------------------
(* Theorems                                                                *)

LEMMA FollowInvariant == FollowSpec => []FollowInv
<1>1. FollowInit => FollowInv
  BY InitFollowInv
<1>. QED
  BY <1>1, NextFollowInv, PTL DEF FollowSpec

\* Every variable of the thread, the record and the calls keeps its type, so no
\* count passes the thread's cap, however the calls overlap.
THEOREM FollowTypeCorrect == FollowSpec => []FollowTypeOK
<1>1. FollowInv => FollowTypeOK
  BY DEF FollowInv, ThreadInv, FollowTypeOK, Messages, Records
<1>. QED
  BY <1>1, FollowInvariant, PTL

\* Whatever answers overtake each other (webFollowHost.ts writes onto the record
\* as it is when the answer comes), the record holds every message up to its
\* latest, and the status that message left.
THEOREM RecordMirrorsThread == FollowSpec => []RecordIsThread
<1>1. FollowInv => RecordIsThread
  BY DEF FollowInv
<1>. QED
  BY <1>1, FollowInvariant, PTL

\* The grace clock of threadStore.ts runs only for a final status the reporter
\* has seen; a follow-up is shown once; the maintainer's last messages stay free.
THEOREM ThreadStaysFair == FollowSpec => []ThreadIsFair
<1>1. FollowInv => ThreadIsFair
  BY DEF FollowInv, ThreadInv, ThreadIsFair
<1>. QED
  BY <1>1, FollowInvariant, PTL
=============================================================================
