---------------------------- MODULE ReportThread -----------------------------
(***************************************************************************)
(* The life of one bug report's thread: the channel between a reporter who *)
(* holds the report's follow secret and the maintainer.  Three Durable     *)
(* Objects keep it (workers/bug-intake): the thread (threadStore.ts), the  *)
(* index with the report's row (indexStore.ts) and the drop with its bytes *)
(* (reportStore.ts); the requests of handlers.ts call them one after the   *)
(* other and may die between two calls.                                    *)
(*                                                                         *)
(* A method that awaits nothing but its own storage is one step.  The      *)
(* destroy that tells the index first is not: while the thread awaits the  *)
(* index, other calls of it run.                                           *)
(*                                                                         *)
(* Time: `overdue' says that the instant of alarmTimeFor has passed (365   *)
(* days of silence, or 30 after a final status was seen).                  *)
(***************************************************************************)
EXTENDS ReportIndex, FiniteSets

CONSTANTS
  MaxCommits, \* bound: COMMIT requests, the first and its retries
  Forgets,   \* Forget requests (DELETE of the thread)
  Posts,     \* reporter messages
  Replies,   \* maintainer messages
  MaxPolls,  \* bound: polls
  MaxFails   \* bound: calls that fail and objects that are evicted

ASSUME ThreadAssumption ==
  /\ MaxCommits \in Nat /\ IsFiniteSet(Forgets)
  /\ IsFiniteSet(Posts) /\ IsFiniteSet(Replies)
  /\ "alarm" \notin Forgets
  /\ MaxPolls \in Nat /\ MaxFails \in Nat

VARIABLES
  wanted,    \* START was asked to follow: the drop keeps a followHash
  overtaken, \* history: a COMMIT undid something after a Forget had begun
  thread,    \* the thread's meta row and how many messages it has
  armed,     \* its alarm is set
  fired,     \* an alarm was delivered and its handler has not begun
  row,       \* the report's row in the index
  drop,      \* the bytes: uploaded, committed or gone
  ends,      \* each destroyNotifying: where it is and whether the mark is its own
  commit, post, reply,   \* where each request is
  delete,    \* the maintainer's delete
  expiry,    \* the drop's alarm: abandonment or retention
  reporter,  \* the client: sending, following or forgot
  polls, fails

\* In the order the client sends them.
Commits == 1 .. MaxCommits

requests == <<commit, post, reply, delete, expiry>>
bounds == <<polls, fails>>
vars == <<wanted, overtaken, thread, armed, fired, row, drop, ends, requests, reporter, bounds>>

Enders == Forgets \cup {"alarm"}
Flying == {e \in Enders : ends[e].at \in {"telling", "told"}}

NoThread == [none |-> TRUE]

Threads == [secret : BOOLEAN, dying : BOOLEAN, overdue : BOOLEAN,
            msgs : 0 .. Cardinality(Posts) + Cardinality(Replies)]

TypeOK ==
  /\ wanted \in BOOLEAN /\ overtaken \in BOOLEAN
  /\ thread \in Threads \cup {NoThread}
  /\ armed \in BOOLEAN /\ fired \in BOOLEAN
  /\ row = NoRow \/ row \in Row
  /\ drop \in {"uploaded", "committed", "gone"}
  /\ ends \in [Enders -> [at : {"off", "telling", "told", "done"}, mine : BOOLEAN]]
  /\ commit \in [Commits -> {"idle", "sent", "create", "index", "done"}]
  /\ post \in [Posts -> {"idle", "verified", "done"}]
  /\ reply \in [Replies -> {"idle", "found", "created", "done"}]
  /\ delete \in {"idle", "drop", "row", "done", "died"}
  /\ expiry \in {"idle", "retry", "index", "thread", "wipe"}
  /\ reporter \in {"sending", "following", "forgot"}
  /\ polls \in 0 .. MaxPolls /\ fails \in 0 .. MaxFails

Init ==
  /\ wanted \in BOOLEAN /\ overtaken = FALSE
  /\ thread = NoThread /\ armed = FALSE /\ fired = FALSE
  /\ row = Reserved(1) /\ drop = "uploaded"
  /\ ends = [e \in Enders |-> [at |-> "off", mine |-> FALSE]]
  /\ commit = [c \in Commits |-> "idle"]
  /\ post = [p \in Posts |-> "idle"]
  /\ reply = [r \in Replies |-> "idle"]
  /\ delete = "idle" /\ expiry = "idle"
  /\ reporter = "sending" /\ polls = 0 /\ fails = 0

-----------------------------------------------------------------------------
(* The thread's own operations *)

Live == thread # NoThread /\ ~thread.dying

\* authorize: a real secret, of a thread that is not being destroyed.
Authorized == Live /\ thread.secret

\* Mutant: Forget refuses the secret of a dying thread.
RevokeLiveOnly == Authorized

\* revoke passes allowDying.
MayRevoke == thread # NoThread /\ thread.secret

\* Mutant: the new thread's alarm is left to the next write.
CreateUnarmed(secret) ==
  IF thread # NoThread THEN UNCHANGED <<thread, armed>>
  ELSE /\ thread' = [secret |-> secret, dying |-> FALSE, overdue |-> FALSE, msgs |-> 0]
       /\ UNCHANGED armed

\* create: idempotent, an existing thread keeps its secret.
Create(secret) ==
  IF thread # NoThread THEN UNCHANGED <<thread, armed>>
  ELSE /\ thread' = [secret |-> secret, dying |-> FALSE, overdue |-> FALSE, msgs |-> 0]
       /\ armed' = TRUE

\* Mutant: a message is inserted twice.
WriteTwice(n) ==
  /\ \E late \in {FALSE, thread.overdue} :
       thread' = [thread EXCEPT !.msgs = @ + 2 * n, !.overdue = late]
  /\ armed' = TRUE

\* Any write is activity and arms the alarm again.  It moves the idle instant,
\* not that of a grace clock which is running.
Write(n) ==
  /\ \E late \in {FALSE, thread.overdue} :
       thread' = [thread EXCEPT !.msgs = @ + n, !.overdue = late]
  /\ armed' = TRUE

\* destroy: deleteAll and deleteAlarm.
Destroy == thread' = NoThread /\ armed' = FALSE

\* Mutant: the storage is wiped before the index is told.
WipeFirst(e) ==
  /\ ends' = [ends EXCEPT ![e] = [at |-> "telling", mine |-> ~thread.dying]]
  /\ thread' = NoThread

\* destroyNotifying, up to its await: whoever finds no mark sets it.
BeginDestroy(e) ==
  /\ ends' = [ends EXCEPT ![e] = [at |-> "telling", mine |-> ~thread.dying]]
  /\ thread' = [thread EXCEPT !.dying = TRUE]

\* The call reaches the index.
TellIndex(e) ==
  /\ ends[e].at = "telling"
  /\ row' = ThreadEnded(row)
  /\ ends' = [ends EXCEPT ![e].at = "told"]
  /\ UNCHANGED <<wanted, overtaken, thread, armed, fired, drop, requests, reporter, bounds>>

\* ... and its answer the thread: storage is wiped, whatever it holds by now.
Wipe(e) ==
  /\ ends[e].at = "told"
  /\ Destroy
  /\ ends' = [ends EXCEPT ![e].at = IF e = "alarm" THEN "off" ELSE "done"]
  /\ reporter' = IF e = "alarm" THEN reporter ELSE "forgot"
  /\ UNCHANGED <<wanted, overtaken, fired, row, drop, requests, bounds>>

\* The catch block: only the call that set the mark clears it.
Unmarked(e) ==
  IF ends[e].mine /\ thread # NoThread THEN [thread EXCEPT !.dying = FALSE] ELSE thread

\* The call or its answer is lost.  The runtime delivers a failed alarm again.
TellFails(e) ==
  /\ e \in Flying
  /\ fails < MaxFails /\ fails' = fails + 1
  /\ thread' = Unmarked(e)
  /\ ends' = [ends EXCEPT ![e].at = IF e = "alarm" THEN "off" ELSE "done"]
  /\ fired' = (fired \/ e = "alarm")
  /\ UNCHANGED <<wanted, overtaken, armed, row, drop, requests, reporter, polls>>

\* The thread's object is evicted with its calls in flight.
Evicted ==
  /\ Flying # {}
  /\ fails < MaxFails /\ fails' = fails + 1
  /\ ends' = [e \in Enders |->
                IF e \in Flying THEN [ends[e] EXCEPT !.at = IF e = "alarm" THEN "off" ELSE "done"]
                ELSE ends[e]]
  /\ fired' = (fired \/ "alarm" \in Flying)
  /\ UNCHANGED <<wanted, overtaken, thread, armed, row, drop, requests, reporter, polls>>

Running(c) == commit[c] \in {"sent", "create", "index"}

\* Months go by: no COMMIT lasts that long, and no client comes back with one.
CommitsAreOver ==
  /\ \A c \in Commits : ~Running(c)
  /\ commit' = [c \in Commits |-> "done"]

\* The time the alarm was armed for passes.
TimePasses ==
  /\ thread # NoThread /\ ~thread.overdue
  /\ thread' = [thread EXCEPT !.overdue = TRUE]
  /\ CommitsAreOver
  /\ UNCHANGED <<wanted, overtaken, armed, fired, row, drop, ends, post, reply, delete, expiry, reporter, bounds>>

AlarmFires ==
  /\ armed /\ thread # NoThread /\ thread.overdue
  /\ armed' = FALSE /\ fired' = TRUE
  /\ UNCHANGED <<wanted, overtaken, thread, row, drop, ends, requests, reporter, bounds>>

\* alarm: nothing left, stale, or due.
Alarm ==
  /\ fired /\ ends["alarm"].at = "off"
  /\ fired' = FALSE
  /\ IF thread = NoThread THEN armed' = FALSE /\ UNCHANGED <<thread, ends>>
     ELSE IF thread.dying \/ thread.overdue THEN BeginDestroy("alarm") /\ UNCHANGED armed
     ELSE armed' = TRUE /\ UNCHANGED <<thread, ends>>
  /\ UNCHANGED <<wanted, overtaken, row, drop, requests, reporter, bounds>>

-----------------------------------------------------------------------------
(* The reporter's requests *)

\* Forget: 403 is read by the client as done.
Forget(f) ==
  /\ reporter # "sending" /\ ends[f].at = "off"
  /\ IF MayRevoke THEN BeginDestroy(f) /\ UNCHANGED reporter
     ELSE /\ ends' = [ends EXCEPT ![f].at = "done"]
          /\ reporter' = "forgot"
          /\ UNCHANGED thread
  /\ UNCHANGED <<wanted, overtaken, armed, fired, row, drop, requests, bounds>>

Poll ==
  /\ reporter = "following" /\ Authorized
  /\ polls < MaxPolls /\ polls' = polls + 1
  /\ Write(0)
  /\ UNCHANGED <<wanted, overtaken, fired, row, drop, ends, requests, reporter, fails>>

\* verifySecret, then the rate count, then the post.
PostVerify(p) ==
  /\ reporter = "following" /\ post[p] = "idle"
  /\ post' = [post EXCEPT ![p] = IF Authorized THEN "verified" ELSE "done"]
  /\ UNCHANGED <<wanted, overtaken, thread, armed, fired, row, drop, ends, commit, reply, delete, expiry, reporter, bounds>>

PostReporter(p) ==
  /\ post[p] = "verified"
  /\ post' = [post EXCEPT ![p] = "done"]
  /\ IF Authorized THEN Write(1) ELSE UNCHANGED <<thread, armed>>
  /\ UNCHANGED <<wanted, overtaken, fired, row, drop, ends, commit, reply, delete, expiry, reporter, bounds>>

-----------------------------------------------------------------------------
(* COMMIT *)

\* A Forget has begun.
Begun == \E f \in Forgets : ends[f].at # "off"

\* The client repeats a COMMIT it has no answer to; the one before may be on its
\* way, running, or done with its answer lost.
CommitSend(c) ==
  /\ commit[c] = "idle" /\ reporter = "sending"
  /\ \A d \in Commits : d < c => commit[d] # "idle"
  /\ commit' = [commit EXCEPT ![c] = "sent"]
  /\ UNCHANGED <<wanted, overtaken, thread, armed, fired, row, drop, ends, post, reply, delete, expiry, reporter, bounds>>

\* ReportStore.commit: answers a repeated COMMIT the same way.
CommitDrop(c) ==
  /\ commit[c] = "sent"
  /\ IF drop = "gone"
       THEN commit' = [commit EXCEPT ![c] = "done"] /\ UNCHANGED drop
       ELSE commit' = [commit EXCEPT ![c] = IF wanted THEN "create" ELSE "index"] /\ drop' = "committed"
  /\ UNCHANGED <<wanted, overtaken, thread, armed, fired, row, ends, post, reply, delete, expiry, reporter, bounds>>

CommitThread(c) ==
  /\ commit[c] = "create"
  /\ Create(TRUE)
  /\ overtaken' = (overtaken \/ (Begun /\ thread' # thread))
  /\ commit' = [commit EXCEPT ![c] = "index"]
  /\ UNCHANGED <<wanted, fired, row, drop, ends, post, reply, delete, expiry, reporter, bounds>>

\* commitReport.  A row answers 201, which may be lost on its way; the client
\* reads the answer of its last request only.
CommitIndex(c) ==
  /\ commit[c] = "index"
  /\ row' = CommitReport(row, wanted)
  /\ overtaken' = (overtaken \/ (Begun /\ row' # row))
  /\ commit' = [commit EXCEPT ![c] = "done"]
  /\ \/ /\ row # NoRow /\ wanted /\ reporter = "sending"
        /\ \A d \in Commits : d > c => commit[d] = "idle"
        /\ reporter' = "following"
     \/ UNCHANGED reporter
  /\ UNCHANGED <<wanted, thread, armed, fired, drop, ends, post, reply, delete, expiry, bounds>>

\* The request is lost, or its Worker dies or fails between two calls.
CommitDies(c) ==
  /\ Running(c)
  /\ commit' = [commit EXCEPT ![c] = "done"]
  /\ UNCHANGED <<wanted, overtaken, thread, armed, fired, row, drop, ends, post, reply, delete, expiry, reporter, bounds>>

-----------------------------------------------------------------------------
(* The maintainer *)

\* adminThreadFor: the row first, then a thread of one's own if there is none.
ReplyFind(r) ==
  /\ reply[r] = "idle"
  /\ row # NoRow /\ row.committed
  /\ reply' = [reply EXCEPT ![r] = "found"]
  /\ UNCHANGED <<wanted, overtaken, thread, armed, fired, row, drop, ends, commit, post, delete, expiry, reporter, bounds>>

ReplyCreate(r) ==
  /\ reply[r] = "found"
  /\ Create(FALSE)
  /\ reply' = [reply EXCEPT ![r] = "created"]
  /\ UNCHANGED <<wanted, overtaken, fired, row, drop, ends, commit, post, delete, expiry, reporter, bounds>>

\* postMaintainer, setStatus: not into a thread that is going.
ReplyPost(r) ==
  /\ reply[r] = "created"
  /\ reply' = [reply EXCEPT ![r] = "done"]
  /\ IF Live THEN Write(1) ELSE UNCHANGED <<thread, armed>>
  /\ UNCHANGED <<wanted, overtaken, fired, row, drop, ends, commit, post, delete, expiry, reporter, bounds>>

\* handleAdminDelete: the thread, the bytes, the row.
DeleteThread ==
  /\ delete = "idle" /\ row # NoRow
  /\ Destroy /\ delete' = "drop"
  /\ UNCHANGED <<wanted, overtaken, fired, row, drop, ends, commit, post, reply, expiry, reporter, bounds>>

DeleteDrop ==
  /\ delete = "drop"
  /\ drop' = "gone" /\ delete' = "row"
  /\ UNCHANGED <<wanted, overtaken, thread, armed, fired, row, ends, commit, post, reply, expiry, reporter, bounds>>

DeleteRow ==
  /\ delete = "row"
  /\ row' = NoRow /\ delete' = "done"
  /\ UNCHANGED <<wanted, overtaken, thread, armed, fired, drop, ends, commit, post, reply, expiry, reporter, bounds>>

DeleteDies ==
  /\ delete \in {"drop", "row"}
  /\ fails < MaxFails /\ fails' = fails + 1
  /\ delete' = "died"
  /\ UNCHANGED <<wanted, overtaken, thread, armed, fired, row, drop, ends, commit, post, reply, expiry, reporter, polls>>

-----------------------------------------------------------------------------
(* The drop's alarm: expire, then expireReport *)

\* Ten minutes of silence before COMMIT, or 90 days after the report was made;
\* a failed alarm comes again at once.
ExpireBegins ==
  /\ drop # "gone"
  /\ \/ expiry = "retry" /\ UNCHANGED commit
     \/ expiry = "idle" /\ drop = "uploaded" /\ UNCHANGED commit
     \/ expiry = "idle" /\ drop = "committed" /\ CommitsAreOver
  /\ expiry' = "index"
  /\ UNCHANGED <<wanted, overtaken, thread, armed, fired, row, drop, ends, post, reply, delete, reporter, bounds>>

ExpireIndex ==
  /\ expiry = "index"
  /\ row' = BundleExpired(row)
  /\ expiry' = IF row' = NoRow THEN "thread" ELSE "wipe"
  /\ UNCHANGED <<wanted, overtaken, thread, armed, fired, drop, ends, commit, post, reply, delete, reporter, bounds>>

ExpireThread ==
  /\ expiry = "thread"
  /\ Destroy /\ expiry' = "wipe"
  /\ UNCHANGED <<wanted, overtaken, fired, row, drop, ends, commit, post, reply, delete, reporter, bounds>>

ExpireWipe ==
  /\ expiry = "wipe"
  /\ drop' = "gone" /\ expiry' = "idle"
  /\ UNCHANGED <<wanted, overtaken, thread, armed, fired, row, ends, commit, post, reply, delete, reporter, bounds>>

\* A call failed: the runtime delivers the alarm again.
ExpireFails ==
  /\ expiry \in {"index", "thread"}
  /\ fails < MaxFails /\ fails' = fails + 1
  /\ expiry' = "retry"
  /\ UNCHANGED <<wanted, overtaken, thread, armed, fired, row, drop, ends, commit, post, reply, delete, reporter, polls>>

-----------------------------------------------------------------------------
Next ==
  \/ \E e \in Enders : TellIndex(e) \/ Wipe(e) \/ TellFails(e)
  \/ Evicted \/ TimePasses \/ AlarmFires \/ Alarm
  \/ \E f \in Forgets : Forget(f)
  \/ Poll
  \/ \E p \in Posts : PostVerify(p) \/ PostReporter(p)
  \/ \E c \in Commits : CommitSend(c) \/ CommitDrop(c) \/ CommitThread(c) \/ CommitIndex(c) \/ CommitDies(c)
  \/ \E r \in Replies : ReplyFind(r) \/ ReplyCreate(r) \/ ReplyPost(r)
  \/ DeleteThread \/ DeleteDrop \/ DeleteRow \/ DeleteDies
  \/ ExpireBegins \/ ExpireIndex \/ ExpireThread \/ ExpireWipe \/ ExpireFails

Spec == Init /\ [][Next]_vars

\* Time passes, alarms are delivered, calls that do not fail return, and no
\* request runs for ever.
Fairness ==
  /\ \A c \in Commits : WF_vars(CommitDies(c))
  /\ WF_vars(TimePasses) /\ WF_vars(AlarmFires) /\ WF_vars(Alarm)
  /\ \A e \in Enders : WF_vars(TellIndex(e)) /\ WF_vars(Wipe(e))
  /\ WF_vars(ExpireBegins) /\ WF_vars(ExpireIndex) /\ WF_vars(ExpireThread) /\ WF_vars(ExpireWipe)
  /\ WF_vars(DeleteDrop) /\ WF_vars(DeleteRow)

LiveSpec == Spec /\ Fairness

-----------------------------------------------------------------------------
(* Properties *)

\* With no destroy under way, a row marked as followed has a thread that knows
\* the reporter's secret.  A row that says so without one is kept for ever when
\* its bundle expires.  (A delete that died half way is the maintainer's to
\* repeat.)
NeverOrphaned ==
  row # NoRow /\ row.following /\ Flying = {} /\ delete = "idle"
    => thread # NoThread /\ thread.secret

\* A Forget that was answered as done is final: the secret opens nothing.
SecretIsRevoked == reporter = "forgot" => ~Authorized

\* Both, whatever COMMITs overlap, unless one of them was overtaken by a Forget
\* and then created the thread again or marked its row.
FollowingMeansThread == overtaken \/ NeverOrphaned
ForgottenIsRefused == overtaken \/ SecretIsRevoked

\* Nothing is posted into a thread that a destroy under way will wipe.
NothingPostedIntoDying ==
  [][thread # NoThread /\ thread' # NoThread /\ thread'.msgs > thread.msgs => Flying = {}]_vars

\* Every thread ends: its alarm is never lost, whatever was created, revived,
\* evicted or left without a row before.
ThreadsEnd == (thread # NoThread) ~> (thread = NoThread)

\* A row that was kept for its thread goes when the thread does, with the same
\* exception.
KeptRowsGo ==
  (row # NoRow /\ row.bundleDeleted) ~> (row = NoRow \/ delete = "died" \/ overtaken)
NothingLingers == ThreadsEnd /\ KeptRowsGo
=============================================================================
