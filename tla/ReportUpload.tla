---------------------------- MODULE ReportUpload -----------------------------
(***************************************************************************)
(* The chunked upload of bug reports (workers/bug-intake): START reserves  *)
(* the declared size in the index and stores piece 0 in a fresh drop, each *)
(* PIECE stores the next one, COMMIT finishes the drop, flips its row and  *)
(* mails the maintainer.  The drop's alarm and the index's prune clean up  *)
(* what was left behind.  A request is a Worker that calls one object      *)
(* after the other and may die between two calls; the client repeats a     *)
(* request once, while the first may still be running.                     *)
(*                                                                         *)
(* Time is two flags: how late a drop is for its alarm, and whether a row  *)
(* has been silent for longer than the prune waits.                        *)
(***************************************************************************)
EXTENDS ReportIndex, Integers, FiniteSets, FiniteSetsExt, Sequences

CONSTANTS
  Reports,   \* report ids: each START makes its own
  Size,      \* how many pieces each declares
  Followed,  \* the reports whose START asked to follow
  Ceiling,   \* STORE_CEILING_BYTES, in pieces
  MaxFails   \* bound: calls that fail and Workers that die

ASSUME UploadAssumption ==
  /\ IsFiniteSet(Reports) /\ "visitor" \notin Reports
  /\ Size \in [Reports -> Nat \ {0}] /\ Followed \subseteq Reports
  /\ Ceiling \in Nat /\ MaxFails \in Nat

VARIABLES
  row,      \* the index: a row or none, per report
  stale,    \* the rows whose lastActivity is older than IDLE_PRUNE_TIMEOUT_MS
  touched,  \* the row knows of the drop's last piece
  drop,     \* each drop's pieces, its commit mark and how late it is
  expire,   \* each drop's alarm handler
  pruning,  \* the drops a START's prune has still to destroy
  start,    \* each START
  req,      \* each PIECE (1 .. Size-1) and COMMIT (Size), and its repeat
  at,       \* the client: the step it is at, or failed
  mails,    \* mails sent, per report
  fails

vars == <<row, stale, touched, drop, expire, pruning, start, req, at, mails, fails>>

NoDrop == [none |-> TRUE]
Starters == Reports \cup {"visitor"}
Requests(r) == (1 .. Size[r]) \X {1, 2}
Whole(r) == [i \in 1 .. Size[r] |-> i - 1]

Waiting == {"sent", "stored", "abandon", "release", "flip", "mail"}
Answers == {"ok", "refused", "error"}
Started == {"pruned", "reserved", "abandon", "release"}

Drops == [pieces : Seq(Nat), committed : BOOLEAN,
          late : {"no", "silent", "old", "aged"}]
RequestStates == {"off", "over"} \cup Waiting \cup Answers

Acked(r) == at[r] = Size[r] + 1
Failed == -1

TypeOK ==
  /\ row \in [Reports -> Row \cup {NoRow}]
  /\ drop \in [Reports -> Drops \cup {NoDrop}]
  /\ at \in [Reports -> Int]
  /\ \A r \in Reports :
       /\ drop[r] # NoDrop => Len(drop[r].pieces) \in 1 .. Size[r]
       /\ req[r] \in [Requests(r) -> RequestStates]
       /\ at[r] \in 0 .. (Size[r] + 1) \cup {Failed}
  /\ stale \subseteq Reports /\ touched \subseteq Reports
  /\ expire \in [Reports -> {"off", "index", "wipe"}]
  /\ pruning \in [Starters -> SUBSET Reports]
  /\ start \in [Reports -> {"off", "over", "ok"} \cup Started]
  /\ mails \in [Reports -> Nat] /\ fails \in 0 .. MaxFails

Init ==
  /\ row = [r \in Reports |-> NoRow] /\ stale = {} /\ touched = {}
  /\ drop = [r \in Reports |-> NoDrop] /\ expire = [r \in Reports |-> "off"]
  /\ pruning = [s \in Starters |-> {}]
  /\ start = [r \in Reports |-> "off"]
  /\ req = [r \in Reports |-> [q \in Requests(r) |-> "off"]]
  /\ at = [r \in Reports |-> 0] /\ mails = [r \in Reports |-> 0] /\ fails = 0

Fail == fails < MaxFails /\ fails' = fails + 1

-----------------------------------------------------------------------------
(* START *)

\* Mutant: only rows whose drop is there to be destroyed are pruned.
IdleRowsStored == {r \in stale : row[r] # NoRow /\ ~row[r].committed /\ drop[r] # NoDrop}

\* findAndDeleteIdleUncommittedIds.
IdleRows == {r \in stale : row[r] # NoRow /\ ~row[r].committed}

\* pruneIdleUploads begins: the rows go at once, their drops one by one.
Prune(s) ==
  /\ row' = [r \in Reports |-> IF r \in IdleRows THEN NoRow ELSE row[r]]
  /\ pruning' = [pruning EXCEPT ![s] = IdleRows]
  /\ stale' = stale \ IdleRows

StartPrune(r) ==
  /\ start[r] = "off"
  /\ Prune(r)
  /\ start' = [start EXCEPT ![r] = "pruned"]
  /\ UNCHANGED <<touched, drop, expire, req, at, mails, fails>>

\* A START of somebody else, for instance one the rate limit refuses.
Visit ==
  /\ IdleRows # {} /\ pruning["visitor"] = {}
  /\ Prune("visitor")
  /\ UNCHANGED <<touched, drop, expire, start, req, at, mails, fails>>

PruneDestroys(s, x) ==
  /\ x \in pruning[s]
  /\ drop' = [drop EXCEPT ![x] = NoDrop]
  /\ pruning' = [pruning EXCEPT ![s] = @ \ {x}]
  /\ UNCHANGED <<row, stale, touched, expire, start, req, at, mails, fails>>

\* A failed destroy is logged, and the prune goes on.
PruneFails(s, x) ==
  /\ x \in pruning[s] /\ Fail
  /\ pruning' = [pruning EXCEPT ![s] = @ \ {x}]
  /\ UNCHANGED <<row, stale, touched, drop, expire, start, req, at, mails>>

Total == MapThenSumSet(LAMBDA x : row[x].size, {x \in Reports : row[x] # NoRow})

\* reserveReport: the ceiling check and the insert in one burst; `others' is
\* what the rows of reports beyond these hold at that moment.
StartReserve(r) ==
  /\ start[r] = "pruned" /\ pruning[r] = {}
  /\ \E others \in 0 .. Ceiling :
     IF Total + others + Size[r] <= Ceiling
       THEN /\ row' = [row EXCEPT ![r] = Reserved(Size[r])]
            /\ touched' = touched \cup {r}
            /\ start' = [start EXCEPT ![r] = "reserved"] /\ UNCHANGED at
       ELSE /\ start' = [start EXCEPT ![r] = "over"]
            /\ at' = [at EXCEPT ![r] = Failed] /\ UNCHANGED <<row, touched>>
  /\ UNCHANGED <<stale, drop, expire, pruning, req, mails, fails>>

\* Mutant: the first piece is left to a PIECE.
StartStoreBare(r) ==
  /\ start[r] = "reserved"
  /\ drop' = [drop EXCEPT ![r] = [pieces |-> <<>>, committed |-> FALSE, late |-> "no"]]
  /\ start' = [start EXCEPT ![r] = "ok"]
  /\ UNCHANGED <<row, stale, touched, expire, pruning, req, at, mails, fails>>

\* startUpload: the first piece, and the alarm.
StartStore(r) ==
  /\ start[r] = "reserved"
  /\ drop' = [drop EXCEPT ![r] = [pieces |-> <<0>>, committed |-> FALSE, late |-> "no"]]
  /\ start' = [start EXCEPT ![r] = "ok"]
  /\ UNCHANGED <<row, stale, touched, expire, pruning, req, at, mails, fails>>

\* startUpload failed: abandonUpload, both halves best effort.
StartFails(r) ==
  /\ start[r] = "reserved" /\ Fail
  /\ start' = [start EXCEPT ![r] = "abandon"]
  /\ UNCHANGED <<row, stale, touched, drop, expire, pruning, req, at, mails>>

StartAbandon(r) ==
  /\ start[r] = "abandon"
  /\ drop' = [drop EXCEPT ![r] = NoDrop]
  /\ start' = [start EXCEPT ![r] = "release"]
  /\ UNCHANGED <<row, stale, touched, expire, pruning, req, at, mails, fails>>

StartRelease(r) ==
  /\ start[r] = "release"
  /\ row' = [row EXCEPT ![r] = NoRow]
  /\ start' = [start EXCEPT ![r] = "over"] /\ at' = [at EXCEPT ![r] = Failed]
  /\ UNCHANGED <<stale, touched, drop, expire, pruning, req, mails, fails>>

\* The Worker dies, or its answer is lost: nobody knows the id.
StartDies(r) ==
  /\ start[r] \in Started \cup {"ok"} /\ at[r] = 0
  /\ start[r] # "ok" => fails < MaxFails
  /\ fails' = IF start[r] = "ok" THEN fails ELSE fails + 1
  /\ start' = [start EXCEPT ![r] = "over"] /\ at' = [at EXCEPT ![r] = Failed]
  /\ pruning' = [pruning EXCEPT ![r] = {}]
  /\ UNCHANGED <<row, stale, touched, drop, expire, req, mails>>

-----------------------------------------------------------------------------
(* The client: one request after the other, each repeated once *)

StartAnswered(r) ==
  /\ start[r] = "ok" /\ at[r] = 0
  /\ start' = [start EXCEPT ![r] = "over"] /\ at' = [at EXCEPT ![r] = 1]
  /\ UNCHANGED <<row, stale, touched, drop, expire, pruning, req, mails, fails>>

Send(r) ==
  /\ at[r] \in 1 .. Size[r] /\ req[r][<<at[r], 1>>] = "off"
  /\ req' = [req EXCEPT ![r][<<at[r], 1>>] = "sent"]
  /\ UNCHANGED <<row, stale, touched, drop, expire, pruning, start, at, mails, fails>>

\* No answer in time, a network error or a 5xx: again, once.
Retry(r) ==
  /\ at[r] \in 1 .. Size[r] /\ req[r][<<at[r], 2>>] = "off"
  /\ req[r][<<at[r], 1>>] \in Waiting \cup {"over", "error"}
  /\ req' = [req EXCEPT ![r][<<at[r], 2>>] = "sent"]
  /\ UNCHANGED <<row, stale, touched, drop, expire, pruning, start, at, mails, fails>>

\* The answer to the newest request is read.
Answered(r, c) ==
  /\ at[r] \in 1 .. Size[r] /\ req[r][<<at[r], c>>] \in Answers
  /\ c = 1 => req[r][<<at[r], 2>>] = "off"
  /\ LET answer == req[r][<<at[r], c>>] IN
       /\ ~(answer = "error" /\ c = 1)
       /\ at' = [at EXCEPT ![r] = IF answer = "ok" THEN @ + 1 ELSE Failed]
  /\ req' = [req EXCEPT ![r][<<at[r], c>>] = "over"]
  /\ UNCHANGED <<row, stale, touched, drop, expire, pruning, start, mails, fails>>

AnswerLost(r, q) ==
  /\ req[r][q] \in Answers
  /\ req' = [req EXCEPT ![r][q] = "over"]
  /\ UNCHANGED <<row, stale, touched, drop, expire, pruning, start, at, mails, fails>>

\* Twice in vain, or the page is closed.
GiveUp(r) ==
  /\ at[r] \in 1 .. Size[r]
  /\ at' = [at EXCEPT ![r] = Failed]
  /\ UNCHANGED <<row, stale, touched, drop, expire, pruning, start, req, mails, fails>>

-----------------------------------------------------------------------------
(* PIECE *)

\* Mutant: a repeat of the last piece is stored again.
TakesAgain(d, k) == k \in {Len(d.pieces), Len(d.pieces) - 1}

\* putPiece stores the next index only.
Takes(d, k) == k = Len(d.pieces)

\* putPiece: gone or finished, out of its lifetime, next, a repeat, or out of order.
PutPiece(r, k, c) ==
  /\ k < Size[r] /\ req[r][<<k, c>>] = "sent"
  /\ LET d == drop[r] IN
       IF d = NoDrop \/ (d # NoDrop /\ d.committed)
         THEN req' = [req EXCEPT ![r][<<k, c>>] = "refused"] /\ UNCHANGED <<drop, touched>>
       ELSE IF d.late = "old"
         THEN req' = [req EXCEPT ![r][<<k, c>>] = "abandon"] /\ UNCHANGED <<drop, touched>>
       ELSE IF Takes(d, k)
         THEN /\ drop' = [drop EXCEPT ![r] =
                        [d EXCEPT !.pieces = Append(d.pieces, k), !.late = "no"]]
              /\ touched' = touched \ {r}
              /\ req' = [req EXCEPT ![r][<<k, c>>] = "stored"]
       ELSE /\ req' = [req EXCEPT ![r][<<k, c>>] = IF k = Len(d.pieces) - 1 THEN "ok" ELSE "refused"]
            /\ UNCHANGED <<drop, touched>>
  /\ UNCHANGED <<row, stale, expire, pruning, start, at, mails, fails>>

\* touchActivity: of an uncommitted row.
Touch(r, q) ==
  /\ req[r][q] = "stored"
  /\ req' = [req EXCEPT ![r][q] = "ok"]
  /\ IF row[r] # NoRow /\ ~row[r].committed
       THEN stale' = stale \ {r} /\ touched' = touched \cup {r}
       ELSE UNCHANGED <<stale, touched>>
  /\ UNCHANGED <<row, drop, expire, pruning, start, at, mails, fails>>

TouchFails(r, q) ==
  /\ req[r][q] = "stored" /\ Fail
  /\ req' = [req EXCEPT ![r][q] = "ok"]
  /\ UNCHANGED <<row, stale, touched, drop, expire, pruning, start, at, mails>>

\* abandonUpload: the drop, then the row.
Abandon(r, q) ==
  /\ req[r][q] = "abandon"
  /\ drop' = [drop EXCEPT ![r] = NoDrop]
  /\ req' = [req EXCEPT ![r][q] = "release"]
  /\ UNCHANGED <<row, stale, touched, expire, pruning, start, at, mails, fails>>

Release(r, q) ==
  /\ req[r][q] = "release"
  /\ row' = [row EXCEPT ![r] = NoRow]
  /\ req' = [req EXCEPT ![r][q] = "refused"]
  /\ UNCHANGED <<stale, touched, drop, expire, pruning, start, at, mails, fails>>

-----------------------------------------------------------------------------
(* COMMIT *)

Commit(r, c) ==
  /\ req[r][<<Size[r], c>>] = "sent"
  /\ LET d == drop[r] IN
       IF d = NoDrop
         THEN req' = [req EXCEPT ![r][<<Size[r], c>>] = "refused"] /\ UNCHANGED drop
       ELSE IF ~d.committed /\ Len(d.pieces) < Size[r]
         THEN req' = [req EXCEPT ![r][<<Size[r], c>>] = "abandon"] /\ UNCHANGED drop
       ELSE /\ req' = [req EXCEPT ![r][<<Size[r], c>>] = "flip"]
            /\ drop' = IF d.committed THEN drop
                       ELSE [drop EXCEPT ![r] = [@ EXCEPT !.committed = TRUE, !.late = "no"]]
  /\ UNCHANGED <<row, stale, touched, expire, pruning, start, at, mails, fails>>

\* Mutant: the mail goes out whenever the row is committed.
OutcomeMails(x) == IF x = NoRow THEN "error" ELSE "mail"

\* commitReport's answer: not-found, already-committed or flipped.
Outcome(x) ==
  IF x = NoRow THEN "error" ELSE IF x.committed THEN "ok" ELSE "mail"

Flip(r, q) ==
  /\ req[r][q] = "flip"
  /\ row' = [row EXCEPT ![r] = CommitReport(@, r \in Followed)]
  /\ req' = [req EXCEPT ![r][q] = Outcome(row[r])]
  /\ UNCHANGED <<stale, touched, drop, expire, pruning, start, at, mails, fails>>

\* sendNotification, best effort.
Mail(r, q) ==
  /\ req[r][q] = "mail"
  /\ mails' = [mails EXCEPT ![r] = @ + 1]
  /\ req' = [req EXCEPT ![r][q] = "ok"]
  /\ UNCHANGED <<row, stale, touched, drop, expire, pruning, start, at, fails>>

\* The Worker of a PIECE or COMMIT dies, or a call of it fails: no answer, or a 503.
RequestDies(r, q) ==
  /\ req[r][q] \in Waiting /\ Fail
  /\ req' = [req EXCEPT ![r][q] = "over"]
  /\ UNCHANGED <<row, stale, touched, drop, expire, pruning, start, at, mails>>

-----------------------------------------------------------------------------
(* Time, and the drop's alarm *)

\* Ten minutes without a piece, or eight hours since START.
DropLate(r) ==
  /\ drop[r] # NoDrop /\ ~drop[r].committed
  /\ \E late \in {"silent", "old"} :
       /\ drop[r].late # "old" /\ drop[r].late # late
       /\ drop' = [drop EXCEPT ![r].late = late]
  /\ UNCHANGED <<row, stale, touched, expire, pruning, start, req, at, mails, fails>>

\* Fifteen minutes: by then the drop is gone or late, or its row was not told.
RowStale(r) ==
  /\ row[r] # NoRow /\ ~row[r].committed /\ r \notin stale
  /\ drop[r] # NoDrop /\ r \in touched => drop[r].late # "no"
  /\ stale' = stale \cup {r}
  /\ UNCHANGED <<row, touched, drop, expire, pruning, start, req, at, mails, fails>>

\* Ninety days: no request of the upload is left, and its client is gone.
Aged(r) ==
  /\ drop[r] # NoDrop /\ drop[r].committed /\ drop[r].late = "no" /\ expire[r] = "off"
  /\ \A q \in Requests(r) : req[r][q] \notin Waiting
  /\ at[r] \notin 0 .. Size[r]
  /\ drop' = [drop EXCEPT ![r].late = "aged"]
  /\ UNCHANGED <<row, stale, touched, expire, pruning, start, req, at, mails, fails>>

\* expire: head(), then the index.
ExpireBegins(r) ==
  /\ drop[r] # NoDrop /\ drop[r].late # "no" /\ expire[r] = "off"
  /\ expire' = [expire EXCEPT ![r] = "index"]
  /\ UNCHANGED <<row, stale, touched, drop, pruning, start, req, at, mails, fails>>

ExpireIndex(r) ==
  /\ expire[r] = "index"
  /\ row' = [row EXCEPT ![r] = BundleExpired(@)]
  /\ expire' = [expire EXCEPT ![r] = "wipe"]
  /\ UNCHANGED <<stale, touched, drop, pruning, start, req, at, mails, fails>>

ExpireWipe(r) ==
  /\ expire[r] = "wipe"
  /\ drop' = [drop EXCEPT ![r] = NoDrop]
  /\ expire' = [expire EXCEPT ![r] = "off"]
  /\ UNCHANGED <<row, stale, touched, pruning, start, req, at, mails, fails>>

\* The index cannot be told: the runtime calls the alarm again.
ExpireFails(r) ==
  /\ expire[r] = "index" /\ Fail
  /\ expire' = [expire EXCEPT ![r] = "off"]
  /\ UNCHANGED <<row, stale, touched, drop, pruning, start, req, at, mails>>

-----------------------------------------------------------------------------
Request(r) ==
  \E q \in Requests(r) :
    \/ PutPiece(r, q[1], q[2]) \/ Touch(r, q) \/ TouchFails(r, q)
    \/ Abandon(r, q) \/ Release(r, q) \/ Flip(r, q) \/ Mail(r, q)
    \/ RequestDies(r, q) \/ AnswerLost(r, q)

Next ==
  \/ Visit
  \/ \E s \in Starters, x \in Reports : PruneDestroys(s, x) \/ PruneFails(s, x)
  \/ \E r \in Reports :
       \/ StartPrune(r) \/ StartReserve(r) \/ StartStore(r) \/ StartFails(r)
       \/ StartAbandon(r) \/ StartRelease(r) \/ StartDies(r) \/ StartAnswered(r)
       \/ Send(r) \/ Retry(r) \/ GiveUp(r) \/ Request(r)
       \/ \E c \in {1, 2} : Answered(r, c) \/ Commit(r, c)
       \/ DropLate(r) \/ RowStale(r) \/ Aged(r)
       \/ ExpireBegins(r) \/ ExpireIndex(r) \/ ExpireWipe(r) \/ ExpireFails(r)

Spec == Init /\ [][Next]_vars

\* Time passes, alarms are delivered and finish unless a call of theirs fails,
\* and now and then somebody sends a report.
Fairness ==
  /\ WF_vars(Visit)
  /\ \A r \in Reports :
       /\ WF_vars(DropLate(r)) /\ WF_vars(RowStale(r)) /\ WF_vars(Aged(r))
       /\ WF_vars(ExpireBegins(r)) /\ WF_vars(ExpireIndex(r)) /\ WF_vars(ExpireWipe(r))
       /\ WF_vars(GiveUp(r)) /\ WF_vars(StartDies(r))
       /\ \A x \in Reports : WF_vars(PruneDestroys(r, x)) /\ WF_vars(PruneDestroys("visitor", x))
       /\ \A q \in Requests(r) :
            /\ WF_vars(Touch(r, q)) /\ WF_vars(Abandon(r, q)) /\ WF_vars(Release(r, q))
            /\ WF_vars(Flip(r, q)) /\ WF_vars(Mail(r, q))
            /\ WF_vars(PutPiece(r, q[1], q[2])) /\ WF_vars(Commit(r, q[2]))

LiveSpec == Spec /\ Fairness
-----------------------------------------------------------------------------
(* Properties *)

\* A finished drop holds every declared piece, once and in order, whatever was
\* repeated, delayed or answered twice.
CommittedIsWhole ==
  \A r \in Reports :
    drop[r] # NoDrop /\ drop[r].committed => drop[r].pieces = Whole(r)

\* The maintainer gets at most one mail per report, however often COMMIT is
\* repeated and wherever its Workers die.
EmailOnce == \A r \in Reports : mails[r] <= 1

\* A report the client was told is stored stays until its retention ends.
AckedIsKept ==
  [][\A r \in Reports :
       /\ Acked(r)' => drop'[r] # NoDrop \/ Acked(r)
       /\ Acked(r) /\ drop[r] # NoDrop /\ drop'[r] = NoDrop => drop[r].late = "aged"]_vars

\* Idle uploads are cleaned up around a COMMIT: once the client was told that its
\* report is stored, no prune is left that destroys it.  (A PIECE that found the
\* drop expired, and abandons it late, may: AckedIsKept.)
AckedIsNotPruned ==
  \A r \in Reports : Acked(r) => \A s \in Starters : r \notin pruning[s]
CommitsOnce == EmailOnce /\ AckedIsNotPruned

\* A reservation does not hold the ceiling for ever: it is finished or given
\* back, wherever a Worker died.
ReservationsSettle ==
  \A r \in Reports :
    (row[r] # NoRow /\ ~row[r].committed) ~> (row[r] = NoRow \/ row[r].committed)

\* No bytes stay for ever.
DropsEnd == \A r \in Reports : (drop[r] # NoDrop) ~> (drop[r] = NoDrop)
NothingLingers == ReservationsSettle /\ DropsEnd
=============================================================================
