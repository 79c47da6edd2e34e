-------------------------- MODULE ReportUploadProofs -------------------------
(***************************************************************************)
(* For any number of reports, pieces and failures: a finished drop is the  *)
(* declared report, the maintainer hears of it once, and no prune of idle  *)
(* uploads is about to destroy what a client was told is stored.           *)
(***************************************************************************)
EXTENDS ReportUpload, SequenceTheorems, TLAPS

-----------------------------------------------------------------------------
(* Types                                                                   *)

\* Every report has its requests: TypeOK says which, not that there are no others.
RequestsKept == req = [r \in Reports |-> req[r]]

TypeInv == TypeOK /\ RequestsKept

\* The parts of TypeOK about one variable each.
ReqTyped == RequestsKept /\ \A r \in Reports : req[r] \in [Requests(r) -> RequestStates]
AtTyped ==
  at \in [Reports -> Int] /\ \A r \in Reports : at[r] \in 0 .. (Size[r] + 1) \cup {Failed}
DropTyped ==
  /\ drop \in [Reports -> Drops \cup {NoDrop}]
  /\ \A r \in Reports : drop[r] # NoDrop => Len(drop[r].pieces) \in 1 .. Size[r]
RestTyped ==
  /\ row \in [Reports -> Row \cup {NoRow}]
  /\ stale \subseteq Reports /\ touched \subseteq Reports
  /\ expire \in [Reports -> {"off", "index", "wipe"}]
  /\ pruning \in [Starters -> SUBSET Reports]
  /\ start \in [Reports -> {"off", "over", "ok"} \cup Started]
  /\ mails \in [Reports -> Nat] /\ fails \in 0 .. MaxFails

LEMMA SizeIsNat == \A r \in Reports : Size[r] \in Nat /\ Size[r] >= 1
BY UploadAssumption

LEMMA NoDropIsNone == NoDrop \notin Drops
BY DEF NoDrop, Drops

LEMMA NoRowIsNone == NoRow \notin Row
BY DEF NoRow, Row

LEMMA RequestEdit ==
  ASSUME ReqTyped, NEW r \in Reports, NEW q \in Requests(r), NEW v \in RequestStates,
         req' = [req EXCEPT ![r][q] = v]
  PROVE  /\ ReqTyped'
         /\ \A x \in Reports : \A p \in Requests(x) :
              req'[x][p] = IF x = r /\ p = q THEN v ELSE req[x][p]
<1>1. req' = [x \in Reports |-> IF x = r THEN [req[r] EXCEPT ![q] = v] ELSE req[x]]
  BY DEF ReqTyped, RequestsKept
<1>2. req[r] \in [Requests(r) -> RequestStates]
  BY DEF ReqTyped
<1>3. [req[r] EXCEPT ![q] = v] \in [Requests(r) -> RequestStates]
  BY <1>2
<1>4. \A p \in Requests(r) : [req[r] EXCEPT ![q] = v][p] = IF p = q THEN v ELSE req[r][p]
  BY <1>2
<1>5. ReqTyped'
  BY <1>1, <1>3 DEF ReqTyped, RequestsKept
<1>. QED
  BY <1>1, <1>4, <1>5

LEMMA RowEdits ==
  ASSUME NEW x \in Row \cup {NoRow}, NEW n \in Nat, NEW b \in BOOLEAN
  PROVE  /\ Reserved(n) \in Row
         /\ CommitReport(x, b) \in Row \cup {NoRow}
         /\ BundleExpired(x) \in Row \cup {NoRow}
BY DEF Reserved, CommitReport, BundleExpired, Row, NoRow

LEMMA Parts == TypeInv <=> ReqTyped /\ AtTyped /\ DropTyped /\ RestTyped
BY DEF TypeInv, TypeOK, ReqTyped, AtTyped, DropTyped, RestTyped

LEMMA PartsNext == TypeInv' <=> (ReqTyped /\ AtTyped /\ DropTyped /\ RestTyped)'
BY Parts, PTL

LEMMA TypeInit == Init => TypeInv
<1>. SUFFICES ASSUME Init PROVE TypeInv
  OBVIOUS
<1>1. ReqTyped
  BY DEF Init, ReqTyped, RequestsKept, RequestStates
<1>2. AtTyped
  BY SizeIsNat DEF Init, AtTyped
<1>3. DropTyped
  BY DEF Init, DropTyped
<1>4. RestTyped
  BY UploadAssumption DEF Init, RestTyped, Started
<1>. QED
  BY <1>1, <1>2, <1>3, <1>4, Parts

\* The steps of the prune and of a START.
LEMMA TypeOfStart ==
  ASSUME ReqTyped, AtTyped, DropTyped, RestTyped, NEW r \in Reports,
         \/ Visit \/ StartPrune(r) \/ StartReserve(r) \/ StartStore(r) \/ StartFails(r)
         \/ StartAbandon(r) \/ StartRelease(r) \/ StartDies(r) \/ StartAnswered(r)
         \/ \E s \in Starters : PruneDestroys(s, r) \/ PruneFails(s, r)
  PROVE  (ReqTyped /\ AtTyped /\ DropTyped /\ RestTyped)'
<1>. USE DEF ReqTyped, RequestsKept, AtTyped, DropTyped, RestTyped
<1>0. Reports \subseteq Starters /\ "visitor" \in Starters
  BY DEF Starters
<1>1. CASE Visit
  BY <1>0, <1>1 DEF Visit, Prune, IdleRows
<1>2. CASE StartPrune(r)
  BY <1>0, <1>2 DEF StartPrune, Prune, IdleRows, Started
<1>3. CASE StartReserve(r)
  <2>1. UNCHANGED <<stale, drop, expire, pruning, req, mails, fails>>
    BY <1>3 DEF StartReserve
  <2>2. CASE /\ row' = [row EXCEPT ![r] = Reserved(Size[r])] /\ touched' = touched \cup {r}
             /\ start' = [start EXCEPT ![r] = "reserved"] /\ at' = at
    <3>1. Reserved(Size[r]) \in Row
      BY SizeIsNat, RowEdits
    <3>. QED
      BY <2>1, <2>2, <3>1 DEF Started
  <2>3. CASE /\ start' = [start EXCEPT ![r] = "over"]
             /\ at' = [at EXCEPT ![r] = Failed] /\ UNCHANGED <<row, touched>>
    BY <2>1, <2>3 DEF Failed
  <2>. HIDE DEF ReqTyped, RequestsKept, AtTyped, DropTyped, RestTyped
  <2>. QED
    BY <1>3, <2>2, <2>3 DEF StartReserve
<1>4. CASE StartStore(r)
  <2>1. [pieces |-> <<0>>, committed |-> FALSE, late |-> "no"] \in Drops
    BY DEF Drops
  <2>2. Len(<<0>>) = 1
    OBVIOUS
  <2>. QED
    BY <1>4, <2>1, <2>2, SizeIsNat DEF StartStore
<1>5. CASE StartFails(r)
  BY <1>5, UploadAssumption DEF StartFails, Fail, Started
<1>6. CASE StartAbandon(r)
  BY <1>6 DEF StartAbandon, Started
<1>7. CASE StartRelease(r)
  BY <1>7 DEF StartRelease, Failed
<1>8. CASE StartDies(r)
  <2>1. fails' \in 0 .. MaxFails
    BY <1>8, UploadAssumption DEF StartDies
  <2>2. AtTyped' /\ ReqTyped' /\ DropTyped'
    BY <1>8 DEF StartDies, Failed
  <2>3. pruning' \in [Starters -> SUBSET Reports]
    BY <1>0, <1>8 DEF StartDies
  <2>. QED
    BY <1>8, <2>1, <2>2, <2>3 DEF StartDies
<1>9. CASE StartAnswered(r)
  BY <1>9, SizeIsNat DEF StartAnswered
<1>10. ASSUME NEW s \in Starters, PruneDestroys(s, r) \/ PruneFails(s, r)
       PROVE  (ReqTyped /\ AtTyped /\ DropTyped /\ RestTyped)'
  <2>1. UNCHANGED <<row, stale, touched, expire, start, req, at, mails>>
    BY <1>10 DEF PruneDestroys, PruneFails
  <2>2. fails' \in 0 .. MaxFails
    BY <1>10, UploadAssumption DEF PruneDestroys, PruneFails, Fail
  <2>5. pruning' = [pruning EXCEPT ![s] = @ \ {r}]
    BY <1>10 DEF PruneDestroys, PruneFails
  <2>3. drop' = drop \/ drop' = [drop EXCEPT ![r] = NoDrop]
    BY <1>10 DEF PruneDestroys, PruneFails
  <2>4. DropTyped'
    BY <2>3
  <2>. QED
    BY <2>1, <2>2, <2>4, <2>5
<1>. HIDE DEF ReqTyped, RequestsKept, AtTyped, DropTyped, RestTyped
<1>. QED
  BY <1>1, <1>2, <1>3, <1>4, <1>5, <1>6, <1>7, <1>8, <1>9, <1>10

\* The client's steps, and a request's step that edits the requests alone.
LEMMA TypeOfRequest ==
  ASSUME ReqTyped, AtTyped, DropTyped, RestTyped, NEW r \in Reports,
         \/ Send(r) \/ Retry(r) \/ GiveUp(r) \/ Request(r)
         \/ \E c \in {1, 2} : Answered(r, c) \/ Commit(r, c)
  PROVE  (ReqTyped /\ AtTyped /\ DropTyped /\ RestTyped)'
<1>. DEFINE Typed == ReqTyped /\ AtTyped /\ DropTyped /\ RestTyped
<1>0. /\ "sent" \in RequestStates /\ "over" \in RequestStates /\ "ok" \in RequestStates
      /\ "refused" \in RequestStates /\ "abandon" \in RequestStates
      /\ "stored" \in RequestStates /\ "flip" \in RequestStates
      /\ "release" \in RequestStates /\ "error" \in RequestStates /\ "mail" \in RequestStates
  BY DEF RequestStates, Waiting, Answers
<1>1. \A k \in 1 .. Size[r] : \A c \in {1, 2} : <<k, c>> \in Requests(r)
  BY DEF Requests
<1>2. UNCHANGED at => AtTyped'
  BY DEF AtTyped
<1>3. UNCHANGED drop => DropTyped'
  BY DEF DropTyped
<1>4. UNCHANGED <<row, stale, touched, expire, pruning, start, mails, fails>> => RestTyped'
  BY DEF RestTyped
<1>5. ASSUME NEW q \in Requests(r), NEW v \in RequestStates, req' = [req EXCEPT ![r][q] = v]
      PROVE  ReqTyped'
  BY <1>5, RequestEdit
<1>6. UNCHANGED req => ReqTyped'
  BY DEF ReqTyped, RequestsKept
<1>7. CASE Send(r)
  BY <1>0, <1>1, <1>2, <1>3, <1>4, <1>5, <1>7 DEF Send
<1>8. CASE Retry(r)
  BY <1>0, <1>1, <1>2, <1>3, <1>4, <1>5, <1>8 DEF Retry
<1>9. CASE GiveUp(r)
  <2>1. AtTyped'
    BY <1>9 DEF GiveUp, AtTyped, Failed
  <2>. QED
    BY <1>3, <1>4, <1>6, <1>9, <2>1 DEF GiveUp
<1>10. ASSUME NEW c \in {1, 2}, Answered(r, c)
       PROVE  Typed'
  <2>1. AtTyped'
    BY <1>10, SizeIsNat DEF Answered, AtTyped, Failed
  <2>. QED
    BY <1>0, <1>1, <1>3, <1>4, <1>5, <1>10, <2>1 DEF Answered
<1>11. ASSUME NEW c \in {1, 2}, Commit(r, c)
       PROVE  Typed'
  <2>1. PICK v \in RequestStates : req' = [req EXCEPT ![r][<<Size[r], c>>] = v]
    BY <1>0, <1>11 DEF Commit
  <2>2. <<Size[r], c>> \in Requests(r)
    <3>1. Size[r] \in 1 .. Size[r]
      BY SizeIsNat
    <3>. QED
      BY <1>1, <3>1
  <2>3. DropTyped'
    <3>1. CASE drop' = drop
      BY <1>3, <3>1
    <3>2. CASE drop' # drop
      <4>1. drop[r] \in Drops /\ drop' = [drop EXCEPT ![r] = [@ EXCEPT !.committed = TRUE, !.late = "no"]]
        BY <1>11, <3>2 DEF Commit, DropTyped
      <4>2. drop'[r] \in Drops /\ drop'[r].pieces = drop[r].pieces
        BY <4>1 DEF DropTyped, Drops
      <4>. QED
        BY <4>1, <4>2, NoDropIsNone DEF DropTyped
    <3>. QED
      BY <3>1, <3>2
  <2>. QED
    BY <1>2, <1>4, <1>5, <1>11, <2>1, <2>2, <2>3 DEF Commit
<1>12. ASSUME NEW q \in Requests(r), NEW c \in {1, 2}, NEW k \in Nat,
              q = <<k, c>>, PutPiece(r, k, c)
       PROVE  Typed'
  <2>1. PICK v \in RequestStates : req' = [req EXCEPT ![r][q] = v]
    BY <1>0, <1>12 DEF PutPiece
  <2>2. DropTyped'
    <3>1. CASE drop' = drop
      BY <1>3, <3>1
    <3>2. CASE drop' # drop
      <4>1. /\ drop[r] \in Drops /\ k = Len(drop[r].pieces) /\ k < Size[r]
            /\ drop' = [drop EXCEPT ![r] =
                         [drop[r] EXCEPT !.pieces = Append(drop[r].pieces, k), !.late = "no"]]
        BY <1>12, <3>2 DEF PutPiece, Takes, DropTyped
      <4>2. drop'[r] \in Drops /\ drop'[r].pieces = Append(drop[r].pieces, k)
        <5>. DEFINE more == Append(drop[r].pieces, k)
                    d == [drop[r] EXCEPT !.pieces = more, !.late = "no"]
        <5>1. more \in Seq(Nat)
          BY <1>12, <4>1 DEF Drops
        <5>2. drop' = [drop EXCEPT ![r] = d]
          BY <4>1
        <5>. HIDE DEF more
        <5>3. d \in Drops /\ d.pieces = more
          BY <4>1, <5>1 DEF Drops
        <5>. HIDE DEF d
        <5>4. drop'[r] = d
          BY <5>2 DEF DropTyped
        <5>. QED
          BY <5>3, <5>4 DEF more
      <4>3. Len(drop'[r].pieces) \in 1 .. Size[r]
        BY <4>1, <4>2, SizeIsNat DEF DropTyped, Drops
      <4>. QED
        BY <4>1, <4>2, <4>3, NoDropIsNone DEF DropTyped
    <3>. QED
      BY <3>1, <3>2
  <2>3. RestTyped'
    BY <1>12 DEF PutPiece, RestTyped
  <2>. QED
    BY <1>2, <1>5, <1>12, <2>1, <2>2, <2>3 DEF PutPiece
<1>13. ASSUME NEW q \in Requests(r),
              \/ Touch(r, q) \/ TouchFails(r, q) \/ Abandon(r, q) \/ Release(r, q)
              \/ Flip(r, q) \/ Mail(r, q) \/ RequestDies(r, q) \/ AnswerLost(r, q)
       PROVE  Typed'
  <2>1. PICK v \in RequestStates : req' = [req EXCEPT ![r][q] = v]
    BY <1>0, <1>13
       DEF Touch, TouchFails, Abandon, Release, Flip, Outcome, Mail, RequestDies, AnswerLost
  <2>2. UNCHANGED at
    BY <1>13 DEF Touch, TouchFails, Abandon, Release, Flip, Mail, RequestDies, AnswerLost
  <2>3. drop' = drop \/ drop' = [drop EXCEPT ![r] = NoDrop]
    BY <1>13 DEF Touch, TouchFails, Abandon, Release, Flip, Mail, RequestDies, AnswerLost
  <2>4. DropTyped'
    BY <2>3 DEF DropTyped
  <2>5. UNCHANGED <<expire, pruning, start>>
    BY <1>13 DEF Touch, TouchFails, Abandon, Release, Flip, Mail, RequestDies, AnswerLost
  <2>6. row' = row \/ row' = [row EXCEPT ![r] = NoRow]
                   \/ row' = [row EXCEPT ![r] = CommitReport(@, r \in Followed)]
    BY <1>13 DEF Touch, TouchFails, Abandon, Release, Flip, Mail, RequestDies, AnswerLost
  <2>7. row' \in [Reports -> Row \cup {NoRow}]
    <3>1. CommitReport(row[r], r \in Followed) \in Row \cup {NoRow}
      <4>1. (r \in Followed) \in BOOLEAN
        OBVIOUS
      <4>2. row[r] \in Row \cup {NoRow}
        BY DEF RestTyped
      <4>. QED
        BY <4>1, <4>2, RowEdits
    <3>. QED
      BY <2>6, <3>1 DEF RestTyped
  <2>8. stale' \subseteq Reports /\ touched' \subseteq Reports
    BY <1>13 DEF Touch, TouchFails, Abandon, Release, Flip, Mail, RequestDies, AnswerLost, RestTyped
  <2>9. mails' \in [Reports -> Nat] /\ fails' \in 0 .. MaxFails
    BY <1>13, UploadAssumption
       DEF Touch, TouchFails, Abandon, Release, Flip, Mail, RequestDies, AnswerLost, RestTyped, Fail
  <2>. QED
    BY <1>5, <1>2, <2>1, <2>2, <2>4, <2>5, <2>7, <2>8, <2>9 DEF RestTyped
<1>14. CASE Request(r)
  BY <1>12, <1>13, <1>14 DEF Request, Requests
<1>. QED
  BY <1>7, <1>8, <1>9, <1>10, <1>11, <1>14

\* The drop's clock and its alarm.
LEMMA TypeOfTime ==
  ASSUME ReqTyped, AtTyped, DropTyped, RestTyped, NEW r \in Reports,
         \/ DropLate(r) \/ RowStale(r) \/ Aged(r)
         \/ ExpireBegins(r) \/ ExpireIndex(r) \/ ExpireWipe(r) \/ ExpireFails(r)
  PROVE  (ReqTyped /\ AtTyped /\ DropTyped /\ RestTyped)'
<1>1. ReqTyped' /\ AtTyped' /\ UNCHANGED <<touched, pruning, start, mails>>
  BY DEF ReqTyped, RequestsKept, AtTyped, DropLate, RowStale, Aged,
         ExpireBegins, ExpireIndex, ExpireWipe, ExpireFails
<1>2. \/ drop' = drop \/ drop' = [drop EXCEPT ![r] = NoDrop]
      \/ /\ drop[r] # NoDrop
         /\ \E late \in {"no", "silent", "old", "aged"} : drop' = [drop EXCEPT ![r].late = late]
  BY DEF DropLate, RowStale, Aged, ExpireBegins, ExpireIndex, ExpireWipe, ExpireFails
<1>3. DropTyped'
  <2>1. CASE drop' = drop \/ drop' = [drop EXCEPT ![r] = NoDrop]
    BY <2>1 DEF DropTyped
  <2>2. ASSUME NEW late \in {"no", "silent", "old", "aged"}, drop[r] # NoDrop,
               drop' = [drop EXCEPT ![r].late = late]
        PROVE  DropTyped'
    <3>1. drop'[r] \in Drops /\ drop'[r].pieces = drop[r].pieces
      BY <2>2 DEF DropTyped, Drops
    <3>. QED
      BY <2>2, <3>1, NoDropIsNone DEF DropTyped
  <2>. QED
    BY <1>2, <2>1, <2>2
<1>4. row' \in [Reports -> Row \cup {NoRow}]
  <2>1. BundleExpired(row[r]) \in Row \cup {NoRow}
    BY RowEdits DEF RestTyped
  <2>. QED
    BY <2>1 DEF RestTyped, DropLate, RowStale, Aged, ExpireBegins, ExpireIndex, ExpireWipe, ExpireFails
<1>5. /\ stale' \subseteq Reports /\ expire' \in [Reports -> {"off", "index", "wipe"}]
      /\ fails' \in 0 .. MaxFails
  BY UploadAssumption
     DEF RestTyped, DropLate, RowStale, Aged, ExpireBegins, ExpireIndex, ExpireWipe, ExpireFails, Fail
<1>. QED
  BY <1>1, <1>3, <1>4, <1>5 DEF RestTyped

LEMMA TypeStep == TypeInv /\ [Next]_vars => TypeInv'
<1>. SUFFICES ASSUME ReqTyped, AtTyped, DropTyped, RestTyped, [Next]_vars
     PROVE  (ReqTyped /\ AtTyped /\ DropTyped /\ RestTyped)'
  BY Parts, PartsNext
<1>1. CASE Next
  <2>1. CASE Visit
    <3>1. PICK r \in Reports : TRUE
      BY <2>1 DEF Visit, IdleRows, RestTyped
    <3>. QED
      BY <2>1, <3>1, TypeOfStart
  <2>2. ASSUME NEW s \in Starters, NEW x \in Reports, PruneDestroys(s, x) \/ PruneFails(s, x)
        PROVE  (ReqTyped /\ AtTyped /\ DropTyped /\ RestTyped)'
    BY <2>2, TypeOfStart
  <2>. QED
    BY <1>1, <2>1, <2>2, TypeOfStart, TypeOfRequest, TypeOfTime DEF Next
<1>2. CASE UNCHANGED vars
  BY <1>2 DEF vars, ReqTyped, RequestsKept, AtTyped, DropTyped, RestTyped
<1>. QED
  BY <1>1, <1>2

\* Whatever Workers, clients, alarms and prunes do, the rows, drops and requests
\* of the intake have their types, for any number of reports of any size.
THEOREM TypeCorrect == Spec => []TypeOK
<1>1. TypeInv => TypeOK
  BY DEF TypeInv
<1>. QED
  BY <1>1, TypeInit, TypeStep, PTL DEF Spec

-----------------------------------------------------------------------------
(* A finished drop is the declared report                                  *)

InOrder(d) == \A i \in 1 .. Len(d.pieces) : d.pieces[i] = i - 1

WholeInv ==
  \A r \in Reports :
    drop[r] # NoDrop =>
      /\ InOrder(drop[r])
      /\ drop[r].committed => Len(drop[r].pieces) = Size[r]

\* What one step can do to the drop of x.
Dropped(x) == drop'[x] = NoDrop
Kept(x) ==
  /\ drop[x] # NoDrop /\ drop'[x] # NoDrop /\ drop'[x].pieces = drop[x].pieces
  /\ drop'[x].committed => drop[x].committed \/ Len(drop[x].pieces) = Size[x]
Begun(x) == drop'[x].pieces = <<0>> /\ ~drop'[x].committed
Extended(x) ==
  /\ drop[x] # NoDrop
  /\ drop'[x].pieces = Append(drop[x].pieces, Len(drop[x].pieces))
  /\ ~drop'[x].committed

DropStep(x) == Dropped(x) \/ Kept(x) \/ Begun(x) \/ Extended(x)

LEMMA SameDrops ==
  ASSUME TypeInv, UNCHANGED drop PROVE \A x \in Reports : DropStep(x)
BY DEF DropStep, Dropped, Kept

LEMMA OneDrop ==
  ASSUME TypeInv, NEW r \in Reports, NEW d, drop' = [drop EXCEPT ![r] = d],
         drop'[r] = d => DropStep(r)
  PROVE  \A x \in Reports : DropStep(x)
<1>1. drop \in [Reports -> Drops \cup {NoDrop}]
  BY DEF TypeInv, TypeOK
<1>2. \A x \in Reports : x # r => drop'[x] = drop[x]
  BY <1>1
<1>3. drop'[r] = d
  BY <1>1
<1>. QED
  BY <1>2, <1>3 DEF DropStep, Dropped, Kept

LEMMA DropSteps == TypeInv /\ [Next]_vars => \A x \in Reports : DropStep(x)
<1>. SUFFICES ASSUME TypeInv, [Next]_vars PROVE \A x \in Reports : DropStep(x)
  OBVIOUS
<1>1. CASE UNCHANGED vars
  BY <1>1, SameDrops DEF vars
<1>2. CASE Visit
  BY <1>2, SameDrops DEF Visit
<1>3. ASSUME NEW s \in Starters, NEW x \in Reports, PruneDestroys(s, x) \/ PruneFails(s, x)
      PROVE  \A y \in Reports : DropStep(y)
  BY <1>3, SameDrops, OneDrop DEF PruneDestroys, PruneFails, DropStep, Dropped
<1>4. ASSUME NEW r \in Reports,
             \/ StartPrune(r) \/ StartReserve(r) \/ StartFails(r) \/ StartRelease(r)
             \/ StartDies(r) \/ StartAnswered(r) \/ Send(r) \/ Retry(r) \/ GiveUp(r)
             \/ RowStale(r) \/ ExpireBegins(r) \/ ExpireIndex(r) \/ ExpireFails(r)
             \/ \E c \in {1, 2} : Answered(r, c)
      PROVE  \A x \in Reports : DropStep(x)
  BY <1>4, SameDrops
     DEF StartPrune, StartReserve, StartFails, StartRelease, StartDies, StartAnswered, Send,
         Retry, GiveUp, RowStale, ExpireBegins, ExpireIndex, ExpireFails, Answered
<1>5. ASSUME NEW r \in Reports, StartAbandon(r) \/ ExpireWipe(r)
      PROVE  \A x \in Reports : DropStep(x)
  BY <1>5, OneDrop DEF StartAbandon, ExpireWipe, DropStep, Dropped
<1>6. ASSUME NEW r \in Reports, StartStore(r)
      PROVE  \A x \in Reports : DropStep(x)
  <2>. DEFINE d == [pieces |-> <<0>>, committed |-> FALSE, late |-> "no"]
  <2>1. drop' = [drop EXCEPT ![r] = d]
    BY <1>6 DEF StartStore
  <2>2. d.pieces = <<0>> /\ ~d.committed
    OBVIOUS
  <2>. HIDE DEF d
  <2>3. drop'[r] = d => DropStep(r)
    BY <2>2 DEF DropStep, Begun
  <2>. QED
    BY <2>1, <2>3, OneDrop
<1>7. ASSUME NEW r \in Reports, DropLate(r) \/ Aged(r)
      PROVE  \A x \in Reports : DropStep(x)
  <2>1. PICK late : drop[r] # NoDrop /\ drop' = [drop EXCEPT ![r].late = late]
    BY <1>7 DEF DropLate, Aged
  <2>. DEFINE d == [drop[r] EXCEPT !.late = late]
  <2>2. drop[r] \in Drops
    BY <2>1 DEF TypeInv, TypeOK
  <2>3. d.pieces = drop[r].pieces /\ (d.committed => drop[r].committed) /\ d # NoDrop
    BY <2>2 DEF Drops, NoDrop
  <2>4. drop' = [drop EXCEPT ![r] = d]
    BY <2>1
  <2>. HIDE DEF d
  <2>5. drop'[r] = d => DropStep(r)
    BY <2>1, <2>3 DEF DropStep, Kept
  <2>. QED
    BY <2>4, <2>5, OneDrop
<1>8. ASSUME NEW r \in Reports, NEW c \in {1, 2}, Commit(r, c)
      PROVE  \A x \in Reports : DropStep(x)
  <2>1. CASE drop' = drop
    BY <2>1, SameDrops
  <2>2. CASE drop' # drop
    <3>. DEFINE d == [drop[r] EXCEPT !.committed = TRUE, !.late = "no"]
    <3>1. drop[r] # NoDrop /\ ~(Len(drop[r].pieces) < Size[r]) /\ drop' = [drop EXCEPT ![r] = d]
      BY <1>8, <2>2 DEF Commit
    <3>2. drop[r] \in Drops /\ Len(drop[r].pieces) = Size[r]
      BY <3>1, SizeIsNat DEF TypeInv, TypeOK
    <3>3. d.pieces = drop[r].pieces /\ d # NoDrop
      BY <3>2 DEF Drops, NoDrop
    <3>. HIDE DEF d
    <3>4. drop'[r] = d => DropStep(r)
      BY <3>1, <3>2, <3>3 DEF DropStep, Kept
    <3>. QED
      BY <3>1, <3>4, OneDrop
  <2>. QED
    BY <2>1, <2>2
<1>9. ASSUME NEW r \in Reports, NEW k, NEW c, PutPiece(r, k, c)
      PROVE  \A x \in Reports : DropStep(x)
  <2>1. CASE drop' = drop
    BY <2>1, SameDrops
  <2>2. CASE drop' # drop
    <3>. DEFINE d == [drop[r] EXCEPT !.pieces = Append(drop[r].pieces, k), !.late = "no"]
    <3>1. /\ drop[r] # NoDrop /\ ~drop[r].committed /\ k = Len(drop[r].pieces)
          /\ drop' = [drop EXCEPT ![r] = d]
      BY <1>9, <2>2 DEF PutPiece, Takes
    <3>2. drop[r] \in Drops
      BY <3>1 DEF TypeInv, TypeOK
    <3>3. d.pieces = Append(drop[r].pieces, Len(drop[r].pieces)) /\ ~d.committed
      BY <3>1, <3>2 DEF Drops
    <3>. HIDE DEF d
    <3>4. drop'[r] = d => DropStep(r)
      BY <3>1, <3>3 DEF DropStep, Extended
    <3>. QED
      BY <3>1, <3>4, OneDrop
  <2>. QED
    BY <2>1, <2>2
<1>10. ASSUME NEW r \in Reports, NEW q \in Requests(r),
              \/ Touch(r, q) \/ TouchFails(r, q) \/ Abandon(r, q) \/ Release(r, q)
              \/ Flip(r, q) \/ Mail(r, q) \/ RequestDies(r, q) \/ AnswerLost(r, q)
       PROVE  \A x \in Reports : DropStep(x)
  BY <1>10, SameDrops, OneDrop
     DEF Touch, TouchFails, Abandon, Release, Flip, Mail, RequestDies, AnswerLost, DropStep, Dropped
<1>11. ASSUME NEW r \in Reports, Request(r)
       PROVE  \A x \in Reports : DropStep(x)
  BY <1>9, <1>10, <1>11 DEF Request
<1>. QED
  BY <1>1, <1>2, <1>3, <1>4, <1>5, <1>6, <1>7, <1>8, <1>11 DEF Next

LEMMA WholeStep == TypeInv /\ TypeInv' /\ WholeInv /\ [Next]_vars => WholeInv'
<1>. SUFFICES ASSUME TypeInv, TypeInv', WholeInv, [Next]_vars, NEW r \in Reports, drop'[r] # NoDrop
     PROVE  /\ InOrder(drop'[r])
            /\ drop'[r].committed => Len(drop'[r].pieces) = Size[r]
  BY DEF WholeInv
<1>1. DropStep(r)
  BY DropSteps
<1>2. CASE Dropped(r)
  BY <1>2 DEF Dropped
<1>3. CASE Kept(r)
  BY <1>3 DEF Kept, WholeInv, InOrder
<1>4. CASE Begun(r)
  <2>1. Len(<<0>>) = 1 /\ <<0>>[1] = 0
    OBVIOUS
  <2>. QED
    BY <1>4, <2>1 DEF Begun, InOrder
<1>5. CASE Extended(r)
  <2>. DEFINE p == drop[r].pieces
  <2>1. p \in Seq(Nat) /\ Len(p) \in Nat
    BY <1>5 DEF Extended, TypeInv, TypeOK, Drops
  <2>2. drop'[r].pieces = Append(p, Len(p)) /\ ~drop'[r].committed
    BY <1>5 DEF Extended
  <2>3. \A i \in 1 .. Len(p) : p[i] = i - 1
    BY <1>5 DEF Extended, WholeInv, InOrder
  <2>. HIDE DEF p
  <2>4. \A i \in 1 .. Len(Append(p, Len(p))) : Append(p, Len(p))[i] = i - 1
    BY <2>1, <2>3
  <2>. QED
    BY <2>2, <2>4 DEF InOrder
<1>. QED
  BY <1>1, <1>2, <1>3, <1>4, <1>5 DEF DropStep

\* Whatever pieces are repeated, late or out of order: a drop that was committed
\* holds every declared piece, once and in order.
THEOREM WholeReports == Spec => []CommittedIsWhole
<1>1. Init => WholeInv
  BY DEF Init, WholeInv
<1>2. TypeInv /\ WholeInv => CommittedIsWhole
  <2>. SUFFICES ASSUME TypeInv, WholeInv, NEW r \in Reports, drop[r] # NoDrop, drop[r].committed
       PROVE  drop[r].pieces = Whole(r)
    BY DEF CommittedIsWhole
  <2>1. drop[r].pieces \in Seq(Nat) /\ Len(drop[r].pieces) = Size[r]
    BY DEF TypeInv, TypeOK, Drops, WholeInv
  <2>2. \A i \in 1 .. Size[r] : drop[r].pieces[i] = i - 1
    BY <2>1 DEF WholeInv, InOrder
  <2>. DEFINE p == drop[r].pieces
  <2>3. p \in [1 .. Size[r] -> Nat]
    BY <2>1, LenProperties
  <2>. HIDE DEF p
  <2>4. p = [i \in 1 .. Size[r] |-> p[i]]
    BY <2>3
  <2>. QED
    BY <2>2, <2>4 DEF Whole, p
<1>. QED
  BY <1>1, <1>2, TypeInit, TypeStep, WholeStep, PTL DEF Spec

-----------------------------------------------------------------------------
(* One mail, and no prune of what a client was told is stored              *)

Commits(r) == {q \in Requests(r) : q[1] = Size[r]}

\* A COMMIT of r found its row committed, or committed it.
Told(r) ==
  \/ Acked(r) \/ mails[r] > 0
  \/ \E q \in Commits(r) : req[r][q] \in {"mail", "ok"}

\* No row yet: START has still to reserve.
Early(r) == start[r] \in {"off", "pruned"}

StartFirst(r) ==
  /\ start[r] # "over" => at[r] = 0
  /\ at[r] = 0 => mails[r] = 0 /\ \A q \in Requests(r) : req[r][q] = "off"
  /\ Early(r) => row[r] = NoRow

RoutesApart(r) ==
  \A q \in Requests(r) :
    IF q \in Commits(r) THEN req[r][q] # "stored" ELSE req[r][q] \notin {"flip", "mail"}

MailOnce(r) ==
  /\ mails[r] \in {0, 1}
  /\ mails[r] = 1 => \A q \in Commits(r) : req[r][q] # "mail"
  /\ \A p, q \in Commits(r) : req[r][p] = "mail" /\ req[r][q] = "mail" => p = q

\* Only an uncommitted row is pruned, and its report never commits again.
PrunedUntold(r) ==
  /\ Told(r) => row[r] = NoRow \/ row[r].committed
  /\ \A s \in Starters : r \in pruning[s] => row[r] = NoRow /\ ~Told(r) /\ ~Early(r)

Once(r) == StartFirst(r) /\ RoutesApart(r) /\ MailOnce(r) /\ PrunedUntold(r)

OnceInv == \A r \in Reports : Once(r)

\* Nothing that Once is about changed for x, but perhaps a prune is done with it.
Unmoved(x) ==
  /\ row'[x] = row[x] /\ at'[x] = at[x] /\ start'[x] = start[x]
  /\ req'[x] = req[x] /\ mails'[x] = mails[x]
  /\ \A s \in Starters : x \in pruning'[s] => x \in pruning[s]

LEMMA UnmovedKeeps ==
  ASSUME NEW x \in Reports, Once(x), Unmoved(x) PROVE Once(x)'
<1>. USE DEF Unmoved
<1>1. Told(x)' <=> Told(x)
  BY DEF Told, Acked
<1>2. Early(x)' <=> Early(x)
  BY DEF Early
<1>3. StartFirst(x)' /\ RoutesApart(x)' /\ MailOnce(x)'
  BY <1>2 DEF Once, StartFirst, RoutesApart, MailOnce
<1>4. PrunedUntold(x)'
  BY <1>1, <1>2 DEF Once, PrunedUntold
<1>. QED
  BY <1>3, <1>4 DEF Once

\* A step of report r leaves the others alone.
LEMMA OthersUnmoved ==
  ASSUME TypeInv, OnceInv, NEW r \in Reports, Once(r)',
         \A x \in Reports : x # r => Unmoved(x)
  PROVE  OnceInv'
BY UnmovedKeeps DEF OnceInv

LEMMA OnceInit == Init => OnceInv
<1>. SUFFICES ASSUME Init, NEW r \in Reports PROVE Once(r)
  BY DEF OnceInv
<1>1. ~Told(r)
  BY SizeIsNat DEF Init, Told, Acked, Commits
<1>2. StartFirst(r) /\ RoutesApart(r) /\ MailOnce(r)
  BY DEF Init, StartFirst, RoutesApart, MailOnce, Commits
<1>3. PrunedUntold(r)
  BY <1>1 DEF Init, PrunedUntold
<1>. QED
  BY <1>2, <1>3 DEF Once

\* At the start nobody has been told, and a START that has not reserved has
\* neither a row nor a client.
LEMMA AtZero ==
  ASSUME TypeInv, NEW r \in Reports, Once(r), at[r] = 0
  PROVE  ~Told(r)
BY SizeIsNat DEF Once, StartFirst, Told, Acked, Commits

LEMMA EarlyUntold ==
  ASSUME TypeInv, NEW r \in Reports, Once(r), Early(r)
  PROVE  at[r] = 0 /\ ~Told(r) /\ row[r] = NoRow /\ \A s \in Starters : r \notin pruning[s]
BY AtZero DEF Once, StartFirst, PrunedUntold, Early

\* A prune takes the rows of uploads that are not committed, and only those.
LEMMA PruneStep ==
  ASSUME TypeInv, OnceInv, NEW s \in Starters, Prune(s), UNCHANGED <<req, at, mails>>,
         NEW x \in Reports,
         start'[x] = start[x] \/ (start[x] = "off" /\ start'[x] = "pruned")
  PROVE  Once(x)'
<1>1. Once(x) /\ row \in [Reports -> Row \cup {NoRow}] /\ pruning \in [Starters -> SUBSET Reports]
  BY DEF OnceInv, TypeInv, TypeOK
<1>2. row'[x] = (IF x \in IdleRows THEN NoRow ELSE row[x]) /\ row' = [y \in Reports |-> row'[y]]
  BY DEF Prune
<1>3. \A t \in Starters : pruning'[t] = IF t = s THEN IdleRows ELSE pruning[t]
  BY <1>1 DEF Prune
<1>4. Told(x)' <=> Told(x)
  BY DEF Told, Acked
<1>5. Early(x)' <=> Early(x)
  BY DEF Early
<1>6. x \in IdleRows => row[x] # NoRow /\ ~row[x].committed
  BY DEF IdleRows
<1>7. StartFirst(x)'
  BY <1>1, <1>2, <1>5 DEF Once, StartFirst
<1>8. RoutesApart(x)' /\ MailOnce(x)'
  BY <1>1 DEF Once, RoutesApart, MailOnce
<1>9. x \in IdleRows => ~Told(x) /\ ~Early(x)
  BY <1>1, <1>6 DEF Once, StartFirst, PrunedUntold
<1>10. PrunedUntold(x)'
  BY <1>1, <1>2, <1>3, <1>4, <1>5, <1>9 DEF Once, PrunedUntold
<1>. QED
  BY <1>7, <1>8, <1>10 DEF Once

LEMMA StartSteps ==
  ASSUME TypeInv, OnceInv, NEW r \in Reports,
         \/ StartReserve(r) \/ StartStore(r) \/ StartFails(r)
         \/ StartAbandon(r) \/ StartRelease(r) \/ StartDies(r) \/ StartAnswered(r)
  PROVE  OnceInv'
<1>1. Once(r) /\ req' = req /\ mails' = mails
  BY DEF OnceInv, StartReserve, StartStore, StartFails, StartAbandon, StartRelease,
         StartDies, StartAnswered
<1>2. at[r] = 0 /\ start[r] # "off"
  BY <1>1 DEF Once, StartFirst, StartReserve, StartStore, StartFails, StartAbandon, StartRelease,
              StartDies, StartAnswered, Started
<1>3. ~Told(r)
  BY <1>1, <1>2, AtZero
<1>4. at'[r] \in {0, 1, Failed}
  BY <1>2 DEF TypeInv, TypeOK, StartReserve, StartStore, StartFails, StartAbandon, StartRelease,
              StartDies, StartAnswered
<1>5. ~Told(r)'
  <2>1. ~Acked(r)'
    BY <1>4, SizeIsNat DEF Acked, Failed
  <2>. QED
    BY <1>1, <1>3, <2>1 DEF Told
<1>6. start'[r] # "over" => at'[r] = 0
  BY <1>2 DEF TypeInv, TypeOK, StartReserve, StartStore, StartFails, StartAbandon, StartRelease,
              StartDies, StartAnswered
<1>7. start'[r] \notin {"off", "pruned"}
  BY <1>2 DEF TypeInv, TypeOK, StartReserve, StartStore, StartFails, StartAbandon, StartRelease,
              StartDies, StartAnswered
<1>8. \A s \in Starters : r \in pruning'[s] => r \in pruning[s] /\ row'[r] = NoRow
  <2>1. CASE StartReserve(r)
    <3>1. \A s \in Starters : r \notin pruning[s]
      BY <1>1, <2>1, EarlyUntold DEF StartReserve, Early
    <3>. QED
      BY <2>1, <3>1 DEF StartReserve
  <2>2. CASE StartDies(r)
    BY <1>1, <2>2 DEF StartDies, Starters, TypeInv, TypeOK, Once, PrunedUntold
  <2>3. CASE StartStore(r) \/ StartFails(r) \/ StartAbandon(r) \/ StartRelease(r) \/ StartAnswered(r)
    <3>1. pruning' = pruning /\ (row' = row \/ row' = [row EXCEPT ![r] = NoRow])
      BY <2>3 DEF StartStore, StartFails, StartAbandon, StartRelease, StartAnswered
    <3>. QED
      BY <1>1, <3>1 DEF Once, PrunedUntold, TypeInv, TypeOK
  <2>. QED
    BY <2>1, <2>2, <2>3
<1>9. Once(r)'
  <2>1. StartFirst(r)'
    BY <1>1, <1>2, <1>6, <1>7 DEF Once, StartFirst, Early
  <2>2. RoutesApart(r)' /\ MailOnce(r)'
    BY <1>1 DEF Once, RoutesApart, MailOnce
  <2>3. PrunedUntold(r)'
    BY <1>5, <1>7, <1>8 DEF PrunedUntold, Early
  <2>. QED
    BY <2>1, <2>2, <2>3 DEF Once
<1>10. ASSUME NEW x \in Reports, x # r PROVE Unmoved(x)
  <2>1. row'[x] = row[x] /\ at'[x] = at[x] /\ start'[x] = start[x]
    BY <1>10 DEF TypeInv, TypeOK, StartReserve, StartStore, StartFails, StartAbandon, StartRelease,
                 StartDies, StartAnswered
  <2>2. pruning' = pruning \/ pruning' = [pruning EXCEPT ![r] = {}]
    BY DEF StartReserve, StartStore, StartFails, StartAbandon, StartRelease, StartDies, StartAnswered
  <2>3. \A s \in Starters : x \in pruning'[s] => x \in pruning[s]
    BY <2>2 DEF TypeInv, TypeOK
  <2>. QED
    BY <1>1, <2>1, <2>3 DEF Unmoved
<1>. QED
  BY <1>9, <1>10, OthersUnmoved

\* The client sends, repeats, reads an answer or leaves.
LEMMA ClientSteps ==
  ASSUME TypeInv, OnceInv, NEW r \in Reports,
         \/ Send(r) \/ Retry(r) \/ GiveUp(r) \/ \E c \in {1, 2} : Answered(r, c)
  PROVE  OnceInv'
<1>1. /\ Once(r) /\ UNCHANGED <<row, start, mails, pruning>> /\ at[r] \in 1 .. Size[r]
      /\ ReqTyped
  BY Parts DEF OnceInv, Send, Retry, GiveUp, Answered
<1>2. PICK q \in Requests(r), v \in {"sent", "over", "same"} :
        /\ q[1] = at[r]
        /\ req' = IF v = "same" THEN req ELSE [req EXCEPT ![r][q] = v]
        /\ \/ at' = at \/ at' = [at EXCEPT ![r] = Failed]
           \/ at' = [at EXCEPT ![r] = @ + 1] /\ req[r][q] = "ok"
  <2>1. \A c \in {1, 2} : <<at[r], c>> \in Requests(r)
    BY <1>1 DEF Requests
  <2>2. CASE Send(r) \/ Retry(r)
    BY <2>1, <2>2 DEF Send, Retry
  <2>3. CASE GiveUp(r)
    BY <2>1, <2>3 DEF GiveUp
  <2>4. ASSUME NEW c \in {1, 2}, Answered(r, c)
        PROVE  /\ req' = [req EXCEPT ![r][<<at[r], c>>] = "over"]
               /\ \/ at' = [at EXCEPT ![r] = Failed]
                  \/ at' = [at EXCEPT ![r] = @ + 1] /\ req[r][<<at[r], c>>] = "ok"
    BY <2>4 DEF Answered
  <2>. QED
    BY <2>1, <2>2, <2>3, <2>4
<1>3. /\ \A x \in Reports : \A p \in Requests(x) :
           req'[x][p] = IF v # "same" /\ x = r /\ p = q THEN v ELSE req[x][p]
      /\ \A x \in Reports : x # r => req'[x] = req[x]
  <2>1. v = "same" \/ v \in RequestStates
    BY DEF RequestStates, Waiting
  <2>2. CASE v = "same"
    BY <1>2, <2>2
  <2>3. CASE v # "same"
    BY <1>1, <1>2, <2>1, <2>3, RequestEdit DEF ReqTyped, RequestsKept
  <2>. QED
    BY <2>2, <2>3
<1>4. at'[r] # 0 /\ \A x \in Reports : x # r => at'[x] = at[x]
  BY <1>1, <1>2 DEF TypeInv, TypeOK, Failed
<1>5. Told(r)' => Told(r)
  <2>1. Acked(r)' => Told(r)
    <3>1. CASE at'[r] = at[r]
      BY <1>1, <3>1, SizeIsNat DEF Acked
    <3>2. CASE at'[r] = Failed
      BY <3>2, SizeIsNat DEF Acked, Failed
    <3>3. CASE at'[r] = at[r] + 1 /\ req[r][q] = "ok"
      <4>1. Acked(r)' => q \in Commits(r)
        BY <1>1, <1>2, <3>3, SizeIsNat DEF Acked, Commits
      <4>. QED
        BY <3>3, <4>1 DEF Told
    <3>. QED
      BY <1>2, <3>1, <3>2, <3>3 DEF TypeInv, TypeOK
  <2>2. \A p \in Commits(r) : req'[r][p] \in {"mail", "ok"} => req[r][p] \in {"mail", "ok"}
    BY <1>3 DEF Commits
  <2>. QED
    BY <1>1, <2>1, <2>2 DEF Told
<1>6. StartFirst(r)'
  BY <1>1, <1>4 DEF Once, StartFirst, Early
<1>7. RoutesApart(r)' /\ MailOnce(r)'
  BY <1>1, <1>3 DEF Once, RoutesApart, MailOnce, Commits
<1>8. PrunedUntold(r)'
  BY <1>1, <1>5 DEF Once, PrunedUntold, Early
<1>9. \A x \in Reports : x # r => Unmoved(x)
  BY <1>1, <1>3, <1>4 DEF Unmoved
<1>. QED
  BY <1>6, <1>7, <1>8, <1>9, OthersUnmoved DEF Once

\* A step of one request of r that edits its answer and, perhaps, its row or a mail.
LEMMA RequestSteps ==
  ASSUME TypeInv, OnceInv, NEW r \in Reports,
         Request(r) \/ \E c \in {1, 2} : Commit(r, c)
  PROVE  OnceInv'
<1>1. /\ Once(r) /\ UNCHANGED <<start, at, pruning>> /\ ReqTyped
      /\ row \in [Reports -> Row \cup {NoRow}] /\ mails \in [Reports -> Nat]
  BY Parts DEF TypeInv, TypeOK, OnceInv, Request, Commit, PutPiece, Touch, TouchFails, Abandon,
     Release, Flip, Mail, RequestDies, AnswerLost
\* The ways through a PIECE and a COMMIT: what q was, what it is now, and the row.
<1>2. PICK q \in Requests(r), v \in RequestStates :
        /\ req' = [req EXCEPT ![r][q] = v] /\ req[r][q] # "off"
        /\ \/ /\ v = "mail" /\ q \in Commits(r)
              /\ row[r] # NoRow /\ ~row[r].committed
              /\ row' = [row EXCEPT ![r] = CommitReport(@, r \in Followed)] /\ mails' = mails
           \/ /\ v = "ok" /\ q \in Commits(r) /\ row[r] # NoRow /\ row[r].committed
              /\ row' = [row EXCEPT ![r] = CommitReport(@, r \in Followed)] /\ mails' = mails
           \/ /\ v = "ok" /\ req[r][q] = "mail" /\ q \in Commits(r) /\ row' = row
              /\ mails' = [mails EXCEPT ![r] = @ + 1]
           \/ /\ v = "ok" /\ q \notin Commits(r) /\ row' = row /\ mails' = mails
           \/ /\ v = "stored" /\ q \notin Commits(r) /\ row' = row /\ mails' = mails
           \/ /\ v = "flip" /\ q \in Commits(r) /\ row' = row /\ mails' = mails
           \/ /\ v \in {"over", "refused", "abandon", "release", "error"} /\ mails' = mails
              /\ row' = row \/ row' = [row EXCEPT ![r] = NoRow]
  <2>1. \A c \in {1, 2} : <<Size[r], c>> \in Commits(r)
    BY SizeIsNat DEF Commits, Requests
  <2>2. "over" \in RequestStates /\ "ok" \in RequestStates /\ "refused" \in RequestStates
        /\ "abandon" \in RequestStates /\ "stored" \in RequestStates /\ "flip" \in RequestStates
        /\ "release" \in RequestStates /\ "error" \in RequestStates /\ "mail" \in RequestStates
    BY DEF RequestStates, Waiting, Answers
  <2>3. ASSUME NEW c \in {1, 2}, Commit(r, c)
        PROVE  /\ \E v \in {"refused", "abandon", "flip"} : req' = [req EXCEPT ![r][<<Size[r], c>>] = v]
               /\ req[r][<<Size[r], c>>] = "sent" /\ row' = row /\ mails' = mails
    BY <2>3 DEF Commit
  <2>4. CASE \E c \in {1, 2} : Commit(r, c)
    BY <2>1, <2>2, <2>3, <2>4 DEF Commits
  <2>5. ASSUME NEW q \in Requests(r), PutPiece(r, q[1], q[2])
        PROVE  /\ \E v \in {"refused", "abandon", "stored", "ok"} : req' = [req EXCEPT ![r][q] = v]
               /\ req[r][q] = "sent" /\ row' = row /\ mails' = mails /\ q \notin Commits(r)
    <3>1. q = <<q[1], q[2]>> /\ q[1] \in Nat
      BY SizeIsNat DEF Requests
    <3>. QED
      BY <2>5, <3>1, SizeIsNat DEF PutPiece, Commits
  <2>6. ASSUME NEW q \in Requests(r), Touch(r, q) \/ TouchFails(r, q)
        PROVE  /\ req' = [req EXCEPT ![r][q] = "ok"] /\ req[r][q] = "stored"
               /\ row' = row /\ mails' = mails /\ q \notin Commits(r)
    BY <1>1, <2>6 DEF Touch, TouchFails, Once, RoutesApart
  <2>7. ASSUME NEW q \in Requests(r),
               Abandon(r, q) \/ Release(r, q) \/ RequestDies(r, q) \/ AnswerLost(r, q)
        PROVE  /\ \E v \in {"release", "refused", "over"} : req' = [req EXCEPT ![r][q] = v]
               /\ req[r][q] # "off" /\ mails' = mails
               /\ row' = row \/ row' = [row EXCEPT ![r] = NoRow]
    BY <2>7 DEF Abandon, Release, RequestDies, AnswerLost, Waiting, Answers
  <2>8. ASSUME NEW q \in Requests(r), Mail(r, q)
        PROVE  /\ req' = [req EXCEPT ![r][q] = "ok"] /\ req[r][q] = "mail" /\ row' = row
               /\ mails' = [mails EXCEPT ![r] = @ + 1] /\ q \in Commits(r)
    BY <1>1, <2>8 DEF Mail, Once, RoutesApart
  <2>9. ASSUME NEW q \in Requests(r), Flip(r, q)
        PROVE  /\ req' = [req EXCEPT ![r][q] = Outcome(row[r])] /\ req[r][q] = "flip"
               /\ row' = [row EXCEPT ![r] = CommitReport(@, r \in Followed)]
               /\ mails' = mails /\ q \in Commits(r)
    BY <1>1, <2>9 DEF Flip, Once, RoutesApart
  <2>10. ASSUME NEW q \in Requests(r), Flip(r, q), row[r] = NoRow
         PROVE  row' = row
    BY <1>1, <2>9, <2>10 DEF CommitReport
  <2>11. CASE Request(r)
    BY <2>2, <2>5, <2>6, <2>7, <2>8, <2>9, <2>10, <2>11 DEF Request, Outcome
  <2>. QED
    BY <2>4, <2>11
<1>3. /\ \A x \in Reports : \A p \in Requests(x) :
           req'[x][p] = IF x = r /\ p = q THEN v ELSE req[x][p]
      /\ \A x \in Reports : x # r => req'[x] = req[x]
  BY <1>1, <1>2, RequestEdit DEF ReqTyped, RequestsKept
<1>4. at[r] # 0 /\ ~Early(r) /\ ~Early(r)' /\ StartFirst(r)'
  BY <1>1, <1>2 DEF Once, StartFirst, Early
<1>5. /\ \A x \in Reports : x # r => row'[x] = row[x] /\ mails'[x] = mails[x]
      /\ row'[r] \in {row[r], NoRow, CommitReport(row[r], r \in Followed)}
      /\ mails'[r] = IF req[r][q] = "mail" /\ v = "ok" /\ mails' # mails THEN mails[r] + 1 ELSE mails[r]
  BY <1>1, <1>2
<1>6. Acked(r)' <=> Acked(r)
  BY <1>1 DEF Acked
<1>7. \A p \in Commits(r) : req'[r][p] = IF p = q THEN v ELSE req[r][p]
  BY <1>3 DEF Commits
<1>8. ASSUME row[r] # NoRow PROVE /\ CommitReport(row[r], r \in Followed).committed
                                  /\ \A s \in Starters : r \notin pruning[s]
  BY <1>1, <1>8 DEF CommitReport, Row, Once, PrunedUntold
<1>9. RoutesApart(r)'
  BY <1>1, <1>2, <1>3 DEF Once, RoutesApart
<1>10. MailOnce(r)' /\ PrunedUntold(r)'
  <2>1. CASE v = "mail"
    <3>1. ~Told(r) /\ row[r] # NoRow /\ row'[r] = CommitReport(row[r], r \in Followed) /\ mails'[r] = mails[r]
      BY <1>1, <1>2, <2>1 DEF Once, PrunedUntold
    <3>2. mails[r] = 0 /\ \A p \in Commits(r) : req[r][p] # "mail"
      BY <1>1, <3>1 DEF Told, Once, MailOnce
    <3>3. MailOnce(r)'
      BY <1>7, <3>1, <3>2 DEF MailOnce
    <3>. QED
      BY <1>1, <1>8, <3>1, <3>3 DEF PrunedUntold
  <2>2. CASE v = "ok" /\ q \in Commits(r) /\ mails' = mails
    <3>1. row[r] # NoRow /\ row'[r] = CommitReport(row[r], r \in Followed)
      BY <1>1, <1>2, <2>2
    <3>2. MailOnce(r)'
      BY <1>1, <1>7, <2>2 DEF Once, MailOnce
    <3>. QED
      BY <1>1, <1>8, <3>1, <3>2 DEF PrunedUntold
  <2>3. CASE mails' # mails
    <3>1. /\ v = "ok" /\ req[r][q] = "mail" /\ q \in Commits(r) /\ row' = row
          /\ mails'[r] = mails[r] + 1
      BY <1>1, <1>2, <2>3
    <3>2. mails[r] = 0
      BY <1>1, <3>1 DEF Once, MailOnce
    <3>3. Told(r)
      BY <3>1 DEF Told
    <3>4. MailOnce(r)'
      BY <1>1, <1>7, <3>1, <3>2 DEF Once, MailOnce
    <3>5. PrunedUntold(r)'
      BY <1>1, <3>1, <3>3 DEF Once, PrunedUntold
    <3>. QED
      BY <3>4, <3>5
  <2>4. CASE /\ mails' = mails /\ v # "mail"
             /\ row' = row \/ row' = [row EXCEPT ![r] = NoRow]
             /\ q \in Commits(r) => v # "ok"
    <3>1. row'[r] \in {row[r], NoRow}
      BY <1>1, <2>4
    <3>2. Told(r)' => Told(r)
      BY <1>6, <1>7, <2>4 DEF Told, Commits
    <3>3. MailOnce(r)'
      BY <1>1, <1>7, <2>4 DEF Once, MailOnce, Commits
    <3>. QED
      BY <1>1, <1>4, <3>1, <3>2, <3>3 DEF Once, PrunedUntold
  <2>. QED
    BY <1>2, <2>1, <2>2, <2>3, <2>4
<1>11. \A x \in Reports : x # r => Unmoved(x)
  BY <1>1, <1>3, <1>5 DEF Unmoved
<1>. QED
  BY <1>4, <1>9, <1>10, <1>11, OthersUnmoved DEF Once

LEMMA OnceStep == TypeInv /\ OnceInv /\ [Next]_vars => OnceInv'
<1>. SUFFICES ASSUME TypeInv, OnceInv, [Next]_vars PROVE OnceInv'
  OBVIOUS
<1>1. ASSUME \A x \in Reports : Unmoved(x) PROVE OnceInv'
  BY <1>1, UnmovedKeeps DEF OnceInv
<1>2. CASE UNCHANGED vars
  BY <1>1, <1>2 DEF vars, Unmoved
<1>3. CASE Visit
  <2>1. "visitor" \in Starters
    BY DEF Starters
  <2>. QED
    BY <1>3, <2>1, PruneStep DEF OnceInv, Visit
<1>4. ASSUME NEW r \in Reports, StartPrune(r) PROVE OnceInv'
  <2>1. r \in Starters /\ start \in [Reports -> {"off", "over", "ok"} \cup Started]
    BY DEF Starters, TypeInv, TypeOK
  <2>2. \A x \in Reports : start'[x] = start[x] \/ (start[x] = "off" /\ start'[x] = "pruned")
    BY <1>4, <2>1 DEF StartPrune
  <2>. QED
    BY <1>4, <2>1, <2>2, PruneStep DEF OnceInv, StartPrune
<1>5. ASSUME NEW s \in Starters, NEW x \in Reports, PruneDestroys(s, x) \/ PruneFails(s, x)
      PROVE  OnceInv'
  <2>1. /\ UNCHANGED <<row, at, start, req, mails>>
        /\ pruning' = [pruning EXCEPT ![s] = @ \ {x}]
    BY <1>5 DEF PruneDestroys, PruneFails
  <2>2. \A t \in Starters : pruning'[t] \subseteq pruning[t]
    BY <2>1 DEF TypeInv, TypeOK
  <2>. QED
    BY <1>1, <2>1, <2>2 DEF Unmoved
<1>6. ASSUME NEW r \in Reports,
             \/ DropLate(r) \/ RowStale(r) \/ Aged(r) \/ ExpireBegins(r) \/ ExpireWipe(r) \/ ExpireFails(r)
      PROVE  OnceInv'
  BY <1>1, <1>6 DEF Unmoved, DropLate, RowStale, Aged, ExpireBegins, ExpireWipe, ExpireFails
<1>7. ASSUME NEW r \in Reports, ExpireIndex(r)
      PROVE  OnceInv'
  <2>1. /\ UNCHANGED <<at, start, req, mails, pruning>> /\ Once(r)
        /\ row' = [row EXCEPT ![r] = BundleExpired(@)] /\ row \in [Reports -> Row \cup {NoRow}]
    BY <1>7 DEF ExpireIndex, OnceInv, TypeInv, TypeOK
  <2>2. \A x \in Reports : x # r => Unmoved(x)
    BY <2>1 DEF Unmoved
  <2>3. row[r] = NoRow => row'[r] = NoRow
    BY <2>1 DEF BundleExpired
  <2>4. row'[r] # NoRow => row'[r].committed
    BY <2>1 DEF BundleExpired, Row
  <2>5. (Told(r)' <=> Told(r)) /\ (Early(r)' <=> Early(r))
    BY <2>1 DEF Told, Acked, Early
  <2>6. StartFirst(r)' /\ RoutesApart(r)' /\ MailOnce(r)'
    BY <2>1, <2>3, <2>5 DEF Once, StartFirst, RoutesApart, MailOnce
  <2>7. PrunedUntold(r)'
    BY <2>1, <2>3, <2>4, <2>5 DEF Once, PrunedUntold
  <2>. QED
    BY <2>2, <2>6, <2>7, OthersUnmoved DEF Once
<1>8. ASSUME NEW r \in Reports,
             \/ StartReserve(r) \/ StartStore(r) \/ StartFails(r) \/ StartAbandon(r)
             \/ StartRelease(r) \/ StartDies(r) \/ StartAnswered(r) \/ Send(r) \/ Retry(r)
             \/ GiveUp(r) \/ Request(r) \/ \E c \in {1, 2} : Answered(r, c) \/ Commit(r, c)
      PROVE  OnceInv'
  BY <1>8, StartSteps, ClientSteps, RequestSteps
<1>. QED
  BY <1>2, <1>3, <1>4, <1>5, <1>6, <1>7, <1>8 DEF Next

\* However often COMMIT is repeated and wherever its Workers die, the maintainer
\* gets one mail at most; and once the client was told that its report is stored,
\* no prune of idle uploads is left that destroys it.  A PIECE that found the drop
\* expired may still abandon it (handlers.ts:412-414): that is AckedIsKept, which
\* does not hold.
THEOREM CommitIsOnce == Spec => []CommitsOnce
<1>1. TypeInv /\ OnceInv => CommitsOnce
  BY DEF CommitsOnce, EmailOnce, AckedIsNotPruned, OnceInv, Once, MailOnce, PrunedUntold, Told
<1>. QED
  BY <1>1, TypeInit, TypeStep, OnceInit, OnceStep, PTL DEF Spec
=============================================================================
