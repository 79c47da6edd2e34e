--------------------------- MODULE ShareDropProofs ---------------------------
(***************************************************************************)
(* For an upload of any size, a batch of any size and any number of        *)
(* readers: a drop of the hosted relay is read whole or not at all, by one *)
(* reader at most, and moves as the relay's contract says.                 *)
(***************************************************************************)
EXTENDS ShareDrop, FiniteSetTheorems, TLAPS

-----------------------------------------------------------------------------
(* The inductive invariant                                                 *)

\* What is stored has its tables and its alarm; an open drop has the chunks that
\* were sent, in order, and only a complete one is claimed.
StoredSound ==
  /\ schema <=> meta # "none"
  /\ schema => alarm
  /\ meta = "none" => rows = {}
  /\ meta = "open" => rows = 0 .. sent - 1
  /\ meta = "claimed" => sent = count

\* A PUT that began has sent something; one that was answered has sent it all.
UploadSound ==
  /\ put = "idle" => meta = "none" /\ sent = 0 /\ count = 0
  /\ put # "idle" => sent > 0 /\ sent <= count
  /\ put = "done" => sent = count

\* The GET that claimed the drop, however far it came.
Claims(r) == get[r] \in {"reading", "200", "cut"} \/ got[r] # {}

\* There is one at most, and the drop was complete when it came.
OneClaims ==
  /\ \A r, q \in Readers : Claims(r) /\ Claims(q) => r = q
  /\ \A r \in Readers : Claims(r) => put # "idle" /\ meta # "open" /\ sent = count

\* As long as the drop is there its reader has what is gone from it.
DownloadSound ==
  \A r \in Readers :
    /\ get[r] = "idle" => from[r] = 0 /\ got[r] = {}
    /\ get[r] = "reading" => got[r] \subseteq 0 .. count - 1
    /\ get[r] = "reading" /\ meta = "claimed" =>
         /\ from[r] < count
         /\ got[r] = 0 .. from[r] - 1
         /\ rows = from[r] .. count - 1
    /\ get[r] = "200" => got[r] = 0 .. count - 1

\* A HEAD that found nothing after the PUT's answer came too late for good.
AbsentSound == sawAbsent => put = "done" /\ (meta # "open" \/ age > Ttl)

IInv == TypeOK /\ StoredSound /\ UploadSound /\ OneClaims /\ DownloadSound /\ AbsentSound

-----------------------------------------------------------------------------
(* Chunks                                                                  *)

\* Chunks are numbered from 0, and a full set of them has the whole count.
LEMMA CountOf ==
  ASSUME NEW n \in Nat
  PROVE  IsFiniteSet(0 .. n - 1) /\ Cardinality(0 .. n - 1) = n
<1>1. IsFiniteSet(0 .. n - 1) /\ Cardinality(0 .. n - 1) = IF 0 > n - 1 THEN 0 ELSE n - 1 - 0 + 1
  BY FS_Interval
<1>. QED
  BY <1>1

LEMMA WholeSet ==
  ASSUME NEW n \in Nat, NEW S \in SUBSET (0 .. n - 1), Cardinality(S) = n
  PROVE  S = 0 .. n - 1
BY CountOf, FS_Subset

LEMMA Numbers ==
  /\ MaxChunks \in Nat /\ Batch \in Nat /\ Batch > 0 /\ Ttl \in Nat
  /\ TypeOK => count \in Nat /\ sent \in Nat /\ age \in Nat /\ \A r \in Readers : from[r] \in Nat
BY ShareAssumption DEF TypeOK

\* An open drop can be read when its upload is complete and its time is not over.
LEMMA PresentIs ==
  ASSUME IInv
  PROVE  schema /\ IsPresent <=> meta = "open" /\ sent = count /\ age <= Ttl
<1>1. meta = "open" => Cardinality(rows) = sent
  BY Numbers, CountOf DEF IInv, StoredSound
<1>. QED
  BY <1>1 DEF IInv, StoredSound, IsPresent

-----------------------------------------------------------------------------
(* Every step keeps the invariant                                          *)

LEMMA InitIInv ==
  ASSUME Init
  PROVE  IInv
<1>1. TypeOK
  <2>1. /\ count \in 0 .. MaxChunks /\ sent \in 0 .. MaxChunks /\ age \in 0 .. Ttl + 1
        /\ 0 \in 0 .. MaxChunks + Batch
    BY Numbers DEF Init
  <2>2. /\ get \in [Readers -> {"idle", "reading", "200", "404", "cut"}]
        /\ from \in [Readers -> 0 .. MaxChunks + Batch]
        /\ got \in [Readers -> SUBSET (0 .. MaxChunks - 1)]
    BY <2>1 DEF Init
  <2>. QED
    BY <2>1, <2>2 DEF Init, TypeOK
<1>. QED
  BY <1>1 DEF Init, IInv, StoredSound, UploadSound, OneClaims, Claims, DownloadSound, AbsentSound

LEMMA PutStoreKeeps ==
  ASSUME IInv, PutStore
  PROVE  IInv'
<1>. USE Numbers
<1>1. PICK n \in 1 .. MaxChunks :
      /\ put = "idle" /\ count' = n /\ sent' = IF Batch <= n THEN Batch ELSE n
      /\ schema' = TRUE /\ meta' = "open" /\ rows' = 0 .. sent' - 1 /\ alarm' = TRUE /\ age' = 0
      /\ put' = "sending" /\ UNCHANGED <<get, from, got, sawAbsent>>
  BY DEF PutStore, download
<1>2. sent' \in 1 .. n /\ n \in 1 .. MaxChunks
  BY <1>1
<1>3. TypeOK'
  BY <1>1, <1>2 DEF IInv, TypeOK
<1>4. StoredSound' /\ UploadSound'
  BY <1>1, <1>2 DEF StoredSound, UploadSound
<1>5. \A r \in Readers : ~Claims(r) /\ Claims(r)' = Claims(r)
  BY <1>1 DEF IInv, OneClaims, Claims
<1>6. OneClaims'
  BY <1>5 DEF OneClaims
<1>7. DownloadSound'
  BY <1>1, <1>5 DEF IInv, DownloadSound, Claims
<1>8. AbsentSound'
  BY <1>1 DEF IInv, AbsentSound
<1>. QED
  BY <1>3, <1>4, <1>6, <1>7, <1>8 DEF IInv

LEMMA PutAppendKeeps ==
  ASSUME IInv, PutAppend
  PROVE  IInv'
<1>. USE Numbers
<1>. DEFINE have == Cardinality(rows)
            batch == UpTo(sent + Batch) - sent
<1>1. /\ put = "sending" /\ sent < count
      /\ UNCHANGED <<schema, meta, alarm, age, count, get, from, got, sawAbsent>>
  BY DEF PutAppend, download
<1>2. sent \in Nat /\ count \in Nat /\ sent > 0 /\ count <= MaxChunks
  BY <1>1 DEF IInv, UploadSound, TypeOK
<1>3. batch \in 1 .. count - sent
  BY <1>1, <1>2 DEF UpTo
<1>4. \A r \in Readers : ~Claims(r)
  BY <1>1, <1>2 DEF IInv, OneClaims
<1>5. \A r \in Readers : Claims(r)' = Claims(r)
  BY <1>1 DEF Claims
<1>6. OneClaims' /\ DownloadSound'
  BY <1>1, <1>4, <1>5 DEF IInv, OneClaims, DownloadSound, Claims
<1>7. ~sawAbsent' /\ AbsentSound'
  BY <1>1 DEF IInv, AbsentSound
<1>8. CASE schema /\ meta # "none" /\ have + batch <= count
  <2>1. rows' = rows \cup have .. have + batch - 1 /\ sent' = sent + batch /\ put' = put
    BY <1>8 DEF PutAppend
  <2>2. meta = "open" /\ rows = 0 .. sent - 1
    BY <1>1, <1>2, <1>8 DEF IInv, StoredSound, TypeOK
  <2>3. have = sent
    BY <1>2, <2>2, CountOf
  <2>. HIDE DEF have, batch
  <2>4. rows' = 0 .. sent' - 1 /\ sent' \in 1 .. count
    BY <1>2, <1>3, <2>1, <2>2, <2>3
  <2>5. TypeOK'
    BY <1>1, <1>2, <2>1, <2>4 DEF IInv, TypeOK
  <2>6. StoredSound' /\ UploadSound'
    BY <1>1, <1>2, <2>1, <2>2, <2>4 DEF IInv, StoredSound, UploadSound
  <2>. QED
    BY <1>6, <1>7, <2>5, <2>6 DEF IInv
<1>9. CASE ~(schema /\ meta # "none" /\ have + batch <= count)
  <2>1. put' = "error" /\ UNCHANGED <<rows, sent>>
    BY <1>9 DEF PutAppend
  <2>2. TypeOK' /\ StoredSound' /\ UploadSound'
    BY <1>1, <1>2, <2>1 DEF IInv, TypeOK, StoredSound, UploadSound
  <2>. QED
    BY <1>6, <1>7, <2>2 DEF IInv, OneClaims
<1>. QED
  BY <1>8, <1>9

\* The PUT is answered, or cut.
LEMMA PutEndsKeeps ==
  ASSUME IInv, PutAnswer \/ PutCut
  PROVE  IInv'
<1>1. /\ put = "sending" /\ put' \in {"done", "cut"} /\ (put' = "done" => sent = count)
      /\ UNCHANGED <<schema, meta, rows, alarm, age, sent, count, get, from, got, sawAbsent>>
  BY DEF PutAnswer, PutCut, store, download
<1>2. TypeOK' /\ StoredSound' /\ UploadSound'
  BY <1>1 DEF IInv, TypeOK, StoredSound, UploadSound
<1>3. OneClaims' /\ DownloadSound'
  BY <1>1 DEF IInv, OneClaims, Claims, DownloadSound
<1>4. AbsentSound'
  BY <1>1 DEF IInv, AbsentSound
<1>. QED
  BY <1>2, <1>3, <1>4 DEF IInv

\* A wiped drop leaves its readers with what they have.
LEMMA WipeKeeps ==
  ASSUME IInv, schema' = FALSE, meta' = "none", rows' = {}, alarm' \in {FALSE, alarm},
         UNCHANGED <<age, upload, download, sawAbsent>>
  PROVE  IInv'
<1>1. UNCHANGED <<age, put, sent, count, get, from, got, sawAbsent>>
  BY DEF upload, download
<1>2. TypeOK' /\ StoredSound' /\ UploadSound'
  BY <1>1 DEF IInv, TypeOK, StoredSound, UploadSound
<1>3. OneClaims' /\ DownloadSound'
  BY <1>1 DEF IInv, OneClaims, Claims, DownloadSound
<1>4. AbsentSound'
  BY <1>1 DEF IInv, AbsentSound
<1>. QED
  BY <1>2, <1>3, <1>4 DEF IInv

LEMMA GetConsumeKeeps ==
  ASSUME IInv, NEW r \in Readers, GetConsume(r)
  PROVE  IInv'
<1>. USE Numbers
<1>1. get[r] = "idle" /\ UNCHANGED <<age, put, sent, count, from, got, sawAbsent>>
  BY DEF GetConsume, upload
<1>2. from[r] = 0 /\ got[r] = {}
  BY <1>1 DEF IInv, DownloadSound
<1>3. CASE /\ schema /\ IsPresent /\ meta' = "claimed"
           /\ get' = [get EXCEPT ![r] = "reading"] /\ UNCHANGED <<schema, rows, alarm>>
  <2>1. meta = "open" /\ sent = count /\ age <= Ttl
    BY <1>3, PresentIs
  <2>2. rows = 0 .. count - 1 /\ count > 0 /\ put # "idle" /\ ~sawAbsent
    BY <2>1 DEF IInv, StoredSound, UploadSound, AbsentSound
  <2>3. \A q \in Readers : ~Claims(q)
    BY <2>1 DEF IInv, OneClaims
  <2>4. get' \in [Readers -> {"idle", "reading", "200", "404", "cut"}] /\ get'[r] = "reading"
        /\ \A q \in Readers : q # r => get'[q] = get[q]
    BY <1>3 DEF IInv, TypeOK
  <2>5. TypeOK'
    BY <1>1, <1>3, <2>4 DEF IInv, TypeOK
  <2>6. StoredSound' /\ UploadSound'
    BY <1>1, <1>3, <2>1, <2>2 DEF IInv, StoredSound, UploadSound
  <2>7. \A q \in Readers : q # r => ~Claims(q)'
    BY <1>1, <2>3, <2>4 DEF Claims
  <2>8. OneClaims'
    BY <1>1, <1>3, <2>1, <2>2, <2>7 DEF OneClaims
  <2>9. ASSUME NEW q \in Readers
        PROVE  /\ get'[q] = "idle" => from'[q] = 0 /\ got'[q] = {}
               /\ get'[q] # "200" \/ q = r
               /\ get'[q] = "reading" => q = r
    BY <1>1, <2>3, <2>4 DEF IInv, DownloadSound, Claims
  <2>10. /\ got'[r] = 0 .. from'[r] - 1 /\ rows' = from'[r] .. count - 1 /\ from'[r] < count'
         /\ count' = count /\ got'[r] \subseteq 0 .. count - 1
    BY <1>1, <1>2, <1>3, <2>2
  <2>11. DownloadSound'
    BY <2>4, <2>9, <2>10 DEF DownloadSound
  <2>12. AbsentSound'
    BY <1>1, <2>2 DEF AbsentSound
  <2>. QED
    BY <2>5, <2>6, <2>8, <2>11, <2>12 DEF IInv
<1>4. CASE /\ get' = [get EXCEPT ![r] = "404"]
           /\ Destroy \/ UNCHANGED store
  <2>1. get' \in [Readers -> {"idle", "reading", "200", "404", "cut"}] /\ get'[r] = "404"
        /\ \A q \in Readers : q # r => get'[q] = get[q]
    BY <1>4 DEF IInv, TypeOK
  <2>2. /\ (schema' <=> meta' # "none") /\ (schema' => alarm') /\ alarm' \in BOOLEAN
        /\ \/ meta' = meta /\ rows' = rows
           \/ meta' = "none" /\ rows' = {}
    <3>1. CASE Destroy
      <4>1. schema' = FALSE /\ meta' = "none" /\ rows' = {} /\ (alarm' = FALSE \/ alarm' = alarm)
        BY <3>1 DEF Destroy
      <4>. QED
        BY <4>1 DEF IInv, TypeOK
    <3>2. CASE UNCHANGED store
      BY <3>2 DEF store, IInv, TypeOK, StoredSound
    <3>. QED
      BY <1>4, <3>1, <3>2
  <2>3. TypeOK'
    BY <1>1, <1>4, <2>1, <2>2 DEF IInv, TypeOK, Destroy, store
  <2>4. StoredSound' /\ UploadSound'
    BY <1>1, <1>4, <2>2 DEF IInv, StoredSound, UploadSound, Destroy, store
  <2>5. \A q \in Readers : Claims(q)' => Claims(q)
    BY <1>1, <2>1 DEF Claims
  <2>6. meta' # "open" \/ meta = "open"
    BY <2>2
  <2>7. OneClaims' /\ AbsentSound'
    BY <1>1, <2>5, <2>6 DEF IInv, OneClaims, AbsentSound
  <2>8. ASSUME NEW q \in Readers
        PROVE  /\ get'[q] = "idle" => from'[q] = 0 /\ got'[q] = {}
               /\ get'[q] = "reading" => got'[q] \subseteq 0 .. count' - 1
               /\ get'[q] = "reading" /\ meta' = "claimed" =>
                    from'[q] < count' /\ got'[q] = 0 .. from'[q] - 1 /\ rows' = from'[q] .. count' - 1
               /\ get'[q] = "200" => got'[q] = 0 .. count' - 1
    BY <1>1, <2>1, <2>2 DEF IInv, DownloadSound
  <2>9. DownloadSound'
    BY <2>8 DEF DownloadSound
  <2>. QED
    BY <2>3, <2>4, <2>7, <2>9 DEF IInv
<1>. QED
  BY <1>3, <1>4 DEF GetConsume

\* A batch moves from the drop to its reader; the last one wipes the drop.
LEMMA TakeBatch ==
  ASSUME IInv, NEW r \in Readers, GetTake(r), schema /\ meta # "none",
         NEW n, n = from[r] + Batch
  PROVE  /\ meta = "claimed" /\ got' \in [Readers -> SUBSET (0 .. MaxChunks - 1)]
         /\ got'[r] = 0 .. (IF n <= count THEN n ELSE count) - 1
         /\ \A q \in Readers : q # r => got'[q] = got[q]
         /\ IF n >= count
            THEN schema' = FALSE /\ meta' = "none" /\ rows' = {} /\ alarm' \in {FALSE, alarm}
            ELSE rows' = n .. count - 1 /\ UNCHANGED <<schema, meta, alarm>>
<1>. USE Numbers
<1>. DEFINE batch == {i \in rows : from[r] <= i /\ i < from[r] + Batch}
<1>1. /\ get[r] = "reading" /\ from[r] < count /\ got' = [got EXCEPT ![r] = @ \cup batch]
      /\ IF rows \subseteq batch THEN Destroy ELSE rows' = rows \ batch /\ UNCHANGED <<schema, meta, alarm>>
  BY DEF GetTake
<1>2. from[r] \in Nat /\ count \in Nat /\ n \in Nat /\ count <= MaxChunks
  BY DEF IInv, TypeOK
<1>3. meta = "claimed" /\ got[r] = 0 .. from[r] - 1 /\ rows = from[r] .. count - 1
  BY <1>1 DEF IInv, TypeOK, OneClaims, Claims, DownloadSound
<1>4. batch = from[r] .. (IF n <= count THEN n ELSE count) - 1
  BY <1>2, <1>3
<1>5. got[r] \cup batch = 0 .. (IF n <= count THEN n ELSE count) - 1
  BY <1>1, <1>2, <1>3, <1>4
<1>6. got[r] \cup batch \in SUBSET (0 .. MaxChunks - 1)
  BY <1>2, <1>5
<1>7. /\ got' \in [Readers -> SUBSET (0 .. MaxChunks - 1)] /\ got'[r] = got[r] \cup batch
      /\ \A q \in Readers : q # r => got'[q] = got[q]
  BY <1>1, <1>6 DEF IInv, TypeOK
<1>8. CASE n >= count
  <2>1. rows \subseteq batch
    BY <1>2, <1>3, <1>4, <1>8
  <2>. QED
    BY <1>1, <1>3, <1>5, <1>7, <1>8, <2>1 DEF Destroy
<1>9. CASE ~(n >= count)
  <2>1. n \in rows /\ n \notin batch
    BY <1>2, <1>3, <1>9
  <2>2. rows' = rows \ batch /\ UNCHANGED <<schema, meta, alarm>>
    BY <1>1, <2>1
  <2>3. rows \ batch = n .. count - 1
    BY <1>2, <1>3, <1>4, <1>9
  <2>. QED
    BY <1>3, <1>5, <1>7, <1>9, <2>2, <2>3
<1>. QED
  BY <1>8, <1>9

LEMMA GetTakeKeeps ==
  ASSUME IInv, NEW r \in Readers, GetTake(r)
  PROVE  IInv'
<1>. USE Numbers
<1>1. PICK n : n = from[r] + Batch
  OBVIOUS
<1>2. /\ get[r] = "reading" /\ from[r] < count /\ from' = [from EXCEPT ![r] = n]
      /\ UNCHANGED <<age, put, sent, count, get, sawAbsent>>
  BY <1>1 DEF GetTake, upload
<1>3. /\ count \in Nat /\ n \in Nat /\ count <= MaxChunks /\ n \in 0 .. MaxChunks + Batch
  BY <1>1, <1>2 DEF IInv, TypeOK
<1>4. Claims(r) /\ put # "idle" /\ meta # "open" /\ sent = count
  BY <1>2 DEF IInv, OneClaims, Claims
<1>5. from' \in [Readers -> 0 .. MaxChunks + Batch] /\ from'[r] = n
      /\ \A q \in Readers : q # r => from'[q] = from[q]
  BY <1>2, <1>3 DEF IInv, TypeOK
<1>6. \A q \in Readers : q # r => ~Claims(q)
  BY <1>4 DEF IInv, OneClaims
<1>7. CASE schema /\ meta # "none"
  <2>1. /\ meta = "claimed" /\ got' \in [Readers -> SUBSET (0 .. MaxChunks - 1)]
        /\ got'[r] = 0 .. (IF n <= count THEN n ELSE count) - 1
        /\ \A q \in Readers : q # r => got'[q] = got[q]
        /\ IF n >= count
           THEN schema' = FALSE /\ meta' = "none" /\ rows' = {} /\ alarm' \in {FALSE, alarm}
           ELSE rows' = n .. count - 1 /\ UNCHANGED <<schema, meta, alarm>>
    BY <1>1, <1>7, TakeBatch
  <2>2. got'[r] \subseteq 0 .. count - 1
    BY <1>3, <2>1
  <2>3. ASSUME NEW q \in Readers, q # r
        PROVE  /\ get[q] \notin {"reading", "200"}
               /\ get[q] = "idle" => from'[q] = 0 /\ got'[q] = {}
    BY <1>5, <1>6, <2>1, <2>3 DEF IInv, DownloadSound, Claims
  <2>4. \A q \in Readers : q # r => ~Claims(q)'
    BY <1>2, <1>6, <2>1 DEF Claims
  <2>5. CASE n >= count
    <3>1. schema' = FALSE /\ meta' = "none" /\ rows' = {} /\ alarm' \in {FALSE, alarm}
      BY <2>1, <2>5
    <3>2. TypeOK'
      BY <1>2, <1>5, <2>1, <3>1 DEF IInv, TypeOK
    <3>3. StoredSound' /\ UploadSound'
      BY <1>2, <3>1 DEF IInv, StoredSound, UploadSound
    <3>4. OneClaims' /\ AbsentSound'
      BY <1>2, <1>4, <2>4, <3>1 DEF IInv, OneClaims, AbsentSound
    <3>5. DownloadSound'
      BY <1>2, <2>2, <2>3, <3>1 DEF DownloadSound
    <3>. QED
      BY <3>2, <3>3, <3>4, <3>5 DEF IInv
  <2>6. CASE ~(n >= count)
    <3>1. /\ rows' = n .. count - 1 /\ UNCHANGED <<schema, meta, alarm>>
          /\ got'[r] = 0 .. n - 1 /\ n < count
      BY <1>3, <2>1, <2>6
    <3>2. TypeOK'
      <4>1. rows' \subseteq 0 .. MaxChunks - 1
        BY <1>3, <3>1
      <4>. QED
        BY <1>2, <1>5, <2>1, <3>1, <4>1 DEF IInv, TypeOK
    <3>3. StoredSound' /\ UploadSound'
      BY <1>2, <2>1, <3>1 DEF IInv, StoredSound, UploadSound
    <3>4. OneClaims' /\ AbsentSound'
      BY <1>2, <1>4, <2>4, <3>1 DEF IInv, OneClaims, AbsentSound
    <3>5. DownloadSound'
      BY <1>2, <1>5, <2>2, <2>3, <3>1 DEF DownloadSound
    <3>. QED
      BY <3>2, <3>3, <3>4, <3>5 DEF IInv
  <2>. QED
    BY <2>5, <2>6
<1>8. CASE ~(schema /\ meta # "none")
  <2>1. UNCHANGED <<got, schema, meta, rows, alarm>>
    BY <1>8 DEF GetTake, store
  <2>2. meta = "none"
    BY <1>8 DEF IInv, StoredSound
  <2>3. TypeOK'
    BY <1>2, <1>5, <2>1 DEF IInv, TypeOK
  <2>4. StoredSound' /\ UploadSound' /\ OneClaims' /\ AbsentSound'
    BY <1>2, <2>1 DEF IInv, StoredSound, UploadSound, OneClaims, Claims, AbsentSound
  <2>5. DownloadSound'
    BY <1>2, <1>5, <2>1, <2>2 DEF IInv, DownloadSound
  <2>. QED
    BY <2>3, <2>4, <2>5 DEF IInv
<1>. QED
  BY <1>7, <1>8

\* A download ends in an answer or in nothing.
LEMMA GetEndsKeeps ==
  ASSUME IInv, NEW r \in Readers, GetAnswer(r) \/ GetCut(r)
  PROVE  IInv'
<1>. USE Numbers
<1>1. PICK end \in {"200", "404", "cut"} :
      /\ get[r] = "reading" /\ get' = [get EXCEPT ![r] = end]
      /\ end = "200" => Cardinality(got[r]) = count
      /\ UNCHANGED <<schema, meta, rows, alarm, age, put, sent, count, from, got, sawAbsent>>
  BY DEF GetAnswer, GetCut, store, upload
<1>2. end = "200" => got[r] = 0 .. count - 1
  BY <1>1, WholeSet DEF IInv, DownloadSound
<1>3. get' \in [Readers -> {"idle", "reading", "200", "404", "cut"}] /\ get'[r] = end
      /\ \A q \in Readers : q # r => get'[q] = get[q]
  BY <1>1 DEF IInv, TypeOK
<1>4. TypeOK' /\ StoredSound' /\ UploadSound' /\ AbsentSound'
  BY <1>1, <1>3 DEF IInv, TypeOK, StoredSound, UploadSound, AbsentSound
<1>5. \A q \in Readers : Claims(q)' => Claims(q)
  BY <1>1, <1>3 DEF Claims
<1>6. OneClaims'
  BY <1>1, <1>5 DEF IInv, OneClaims
<1>7. DownloadSound'
  BY <1>1, <1>2, <1>3 DEF IInv, DownloadSound
<1>. QED
  BY <1>4, <1>6, <1>7 DEF IInv

LEMMA PeekKeeps ==
  ASSUME IInv, Peek
  PROVE  IInv'
<1>1. /\ sawAbsent' = (sawAbsent \/ (put = "done" /\ ~(schema /\ IsPresent)))
      /\ UNCHANGED <<schema, meta, rows, alarm, age, put, sent, count, get, from, got>>
  BY DEF Peek, store, upload, download
<1>2. TypeOK' /\ StoredSound' /\ UploadSound' /\ OneClaims' /\ DownloadSound'
  BY <1>1 DEF IInv, TypeOK, StoredSound, UploadSound, OneClaims, Claims, DownloadSound
<1>3. put = "done" /\ ~(schema /\ IsPresent) => meta # "open" \/ age > Ttl
  BY PresentIs, Numbers DEF IInv, UploadSound
<1>4. AbsentSound'
  BY <1>1, <1>3 DEF IInv, AbsentSound
<1>. QED
  BY <1>2, <1>4 DEF IInv

LEMMA TickKeeps ==
  ASSUME IInv, Tick
  PROVE  IInv'
<1>1. /\ age <= Ttl /\ age' = age + 1
      /\ UNCHANGED <<schema, meta, rows, alarm, put, sent, count, get, from, got, sawAbsent>>
  BY DEF Tick, store, upload, download
<1>2. TypeOK'
  BY <1>1, Numbers DEF IInv, TypeOK
<1>3. StoredSound' /\ UploadSound' /\ OneClaims' /\ DownloadSound'
  BY <1>1 DEF IInv, StoredSound, UploadSound, OneClaims, Claims, DownloadSound
<1>4. AbsentSound'
  BY <1>1, Numbers DEF IInv, AbsentSound
<1>. QED
  BY <1>2, <1>3, <1>4 DEF IInv

LEMMA NextIInv == IInv /\ [Next]_vars => IInv'
<1>. SUFFICES ASSUME IInv, [Next]_vars PROVE IInv'
  OBVIOUS
<1>1. CASE PutStore \/ PutAppend \/ PutAnswer \/ PutCut
  BY <1>1, PutStoreKeeps, PutAppendKeeps, PutEndsKeeps
<1>2. ASSUME NEW r \in Readers, GetConsume(r) \/ GetTake(r) \/ GetAnswer(r) \/ GetCut(r)
      PROVE  IInv'
  BY <1>2, GetConsumeKeeps, GetTakeKeeps, GetEndsKeeps
<1>3. CASE Peek \/ Tick
  BY <1>3, PeekKeeps, TickKeeps
<1>4. CASE Delete \/ Alarm
  BY <1>4, WipeKeeps DEF Delete, Alarm, Destroy
<1>5. CASE UNCHANGED vars
  BY <1>5 DEF vars, store, upload, download, IInv, TypeOK, StoredSound, UploadSound, OneClaims,
     Claims, DownloadSound, AbsentSound
<1>. QED
  BY <1>1, <1>2, <1>3, <1>4, <1>5 DEF Next

LEMMA DropInvariant == Spec => []IInv
<1>1. Init => IInv
  BY InitIInv
<1>. QED
  BY <1>1, NextIInv, PTL DEF Spec

-----------------------------------------------------------------------------
(* The drop keeps the relay's contract                                     *)

\* What the phase of the drop depends on.
Delivered == \E r \in Readers : get[r] = "200"
HasAll == \E r \in Readers : get[r] = "reading" /\ got[r] = 0 .. count - 1

LEMMA PhaseIs ==
  /\ Delivered => PhaseOf = "delivered"
  /\ ~Delivered /\ (meta = "claimed" \/ HasAll) => PhaseOf = "claimed"
  /\ ~Delivered /\ meta # "claimed" /\ ~HasAll =>
       PhaseOf = IF sent = 0 \/ sent < count THEN "unused"
                 ELSE IF meta = "open" THEN "present" ELSE "gone"
<1>. DEFINE A == \E r \in Readers : get[r] = "200"
            B == /\ \A r \in Readers : get[r] # "200"
                 /\ \/ meta = "claimed"
                    \/ \E q \in Readers : get[q] = "reading" /\ got[q] = 0 .. count - 1
            C == IF sent = 0 \/ sent < count THEN "unused"
                 ELSE IF meta = "open" THEN "present" ELSE "gone"
<1>1. PhaseOf = CASE A -> "delivered" [] B -> "claimed" [] OTHER -> C
  BY DEF PhaseOf
<1>2. A <=> Delivered
  BY DEF Delivered
<1>3. B <=> ~Delivered /\ (meta = "claimed" \/ HasAll)
  BY DEF Delivered, HasAll
<1>. HIDE DEF A, B, C
<1>4. ~Delivered /\ meta # "claimed" /\ ~HasAll => PhaseOf = C
  BY <1>1, <1>2, <1>3
<1>5. Delivered => PhaseOf = "delivered"
  BY <1>1, <1>2, <1>3
<1>6. ~Delivered /\ (meta = "claimed" \/ HasAll) => PhaseOf = "claimed"
  BY <1>1, <1>2, <1>3
<1>. QED
  BY <1>4, <1>5, <1>6 DEF C

LEMMA PhaseNext ==
  (/\ Delivered => PhaseOf = "delivered"
   /\ ~Delivered /\ (meta = "claimed" \/ HasAll) => PhaseOf = "claimed"
   /\ ~Delivered /\ meta # "claimed" /\ ~HasAll =>
        PhaseOf = IF sent = 0 \/ sent < count THEN "unused"
                  ELSE IF meta = "open" THEN "present" ELSE "gone")'
BY PhaseIs, PTL

\* A drop that is claimed or read was complete and cannot be read again.
LEMMA ClaimedIs ==
  ASSUME IInv
  PROVE  /\ Delivered \/ HasAll => meta # "open"
         /\ Delivered \/ HasAll \/ meta = "claimed" => sent = count /\ sent > 0
BY DEF IInv, Delivered, HasAll, OneClaims, Claims, UploadSound, StoredSound

Moved == PhaseOf' = PhaseOf \/ <<PhaseOf, PhaseOf'>> \in Contract!Moves

\* Nothing is added: the phase stays, or the drop is gone.
LEMMA Fades ==
  ASSUME IInv, Delivered' = Delivered, HasAll' => HasAll, meta' \in {meta, "none"},
         sent' = sent, count' = count
  PROVE  Moved
<1>. USE ClaimedIs, PhaseIs, PhaseNext DEF Moved, Contract!Moves
<1>1. Delivered \in BOOLEAN /\ Delivered' \in BOOLEAN
  BY DEF Delivered
<1>2. CASE Delivered
  <2>1. Delivered'
    BY <1>1, <1>2
  <2>. QED
    BY <1>2, <2>1
<1>3. CASE ~Delivered
  <2>1. ~Delivered'
    BY <1>1, <1>3
  <2>2. CASE meta' = "claimed" \/ HasAll'
    BY <1>3, <2>1, <2>2
  <2>3. CASE ~(meta' = "claimed" \/ HasAll') /\ (meta = "claimed" \/ HasAll)
    <3>1. sent' = count' /\ sent' > 0 /\ meta' # "open"
      BY <2>3
    <3>2. ~(sent' = 0 \/ sent' < count')
      BY <3>1, Numbers DEF IInv
    <3>. QED
      BY <1>3, <2>1, <2>3, <3>1, <3>2
  <2>4. CASE ~(meta' = "claimed" \/ HasAll') /\ ~(meta = "claimed" \/ HasAll)
    BY <1>3, <2>1, <2>4
  <2>. QED
    BY <2>2, <2>3, <2>4
<1>. QED
  BY <1>2, <1>3

\* An upload that is under way has no reader.
LEMMA PutMoves ==
  ASSUME IInv, IInv', PutStore \/ PutAppend
  PROVE  Moved
<1>. USE Numbers, ClaimedIs, PhaseIs, PhaseNext DEF Moved, Contract!Moves
<1>1. UNCHANGED <<get, got>>
  BY DEF PutStore, PutAppend, download
<1>2. CASE PutStore
  <2>1. sent = 0 /\ meta' = "open" /\ ~Delivered /\ ~HasAll /\ meta # "claimed"
    BY <1>2 DEF PutStore, IInv, UploadSound, OneClaims, Claims, Delivered, HasAll
  <2>2. ~Delivered' /\ ~HasAll'
    BY <1>1, <1>2 DEF PutStore, IInv, OneClaims, Claims, Delivered, HasAll
  <2>. QED
    BY <2>1, <2>2
<1>3. CASE PutAppend
  <2>1. sent < count /\ count' = count /\ meta' = meta /\ sent \in Nat /\ count \in Nat
    BY <1>3 DEF PutAppend, IInv
  <2>2. ~Delivered /\ ~HasAll /\ meta # "claimed"
    BY <2>1
  <2>3. ~Delivered' /\ ~HasAll'
    BY <1>1, <2>1, <2>2 DEF Delivered, HasAll
  <2>4. sent' = sent \/ meta = "open"
    BY <1>3, <2>2 DEF PutAppend, IInv, TypeOK
  <2>. QED
    BY <2>1, <2>2, <2>3, <2>4
<1>. QED
  BY <1>2, <1>3

LEMMA GetConsumeMoves ==
  ASSUME IInv, NEW r \in Readers, GetConsume(r)
  PROVE  Moved
<1>1. get[r] = "idle" /\ UNCHANGED <<sent, count, got>>
  BY DEF GetConsume, upload
<1>2. CASE schema /\ IsPresent /\ meta' = "claimed" /\ get' = [get EXCEPT ![r] = "reading"]
  <2>1. meta = "open" /\ sent = count
    BY <1>2, PresentIs
  <2>2. ~Delivered /\ ~HasAll /\ sent > 0 /\ sent \in Nat
    BY <2>1, ClaimedIs, Numbers DEF IInv, StoredSound, UploadSound
  <2>3. ~Delivered'
    BY <1>2, <2>2 DEF Delivered, IInv, TypeOK
  <2>4. PhaseOf = "present" /\ PhaseOf' = "claimed"
    BY <1>2, <2>1, <2>2, <2>3, PhaseIs, PhaseNext
  <2>. QED
    BY <2>4 DEF Moved, Contract!Moves
<1>3. CASE get' = [get EXCEPT ![r] = "404"] /\ (Destroy \/ UNCHANGED store)
  <2>1. Delivered' = Delivered
    BY <1>1, <1>3 DEF Delivered, IInv, TypeOK
  <2>2. HasAll' => HasAll
    BY <1>1, <1>3 DEF HasAll, IInv, TypeOK
  <2>3. meta' \in {meta, "none"}
    BY <1>3 DEF Destroy, store
  <2>. QED
    BY <1>1, <2>1, <2>2, <2>3, Fades
<1>. QED
  BY <1>2, <1>3 DEF GetConsume

\* The reader that takes keeps the drop claimed until it has it all.
LEMMA GetTakeMoves ==
  ASSUME IInv, NEW r \in Readers, GetTake(r)
  PROVE  Moved
<1>1. get[r] = "reading" /\ UNCHANGED <<get, sent, count>>
  BY DEF GetTake, upload
<1>2. Delivered' = Delivered
  BY <1>1 DEF Delivered
<1>3. CASE schema /\ meta # "none"
  <2>1. PICK n : n = from[r] + Batch
    OBVIOUS
  <2>2. /\ meta = "claimed" /\ got'[r] = 0 .. (IF n <= count THEN n ELSE count) - 1
        /\ IF n >= count THEN meta' = "none" ELSE meta' = meta
    BY <1>3, <2>1, TakeBatch
  <2>3. n \in Nat /\ count \in Nat
    BY <2>1, Numbers DEF IInv
  <2>4. ~Delivered
    BY <1>1 DEF Delivered, IInv, OneClaims, Claims
  <2>5. meta' = "claimed" \/ HasAll'
    BY <1>1, <2>2, <2>3 DEF HasAll
  <2>6. PhaseOf = "claimed" /\ PhaseOf' = "claimed"
    BY <1>2, <2>2, <2>4, <2>5, PhaseIs, PhaseNext
  <2>. QED
    BY <2>6 DEF Moved
<1>4. CASE ~(schema /\ meta # "none")
  <2>1. UNCHANGED <<got, meta>>
    BY <1>4 DEF GetTake, store
  <2>2. HasAll' => HasAll
    BY <1>1, <2>1 DEF HasAll
  <2>. QED
    BY <1>1, <1>2, <2>1, <2>2, Fades
<1>. QED
  BY <1>3, <1>4

LEMMA GetEndsMoves ==
  ASSUME IInv, NEW r \in Readers, GetAnswer(r) \/ GetCut(r)
  PROVE  Moved
<1>1. PICK end \in {"200", "404", "cut"} :
      /\ get[r] = "reading" /\ get' = [get EXCEPT ![r] = end]
      /\ end = "200" => Cardinality(got[r]) = count
      /\ UNCHANGED <<meta, sent, count, got>>
  BY DEF GetAnswer, GetCut, store, upload
<1>2. CASE end = "200"
  <2>1. got[r] = 0 .. count - 1
    BY <1>1, <1>2, WholeSet, Numbers DEF IInv, DownloadSound
  <2>2. HasAll /\ ~Delivered
    BY <1>1, <2>1 DEF HasAll, Delivered, IInv, OneClaims, Claims
  <2>3. Delivered'
    BY <1>1, <1>2 DEF Delivered, IInv, TypeOK
  <2>4. PhaseOf = "claimed" /\ PhaseOf' = "delivered"
    BY <2>2, <2>3, PhaseIs, PhaseNext
  <2>. QED
    BY <2>4 DEF Moved, Contract!Moves
<1>3. CASE end # "200"
  <2>1. Delivered' = Delivered
    BY <1>1, <1>3 DEF Delivered, IInv, TypeOK
  <2>2. HasAll' => HasAll
    BY <1>1, <1>3 DEF HasAll, IInv, TypeOK
  <2>. QED
    BY <1>1, <2>1, <2>2, Fades
<1>. QED
  BY <1>2, <1>3

\* No GET takes part: the drop stays or is wiped.
LEMMA OthersMove ==
  ASSUME IInv, UNCHANGED <<sent, count, get, got>>, meta' \in {meta, "none"}
  PROVE  Moved
<1>1. Delivered' = Delivered /\ (HasAll' => HasAll)
  BY DEF Delivered, HasAll
<1>. QED
  BY <1>1, Fades

LEMMA StepMoves ==
  ASSUME IInv, IInv', [Next]_vars
  PROVE  Moved
<1>1. CASE PutStore \/ PutAppend
  BY <1>1, PutMoves
<1>2. ASSUME NEW r \in Readers, GetConsume(r) \/ GetTake(r) \/ GetAnswer(r) \/ GetCut(r)
      PROVE  Moved
  BY <1>2, GetConsumeMoves, GetTakeMoves, GetEndsMoves
<1>3. CASE PutAnswer \/ PutCut \/ Peek \/ Delete \/ Alarm \/ Tick \/ UNCHANGED vars
  <2>1. UNCHANGED <<sent, count, get, got>> /\ meta' \in {meta, "none"}
    BY <1>3 DEF PutAnswer, PutCut, Peek, Delete, Destroy, Alarm, Tick, vars, store, upload, download
  <2>. QED
    BY <2>1, OthersMove
<1>. QED
  BY <1>1, <1>2, <1>3 DEF Next

-----------------------------------------------------------------------------
(* Theorems                                                                *)

\* The types of the object, its PUT and its GETs, for any sizes of upload and
\* batch and any number of readers.
THEOREM TypeCorrect == Spec => []TypeOK
<1>1. IInv => TypeOK
  BY DEF IInv
<1>. QED
  BY <1>1, DropInvariant, PTL

\* dropStore.ts and handlers.ts between them: a 200 is whole, one reader has
\* bytes, take() meets a claimed drop or none, and what is stored has its alarm.
THEOREM DropSoundness == Spec => []DropIsSound
<1>1. IInv => DropIsSound
  <2>. SUFFICES ASSUME IInv PROVE DropIsSound
    OBVIOUS
  <2>1. WholeOrNothing
    BY DEF IInv, WholeOrNothing, DownloadSound, OneClaims, Claims
  <2>2. TakeIsClaimed
    BY DEF IInv, TakeIsClaimed, OneClaims, Claims
  <2>3. ResidueHasAlarm
    BY DEF IInv, ResidueHasAlarm, StoredSound
  <2>. QED
    BY <2>1, <2>2, <2>3 DEF DropIsSound
<1>. QED
  BY <1>1, DropInvariant, PTL

\* A HEAD of dropStore.ts that says 404 after the PUT's answer is the last word:
\* no GET begins to read afterwards.
THEOREM AbsentForGood == Spec => AbsentIsFinal
<1>1. IInv /\ [Next]_vars =>
        [\A r \in Readers : sawAbsent /\ get[r] = "idle" => get'[r] # "reading"]_vars
  <2>. SUFFICES ASSUME IInv, [Next]_vars, NEW r \in Readers, sawAbsent, get[r] = "idle",
                       get'[r] = "reading"
       PROVE  vars' = vars
    OBVIOUS
  <2>1. put = "done" /\ (meta # "open" \/ age > Ttl)
    BY DEF IInv, AbsentSound
  <2>2. ~(schema /\ IsPresent)
    BY <2>1, PresentIs, Numbers DEF IInv
  <2>3. CASE PutStore \/ PutAppend \/ PutAnswer \/ PutCut
    BY <2>1, <2>3 DEF PutStore, PutAppend, PutAnswer, PutCut
  <2>4. ASSUME NEW q \in Readers, GetConsume(q) \/ GetTake(q) \/ GetAnswer(q) \/ GetCut(q)
        PROVE  FALSE
    BY <2>2, <2>4 DEF GetConsume, GetTake, GetAnswer, GetCut, IInv, TypeOK
  <2>5. CASE Peek \/ Delete \/ Alarm \/ Tick
    BY <2>5 DEF Peek, Delete, Alarm, Tick, download
  <2>. QED
    BY <2>3, <2>4, <2>5 DEF Next
<1>. QED
  BY <1>1, DropInvariant, PTL DEF Spec, AbsentIsFinal

\* The Durable Object and its handlers implement DropContract, as the
\* self-hosted relay does: one reader at most, and a drop never comes back.
THEOREM DropImplementsContract == Spec => ImplementsContract
<1>. DEFINE mapped == [d \in {"token"} |-> PhaseOf]
<1>1. Init => Contract!Init
  <2>. SUFFICES ASSUME Init PROVE Contract!Init
    OBVIOUS
  <2>1. ~Delivered /\ ~HasAll /\ meta # "claimed" /\ sent = 0
    BY DEF Init, Delivered, HasAll
  <2>2. PhaseOf = "unused"
    BY <2>1, PhaseIs
  <2>. QED
    BY <2>2 DEF Contract!Init
<1>2. IInv /\ IInv' /\ [Next]_vars => [Contract!Next]_mapped
  <2>. SUFFICES ASSUME IInv, IInv', [Next]_vars PROVE Contract!Next
    OBVIOUS
  <2>1. Moved
    BY StepMoves
  <2>2. PhaseOf' \in Contract!Phases
    <3>1. PhaseOf' \in {"delivered", "claimed", "unused", "present", "gone"}
      BY PhaseNext
    <3>. QED
      BY <3>1 DEF Contract!Phases
  <2>. QED
    BY <2>1, <2>2 DEF Moved, Contract!Next
<1>. QED
  BY <1>1, <1>2, DropInvariant, PTL DEF Spec, ImplementsContract, Contract!Spec
=============================================================================
