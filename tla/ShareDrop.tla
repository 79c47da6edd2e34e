----------------------------- MODULE ShareDrop ------------------------------
(***************************************************************************)
(* The hosted share relay: one ShareDrop Durable Object, which keeps the   *)
(* chunks of one drop in its own SQLite database                           *)
(* (workers/share-relay/src/dropStore.ts), and the PUT, GET, HEAD and      *)
(* DELETE handlers that call it (handlers.ts).                             *)
(*                                                                         *)
(* One RPC argument list or return value carries at most Batch chunks, so  *)
(* an upload is store() and then append() calls, a download is consume()   *)
(* and then take() calls, and anything may happen between two calls: other *)
(* requests, the TTL alarm, a DELETE, the death of the calling Worker.     *)
(* The object is single-threaded and its storage operations hold back new  *)
(* events, so each RPC method is one step.                                 *)
(*                                                                         *)
(* A token is drawn for one PUT only, so one object sees one upload.       *)
(***************************************************************************)
EXTENDS Integers, FiniteSets

CONSTANTS
  Readers,    \* the GET requests that name this token
  MaxChunks,  \* chunks of the largest legal upload (MAX_BYTES / CHUNK_BYTES)
  Batch,      \* RPC_BATCH_CHUNKS
  Ttl         \* TTL_MS, in ticks

ASSUME ShareAssumption ==
  /\ IsFiniteSet(Readers)
  /\ MaxChunks \in Nat \ {0} /\ Batch \in Nat \ {0} /\ Ttl \in Nat \ {0}

VARIABLES
  schema,     \* the SQLite tables exist
  meta,       \* the meta row: none, open (claimed = 0) or claimed
  count,      \* chunkCount, as declared by store
  rows,       \* idx of the chunk rows present
  alarm,      \* a TTL alarm is set
  age,        \* time since uploadedAt, not above Ttl + 1
  put,        \* the PUT request: idle, sending, or how it ended
  sent,       \* chunks the PUT has handed to the object
  get,        \* each GET: idle, reading, or the status it answered
  from,       \* each GET's next take() index
  got,        \* idx of the chunks each GET has collected
  sawAbsent   \* history: a HEAD was answered 404 after the PUT's answer

store == <<schema, meta, rows, alarm>>
upload == <<put, sent, count>>
download == <<get, from, got>>
vars == <<store, age, upload, download, sawAbsent>>

TypeOK ==
  /\ schema \in BOOLEAN
  /\ meta \in {"none", "open", "claimed"}
  /\ count \in 0 .. MaxChunks
  /\ rows \subseteq 0 .. MaxChunks - 1
  /\ alarm \in BOOLEAN
  /\ age \in 0 .. Ttl + 1
  /\ put \in {"idle", "sending", "done", "error", "cut"}
  /\ sent \in 0 .. MaxChunks
  /\ get \in [Readers -> {"idle", "reading", "200", "404", "cut"}]
  /\ from \in [Readers -> 0 .. MaxChunks + Batch]
  /\ got \in [Readers -> SUBSET (0 .. MaxChunks - 1)]
  /\ sawAbsent \in BOOLEAN

Init ==
  /\ schema = FALSE /\ meta = "none" /\ rows = {} /\ alarm = FALSE
  /\ age = 0
  /\ put = "idle" /\ sent = 0 /\ count = 0
  /\ get = [r \in Readers |-> "idle"]
  /\ from = [r \in Readers |-> 0]
  /\ got = [r \in Readers |-> {}]
  /\ sawAbsent = FALSE

-----------------------------------------------------------------------------
(* The object's own operations *)

UpTo(n) == IF n <= count THEN n ELSE count

\* Mutant: an upload still missing chunks can be read.
PresentEarly == meta = "open" /\ age <= Ttl

\* isPresent: complete, unclaimed and not past its time.
IsPresent ==
  /\ meta = "open"
  /\ age <= Ttl
  /\ Cardinality(rows) = count

\* Mutant: the rows go but the tables stay.
DestroyRows ==
  /\ meta' = "none" /\ rows' = {} /\ alarm' = FALSE
  /\ UNCHANGED schema

\* destroy: deleteAll wipes the tables themselves, then deleteAlarm.  If the
\* object dies between the two calls the alarm stays set.
Destroy ==
  /\ schema' = FALSE /\ meta' = "none" /\ rows' = {}
  /\ alarm' \in {FALSE, alarm}

-----------------------------------------------------------------------------
(* PUT *)

\* store: the tables, the meta row with the whole chunk count, the first
\* batch and the alarm, written as one.
PutStore ==
  /\ put = "idle" /\ meta = "none"
  /\ \E n \in 1 .. MaxChunks :
       /\ count' = n
       /\ sent' = IF Batch <= n THEN Batch ELSE n
  /\ schema' = TRUE /\ meta' = "open" /\ rows' = 0 .. sent' - 1
  /\ alarm' = TRUE /\ age' = 0
  /\ put' = "sending"
  /\ UNCHANGED <<download, sawAbsent>>

\* Mutant: the last batch is padded to a full one and append does not count.
AppendUnchecked ==
  LET have == Cardinality(rows) IN
  /\ put = "sending" /\ sent < count
  /\ schema /\ meta # "none"
  /\ rows' = rows \cup have .. have + Batch - 1
  /\ sent' = UpTo(sent + Batch)
  /\ UNCHANGED <<schema, meta, alarm, age, put, count, download, sawAbsent>>

\* append: throws when the drop was wiped meanwhile or would overflow.
PutAppend ==
  LET have == Cardinality(rows)
      batch == UpTo(sent + Batch) - sent IN
  /\ put = "sending" /\ sent < count
  /\ IF schema /\ meta # "none" /\ have + batch <= count
       THEN /\ rows' = rows \cup have .. have + batch - 1
            /\ sent' = sent + batch
            /\ UNCHANGED put
       ELSE /\ put' = "error"
            /\ UNCHANGED <<rows, sent>>
  /\ UNCHANGED <<schema, meta, alarm, age, count, download, sawAbsent>>

PutAnswer ==
  /\ put = "sending" /\ sent = count
  /\ put' = "done"
  /\ UNCHANGED <<store, age, sent, count, download, sawAbsent>>

\* The Worker serving the PUT dies, or an RPC's answer is lost.
PutCut ==
  /\ put = "sending"
  /\ put' = "cut"
  /\ UNCHANGED <<store, age, sent, count, download, sawAbsent>>

-----------------------------------------------------------------------------
(* GET *)

\* consume: claims a present drop; wipes one past its time.
GetConsume(r) ==
  /\ get[r] = "idle"
  /\ \/ /\ schema /\ IsPresent
        /\ meta' = "claimed"
        /\ get' = [get EXCEPT ![r] = "reading"]
        /\ UNCHANGED <<schema, rows, alarm>>
     \/ /\ ~(schema /\ IsPresent)
        /\ get' = [get EXCEPT ![r] = "404"]
        /\ IF schema /\ meta # "none" /\ age > Ttl THEN Destroy
                                                 ELSE UNCHANGED store
  /\ UNCHANGED <<age, upload, from, got, sawAbsent>>

\* take: reads and deletes one batch of rows; the last one wipes the drop.
\* A drop that vanished answers nothing.
GetTake(r) ==
  LET batch == {i \in rows : from[r] <= i /\ i < from[r] + Batch} IN
  /\ get[r] = "reading" /\ from[r] < count
  /\ from' = [from EXCEPT ![r] = @ + Batch]
  /\ IF schema /\ meta # "none"
       THEN /\ got' = [got EXCEPT ![r] = @ \cup batch]
            /\ IF rows \subseteq batch
                 THEN Destroy
                 ELSE rows' = rows \ batch /\ UNCHANGED <<schema, meta, alarm>>
       ELSE UNCHANGED <<got, store>>
  /\ UNCHANGED <<age, upload, get, sawAbsent>>

\* Mutant: whatever was collected is sent.
AnswerAnyway(r) ==
  /\ get[r] = "reading" /\ from[r] >= count
  /\ get' = [get EXCEPT ![r] = "200"]
  /\ UNCHANGED <<store, age, upload, from, got, sawAbsent>>

\* The bytes are sent only when they add up to the declared size.
GetAnswer(r) ==
  /\ get[r] = "reading" /\ from[r] >= count
  /\ get' = [get EXCEPT ![r] = IF Cardinality(got[r]) = count THEN "200" ELSE "404"]
  /\ UNCHANGED <<store, age, upload, from, got, sawAbsent>>

GetCut(r) ==
  /\ get[r] = "reading"
  /\ get' = [get EXCEPT ![r] = "cut"]
  /\ UNCHANGED <<store, age, upload, from, got, sawAbsent>>

-----------------------------------------------------------------------------
(* HEAD, DELETE, the alarm and time *)

\* Mutant: peek has its own idea of the last valid instant.
PeekOwnBoundary ==
  /\ sawAbsent' = (sawAbsent \/ (put = "done" /\ ~(schema /\ IsPresent /\ age < Ttl)))
  /\ UNCHANGED <<store, age, upload, download>>

\* peek: changes nothing in the object, and creates no tables.
Peek ==
  /\ sawAbsent' = (sawAbsent \/ (put = "done" /\ ~(schema /\ IsPresent)))
  /\ UNCHANGED <<store, age, upload, download>>

Delete ==
  /\ Destroy
  /\ UNCHANGED <<age, upload, download, sawAbsent>>

\* The alarm fires at uploadedAt + TTL_MS or, at the runtime's leisure, later.
Alarm ==
  /\ alarm /\ age >= Ttl
  /\ schema' = FALSE /\ meta' = "none" /\ rows' = {} /\ alarm' = FALSE
  /\ UNCHANGED <<age, upload, download, sawAbsent>>

Tick ==
  /\ age <= Ttl
  /\ age' = age + 1
  /\ UNCHANGED <<store, upload, download, sawAbsent>>

-----------------------------------------------------------------------------
Next ==
  \/ PutStore \/ PutAppend \/ PutAnswer \/ PutCut
  \/ \E r \in Readers :
       GetConsume(r) \/ GetTake(r) \/ GetAnswer(r) \/ GetCut(r)
  \/ Peek \/ Delete \/ Alarm \/ Tick

Spec == Init /\ [][Next]_vars

\* Time passes, the runtime delivers alarms, and a GET does not hang: its
\* Worker answers or dies.
Fairness ==
  /\ WF_vars(Tick) /\ WF_vars(Alarm)
  /\ \A r \in Readers : WF_vars(GetCut(r))

LiveSpec == Spec /\ Fairness

-----------------------------------------------------------------------------
(* Properties *)

\* A 200 carries every chunk, and no two readers hold any chunk in common:
\* never truncated ciphertext, never the same bytes twice, even when the
\* alarm or a DELETE wipes the drop between two take() calls.
WholeOrNothing ==
  /\ \A r \in Readers : get[r] = "200" => got[r] = 0 .. count - 1
  /\ \A r, q \in Readers : r # q => got[r] \cap got[q] = {}

\* take() is only ever called on a drop that was claimed or is gone, so its
\* "drop is not claimed" error is unreachable from the handlers.
TakeIsClaimed == \A r \in Readers : get[r] = "reading" => meta # "open"

\* Whatever the object stores has an alarm that will wipe it, so a PUT or a
\* GET that died half way leaves nothing behind for ever.
ResidueHasAlarm == schema \/ meta # "none" \/ rows # {} => alarm

\* The drop between its handlers: whole to one reader, and never without an end.
DropIsSound == WholeOrNothing /\ TakeIsClaimed /\ ResidueHasAlarm

\* A HEAD changes nothing: the poll of the desktop dialog never takes the
\* drop from the phone, and once it has said 404 no GET is answered 200.
AbsentIsFinal ==
  [][\A r \in Readers : sawAbsent /\ get[r] = "idle" => get'[r] # "reading"]_vars

PhaseOf ==
  CASE \E r \in Readers : get[r] = "200" -> "delivered"
    [] /\ \A r \in Readers : get[r] # "200"
       /\ \/ meta = "claimed"
          \/ \E q \in Readers : get[q] = "reading" /\ got[q] = 0 .. count - 1 -> "claimed"
    [] OTHER -> IF sent = 0 \/ sent < count THEN "unused"
                ELSE IF meta = "open" THEN "present" ELSE "gone"

Contract == INSTANCE DropContract
              WITH Drops <- {"token"}, phase <- [d \in {"token"} |-> PhaseOf]

\* The Durable Object and its handlers keep the relay's contract.
ImplementsContract == Contract!Spec

\* An upload's storage is given back in the end, complete or not, read or not.
StorageComesBack == schema ~> ~schema

DropSettles == Contract!Settles
EverythingGoes == StorageComesBack /\ DropSettles
=============================================================================
