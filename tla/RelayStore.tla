----------------------------- MODULE RelayStore -----------------------------
(***************************************************************************)
(* The self-hosted share relay: the in-memory drop store of                *)
(* crates/hew-relay/src/store.rs and the PUT, GET, HEAD and DELETE         *)
(* handlers of http.rs that use it.                                        *)
(*                                                                         *)
(* A PUT streams its body: between two frames every other request runs.    *)
(* Each Store method is one critical section of the store's mutex, so each *)
(* is one step here.  Lengths stand for the bytes themselves.  A drop is   *)
(* named by the upload that made it: generate_token draws 128 random bits  *)
(* and a token is never drawn twice.                                       *)
(*                                                                         *)
(* Time is relative: left[t] is expires_at - now, so Tick lowers it.  take,*)
(* peek and put_reserved read the clock BEFORE they lock, so they may act  *)
(* on an instant up to Skew ticks old; sweep and reserve read it inside.   *)
(***************************************************************************)
EXTENDS Integers, FiniteSets

CONSTANTS
  Uploads,    \* the PUT requests, and the tokens of the drops they make
  MaxBytes,   \* AppState.max_bytes: the cap on one drop
  MaxTotal,   \* Store.max_total_bytes
  Ttl,        \* Store.ttl, in ticks
  Skew        \* ticks that can pass between a clock reading and the lock

ASSUME LimitsAssumption ==
  /\ IsFiniteSet(Uploads)
  /\ MaxBytes \in Nat \ {0}
  /\ MaxTotal \in Nat /\ MaxBytes <= MaxTotal
  /\ Ttl \in Nat \ {0}
  /\ Skew \in Nat

VARIABLES
  up,         \* state of each PUT: idle, streaming, or the answer it got
  size,       \* bytes buffered by each PUT, then stored in its drop
  held,       \* Reservation.held of each PUT
  drops,      \* keys of Inner.drops
  left,       \* Entry.expires_at minus now, not below -Skew
  total,      \* Inner.total
  reserved,   \* Inner.reserved
  got,        \* the GET that took each drop: none, sending, received or cut
  sawAbsent   \* history: tokens in use that a HEAD has answered 404 for

vars == <<up, size, held, drops, left, total, reserved, got, sawAbsent>>

Answers == {"token", "unauthorized", "full", "too_large", "bad", "cut"}

TypeOK ==
  /\ up \in [Uploads -> {"idle", "streaming"} \cup Answers]
  /\ size \in [Uploads -> 0 .. MaxBytes]
  /\ held \in [Uploads -> 0 .. MaxBytes]
  /\ drops \subseteq Uploads
  /\ left \in [Uploads -> -Skew .. Ttl]
  /\ total \in Nat
  /\ reserved \in Nat
  /\ got \in [Uploads -> {"none", "sending", "received", "cut"}]
  /\ sawAbsent \subseteq Uploads

Init ==
  /\ up = [u \in Uploads |-> "idle"]
  /\ size = [u \in Uploads |-> 0]
  /\ held = [u \in Uploads |-> 0]
  /\ drops = {}
  /\ left = [u \in Uploads |-> 0]
  /\ total = 0
  /\ reserved = 0
  /\ got = [u \in Uploads |-> "none"]
  /\ sawAbsent = {}

-----------------------------------------------------------------------------
\* The bytes of a set of uploads, as the set of their <<upload, offset>>s.
Slots(f, T) == {s \in T \X (1 .. MaxBytes) : s[2] <= f[s[1]]}
Size(f, T) == Cardinality(Slots(f, T))

Streaming == {u \in Uploads : up[u] = "streaming"}

\* saturating_sub
Less(a, b) == IF a > b THEN a - b ELSE 0

\* Entries that a reader whose clock reading is s ticks old finds expired.
Expired(s) == {t \in drops : left[t] + s <= 0}

Remaining == Less(Less(MaxTotal, total), reserved)

\* sweep_locked: drop the expired entries E and what they weighed.
SweptDrops(E) == drops \ E
SweptTotal(E) == total - Size(size, E)

-----------------------------------------------------------------------------
(* PUT *)

\* Everything a PUT decides from its headers, in order: the upload key, then
\* a declared length over the drop cap or over what remaining() reports.
\* declared = 0 stands for a request with no usable Content-Length.
PutBegin(u) ==
  /\ up[u] = "idle"
  /\ \E authorized \in BOOLEAN, declared \in 0 .. MaxBytes + 1 :
       up' = [up EXCEPT ![u] =
                CASE ~authorized -> "unauthorized"
                  [] authorized /\ declared > MaxBytes -> "too_large"
                  [] authorized /\ declared \in (Remaining + 1) .. MaxBytes -> "full"
                  [] OTHER -> "streaming"]
  /\ UNCHANGED <<size, held, drops, left, total, reserved, got, sawAbsent>>

\* Mutant: the claim of an upload that failed is never given back.
LeaveForgets(u, answer) ==
  /\ up' = [up EXCEPT ![u] = answer]
  /\ reserved' = reserved
  /\ held' = [held EXCEPT ![u] = 0]
  /\ size' = [size EXCEPT ![u] = 0]

\* Leaving put() early: Reservation's Drop gives the claim back.
Leave(u, answer) ==
  /\ up' = [up EXCEPT ![u] = answer]
  /\ reserved' = Less(reserved, held[u])
  /\ held' = [held EXCEPT ![u] = 0]
  /\ size' = [size EXCEPT ![u] = 0]

\* A frame that takes the body past max_bytes.
PutOversize(u) ==
  /\ up[u] = "streaming"
  /\ \E n \in 1 .. MaxBytes + 1 : size[u] + n > MaxBytes
  /\ Leave(u, "too_large")
  /\ UNCHANGED <<drops, left, total, got, sawAbsent>>

ReserveCountsDead(n) == total + reserved + n > MaxTotal

\* reserve refuses n more bytes: it has swept first.
ReserveFails(n) == (total - Size(size, Expired(0))) + reserved + n > MaxTotal

PutRefused(u) ==
  /\ up[u] = "streaming"
  /\ \E n \in 1 .. MaxBytes : size[u] + n <= MaxBytes /\ ReserveFails(n)
  /\ drops' = SweptDrops(Expired(0))
  /\ total' = SweptTotal(Expired(0))
  /\ Leave(u, "full")
  /\ UNCHANGED <<left, got, sawAbsent>>

\* Mutant: the body is not capped while it streams.
PutFrameUncapped(u) ==
  /\ up[u] = "streaming"
  /\ \E n \in 1 .. MaxBytes :
       /\ ~ReserveFails(n)
       /\ reserved' = reserved + n
       /\ held' = [held EXCEPT ![u] = @ + n]
       /\ size' = [size EXCEPT ![u] = @ + n]
  /\ drops' = SweptDrops(Expired(0))
  /\ total' = SweptTotal(Expired(0))
  /\ UNCHANGED <<up, left, got, sawAbsent>>

\* reserve grants the frame and it is buffered.
PutFrame(u) ==
  /\ up[u] = "streaming"
  /\ \E n \in 1 .. MaxBytes :
       /\ size[u] + n <= MaxBytes
       /\ ~ReserveFails(n)
       /\ reserved' = reserved + n
       /\ held' = [held EXCEPT ![u] = @ + n]
       /\ size' = [size EXCEPT ![u] = @ + n]
  /\ drops' = SweptDrops(Expired(0))
  /\ total' = SweptTotal(Expired(0))
  /\ UNCHANGED <<up, left, got, sawAbsent>>

\* Mutant: the guard is forgotten when the request is cut.
PutCutLeaks(u) ==
  /\ up[u] = "streaming"
  /\ up' = [up EXCEPT ![u] = "cut"]
  /\ UNCHANGED <<size, held, drops, left, total, reserved, got, sawAbsent>>

\* A broken body, the client hanging up, or TimeoutLayer dropping the future.
PutCut(u) ==
  /\ up[u] = "streaming"
  /\ Leave(u, "cut")
  /\ UNCHANGED <<drops, left, total, got, sawAbsent>>

PutEmpty(u) ==
  /\ up[u] = "streaming" /\ size[u] = 0
  /\ Leave(u, "bad")
  /\ UNCHANGED <<drops, left, total, got, sawAbsent>>

\* The body ended: the guard is forgotten and put_reserved turns the claim
\* into stored bytes under a fresh token.
PutReserved(u) ==
  /\ up[u] = "streaming" /\ size[u] > 0
  /\ \E s \in 0 .. Skew :
       /\ drops' = SweptDrops(Expired(s)) \cup {u}
       /\ total' = SweptTotal(Expired(s)) + size[u]
       /\ left' = [left EXCEPT ![u] = IF Ttl - s >= -Skew THEN Ttl - s ELSE -Skew]
  /\ reserved' = Less(reserved, held[u])
  /\ held' = [held EXCEPT ![u] = 0]
  /\ up' = [up EXCEPT ![u] = "token"]
  /\ UNCHANGED <<size, got, sawAbsent>>

-----------------------------------------------------------------------------
(* GET, HEAD, DELETE, the sweeper, time and restarts *)

\* Mutant: the bytes are copied out and the entry stays until it expires.
GetCopies(t) ==
  /\ t \in drops
  /\ got' = [got EXCEPT ![t] = "sending"]
  /\ UNCHANGED <<up, size, held, drops, left, total, reserved, sawAbsent>>

\* take: the entry goes whatever its age; only a live one is answered with.
Get(t) ==
  /\ t \in drops
  /\ drops' = drops \ {t}
  /\ total' = total - size[t]
  /\ \E s \in 0 .. Skew :
       got' = IF t \in Expired(s) THEN got ELSE [got EXCEPT ![t] = "sending"]
  /\ UNCHANGED <<up, size, held, left, reserved, sawAbsent>>

\* The taken bytes reach the client, or its connection goes first.
GetEnds(t) ==
  /\ got[t] = "sending"
  /\ \E end \in {"received", "cut"} : got' = [got EXCEPT ![t] = end]
  /\ UNCHANGED <<up, size, held, drops, left, total, reserved, sawAbsent>>

\* peek: never removes a live entry; an expired one goes.
Peek(t) ==
  /\ up[t] = "token"
  /\ \E s \in 0 .. Skew :
       LET dead == {t} \cap Expired(s) IN
       /\ drops' = drops \ dead
       /\ total' = total - Size(size, dead)
       /\ sawAbsent' = IF t \in drops \ dead THEN sawAbsent ELSE sawAbsent \cup {t}
  /\ UNCHANGED <<up, size, held, left, reserved, got>>

Delete(t) ==
  /\ t \in drops
  /\ drops' = drops \ {t}
  /\ total' = total - size[t]
  /\ UNCHANGED <<up, size, held, left, reserved, got, sawAbsent>>

\* The background task of main.rs.
Sweep ==
  /\ drops' = SweptDrops(Expired(0))
  /\ total' = SweptTotal(Expired(0))
  /\ UNCHANGED <<up, size, held, left, reserved, got, sawAbsent>>

Tick ==
  /\ left' = [t \in Uploads |-> IF t \in drops /\ left[t] > -Skew THEN left[t] - 1 ELSE left[t]]
  /\ UNCHANGED <<up, size, held, drops, total, reserved, got, sawAbsent>>

\* Nothing is kept on disk: a new process starts with an empty store, and
\* the requests in flight die with their connections.
Restart ==
  /\ drops' = {} /\ total' = 0 /\ reserved' = 0
  /\ held' = [u \in Uploads |-> 0]
  /\ up' = [u \in Uploads |-> IF up[u] = "streaming" THEN "cut" ELSE up[u]]
  /\ size' = [u \in Uploads |-> IF up[u] = "streaming" THEN 0 ELSE size[u]]
  /\ got' = [t \in Uploads |-> IF got[t] = "sending" THEN "cut" ELSE got[t]]
  /\ UNCHANGED <<left, sawAbsent>>

-----------------------------------------------------------------------------
Put(u) ==
  \/ PutBegin(u) \/ PutOversize(u) \/ PutRefused(u) \/ PutFrame(u)
  \/ PutCut(u) \/ PutEmpty(u) \/ PutReserved(u)

Next ==
  \/ \E u \in Uploads : Put(u)
  \/ \E t \in Uploads : Get(t) \/ GetEnds(t) \/ Peek(t) \/ Delete(t)
  \/ Sweep
  \/ Tick
  \/ Restart

Spec == Init /\ [][Next]_vars

\* The clock runs, the sweeper's interval fires, and no request outlives
\* its connection: TimeoutLayer cuts a PUT, a response ends one way or other.
Fairness ==
  /\ WF_vars(Tick)
  /\ WF_vars(Sweep)
  /\ \A u \in Uploads : WF_vars(PutCut(u)) /\ WF_vars(GetEnds(u))

LiveSpec == Spec /\ Fairness

-----------------------------------------------------------------------------
(* Properties *)

\* The two counters are what they claim to count: total the stored bytes,
\* reserved the bytes of the bodies still streaming, each upload's claim the
\* bytes it has buffered.  `total -= ...` relies on it not to underflow.
Accounting ==
  /\ total = Size(size, drops)
  /\ reserved = Size(held, Streaming)
  /\ \A u \in Streaming : held[u] = size[u]
  /\ drops \cap Streaming = {}

\* However many bodies stream at once, stored and in-flight bytes together
\* stay under max_total_bytes (store.rs: the sum both counters share).
CapRespected == total + reserved <= MaxTotal

\* The byte budget is exact and kept: what theorems and run state of it.
BudgetIsSound == Accounting /\ CapRespected

\* A live drop leaves the store only through a GET that sends it, a DELETE,
\* or a restart; the sweep, a peek or another upload evicts only a drop
\* whose time is up on the clock of the step that evicts it.
Evicted(t) == t \in drops /\ t \notin drops'
NoLiveEviction ==
  [][\A t \in Uploads :
       Evicted(t) /\ left[t] > 0 => got'[t] = "sending" \/ Delete(t) \/ Restart]_vars

\* Once a HEAD has answered 404 for a drop (the desktop takes that for
\* "picked up or gone"), no GET is ever answered with it, even a GET that
\* read the clock before the drop expired.
AbsentIsFinal ==
  [][\A t \in sawAbsent : got[t] = "none" => got'[t] # "sending"]_vars

\* A 503 given while the body streams means live bytes really leave no room:
\* nothing expired was counted against the upload.
FullMeansFull ==
  [][\A u \in Streaming : up'[u] = "full" =>
       /\ \A t \in drops' : left[t] > 0
       /\ total' + reserved + (MaxBytes - size[u]) > MaxTotal]_vars

\* What the relay answers stays true: a stored drop is not evicted under its
\* link, a 404 is final, and a 503 means that there was no room.
AnswersStayTrue == NoLiveEviction /\ AbsentIsFinal /\ FullMeansFull

\* The refinement mapping to DropContract.
PhaseOf(t) ==
  CASE got[t] = "sending"  -> "claimed"
    [] got[t] = "received" -> "delivered"
    [] got[t] = "cut"      -> "gone"
    [] got[t] = "none" /\ t \in drops -> "present"
    [] got[t] = "none" /\ t \notin drops /\ up[t] = "token" -> "gone"
    [] OTHER -> "unused"

Contract == INSTANCE DropContract
              WITH Drops <- Uploads, phase <- [t \in Uploads |-> PhaseOf(t)]

\* Every drop is one-shot: read by one client at most, whole or not at all,
\* never back once gone.
ImplementsContract == Contract!Spec

\* Every drop leaves the store, read or not, and every claim on the byte
\* budget comes back: memory cannot stay full.
DropsSettle == Contract!Settles
BudgetComesBack == \A u \in Uploads : held[u] > 0 ~> held[u] = 0
EverythingGoes == DropsSettle /\ BudgetComesBack

\* store.rs:128 "a store full only of dead drops still admits a new upload".
DeadDropsAdmit ==
  [][\A u \in Uploads : up[u] = "idle" /\ up'[u] = "full" =>
       Size(size, drops \ Expired(0)) + reserved + MaxBytes > MaxTotal]_vars
=============================================================================
