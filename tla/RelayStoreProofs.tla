-------------------------- MODULE RelayStoreProofs --------------------------
(***************************************************************************)
(* For any number of uploads and any limits: the relay's two byte counters *)
(* are exact and their sum never passes the cap, every drop goes through   *)
(* the steps of the contract, and what a client was answered stays true.   *)
(***************************************************************************)
EXTENDS RelayStore, FiniteSetTheorems, TLAPS

-----------------------------------------------------------------------------
(* The size of a set of uploads *)

LEMMA SlotsFinite ==
  ASSUME NEW f, NEW T \in SUBSET Uploads
  PROVE  IsFiniteSet(Slots(f, T)) /\ Size(f, T) \in Nat
<1>1. IsFiniteSet(T)
  BY FS_Subset, LimitsAssumption
<1>2. IsFiniteSet(1 .. MaxBytes)
  BY FS_Interval, LimitsAssumption
<1>3. IsFiniteSet(T \X (1 .. MaxBytes))
  BY <1>1, <1>2, FS_Product
<1>4. Slots(f, T) \in SUBSET (T \X (1 .. MaxBytes))
  BY DEF Slots
<1>5. IsFiniteSet(Slots(f, T))
  BY <1>3, <1>4, FS_Subset
<1>. QED
  BY <1>5, FS_CardinalityType DEF Size

LEMMA SizeEmpty ==
  ASSUME NEW f
  PROVE  Size(f, {}) = 0
<1>1. Slots(f, {}) = {}
  BY DEF Slots
<1>. QED
  BY <1>1, FS_EmptySet DEF Size

LEMMA SizeUnion ==
  ASSUME NEW f, NEW S \in SUBSET Uploads, NEW T \in SUBSET Uploads,
         S \cap T = {}
  PROVE  Size(f, S \cup T) = Size(f, S) + Size(f, T)
<1>1. /\ Slots(f, S \cup T) = Slots(f, S) \cup Slots(f, T)
      /\ Slots(f, S) \cap Slots(f, T) = {}
  BY DEF Slots
<1>2. IsFiniteSet(Slots(f, S)) /\ IsFiniteSet(Slots(f, T))
  BY SlotsFinite
<1>3. Size(f, S) \in Nat /\ Size(f, T) \in Nat
  BY SlotsFinite
<1>4. Cardinality(Slots(f, S) \cup Slots(f, T))
        = Cardinality(Slots(f, S)) + Cardinality(Slots(f, T))
            - Cardinality(Slots(f, S) \cap Slots(f, T))
  BY <1>2, FS_Union
<1>5. Cardinality(Slots(f, S) \cap Slots(f, T)) = 0
  BY <1>1, FS_EmptySet
<1>6. Size(f, S \cup T) = Size(f, S) + Size(f, T) - 0
  BY <1>1, <1>4, <1>5, Zenon DEF Size
<1>. QED
  BY <1>3, <1>6

LEMMA SizeSingle ==
  ASSUME NEW f, NEW u \in Uploads, f[u] \in 0 .. MaxBytes
  PROVE  Size(f, {u}) = f[u]
<1>1. Slots(f, {u}) = {u} \X (1 .. f[u])
  BY LimitsAssumption DEF Slots
<1>2. IsFiniteSet({u}) /\ Cardinality({u}) = 1
  BY FS_Singleton
<1>3. f[u] \in Nat
  BY LimitsAssumption
<1>4. IsFiniteSet(1 .. f[u]) /\ Cardinality(1 .. f[u]) = f[u]
  BY <1>3, FS_Interval
<1>5. Cardinality({u} \X (1 .. f[u]))
        = Cardinality({u}) * Cardinality(1 .. f[u])
  BY <1>2, <1>4, FS_Product
<1>6. Size(f, {u}) = 1 * f[u]
  BY <1>1, <1>2, <1>4, <1>5, Zenon DEF Size
<1>. QED
  BY <1>3, <1>6

\* Only the sizes of the uploads in the set matter.
LEMMA SizeAgree ==
  ASSUME NEW f, NEW g, NEW T, \A t \in T : f[t] = g[t]
  PROVE  Size(f, T) = Size(g, T)
<1>1. Slots(f, T) = Slots(g, T)
  BY DEF Slots
<1>. QED
  BY <1>1 DEF Size

LEMMA SizeRemove ==
  ASSUME NEW f, NEW T \in SUBSET Uploads, NEW E \in SUBSET T
  PROVE  /\ Size(f, T \ E) = Size(f, T) - Size(f, E)
         /\ Size(f, E) <= Size(f, T)
<1>1. Size(f, (T \ E) \cup E) = Size(f, T \ E) + Size(f, E)
  BY SizeUnion
<1>2. (T \ E) \cup E = T
  OBVIOUS
<1>3. Size(f, T \ E) \in Nat /\ Size(f, E) \in Nat
  BY SlotsFinite
<1>4. Size(f, T) = Size(f, T \ E) + Size(f, E)
  BY <1>1, <1>2, Zenon
<1>. QED
  BY <1>3, <1>4

-----------------------------------------------------------------------------
(* The inductive invariant *)

\* Before its headers are accepted an upload holds nothing.
IdleHoldsNothing ==
  \A u \in Uploads : up[u] = "idle" => held[u] = 0 /\ size[u] = 0 /\ u \notin drops

IInv == TypeOK /\ Accounting /\ CapRespected /\ IdleHoldsNothing

LEMMA InitIInv == Init => IInv
<1>. SUFFICES ASSUME Init PROVE IInv
  OBVIOUS
<1>1. TypeOK
  BY LimitsAssumption DEF Init, TypeOK
<1>2. Streaming = {}
  BY DEF Init, Streaming
<1>3. Accounting
  BY <1>2, SizeEmpty DEF Init, Accounting
<1>4. CapRespected
  BY LimitsAssumption DEF Init, CapRespected
<1>5. IdleHoldsNothing
  BY DEF Init, IdleHoldsNothing
<1>. QED
  BY <1>1, <1>3, <1>4, <1>5 DEF IInv

\* Taking entries out of the map takes their bytes out of total.
LEMMA RemoveEntries ==
  ASSUME IInv, NEW E \in SUBSET drops
  PROVE  /\ total - Size(size, E) = Size(size, drops \ E)
         /\ total - Size(size, E) \in Nat
         /\ total - Size(size, E) <= total
<1>1. drops \in SUBSET Uploads /\ E \in SUBSET Uploads
  BY DEF IInv, TypeOK
<1>2. total = Size(size, drops)
  BY DEF IInv, Accounting
<1>3. /\ Size(size, drops \ E) = Size(size, drops) - Size(size, E)
      /\ Size(size, E) <= Size(size, drops)
  BY <1>1, SizeRemove
<1>4. Size(size, E) \in Nat /\ Size(size, drops) \in Nat
  BY <1>1, SlotsFinite
<1>. QED
  BY <1>2, <1>3, <1>4

\* The claim of one streaming upload is part of reserved.
LEMMA ClaimIsReserved ==
  ASSUME IInv, NEW u \in Streaming
  PROVE  /\ held[u] \in Nat /\ held[u] = size[u]
         /\ reserved - held[u] = Size(held, Streaming \ {u})
         /\ Less(reserved, held[u]) = reserved - held[u]
         /\ reserved - held[u] \in Nat
<1>1. Streaming \in SUBSET Uploads /\ {u} \in SUBSET Streaming
  BY DEF Streaming
<1>2. held[u] \in 0 .. MaxBytes /\ u \in Uploads
  BY <1>1 DEF IInv, TypeOK
<1>3. reserved = Size(held, Streaming) /\ held[u] = size[u]
  BY DEF IInv, Accounting
<1>4. Size(held, {u}) = held[u]
  BY <1>2, SizeSingle
<1>5. /\ Size(held, Streaming \ {u}) = Size(held, Streaming) - Size(held, {u})
      /\ Size(held, {u}) <= Size(held, Streaming)
  BY <1>1, SizeRemove
<1>6. Size(held, Streaming) \in Nat
  BY <1>1, SlotsFinite
<1>7. held[u] \in Nat /\ held[u] <= reserved /\ reserved \in Nat
  BY <1>2, <1>3, <1>4, <1>5, <1>6, LimitsAssumption
<1>8. reserved - held[u] = Size(held, Streaming \ {u})
  BY <1>3, <1>4, <1>5, Zenon
<1>9. Less(reserved, held[u]) = reserved - held[u]
  BY <1>7 DEF Less
<1>. QED
  BY <1>3, <1>7, <1>8, <1>9

\* An upload that fails gives back exactly its claim; the store may have
\* been swept of the entries E on the way.
LEMMA LeaveStep ==
  ASSUME IInv, NEW u \in Streaming, NEW answer \in Answers,
         Leave(u, answer),
         NEW E \in SUBSET drops,
         drops' = drops \ E, total' = total - Size(size, E),
         UNCHANGED <<left, got, sawAbsent>>
  PROVE  IInv'
<1>1. u \in Uploads /\ up[u] = "streaming"
  BY DEF Streaming
<1>2. /\ reserved' = Size(held, Streaming \ {u})
      /\ reserved' \in Nat /\ reserved' <= reserved
  <2>1. reserved' = reserved - held[u]
    BY ClaimIsReserved DEF Leave
  <2>2. reserved \in Nat /\ held[u] \in Nat
    BY ClaimIsReserved DEF IInv, TypeOK
  <2>. QED
    BY <2>1, <2>2, ClaimIsReserved
<1>3. /\ total' = Size(size, drops') /\ total' \in Nat /\ total' <= total
  BY RemoveEntries
<1>4. Streaming' = Streaming \ {u}
  BY <1>1 DEF Streaming, Leave, Answers, IInv, TypeOK
<1>5. /\ \A t \in drops' : size[t] = size'[t]
      /\ \A t \in Streaming' : held[t] = held'[t] /\ size[t] = size'[t]
  BY <1>1, <1>4 DEF IInv, TypeOK, Accounting, Leave, Streaming
<1>6. TypeOK'
  BY <1>1, <1>2, <1>3, LimitsAssumption DEF IInv, TypeOK, Leave, Answers
<1>7. Accounting'
  <2>1. total' = Size(size', drops')
    BY <1>3, <1>5, SizeAgree, Zenon
  <2>2. reserved' = Size(held', Streaming')
    BY <1>2, <1>4, <1>5, SizeAgree, Zenon
  <2>3. \A t \in Streaming' : held'[t] = size'[t]
    BY <1>4, <1>5 DEF IInv, Accounting
  <2>4. drops' \cap Streaming' = {}
    BY <1>4 DEF IInv, Accounting
  <2>. QED
    BY <2>1, <2>2, <2>3, <2>4 DEF Accounting
<1>8. CapRespected'
  BY <1>2, <1>3, LimitsAssumption DEF IInv, TypeOK, CapRespected
<1>9. IdleHoldsNothing'
  BY <1>1 DEF IInv, TypeOK, IdleHoldsNothing, Leave, Answers
<1>. QED
  BY <1>6, <1>7, <1>8, <1>9 DEF IInv

\* A step that only takes entries out of the map.
LEMMA RemoveStep ==
  ASSUME IInv, NEW E \in SUBSET drops,
         drops' = drops \ E, total' = total - Size(size, E),
         UNCHANGED <<up, size, held, left, reserved>>,
         got' \in [Uploads -> {"none", "sending", "received", "cut"}],
         sawAbsent' \subseteq Uploads
  PROVE  IInv'
<1>1. total' = Size(size, drops') /\ total' \in Nat /\ total' <= total
  BY RemoveEntries
<1>2. Streaming' = Streaming
  BY DEF Streaming
<1>3. TypeOK'
  BY <1>1 DEF IInv, TypeOK
<1>4. Accounting'
  BY <1>1, <1>2 DEF IInv, Accounting
<1>5. CapRespected'
  BY <1>1, LimitsAssumption DEF IInv, TypeOK, CapRespected
<1>6. IdleHoldsNothing'
  BY DEF IInv, IdleHoldsNothing
<1>. QED
  BY <1>3, <1>4, <1>5, <1>6 DEF IInv

LEMMA PutBeginStep ==
  ASSUME IInv, NEW u \in Uploads, PutBegin(u)
  PROVE  IInv'
<1>1. up[u] = "idle" /\ held[u] = 0 /\ size[u] = 0 /\ u \notin drops
  BY DEF PutBegin, IInv, IdleHoldsNothing
<1>2. TypeOK'
  BY DEF PutBegin, IInv, TypeOK, Answers
<1>3. \/ Streaming' = Streaming
      \/ Streaming' = Streaming \cup {u} /\ u \notin Streaming
  BY <1>1 DEF Streaming, PutBegin, IInv, TypeOK
<1>4. Size(held, Streaming') = Size(held, Streaming)
  <2>1. CASE Streaming' = Streaming
    BY <2>1
  <2>2. CASE Streaming' = Streaming \cup {u} /\ u \notin Streaming
    <3>1. Streaming \in SUBSET Uploads /\ {u} \in SUBSET Uploads
      BY DEF Streaming
    <3>2. Size(held, Streaming \cup {u}) = Size(held, Streaming) + Size(held, {u})
      BY <2>2, <3>1, SizeUnion
    <3>3. Size(held, {u}) = 0
      BY <1>1, SizeSingle, LimitsAssumption
    <3>4. Size(held, Streaming) \in Nat
      BY <3>1, SlotsFinite
    <3>5. Size(held, Streaming') = Size(held, Streaming) + 0
      BY <2>2, <3>2, <3>3, Zenon
    <3>. QED
      BY <3>4, <3>5
  <2>. QED
    BY <1>3, <2>1, <2>2
<1>5. Accounting'
  BY <1>1, <1>3, <1>4 DEF IInv, Accounting, PutBegin
<1>6. CapRespected'
  BY DEF IInv, CapRespected, PutBegin
<1>7. IdleHoldsNothing'
  BY <1>1 DEF IInv, TypeOK, IdleHoldsNothing, PutBegin
<1>. QED
  BY <1>2, <1>5, <1>6, <1>7 DEF IInv

LEMMA PutFrameStep ==
  ASSUME IInv, NEW u \in Uploads, PutFrame(u)
  PROVE  IInv'
<1>1. u \in Streaming /\ up[u] = "streaming" /\ u \notin drops
  BY DEF PutFrame, Streaming, IInv, Accounting
<1>2. PICK n \in 1 .. MaxBytes :
        /\ size[u] + n <= MaxBytes
        /\ ~ReserveFails(n)
        /\ reserved' = reserved + n
        /\ held' = [held EXCEPT ![u] = @ + n]
        /\ size' = [size EXCEPT ![u] = @ + n]
  BY DEF PutFrame
<1>3. Expired(0) \in SUBSET drops
  BY DEF Expired
<1>4. /\ total' = Size(size, drops') /\ total' \in Nat
      /\ drops' \subseteq drops
  BY <1>3, RemoveEntries DEF PutFrame, SweptDrops, SweptTotal
<1>5. /\ n \in Nat /\ held[u] \in Nat /\ held[u] = size[u]
      /\ reserved \in Nat
      /\ reserved - held[u] = Size(held, Streaming \ {u})
  <2>1. n \in Nat
    BY LimitsAssumption
  <2>2. reserved \in Nat
    BY DEF IInv, TypeOK
  <2>. QED
    BY <1>1, <2>1, <2>2, ClaimIsReserved
<1>6. Streaming' = Streaming
  BY DEF PutFrame, Streaming
<1>7. held'[u] = held[u] + n /\ size'[u] = held[u] + n
  BY <1>2, <1>5 DEF IInv, TypeOK
<1>8. TypeOK'
  BY <1>2, <1>4, <1>5, LimitsAssumption DEF IInv, TypeOK, PutFrame
<1>9. reserved' = Size(held', Streaming')
  <2>1. Streaming \ {u} \in SUBSET Uploads /\ {u} \in SUBSET Uploads
    BY DEF Streaming
  <2>2. (Streaming \ {u}) \cup {u} = Streaming
    BY <1>1
  <2>3. Size(held', (Streaming \ {u}) \cup {u})
          = Size(held', Streaming \ {u}) + Size(held', {u})
    BY <2>1, SizeUnion
  <2>4. Size(held', {u}) = held[u] + n
    BY <1>7, <1>8, SizeSingle DEF TypeOK
  <2>5. \A t \in Streaming \ {u} : held'[t] = held[t]
    BY <1>2 DEF IInv, TypeOK, Streaming
  <2>6. Size(held', Streaming \ {u}) = reserved - held[u]
    BY <1>5, <2>5, SizeAgree, Zenon
  <2>7. Size(held', Streaming) = (reserved - held[u]) + (held[u] + n)
    BY <2>2, <2>3, <2>4, <2>6, Zenon
  <2>. QED
    BY <1>2, <1>5, <1>6, <2>7
<1>10. total' = Size(size', drops')
  <2>1. \A t \in drops' : size'[t] = size[t]
    BY <1>1, <1>2, <1>4 DEF IInv, TypeOK
  <2>. QED
    BY <1>4, <2>1, SizeAgree, Zenon
<1>11. Accounting'
  <2>1. \A t \in Streaming' : held'[t] = size'[t]
    BY <1>2, <1>6, <1>7 DEF IInv, TypeOK, Accounting, Streaming
  <2>2. drops' \cap Streaming' = {}
    BY <1>4, <1>6 DEF IInv, Accounting
  <2>. QED
    BY <1>9, <1>10, <2>1, <2>2 DEF Accounting
<1>12. CapRespected'
  <2>1. total' = total - Size(size, Expired(0))
    BY DEF PutFrame, SweptTotal
  <2>2. ~(total' + reserved + n > MaxTotal)
    BY <1>2, <2>1 DEF ReserveFails
  <2>. QED
    BY <1>2, <1>4, <1>5, <2>2, LimitsAssumption DEF CapRespected
<1>13. IdleHoldsNothing'
  BY <1>1, <1>2, <1>4 DEF IInv, TypeOK, IdleHoldsNothing, PutFrame
<1>. QED
  BY <1>8, <1>11, <1>12, <1>13 DEF IInv

LEMMA PutReservedStep ==
  ASSUME IInv, NEW u \in Uploads, PutReserved(u)
  PROVE  IInv'
<1>1. u \in Streaming /\ up[u] = "streaming" /\ u \notin drops
  BY DEF PutReserved, Streaming, IInv, Accounting
<1>2. PICK s \in 0 .. Skew :
        /\ drops' = SweptDrops(Expired(s)) \cup {u}
        /\ total' = SweptTotal(Expired(s)) + size[u]
        /\ left' = [left EXCEPT ![u] = IF Ttl - s >= -Skew THEN Ttl - s ELSE -Skew]
  BY DEF PutReserved
<1>. DEFINE kept == SweptDrops(Expired(s))
<1>3. Expired(s) \in SUBSET drops
  BY DEF Expired
<1>4. /\ SweptTotal(Expired(s)) = Size(size, kept)
      /\ SweptTotal(Expired(s)) \in Nat /\ SweptTotal(Expired(s)) <= total
      /\ kept \subseteq drops
  BY <1>3, RemoveEntries DEF SweptDrops, SweptTotal
<1>5. /\ held[u] \in Nat /\ held[u] = size[u] /\ reserved \in Nat
      /\ reserved' = reserved - held[u] /\ reserved' \in Nat
      /\ reserved' = Size(held, Streaming \ {u})
  BY <1>1, ClaimIsReserved DEF PutReserved, IInv, TypeOK
<1>6. Streaming' = Streaming \ {u}
  BY <1>1 DEF PutReserved, Streaming, IInv, TypeOK
<1>7. total' = Size(size, drops')
  <2>1. kept \in SUBSET Uploads /\ {u} \in SUBSET Uploads /\ kept \cap {u} = {}
    BY <1>1, <1>4 DEF IInv, TypeOK
  <2>2. Size(size, kept \cup {u}) = Size(size, kept) + Size(size, {u})
    BY <2>1, SizeUnion
  <2>3. Size(size, {u}) = size[u]
    BY SizeSingle DEF IInv, TypeOK
  <2>. QED
    BY <1>2, <1>4, <2>2, <2>3, Zenon
<1>8. TypeOK'
  <2>1. total' \in Nat /\ drops' \subseteq Uploads
    BY <1>2, <1>4, <1>5 DEF IInv, TypeOK
  <2>2. left' \in [Uploads -> -Skew .. Ttl]
    BY <1>2, LimitsAssumption DEF IInv, TypeOK
  <2>. QED
    BY <1>5, <2>1, <2>2, LimitsAssumption DEF IInv, TypeOK, PutReserved, Answers
<1>9. reserved' = Size(held', Streaming')
  <2>1. \A t \in Streaming' : held'[t] = held[t]
    BY <1>6 DEF PutReserved, IInv, TypeOK, Streaming
  <2>. QED
    BY <1>5, <1>6, <2>1, SizeAgree, Zenon
<1>10. Accounting'
  <2>1. size' = size
    BY DEF PutReserved
  <2>2. \A t \in Streaming' : held'[t] = size'[t]
    BY <1>6, <2>1 DEF PutReserved, IInv, TypeOK, Accounting, Streaming
  <2>3. drops' \cap Streaming' = {}
    BY <1>2, <1>4, <1>6 DEF IInv, Accounting
  <2>. QED
    BY <1>7, <1>9, <2>1, <2>2, <2>3 DEF Accounting
<1>11. CapRespected'
  <2>1. total \in Nat /\ total + reserved <= MaxTotal
    BY DEF IInv, TypeOK, CapRespected
  <2>. QED
    BY <1>2, <1>4, <1>5, <2>1, LimitsAssumption DEF CapRespected
<1>12. IdleHoldsNothing'
  BY <1>1, <1>2, <1>4 DEF IInv, TypeOK, IdleHoldsNothing, PutReserved
<1>. QED
  BY <1>8, <1>10, <1>11, <1>12 DEF IInv

LEMMA RestartStep ==
  ASSUME IInv, Restart
  PROVE  IInv'
<1>1. Streaming' = {}
  BY DEF Restart, Streaming
<1>2. Size(size', {}) = 0 /\ Size(held', {}) = 0
  BY SizeEmpty
<1>3. TypeOK'
  BY LimitsAssumption DEF Restart, IInv, TypeOK, Answers
<1>4. Accounting'
  BY <1>1, <1>2 DEF Restart, Accounting
<1>5. CapRespected'
  BY LimitsAssumption DEF Restart, CapRespected
<1>6. IdleHoldsNothing'
  BY DEF Restart, IInv, TypeOK, IdleHoldsNothing
<1>. QED
  BY <1>3, <1>4, <1>5, <1>6 DEF IInv

LEMMA NextIInv == IInv /\ [Next]_vars => IInv'
<1>. SUFFICES ASSUME IInv, [Next]_vars PROVE IInv'
  OBVIOUS
<1>1. ASSUME NEW u \in Uploads, Put(u) PROVE IInv'
  <2>. {} \in SUBSET drops /\ drops \ {} = drops /\ total - Size(size, {}) = total
    BY SizeEmpty DEF IInv, TypeOK
  <2>. {"full", "too_large", "bad", "cut"} \subseteq Answers
    BY DEF Answers
  <2>1. CASE PutBegin(u)
    BY <2>1, PutBeginStep
  <2>2. CASE PutOversize(u)
    BY <2>2, LeaveStep DEF PutOversize, Streaming
  <2>3. CASE PutRefused(u)
    <3>1. Expired(0) \in SUBSET drops
      BY DEF Expired
    <3>. QED
      BY <2>3, <3>1, LeaveStep DEF PutRefused, Streaming, SweptDrops, SweptTotal
  <2>4. CASE PutFrame(u)
    BY <2>4, PutFrameStep
  <2>5. CASE PutCut(u)
    BY <2>5, LeaveStep DEF PutCut, Streaming
  <2>6. CASE PutEmpty(u)
    BY <2>6, LeaveStep DEF PutEmpty, Streaming
  <2>7. CASE PutReserved(u)
    BY <2>7, PutReservedStep
  <2>. QED
    BY <1>1, <2>1, <2>2, <2>3, <2>4, <2>5, <2>6, <2>7 DEF Put
<1>2. ASSUME NEW t \in Uploads, Get(t) \/ GetEnds(t) \/ Peek(t) \/ Delete(t)
      PROVE  IInv'
  <2>1. /\ Size(size, {t}) = size[t]
        /\ {} \in SUBSET drops /\ drops \ {} = drops
        /\ total - Size(size, {}) = total
    BY SizeSingle, SizeEmpty DEF IInv, TypeOK
  <2>2. CASE Get(t)
    <3>1. {t} \in SUBSET drops /\ total' = total - Size(size, {t})
      BY <2>1, <2>2 DEF Get
    <3>2. got' \in [Uploads -> {"none", "sending", "received", "cut"}]
      BY <2>2 DEF Get, IInv, TypeOK
    <3>. QED
      BY <2>2, <3>1, <3>2, RemoveStep DEF Get, IInv, TypeOK
  <2>3. CASE GetEnds(t)
    <3>1. got' \in [Uploads -> {"none", "sending", "received", "cut"}]
      BY <2>3 DEF GetEnds, IInv, TypeOK
    <3>. QED
      BY <2>1, <2>3, <3>1, RemoveStep DEF GetEnds, IInv, TypeOK
  <2>4. CASE Peek(t)
    <3>1. PICK s \in 0 .. Skew :
            LET dead == {t} \cap Expired(s) IN
            /\ drops' = drops \ dead
            /\ total' = total - Size(size, dead)
            /\ sawAbsent' = IF t \in drops \ dead THEN sawAbsent
                             ELSE sawAbsent \cup {t}
      BY <2>4 DEF Peek
    <3>2. {t} \cap Expired(s) \in SUBSET drops
      BY DEF Expired
    <3>3. sawAbsent' \subseteq Uploads
      BY <3>1 DEF IInv, TypeOK
    <3>. QED
      BY <2>4, <3>1, <3>2, <3>3, RemoveStep DEF Peek, IInv, TypeOK
  <2>5. CASE Delete(t)
    <3>1. {t} \in SUBSET drops /\ total' = total - Size(size, {t})
      BY <2>1, <2>5 DEF Delete
    <3>. QED
      BY <2>5, <3>1, RemoveStep DEF Delete, IInv, TypeOK
  <2>. QED
    BY <1>2, <2>2, <2>3, <2>4, <2>5
<1>3. CASE Sweep
  <2>1. Expired(0) \in SUBSET drops
    BY DEF Expired
  <2>. QED
    BY <1>3, <2>1, RemoveStep DEF Sweep, SweptDrops, SweptTotal, IInv, TypeOK
<1>4. CASE Tick
  <2>1. TypeOK'
    <3>1. left' \in [Uploads -> -Skew .. Ttl]
      BY <1>4, LimitsAssumption DEF Tick, IInv, TypeOK
    <3>. QED
      BY <1>4, <3>1 DEF Tick, IInv, TypeOK
  <2>. QED
    BY <1>4, <2>1
       DEF Tick, IInv, Accounting, CapRespected, IdleHoldsNothing, Streaming
<1>5. CASE Restart
  BY <1>5, RestartStep
<1>6. CASE UNCHANGED vars
  BY <1>6 DEF vars, IInv, TypeOK, Accounting, CapRespected, IdleHoldsNothing,
              Streaming
<1>. QED
  BY <1>1, <1>2, <1>3, <1>4, <1>5, <1>6 DEF Next

LEMMA Invariance == Spec => []IInv
  BY InitIInv, NextIInv, PTL DEF Spec

\* total and reserved are exact, so no subtraction from either underflows, and
\* together they never pass max_total_bytes, however many uploads stream at once
\* (hew-relay store.rs, reserve, put_reserved and sweep_locked).
THEOREM BudgetIsKept == Spec => []BudgetIsSound
<1>1. IInv => BudgetIsSound
  BY DEF IInv, BudgetIsSound
<1>. QED
  BY <1>1, Invariance, PTL

\* Every variable keeps its type: the counters stay natural numbers.
THEOREM TypeCorrect == Spec => []TypeOK
<1>1. IInv => TypeOK
  BY DEF IInv
<1>. QED
  BY <1>1, Invariance, PTL

-----------------------------------------------------------------------------
(* The store implements the contract *)

\* A stored drop has its answer and no reader; a drop with a reader has left
\* the map and its PUT was answered.
Lifecycle ==
  \A t \in Uploads :
    /\ t \in drops => up[t] = "token" /\ got[t] = "none"
    /\ got[t] # "none" => up[t] = "token"

\* That order of upload, store and reader holds in every reachable state.
THEOREM LifecycleInvariant == Spec => []Lifecycle
<1>1. Init => Lifecycle
  BY DEF Init, Lifecycle
<1>2. TypeOK /\ Lifecycle /\ [Next]_vars => Lifecycle'
  <2>. SUFFICES ASSUME TypeOK, Lifecycle, [Next]_vars PROVE Lifecycle'
    OBVIOUS
  <2>1. ASSUME NEW u \in Uploads, Put(u) PROVE Lifecycle'
    <3>1. CASE PutBegin(u)
      BY <3>1 DEF PutBegin, TypeOK, Lifecycle
    <3>2. CASE PutOversize(u) \/ PutCut(u) \/ PutEmpty(u)
      BY <3>2 DEF PutOversize, PutCut, PutEmpty, Leave, TypeOK, Lifecycle
    <3>3. CASE PutRefused(u)
      BY <3>3 DEF PutRefused, Leave, SweptDrops, TypeOK, Lifecycle
    <3>4. CASE PutFrame(u)
      BY <3>4 DEF PutFrame, SweptDrops, TypeOK, Lifecycle
    <3>5. CASE PutReserved(u)
      BY <3>5 DEF PutReserved, SweptDrops, TypeOK, Lifecycle
    <3>. QED
      BY <2>1, <3>1, <3>2, <3>3, <3>4, <3>5 DEF Put
  <2>2. ASSUME NEW t \in Uploads, Get(t) \/ GetEnds(t) \/ Peek(t) \/ Delete(t)
        PROVE  Lifecycle'
    <3>1. CASE Get(t)
      BY <3>1 DEF Get, TypeOK, Lifecycle
    <3>2. CASE GetEnds(t)
      BY <3>2 DEF GetEnds, TypeOK, Lifecycle
    <3>3. CASE Peek(t)
      BY <3>3 DEF Peek, TypeOK, Lifecycle
    <3>4. CASE Delete(t)
      BY <3>4 DEF Delete, TypeOK, Lifecycle
    <3>. QED
      BY <2>2, <3>1, <3>2, <3>3, <3>4
  <2>3. CASE Sweep
    BY <2>3 DEF Sweep, SweptDrops, TypeOK, Lifecycle
  <2>4. CASE Tick
    BY <2>4 DEF Tick, TypeOK, Lifecycle
  <2>5. CASE Restart
    BY <2>5 DEF Restart, TypeOK, Lifecycle
  <2>6. CASE UNCHANGED vars
    BY <2>6 DEF vars, Lifecycle
  <2>. QED
    BY <2>1, <2>2, <2>3, <2>4, <2>5, <2>6 DEF Next
<1>. QED
  BY <1>1, <1>2, TypeCorrect, PTL DEF Spec

\* One step of the store moves each drop along the contract or not at all.
LEMMA StepMoves ==
  ASSUME TypeOK, Lifecycle, [Next]_vars, NEW d \in Uploads
  PROVE  PhaseOf(d)' = PhaseOf(d) \/ <<PhaseOf(d), PhaseOf(d)'>> \in Contract!Moves
<1>. USE DEF Contract!Moves, PhaseOf
<1>1. ASSUME NEW u \in Uploads, Put(u)
      PROVE  PhaseOf(d)' = PhaseOf(d)
               \/ <<PhaseOf(d), PhaseOf(d)'>> \in Contract!Moves
  <2>1. CASE PutBegin(u)
    BY <2>1 DEF PutBegin, TypeOK, Lifecycle
  <2>2. CASE PutOversize(u) \/ PutCut(u) \/ PutEmpty(u)
    BY <2>2 DEF PutOversize, PutCut, PutEmpty, Leave, TypeOK, Lifecycle
  <2>3. CASE PutRefused(u)
    BY <2>3 DEF PutRefused, Leave, SweptDrops, TypeOK, Lifecycle
  <2>4. CASE PutFrame(u)
    BY <2>4 DEF PutFrame, SweptDrops, TypeOK, Lifecycle
  <2>5. CASE PutReserved(u)
    BY <2>5 DEF PutReserved, SweptDrops, TypeOK, Lifecycle
  <2>. QED
    BY <1>1, <2>1, <2>2, <2>3, <2>4, <2>5 DEF Put
<1>2. ASSUME NEW t \in Uploads, Get(t) \/ GetEnds(t) \/ Peek(t) \/ Delete(t)
      PROVE  PhaseOf(d)' = PhaseOf(d)
               \/ <<PhaseOf(d), PhaseOf(d)'>> \in Contract!Moves
  <2>1. CASE Get(t)
    BY <2>1 DEF Get, TypeOK, Lifecycle
  <2>2. CASE GetEnds(t)
    BY <2>2 DEF GetEnds, TypeOK, Lifecycle
  <2>3. CASE Peek(t)
    BY <2>3 DEF Peek, TypeOK, Lifecycle
  <2>4. CASE Delete(t)
    BY <2>4 DEF Delete, TypeOK, Lifecycle
  <2>. QED
    BY <1>2, <2>1, <2>2, <2>3, <2>4
<1>3. CASE Sweep
  BY <1>3 DEF Sweep, SweptDrops, TypeOK, Lifecycle
<1>4. CASE Tick
  BY <1>4 DEF Tick, TypeOK, Lifecycle
<1>5. CASE Restart
  BY <1>5 DEF Restart, TypeOK, Lifecycle
<1>6. CASE UNCHANGED vars
  BY <1>6 DEF vars
<1>. QED
  BY <1>1, <1>2, <1>3, <1>4, <1>5, <1>6 DEF Next

\* The store is an implementation of DropContract: each drop is read at most
\* once, by one client, and never comes back.
THEOREM StoreImplementsContract == Spec => ImplementsContract
<1>1. Init => Contract!Init
  BY DEF Init, Contract!Init, PhaseOf
<1>2. TypeOK /\ Lifecycle /\ [Next]_vars
        => [Contract!Next]_([t \in Uploads |-> PhaseOf(t)])
  <2>. SUFFICES ASSUME TypeOK, Lifecycle, [Next]_vars
                PROVE  Contract!Next
    OBVIOUS
  <2>1. \A d \in Uploads : PhaseOf(d)' \in Contract!Phases
    BY DEF PhaseOf, Contract!Phases
  <2>2. \A d \in Uploads : PhaseOf(d)' = PhaseOf(d)
                              \/ <<PhaseOf(d), PhaseOf(d)'>> \in Contract!Moves
    BY StepMoves
  <2>. QED
    BY <2>1, <2>2 DEF Contract!Next
<1>. QED
  BY <1>1, <1>2, TypeCorrect, LifecycleInvariant, PTL
     DEF Spec, ImplementsContract, Contract!Spec

-----------------------------------------------------------------------------
(* What the relay answered stays true *)

\* Only a GET, a DELETE and a restart take a drop whose time is not up.
LEMMA LiveStays ==
  ASSUME TypeOK, [Next]_vars, NEW t \in Uploads, Evicted(t), left[t] > 0
  PROVE  got'[t] = "sending" \/ Delete(t) \/ Restart
<1>1. t \in drops /\ t \notin drops' /\ left[t] \in Int /\ Skew \in Nat
  BY LimitsAssumption DEF Evicted, TypeOK
<1>2. ASSUME NEW s \in 0 .. Skew
      PROVE  t \notin Expired(s)
  BY <1>1 DEF Expired
<1>3. t \notin Expired(0)
  BY <1>1, <1>2
<1>4. ASSUME NEW u \in Uploads, Put(u)
      PROVE  FALSE
  BY <1>1, <1>2, <1>3, <1>4
     DEF Put, PutBegin, PutOversize, PutRefused, PutFrame, PutCut, PutEmpty, PutReserved,
         SweptDrops
<1>5. ASSUME NEW d \in Uploads, Get(d) \/ GetEnds(d) \/ Peek(d) \/ Delete(d)
      PROVE  got'[t] = "sending" \/ Delete(t)
  <2>1. CASE Get(d)
    <3>1. d = t
      BY <1>1, <2>1 DEF Get
    <3>2. got' = [got EXCEPT ![t] = "sending"]
      BY <1>2, <2>1, <3>1 DEF Get
    <3>. QED
      BY <3>2 DEF TypeOK
  <2>2. CASE GetEnds(d)
    BY <1>1, <2>2 DEF GetEnds
  <2>3. CASE Peek(d)
    BY <1>1, <1>2, <2>3 DEF Peek
  <2>4. CASE Delete(d)
    <3>1. d = t
      BY <1>1, <2>4 DEF Delete
    <3>. QED
      BY <2>4, <3>1
  <2>. QED
    BY <1>5, <2>1, <2>2, <2>3, <2>4
<1>6. CASE Sweep
  BY <1>1, <1>3, <1>6 DEF Sweep, SweptDrops
<1>7. CASE Tick
  BY <1>1, <1>7 DEF Tick
<1>8. CASE UNCHANGED vars
  BY <1>1, <1>8 DEF vars
<1>. QED
  BY <1>4, <1>5, <1>6, <1>7, <1>8 DEF Next

\* A drop that a HEAD did not find was stored once, is not there, and its
\* token is not drawn again.
AbsentSound == \A t \in sawAbsent : up[t] = "token" /\ t \notin drops

LEMMA AbsentStays ==
  ASSUME TypeOK, AbsentSound, [Next]_vars
  PROVE  AbsentSound'
<1>1. ASSUME NEW u \in Uploads, Put(u)
      PROVE  AbsentSound'
  <2>1. /\ sawAbsent' = sawAbsent /\ drops' \subseteq drops \cup {u}
        /\ \A t \in Uploads \ {u} : up'[t] = up[t]
        /\ up[u] # "token"
    BY <1>1 DEF Put, PutBegin, PutOversize, PutRefused, PutFrame, PutCut, PutEmpty, PutReserved,
                SweptDrops, Leave, TypeOK
  <2>2. sawAbsent \subseteq Uploads \ {u}
    BY <2>1 DEF AbsentSound, TypeOK
  <2>. QED
    BY <2>1, <2>2 DEF AbsentSound
<1>2. ASSUME NEW d \in Uploads, Peek(d)
      PROVE  AbsentSound'
  <2>1. up[d] = "token" /\ up' = up /\ drops' \subseteq drops
        /\ \/ sawAbsent' = sawAbsent
           \/ d \notin drops' /\ sawAbsent' = sawAbsent \cup {d}
    BY <1>2 DEF Peek
  <2>. QED
    BY <2>1 DEF AbsentSound
<1>3. ASSUME NEW d \in Uploads, Get(d) \/ GetEnds(d) \/ Delete(d)
      PROVE  AbsentSound'
  BY <1>3 DEF Get, GetEnds, Delete, AbsentSound
<1>4. CASE Sweep \/ Tick
  BY <1>4 DEF Sweep, Tick, SweptDrops, AbsentSound
<1>5. CASE Restart
  <2>1. sawAbsent' = sawAbsent /\ drops' = {}
        /\ \A t \in Uploads : up[t] = "token" => up'[t] = "token"
    BY <1>5 DEF Restart
  <2>. QED
    BY <2>1 DEF AbsentSound, TypeOK
<1>6. CASE UNCHANGED vars
  BY <1>6 DEF vars, AbsentSound
<1>. QED
  BY <1>1, <1>2, <1>3, <1>4, <1>5, <1>6 DEF Next

\* What is not there is not sent.
LEMMA AbsentIsNotSent ==
  ASSUME TypeOK, AbsentSound, [Next]_vars, NEW t \in sawAbsent, got[t] = "none"
  PROVE  got'[t] # "sending"
<1>1. t \in Uploads /\ t \notin drops
  BY DEF AbsentSound, TypeOK
<1>2. ASSUME NEW d \in Uploads, Get(d)
      PROVE  got'[t] = got[t]
  BY <1>1, <1>2 DEF Get, TypeOK
<1>3. ASSUME NEW d \in Uploads, GetEnds(d)
      PROVE  got'[t] = got[t]
  BY <1>1, <1>3 DEF GetEnds, TypeOK
<1>4. CASE Restart
  BY <1>1, <1>4 DEF Restart
<1>5. ASSUME NEW u \in Uploads, Put(u) \/ Peek(u) \/ Delete(u)
      PROVE  got' = got
  BY <1>5 DEF Put, PutBegin, PutOversize, PutRefused, PutFrame, PutCut, PutEmpty, PutReserved,
              Peek, Delete
<1>6. CASE Sweep \/ Tick \/ UNCHANGED vars
  BY <1>6 DEF Sweep, Tick, vars
<1>. QED
  BY <1>2, <1>3, <1>4, <1>5, <1>6 DEF Next

\* Only reserve answers a body that streams with a 503, and it has swept.
LEMMA FullIsFull ==
  ASSUME IInv, [Next]_vars, NEW u \in Streaming, up'[u] = "full"
  PROVE  /\ \A t \in drops' : left[t] > 0
         /\ total' + reserved + (MaxBytes - size[u]) > MaxTotal
<1>1. u \in Uploads /\ up[u] = "streaming" /\ up \in [Uploads -> {"idle", "streaming"} \cup Answers]
  BY DEF Streaming, IInv, TypeOK
<1>2. PutRefused(u)
  <2>1. ASSUME NEW v \in Uploads, Put(v)
        PROVE  PutRefused(u)
    <3>1. v = u
      BY <1>1, <2>1
         DEF Put, PutBegin, PutOversize, PutRefused, PutFrame, PutCut, PutEmpty, PutReserved, Leave
    <3>. QED
      BY <1>1, <2>1, <3>1
         DEF Put, PutBegin, PutOversize, PutFrame, PutCut, PutEmpty, PutReserved, Leave
  <2>2. ASSUME NEW d \in Uploads, Get(d) \/ GetEnds(d) \/ Peek(d) \/ Delete(d)
        PROVE  FALSE
    BY <1>1, <2>2 DEF Get, GetEnds, Peek, Delete
  <2>3. CASE Sweep \/ Tick \/ Restart \/ UNCHANGED vars
    BY <1>1, <2>3 DEF Sweep, Tick, Restart, vars
  <2>. QED
    BY <2>1, <2>2, <2>3 DEF Next
<1>3. PICK n \in 1 .. MaxBytes : size[u] + n <= MaxBytes /\ ReserveFails(n)
  BY <1>2 DEF PutRefused
<1>4. drops' = drops \ Expired(0) /\ total' = total - Size(size, Expired(0))
  BY <1>2 DEF PutRefused, SweptDrops, SweptTotal
<1>5. \A t \in drops' : left[t] > 0
  <2>1. ASSUME NEW t \in drops'
        PROVE  left[t] > 0
    <3>1. t \in drops /\ t \notin Expired(0) /\ left[t] \in Int
      BY <1>4, LimitsAssumption DEF IInv, TypeOK
    <3>. QED
      BY <3>1 DEF Expired
  <2>. QED
    BY <2>1
<1>6. total' \in Nat
  <2>1. Expired(0) \in SUBSET drops
    BY DEF Expired
  <2>. QED
    BY <1>4, <2>1, RemoveEntries
<1>7. total' + reserved + n > MaxTotal
  BY <1>3, <1>4 DEF ReserveFails
<1>8. reserved \in Nat /\ size[u] \in Nat /\ MaxBytes \in Nat /\ MaxTotal \in Nat /\ n \in Nat
  BY <1>1, LimitsAssumption DEF IInv, TypeOK
<1>9. total' + reserved + (MaxBytes - size[u]) > MaxTotal
  <2>. DEFINE z == size[u]  w == total'
  <2>1. /\ z \in Nat /\ w \in Nat /\ reserved \in Nat /\ n \in Nat
        /\ MaxBytes \in Nat /\ MaxTotal \in Nat
        /\ z + n <= MaxBytes /\ w + reserved + n > MaxTotal
    BY <1>3, <1>6, <1>7, <1>8
  <2>. HIDE DEF z, w
  <2>2. w + reserved + (MaxBytes - z) > MaxTotal
    BY <2>1
  <2>. QED
    BY <2>2 DEF z, w
<1>. QED
  BY <1>5, <1>9

\* The relay's answers stay true: only a GET, a DELETE or a restart takes a
\* drop whose time is not up (take, sweep_locked, peek), a drop a HEAD did not
\* find is never sent, and a body refused for want of room finds no room with
\* every expired drop swept (reserve).
THEOREM AnswersAreKept == Spec => AnswersStayTrue
<1>1. Init => AbsentSound
  BY DEF Init, AbsentSound
<1>2. TypeOK /\ AbsentSound /\ [Next]_vars => AbsentSound'
  BY AbsentStays
<1>3. TypeOK /\ [Next]_vars =>
        [\A t \in Uploads :
           Evicted(t) /\ left[t] > 0 => got'[t] = "sending" \/ Delete(t) \/ Restart]_vars
  BY LiveStays
<1>4. TypeOK /\ AbsentSound /\ [Next]_vars =>
        [\A t \in sawAbsent : got[t] = "none" => got'[t] # "sending"]_vars
  BY AbsentIsNotSent
<1>5. IInv /\ [Next]_vars =>
        [\A u \in Streaming : up'[u] = "full" =>
           /\ \A t \in drops' : left[t] > 0
           /\ total' + reserved + (MaxBytes - size[u]) > MaxTotal]_vars
  BY FullIsFull
<1>. QED
  BY <1>1, <1>2, <1>3, <1>4, <1>5, Invariance, TypeCorrect, PTL
     DEF Spec, AnswersStayTrue, NoLiveEviction, AbsentIsFinal, FullMeansFull
=============================================================================
