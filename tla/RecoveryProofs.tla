--------------------------- MODULE RecoveryProofs ---------------------------
(***************************************************************************)
(* What a crash leaves of the unsaved work.  For any number of windows,    *)
(* works and starts: a crash, a recovery or a new window neither loses,    *)
(* doubles nor overwrites a work that has reached a slot (RecoverySlots).  *)
(* For any number of edits, documents and overlapping autosaves of one     *)
(* window: a dirty document that differs from its latest autosave has one  *)
(* coming, unless it was last changed while a write or a save was under    *)
(* way, and once the window is at rest its slot holds nothing but the      *)
(* unsaved work of the document in it (DocSession).                        *)
(***************************************************************************)
EXTENDS RecoverySlots, DocSession, SequenceTheorems, WellFoundedInduction, TLAPS

\* A bounded set of numbers has a greatest one: their order is well-founded.
LEMMA GreatestExists ==
  ASSUME NEW N \in Nat, NEW S \in SUBSET (0 .. N), S # {}
  PROVE  \E n \in S : \A m \in S : m <= n
<1>. DEFINE T == {N - n : n \in S}
<1>. \A n \in S : n \in Nat /\ n <= N /\ N - n \in Nat
  OBVIOUS
<1>1. T \subseteq Nat /\ T # {}
  OBVIOUS
<1>2. \E x \in T : \A y \in T : ~ (<<y, x>> \in OpToRel(<, Nat))
  BY <1>1, NatLessThanWellFounded, WFMin
<1>3. PICK x \in T : \A y \in T : ~ (y < x)
  BY <1>1, <1>2 DEF OpToRel
<1>4. PICK n \in S : x = N - n
  OBVIOUS
<1>5. ASSUME NEW m \in S PROVE m <= n
  <2>1. N - m \in T
    OBVIOUS
  <2>2. ~ (N - m < N - n) /\ m \in Nat /\ n \in Nat
    BY <1>3, <1>4, <2>1
  <2>. QED
    BY <2>2
<1>. QED
  BY <1>5

-----------------------------------------------------------------------------
(* The inductive invariant                                                 *)

\* Nothing of a run outlives it but the slots.
AtRest == ~running => live = {} /\ protected = {} /\ prompt = {} /\ rest = {}

\* A window that is closed holds nothing and is to claim nothing.
ClosedIsEmpty == \A l \in Labels : l \notin live => work[l] = 0 /\ pending[l] = NoSlot

\* While the dialog is up nothing has been claimed or begun in the first
\* window, and it lists what is protected.
Asked ==
  prompt # {} =>
    /\ main \in live /\ work[main] = 0
    /\ rest = {} /\ (\A l \in Labels : pending[l] = NoSlot)
    /\ prompt = protected

\* A slot that Recover has promised to a window is protected until that window
\* claims it, is promised once, and goes to a window with nothing in it.  The
\* first window writes to no protected slot meanwhile.
Promised ==
  /\ rest \subseteq protected
  /\ \A l \in Labels :
       pending[l] # NoSlot => l # main /\ work[l] = 0 /\ pending[l] \in protected \ rest
  /\ \A l, m \in Labels : pending[l] # NoSlot /\ l # m => pending[l] # pending[m]
  /\ <<main, "own">> \in protected => rest = {} /\ \A l \in Labels : pending[l] = NoSlot

\* Labels are counted past every slot on disk, so no later window writes to a
\* protected slot.
Counted ==
  /\ \A s \in protected : s[1] <= counter /\ (s[1] \in live => s[1] = main)
  /\ running => \A s \in Files : s[1] <= counter

\* A work is in one slot at most.
OnDisk ==
  /\ \A s \in Slots : disk[s] <= begun
  /\ \A s, t \in Slots : s # t /\ disk[s] # 0 => disk[s] # disk[t]

\* A window's work is where its autosaves go, or in no slot yet.
InWindow ==
  /\ \A l \in Labels : work[l] <= begun
  /\ \A l \in snapped : work[l] # 0 /\ disk[effective_own_slot(l)] = work[l]
  /\ \A l \in live \ snapped : work[l] # 0 => \A s \in Slots : disk[s] # work[l]

IInv ==
  /\ TypeOK /\ AtRest /\ ClosedIsEmpty /\ Asked /\ Promised /\ Counted
  /\ OnDisk /\ InWindow /\ OneHolder

-----------------------------------------------------------------------------
(* Labels and slots                                                        *)

LEMMA LabelFacts ==
  /\ Labels \subseteq Nat /\ main \in Labels
  /\ \A n \in Nat : n \in Labels <=> 1 <= n /\ n <= MaxLabel
  /\ Works \subseteq Nat /\ 0 \in Works
  /\ \A n \in Nat : n \in Works <=> n <= MaxWork
BY SlotsAssumption DEF Labels, main, Works

LEMMA SlotFacts ==
  /\ NoSlot \notin Slots
  /\ \A s \in Slots : s[1] \in Labels
  /\ \A l \in Labels : <<l, "own">> \in Slots /\ <<l, "deferred">> \in Slots
BY LabelFacts DEF NoSlot, Slots, Labels

\* Two windows never write to one slot.
LEMMA EffectiveFacts ==
  /\ \A l \in Labels : effective_own_slot(l) \in Slots /\ effective_own_slot(l)[1] = l
  /\ \A l \in Labels : <<l, "own">> \notin protected => effective_own_slot(l) = <<l, "own">>
  /\ \A l \in Labels : effective_own_slot(l) \in {<<l, "own">>, <<l, "deferred">>}
BY SlotFacts DEF effective_own_slot

\* The counter starts past every label with a slot on disk.
LEMMA SeedFacts ==
  ASSUME TypeOK
  PROVE  seed_window_counter \in Labels /\ \A s \in Files : s[1] <= seed_window_counter
<1>. DEFINE numbers == {1} \cup {s[1] : s \in Files \ {<<main, "deferred">>}}
<1>1. numbers \subseteq Labels /\ 1 \in numbers
  BY SlotFacts, LabelFacts DEF Files, main
<1>a. numbers \in SUBSET (0 .. MaxLabel)
  BY <1>1 DEF Labels
<1>2. \E n \in numbers : \A m \in numbers : m <= n
  BY <1>1, <1>a, GreatestExists, SlotsAssumption
<1>3. seed_window_counter \in numbers /\ \A m \in numbers : m <= seed_window_counter
  BY <1>2 DEF seed_window_counter
<1>4. ASSUME NEW s \in Files PROVE s[1] <= seed_window_counter
  <2>1. s[1] \in numbers
    BY DEF main
  <2>. QED
    BY <1>3, <2>1
<1>. QED
  BY <1>1, <1>3, <1>4

-----------------------------------------------------------------------------
(* The steps                                                               *)

LEMMA InitIInv == Init => IInv
<1>. SUFFICES ASSUME Init PROVE IInv
  OBVIOUS
<1>1. disk \in [Slots -> Works] /\ work \in [Labels -> Works] /\ begun \in Works
  BY LabelFacts DEF Init
<1>2. TypeOK
  <2>1. counter \in Labels /\ starts \in 0 .. MaxStarts /\ pending \in [Labels -> Slots \cup {NoSlot}]
    BY LabelFacts, SlotsAssumption DEF Init, main
  <2>2. armed \in [Labels -> BOOLEAN]
    BY DEF Init
  <2>. QED
    BY <1>1, <2>1, <2>2 DEF Init, TypeOK
<1>3. Counted /\ Asked /\ Promised
  BY DEF Init, Counted, Asked, Promised
<1>4. AtRest /\ ClosedIsEmpty /\ OnDisk /\ InWindow /\ OneHolder
  BY LabelFacts DEF Init, AtRest, ClosedIsEmpty, OnDisk, InWindow, OneHolder
<1>. QED
  BY <1>2, <1>3, <1>4 DEF IInv

LEMMA StartsStep == ASSUME IInv, Starts PROVE IInv'
<1>. USE DEF IInv, Starts, ghosts
<1>1. TypeOK'
  <2>1. disk' \in [Slots -> Works] /\ begun' \in Works /\ work' \in [Labels -> Works]
    BY LabelFacts, SlotFacts, EffectiveFacts DEF TypeOK
  <2>2. running' \in BOOLEAN /\ starts' \in 0 .. MaxStarts /\ counter' \in Labels
    BY LabelFacts, SeedFacts, SlotsAssumption DEF TypeOK
  <2>3. pending' \in [Labels -> Slots \cup {NoSlot}] /\ armed' \in [Labels -> BOOLEAN]
    BY LabelFacts, SlotFacts DEF TypeOK
  <2>4. protected' \subseteq Slots /\ prompt' \subseteq Slots /\ rest' \subseteq Slots
    BY DEF TypeOK, Files
  <2>5. live' \subseteq Labels /\ blank' \subseteq live' /\ snapped' \subseteq live'
    BY LabelFacts DEF TypeOK, AtRest
  <2>6. undecided' \subseteq 1 .. begun'
    BY LabelFacts DEF TypeOK, OnDisk
  <2>7. \A k \in live' : k <= counter'
    BY LabelFacts, SeedFacts DEF TypeOK, main
  <2>. QED
    BY <2>1, <2>2, <2>3, <2>4, <2>5, <2>6, <2>7 DEF TypeOK
<1>2. AtRest' /\ ClosedIsEmpty' /\ Asked'
  BY LabelFacts, SlotFacts DEF TypeOK, AtRest, ClosedIsEmpty, Asked, Promised
<1>3. Promised'
  BY LabelFacts, SlotFacts DEF TypeOK, AtRest, ClosedIsEmpty, Asked, Promised
<1>4. Counted'
  BY LabelFacts, SlotFacts, SeedFacts, EffectiveFacts DEF TypeOK, AtRest, Asked, Promised, Counted, Files
<1>5. OnDisk'
  BY LabelFacts, SlotFacts, EffectiveFacts DEF TypeOK, OnDisk, InWindow
<1>6. InWindow'
  BY LabelFacts, SlotFacts, EffectiveFacts DEF TypeOK, AtRest, ClosedIsEmpty, Counted, OnDisk, InWindow, Asked, OneHolder, effective_own_slot
<1>7. OneHolder'
  BY LabelFacts, SlotFacts, EffectiveFacts DEF TypeOK, AtRest, ClosedIsEmpty, OnDisk, InWindow, Asked, OneHolder
<1>. QED
  BY <1>1, <1>2, <1>3, <1>4, <1>5, <1>6, <1>7

LEMMA StartsWithFileStep == ASSUME IInv, StartsWithFile PROVE IInv'
<1>. USE DEF IInv, StartsWithFile, ghosts
<1>1. TypeOK'
  <2>1. disk' \in [Slots -> Works] /\ begun' \in Works /\ work' \in [Labels -> Works]
    BY LabelFacts, SlotFacts, EffectiveFacts DEF TypeOK
  <2>2. running' \in BOOLEAN /\ starts' \in 0 .. MaxStarts /\ counter' \in Labels
    BY LabelFacts, SeedFacts, SlotsAssumption DEF TypeOK
  <2>3. pending' \in [Labels -> Slots \cup {NoSlot}] /\ armed' \in [Labels -> BOOLEAN]
    BY LabelFacts, SlotFacts DEF TypeOK
  <2>4. protected' \subseteq Slots /\ prompt' \subseteq Slots /\ rest' \subseteq Slots
    BY DEF TypeOK, Files
  <2>5. live' \subseteq Labels /\ blank' \subseteq live' /\ snapped' \subseteq live'
    BY LabelFacts DEF TypeOK, AtRest
  <2>6. undecided' \subseteq 1 .. begun'
    BY LabelFacts DEF TypeOK, OnDisk
  <2>7. \A k \in live' : k <= counter'
    BY LabelFacts, SeedFacts DEF TypeOK, main
  <2>. QED
    BY <2>1, <2>2, <2>3, <2>4, <2>5, <2>6, <2>7 DEF TypeOK
<1>2. AtRest' /\ ClosedIsEmpty' /\ Asked'
  BY LabelFacts, SlotFacts DEF TypeOK, AtRest, ClosedIsEmpty, Asked, Promised
<1>3. Promised'
  BY LabelFacts, SlotFacts DEF TypeOK, AtRest, ClosedIsEmpty, Asked, Promised
<1>4. Counted'
  BY LabelFacts, SlotFacts, SeedFacts, EffectiveFacts DEF TypeOK, AtRest, Asked, Promised, Counted, Files
<1>5. OnDisk'
  BY LabelFacts, SlotFacts, EffectiveFacts DEF TypeOK, OnDisk, InWindow
<1>6. InWindow'
  BY LabelFacts, SlotFacts, EffectiveFacts DEF TypeOK, AtRest, ClosedIsEmpty, Counted, OnDisk, InWindow, Asked, OneHolder, effective_own_slot
<1>7. OneHolder'
  BY LabelFacts, SlotFacts, EffectiveFacts DEF TypeOK, AtRest, ClosedIsEmpty, OnDisk, InWindow, Asked, OneHolder
<1>. QED
  BY <1>1, <1>2, <1>3, <1>4, <1>5, <1>6, <1>7

LEMMA CrashStep == ASSUME IInv, Crash PROVE IInv'
<1>. USE DEF IInv, Crash
<1>1. TypeOK'
  <2>1. disk' \in [Slots -> Works] /\ begun' \in Works /\ work' \in [Labels -> Works]
    BY LabelFacts, SlotFacts, EffectiveFacts DEF TypeOK
  <2>2. running' \in BOOLEAN /\ starts' \in 0 .. MaxStarts /\ counter' \in Labels
    BY LabelFacts, SeedFacts, SlotsAssumption DEF TypeOK
  <2>3. pending' \in [Labels -> Slots \cup {NoSlot}] /\ armed' \in [Labels -> BOOLEAN]
    BY LabelFacts, SlotFacts DEF TypeOK
  <2>4. protected' \subseteq Slots /\ prompt' \subseteq Slots /\ rest' \subseteq Slots
    BY DEF TypeOK, Files
  <2>5. live' \subseteq Labels /\ blank' \subseteq live' /\ snapped' \subseteq live'
    BY LabelFacts DEF TypeOK
  <2>6. undecided' \subseteq 1 .. begun'
    <3>1. \A s \in Slots : disk[s] \in Nat /\ disk[s] <= begun
      BY LabelFacts DEF TypeOK, OnDisk
    <3>2. begun \in Nat /\ undecided \subseteq 1 .. begun
      BY LabelFacts DEF TypeOK
    <3>3. \A s \in Slots : disk[s] \in Nat /\ disk[s] <= begun
      BY <3>1, <3>2, EffectiveFacts DEF TypeOK
    <3>4. undecided' \subseteq undecided \cup ({disk[s] : s \in Slots} \ {0})
      OBVIOUS
    <3>5. begun' = begun
      OBVIOUS
    <3>6. ASSUME NEW u \in {disk[s] : s \in Slots} \ {0} PROVE u \in 1 .. begun
      BY <3>2, <3>3
    <3>. QED
      BY <3>2, <3>4, <3>5, <3>6
  <2>7. \A k \in live' : k <= counter'
    BY LabelFacts, SeedFacts DEF TypeOK, main
  <2>. QED
    BY <2>1, <2>2, <2>3, <2>4, <2>5, <2>6, <2>7 DEF TypeOK
<1>2. AtRest' /\ ClosedIsEmpty' /\ Asked'
  BY LabelFacts, SlotFacts DEF TypeOK, AtRest, ClosedIsEmpty, Asked, Promised
<1>3. Promised'
  BY LabelFacts, SlotFacts DEF TypeOK, AtRest, ClosedIsEmpty, Asked, Promised
<1>4. Counted'
  BY LabelFacts, SlotFacts, SeedFacts, EffectiveFacts DEF TypeOK, AtRest, Asked, Promised, Counted, Files
<1>5. OnDisk'
  BY LabelFacts, SlotFacts, EffectiveFacts DEF TypeOK, OnDisk, InWindow
<1>6. InWindow'
  BY LabelFacts, SlotFacts, EffectiveFacts DEF TypeOK, AtRest, ClosedIsEmpty, Counted, OnDisk, InWindow, Asked, OneHolder, effective_own_slot
<1>7. OneHolder'
  BY LabelFacts, SlotFacts, EffectiveFacts DEF TypeOK, AtRest, ClosedIsEmpty, OnDisk, InWindow, Asked, OneHolder
<1>. QED
  BY <1>1, <1>2, <1>3, <1>4, <1>5, <1>6, <1>7

\* A window that takes a protected slot moves it to its own: no other window's
\* slot is that one or the one it comes from.
LEMMA AdoptsStep ==
  ASSUME IInv, NEW l \in live, NEW s \in protected, work[l] = 0,
         s = <<l, "own">> \/ <<l, "own">> \notin protected,
         l # main => <<main, "own">> \notin protected,
         Adopts(l, s), UNCHANGED <<live, begun>>
  PROVE  /\ disk' \in [Slots -> Works] /\ protected' = protected \ {s, <<l, "own">>}
         /\ OnDisk' /\ InWindow' /\ OneHolder'
         /\ \A t \in Slots : disk'[t] # 0 => disk[t] # 0 \/ t = <<l, "own">>
<1>. DEFINE own == <<l, "own">>
<1>. USE DEF IInv
<1>1. l \in Labels /\ s \in Slots /\ own \in Slots /\ disk[s] # 0
  BY SlotFacts DEF TypeOK, Adopts
<1>2. /\ protected' = protected \ {s, own}
      /\ disk' = IF s = own THEN disk ELSE [disk EXCEPT ![own] = disk[s], ![s] = 0]
  BY DEF Adopts, Claim
<1>3. effective_own_slot(l)' = own
  BY <1>2 DEF effective_own_slot
<1>4. ASSUME NEW m \in live, m # l
      PROVE  /\ effective_own_slot(m)' = effective_own_slot(m) /\ effective_own_slot(m) \in Slots
             /\ effective_own_slot(m) # s /\ effective_own_slot(m) # own
  <2>1. m \in Labels /\ effective_own_slot(m)[1] = m /\ effective_own_slot(m) \in Slots
    BY EffectiveFacts DEF TypeOK
  <2>2. effective_own_slot(m) # own
    BY <1>4, <2>1
  <2>3. effective_own_slot(m) # s
    <3>1. CASE m # main
      BY <2>1, <3>1 DEF Counted
    <3>2. CASE m = main
      BY <1>4, <2>1, <3>2, EffectiveFacts
    <3>. QED
      BY <3>1, <3>2
  <2>4. <<m, "own">> # own /\ <<m, "own">> # s
    <3>1. CASE m # main
      BY <1>4, <3>1 DEF Counted
    <3>2. CASE m = main
      BY <1>4, <3>2
    <3>. QED
      BY <3>1, <3>2
  <2>5. effective_own_slot(m)' = effective_own_slot(m)
    BY <1>2, <2>4 DEF effective_own_slot
  <2>. QED
    BY <2>1, <2>2, <2>3, <2>5
<1>5. \A m \in live : work[m] # disk[s]
  BY <1>1, <1>4 DEF OnDisk, InWindow
<1>6. disk' \in [Slots -> Works] /\ disk'[own] = disk[s] /\ (\A t \in Slots : t # own => disk'[t] \in {disk[t], 0} /\ (t # s => disk'[t] = disk[t]))
  BY <1>1, <1>2, LabelFacts DEF TypeOK
<1>7. OnDisk'
  <2>1. \A t \in Slots : disk'[t] <= begun
    BY <1>1, <1>2, LabelFacts DEF OnDisk, TypeOK
  <2>2. ASSUME NEW t \in Slots, NEW u \in Slots, t # u, disk'[t] # 0 PROVE disk'[t] # disk'[u]
    BY <1>1, <1>2, <2>2 DEF OnDisk, TypeOK
  <2>. QED
    BY <2>1, <2>2 DEF OnDisk
<1>8. work' = [work EXCEPT ![l] = disk[s]] /\ snapped' = snapped \cup {l}
  BY DEF Adopts
<1>9. OneHolder'
  BY <1>1, <1>5, <1>8 DEF OneHolder, TypeOK
<1>10. InWindow'
  <2>1. \A k \in Labels : work'[k] <= begun
    BY <1>1, <1>8 DEF InWindow, OnDisk, TypeOK
  <2>2. ASSUME NEW m \in snapped' PROVE work'[m] # 0 /\ disk'[effective_own_slot(m)'] = work'[m]
    <3>1. CASE m = l
      BY <1>1, <1>3, <1>6, <1>8, <3>1 DEF TypeOK
    <3>2. CASE m # l
      <4>1. m \in snapped /\ m \in live /\ m \in Labels
        BY <1>8, <3>2 DEF TypeOK
      <4>2. work'[m] = work[m] /\ disk'[effective_own_slot(m)] = disk[effective_own_slot(m)]
        BY <1>1, <1>2, <1>4, <1>8, <3>2, <4>1 DEF TypeOK
      <4>. QED
        BY <1>4, <3>2, <4>1, <4>2 DEF InWindow
    <3>. QED
      BY <3>1, <3>2
  <2>3. ASSUME NEW m \in live \ snapped', work'[m] # 0, NEW t \in Slots PROVE disk'[t] # work'[m]
    BY <1>1, <1>2, <1>5, <1>8, <2>3 DEF InWindow, TypeOK
  <2>. QED
    BY <2>1, <2>2, <2>3 DEF InWindow
<1>. QED
  BY <1>1, <1>2, <1>6, <1>7, <1>9, <1>10

LEMMA RecoverStep == ASSUME IInv, handleRecover PROVE IInv'
<1>. USE DEF IInv
<1>1. PICK s \in prompt :
        /\ <<main, "own">> \in prompt => s = <<main, "own">>
        /\ Adopts(main, s) /\ rest' = prompt \ {s}
  BY DEF handleRecover
<1>2. /\ main \in live /\ work[main] = 0 /\ prompt = protected /\ prompt' = {}
      /\ UNCHANGED <<running, starts, counter, pending, live, begun>>
      /\ \A k \in Labels : pending[k] = NoSlot
  BY DEF handleRecover, Asked
<1>3. /\ disk' \in [Slots -> Works] /\ protected' = protected \ {s, <<main, "own">>}
      /\ OnDisk' /\ InWindow' /\ OneHolder'
      /\ \A t \in Slots : disk'[t] # 0 => disk[t] # 0 \/ t = <<main, "own">>
  BY <1>1, <1>2, AdoptsStep
<1>4. /\ work' = [work EXCEPT ![main] = disk[s]] /\ armed' = [armed EXCEPT ![main] = TRUE]
      /\ blank' = blank \ {main}
      /\ snapped' = snapped \cup {main} /\ undecided' = undecided \ {disk[s]}
  BY <1>1 DEF Adopts
<1>5. TypeOK'
  <2>1. s \in Slots /\ main \in Labels
    BY <1>1, <1>2 DEF TypeOK
  <2>2. work' \in [Labels -> Works]
    BY <1>4, <2>1 DEF TypeOK
  <2>3. armed' \in [Labels -> BOOLEAN] /\ protected' \subseteq Slots /\ rest' \subseteq Slots
    BY <1>1, <1>3, <1>4 DEF TypeOK
  <2>. QED
    BY <1>2, <1>3, <1>4, <2>2, <2>3 DEF TypeOK
<1>6. AtRest' /\ ClosedIsEmpty' /\ Asked'
  BY <1>2, <1>4 DEF AtRest, ClosedIsEmpty, Asked, TypeOK
<1>7. Promised'
  BY <1>1, <1>2, <1>3 DEF Promised
<1>8. Counted'
  BY <1>2, <1>3, LabelFacts DEF Counted, Files, AtRest, TypeOK
<1>. QED
  BY <1>3, <1>5, <1>6, <1>7, <1>8

\* The next label is nobody's.
LEMMA NextLabel ==
  ASSUME IInv, counter < MaxLabel
  PROVE  /\ counter + 1 \in Labels /\ counter + 1 \notin live /\ counter + 1 # main
         /\ counter < counter + 1 /\ counter \in Nat
         /\ work[counter + 1] = 0 /\ pending[counter + 1] = NoSlot
         /\ \A s \in protected : s[1] \in Nat /\ s[1] # counter + 1
<1>. USE LabelFacts, SlotsAssumption DEF IInv
<1>1. counter \in Nat /\ counter >= 1 /\ counter + 1 \in Labels
  BY DEF TypeOK
<1>2. counter + 1 \notin live /\ counter + 1 # main
  BY <1>1 DEF TypeOK, main
<1>3. work[counter + 1] = 0 /\ pending[counter + 1] = NoSlot
  BY <1>1, <1>2 DEF ClosedIsEmpty
<1>4. \A s \in protected : s[1] \in Nat /\ s[1] # counter + 1
  <2>1. \A s \in protected : s[1] \in Nat /\ s[1] <= counter
    BY SlotFacts DEF Counted, TypeOK
  <2>. QED
    BY <1>1, <2>1
<1>. QED
  BY <1>1, <1>2, <1>3, <1>4

LEMMA RecoverInWindowStep == ASSUME IInv, RecoverInWindow PROVE IInv'
<1>. USE DEF IInv, RecoverInWindow, Opens, ghosts
<1>1. TypeOK'
  <2>1. disk' \in [Slots -> Works] /\ begun' \in Works /\ work' \in [Labels -> Works]
    BY LabelFacts, SlotFacts, EffectiveFacts DEF TypeOK
  <2>2. running' \in BOOLEAN /\ starts' \in 0 .. MaxStarts /\ counter' \in Labels
    BY LabelFacts, SeedFacts, SlotsAssumption DEF TypeOK
  <2>3. pending' \in [Labels -> Slots \cup {NoSlot}] /\ armed' \in [Labels -> BOOLEAN]
    BY LabelFacts, SlotFacts DEF TypeOK
  <2>4. protected' \subseteq Slots /\ prompt' \subseteq Slots /\ rest' \subseteq Slots
    BY DEF TypeOK, Files
  <2>5. live' \subseteq Labels /\ blank' \subseteq live' /\ snapped' \subseteq live'
    BY NextLabel, LabelFacts DEF TypeOK
  <2>6. undecided' \subseteq 1 .. begun'
    BY LabelFacts DEF TypeOK, OnDisk
  <2>7. \A k \in live' : k <= counter'
    BY LabelFacts, SeedFacts DEF TypeOK, main
  <2>. QED
    BY <2>1, <2>2, <2>3, <2>4, <2>5, <2>6, <2>7 DEF TypeOK
<1>2. AtRest' /\ ClosedIsEmpty' /\ Asked'
  BY LabelFacts, SlotFacts DEF TypeOK, AtRest, ClosedIsEmpty, Asked, Promised
<1>3. Promised'
  BY LabelFacts, SlotFacts DEF TypeOK, AtRest, ClosedIsEmpty, Asked, Promised
<1>4. Counted'
  <2>1. \A s \in protected : s[1] \in Nat /\ s[1] <= counter /\ (s[1] \in live' => s[1] = main)
    BY NextLabel, SlotFacts, LabelFacts DEF TypeOK, Counted
  <2>2. \A s \in Files : s[1] \in Nat /\ s[1] <= counter
    BY SlotFacts, LabelFacts DEF TypeOK, Counted, Files, AtRest
  <2>3. counter' = counter + 1 /\ counter \in Nat
    BY NextLabel
  <2>. QED
    BY <2>1, <2>2, <2>3 DEF Counted, Files
<1>5. OnDisk'
  BY LabelFacts, SlotFacts, EffectiveFacts DEF TypeOK, OnDisk, InWindow
<1>6. InWindow'
  BY NextLabel DEF TypeOK, InWindow, effective_own_slot
<1>7. OneHolder'
  BY NextLabel, LabelFacts DEF TypeOK, OneHolder
<1>. QED
  BY <1>1, <1>2, <1>3, <1>4, <1>5, <1>6, <1>7

LEMMA DiscardStep == ASSUME IInv, handleDiscardRecovery PROVE IInv'
<1>. USE DEF IInv, handleDiscardRecovery
<1>1. TypeOK'
  <2>1. disk' \in [Slots -> Works] /\ begun' \in Works /\ work' \in [Labels -> Works]
    BY LabelFacts, SlotFacts, EffectiveFacts DEF TypeOK
  <2>2. running' \in BOOLEAN /\ starts' \in 0 .. MaxStarts /\ counter' \in Labels
    BY LabelFacts, SeedFacts, SlotsAssumption DEF TypeOK
  <2>3. pending' \in [Labels -> Slots \cup {NoSlot}] /\ armed' \in [Labels -> BOOLEAN]
    BY LabelFacts, SlotFacts DEF TypeOK
  <2>4. protected' \subseteq Slots /\ prompt' \subseteq Slots /\ rest' \subseteq Slots
    BY DEF TypeOK, Files
  <2>5. live' \subseteq Labels /\ blank' \subseteq live' /\ snapped' \subseteq live'
    BY LabelFacts DEF TypeOK
  <2>6. undecided' \subseteq 1 .. begun'
    BY LabelFacts DEF TypeOK, OnDisk
  <2>7. \A k \in live' : k <= counter'
    BY LabelFacts, SeedFacts DEF TypeOK, main
  <2>. QED
    BY <2>1, <2>2, <2>3, <2>4, <2>5, <2>6, <2>7 DEF TypeOK
<1>2. AtRest' /\ ClosedIsEmpty' /\ Asked'
  BY LabelFacts, SlotFacts DEF TypeOK, AtRest, ClosedIsEmpty, Asked, Promised
<1>3. Promised'
  BY LabelFacts, SlotFacts DEF TypeOK, AtRest, ClosedIsEmpty, Asked, Promised
<1>4. Counted'
  BY LabelFacts, SlotFacts, SeedFacts, EffectiveFacts DEF TypeOK, AtRest, Asked, Promised, Counted, Files
<1>5. OnDisk'
  BY LabelFacts, SlotFacts, EffectiveFacts DEF TypeOK, OnDisk, InWindow
<1>6. InWindow'
  BY LabelFacts, SlotFacts, EffectiveFacts DEF TypeOK, AtRest, ClosedIsEmpty, Counted, OnDisk, InWindow, Asked, OneHolder, effective_own_slot
<1>7. OneHolder'
  BY LabelFacts, SlotFacts, EffectiveFacts DEF TypeOK, AtRest, ClosedIsEmpty, OnDisk, InWindow, Asked, OneHolder
<1>. QED
  BY <1>1, <1>2, <1>3, <1>4, <1>5, <1>6, <1>7

LEMMA DismissStep == ASSUME IInv, handleDismissRecovery PROVE IInv'
<1>. USE DEF IInv, handleDismissRecovery, shell, ghosts
<1>1. TypeOK'
  <2>1. disk' \in [Slots -> Works] /\ begun' \in Works /\ work' \in [Labels -> Works]
    BY LabelFacts, SlotFacts, EffectiveFacts DEF TypeOK
  <2>2. running' \in BOOLEAN /\ starts' \in 0 .. MaxStarts /\ counter' \in Labels
    BY LabelFacts, SeedFacts, SlotsAssumption DEF TypeOK
  <2>3. pending' \in [Labels -> Slots \cup {NoSlot}] /\ armed' \in [Labels -> BOOLEAN]
    BY LabelFacts, SlotFacts DEF TypeOK
  <2>4. protected' \subseteq Slots /\ prompt' \subseteq Slots /\ rest' \subseteq Slots
    BY DEF TypeOK, Files
  <2>5. live' \subseteq Labels /\ blank' \subseteq live' /\ snapped' \subseteq live'
    BY LabelFacts DEF TypeOK
  <2>6. undecided' \subseteq 1 .. begun'
    BY LabelFacts DEF TypeOK, OnDisk
  <2>7. \A k \in live' : k <= counter'
    BY LabelFacts, SeedFacts DEF TypeOK, main
  <2>. QED
    BY <2>1, <2>2, <2>3, <2>4, <2>5, <2>6, <2>7 DEF TypeOK
<1>2. AtRest' /\ ClosedIsEmpty' /\ Asked'
  BY LabelFacts, SlotFacts DEF TypeOK, AtRest, ClosedIsEmpty, Asked, Promised
<1>3. Promised'
  BY LabelFacts, SlotFacts DEF TypeOK, AtRest, ClosedIsEmpty, Asked, Promised
<1>4. Counted'
  BY LabelFacts, SlotFacts, SeedFacts, EffectiveFacts DEF TypeOK, AtRest, Asked, Promised, Counted, Files
<1>5. OnDisk'
  BY LabelFacts, SlotFacts, EffectiveFacts DEF TypeOK, OnDisk, InWindow
<1>6. InWindow'
  BY LabelFacts, SlotFacts, EffectiveFacts DEF TypeOK, AtRest, ClosedIsEmpty, Counted, OnDisk, InWindow, Asked, OneHolder, effective_own_slot
<1>7. OneHolder'
  BY LabelFacts, SlotFacts, EffectiveFacts DEF TypeOK, AtRest, ClosedIsEmpty, OnDisk, InWindow, Asked, OneHolder
<1>. QED
  BY <1>1, <1>2, <1>3, <1>4, <1>5, <1>6, <1>7

LEMMA NewWindowStep == ASSUME IInv, NewWindow PROVE IInv'
<1>. USE DEF IInv, NewWindow, Opens, ghosts
<1>1. TypeOK'
  <2>1. disk' \in [Slots -> Works] /\ begun' \in Works /\ work' \in [Labels -> Works]
    BY LabelFacts, SlotFacts, EffectiveFacts DEF TypeOK
  <2>2. running' \in BOOLEAN /\ starts' \in 0 .. MaxStarts /\ counter' \in Labels
    BY LabelFacts, SeedFacts, SlotsAssumption DEF TypeOK
  <2>3. pending' \in [Labels -> Slots \cup {NoSlot}] /\ armed' \in [Labels -> BOOLEAN]
    BY LabelFacts, SlotFacts DEF TypeOK
  <2>4. protected' \subseteq Slots /\ prompt' \subseteq Slots /\ rest' \subseteq Slots
    BY DEF TypeOK, Files
  <2>5. live' \subseteq Labels /\ blank' \subseteq live' /\ snapped' \subseteq live'
    BY NextLabel, LabelFacts DEF TypeOK
  <2>6. undecided' \subseteq 1 .. begun'
    BY LabelFacts DEF TypeOK, OnDisk
  <2>7. \A k \in live' : k <= counter'
    BY LabelFacts, SeedFacts DEF TypeOK, main
  <2>. QED
    BY <2>1, <2>2, <2>3, <2>4, <2>5, <2>6, <2>7 DEF TypeOK
<1>2. AtRest' /\ ClosedIsEmpty' /\ Asked'
  BY LabelFacts, SlotFacts DEF TypeOK, AtRest, ClosedIsEmpty, Asked, Promised
<1>3. Promised'
  BY LabelFacts, SlotFacts DEF TypeOK, AtRest, ClosedIsEmpty, Asked, Promised
<1>4. Counted'
  <2>1. \A s \in protected : s[1] \in Nat /\ s[1] <= counter /\ (s[1] \in live' => s[1] = main)
    BY NextLabel, SlotFacts, LabelFacts DEF TypeOK, Counted
  <2>2. \A s \in Files : s[1] \in Nat /\ s[1] <= counter
    BY SlotFacts, LabelFacts DEF TypeOK, Counted, Files, AtRest
  <2>3. counter' = counter + 1 /\ counter \in Nat
    BY NextLabel
  <2>. QED
    BY <2>1, <2>2, <2>3 DEF Counted, Files
<1>5. OnDisk'
  BY LabelFacts, SlotFacts, EffectiveFacts DEF TypeOK, OnDisk, InWindow
<1>6. InWindow'
  BY NextLabel DEF TypeOK, InWindow, effective_own_slot
<1>7. OneHolder'
  BY NextLabel, LabelFacts DEF TypeOK, OneHolder
<1>. QED
  BY <1>1, <1>2, <1>3, <1>4, <1>5, <1>6, <1>7

LEMMA ClaimPendingStep == ASSUME IInv, NEW l \in Labels, ClaimPending(l) PROVE IInv'
<1>. USE DEF IInv
<1>. DEFINE s == pending[l]
<1>1. /\ l \in live /\ s # NoSlot /\ pending' = [pending EXCEPT ![l] = NoSlot]
      /\ UNCHANGED <<running, starts, counter, live, prompt, rest, begun>>
  BY DEF ClaimPending
<1>2. /\ l # main /\ work[l] = 0 /\ s \in protected \ rest
      /\ <<l, "own">> \notin protected /\ <<main, "own">> \notin protected
  BY <1>1 DEF Promised, Counted
<1>3. prompt = {}
  BY <1>1 DEF Asked
<1>4. pending' \in [Labels -> Slots \cup {NoSlot}] /\ pending'[l] = NoSlot
      /\ \A k \in Labels : k # l => pending'[k] = pending[k]
  BY <1>1 DEF TypeOK
<1>5. CASE disk[s] = 0
  <2>1. UNCHANGED <<disk, protected, work, armed, blank, snapped, undecided>>
    BY <1>5 DEF ClaimPending
  <2>2. TypeOK' /\ AtRest' /\ ClosedIsEmpty' /\ Asked'
    BY <1>1, <1>3, <1>4, <2>1 DEF TypeOK, AtRest, ClosedIsEmpty, Asked
  <2>3. Promised' /\ Counted'
    BY <1>1, <1>4, <2>1 DEF Promised, Counted, Files
  <2>4. OnDisk' /\ InWindow' /\ OneHolder'
    BY <1>1, <2>1 DEF OnDisk, InWindow, OneHolder, effective_own_slot
  <2>. QED
    BY <2>2, <2>3, <2>4
<1>6. CASE disk[s] # 0
  <2>1. Adopts(l, s)
    BY <1>6 DEF ClaimPending
  <2>2. /\ disk' \in [Slots -> Works] /\ protected' = protected \ {s, <<l, "own">>}
        /\ OnDisk' /\ InWindow' /\ OneHolder'
        /\ \A t \in Slots : disk'[t] # 0 => disk[t] # 0 \/ t = <<l, "own">>
    BY <1>1, <1>2, <2>1, AdoptsStep
  <2>3. /\ work' = [work EXCEPT ![l] = disk[s]] /\ armed' = [armed EXCEPT ![l] = TRUE]
        /\ blank' = blank \ {l}
        /\ snapped' = snapped \cup {l} /\ undecided' = undecided \ {disk[s]}
    BY <2>1 DEF Adopts
  <2>4. work' \in [Labels -> Works] /\ (\A k \in Labels : k # l => work'[k] = work[k])
    BY <1>2, <2>3 DEF TypeOK
  <2>5. TypeOK'
    BY <1>1, <1>4, <2>2, <2>3, <2>4 DEF TypeOK
  <2>6. AtRest' /\ ClosedIsEmpty' /\ Asked'
    BY <1>1, <1>3, <1>4, <2>4 DEF AtRest, ClosedIsEmpty, Asked, TypeOK
  <2>7. Promised'
    <3>1. rest' \subseteq protected' /\ <<main, "own">> \notin protected'
      BY <1>1, <1>2, <2>2 DEF Promised
    <3>2. ASSUME NEW k \in Labels, pending'[k] # NoSlot
          PROVE k # main /\ work'[k] = 0 /\ pending'[k] \in protected' \ rest'
      BY <1>1, <1>2, <1>4, <2>2, <2>4, <3>2 DEF Promised
    <3>3. ASSUME NEW k \in Labels, NEW m \in Labels, pending'[k] # NoSlot, k # m PROVE pending'[k] # pending'[m]
      BY <1>4, <3>3 DEF Promised
    <3>. QED
      BY <3>1, <3>2, <3>3 DEF Promised
  <2>8. Counted'
    <3>1. ASSUME NEW t \in Files' PROVE t[1] <= counter
      BY <1>1, <2>2, <3>1 DEF Counted, Files, AtRest, TypeOK
    <3>. QED
      BY <1>1, <2>2, <3>1 DEF Counted
  <2>. QED
    BY <2>2, <2>5, <2>6, <2>7, <2>8
<1>. QED
  BY <1>5, <1>6

LEMMA EditStep == ASSUME IInv, NEW l \in Labels, Edit(l) PROVE IInv'
<1>. USE DEF IInv, Edit, Usable, shell
<1>1. TypeOK'
  <2>1. disk' \in [Slots -> Works] /\ begun' \in Works /\ work' \in [Labels -> Works]
    BY LabelFacts, SlotsAssumption DEF TypeOK, Works
  <2>2. running' \in BOOLEAN /\ starts' \in 0 .. MaxStarts /\ counter' \in Labels
    BY LabelFacts, SeedFacts, SlotsAssumption DEF TypeOK
  <2>3. pending' \in [Labels -> Slots \cup {NoSlot}] /\ armed' \in [Labels -> BOOLEAN]
    BY LabelFacts, SlotFacts DEF TypeOK
  <2>4. protected' \subseteq Slots /\ prompt' \subseteq Slots /\ rest' \subseteq Slots
    BY DEF TypeOK, Files
  <2>5. live' \subseteq Labels /\ blank' \subseteq live' /\ snapped' \subseteq live'
    BY LabelFacts DEF TypeOK
  <2>6. undecided' \subseteq 1 .. begun'
    BY LabelFacts DEF TypeOK, OnDisk
  <2>7. \A k \in live' : k <= counter'
    BY LabelFacts, SeedFacts DEF TypeOK, main
  <2>. QED
    BY <2>1, <2>2, <2>3, <2>4, <2>5, <2>6, <2>7 DEF TypeOK
<1>2. AtRest' /\ ClosedIsEmpty' /\ Asked'
  BY LabelFacts, SlotFacts DEF TypeOK, AtRest, ClosedIsEmpty, Asked, Promised
<1>3. Promised'
  BY LabelFacts, SlotFacts DEF TypeOK, AtRest, ClosedIsEmpty, Asked, Promised
<1>4. Counted'
  BY LabelFacts, SlotFacts, SeedFacts, EffectiveFacts DEF TypeOK, AtRest, Asked, Promised, Counted, Files
<1>5. begun \in Nat /\ begun' \in {begun, begun + 1} /\ begun' \in Nat
  BY LabelFacts DEF TypeOK
<1>6. OnDisk'
  <2>1. \A t \in Slots : disk[t] \in Nat /\ disk[t] <= begun
    BY LabelFacts DEF TypeOK, OnDisk
  <2>. QED
    BY <1>5, <2>1 DEF OnDisk
<1>7. InWindow'
  <2>9. \A t \in Slots : disk[t] \in Nat /\ disk[t] <= begun
    BY LabelFacts DEF TypeOK, OnDisk
  <2>1. \A t \in Slots : disk[t] # begun + 1
    BY <1>5, <2>9
  <2>2. \A k \in Labels : work[k] \in Nat /\ work[k] <= begun
    BY LabelFacts DEF TypeOK, InWindow
  <2>3. \A k \in Labels : work'[k] <= begun'
    BY <1>5, <2>2 DEF TypeOK
  <2>4. ASSUME NEW m \in snapped' PROVE work'[m] # 0 /\ disk'[effective_own_slot(m)'] = work'[m]
    <3>1. m \in snapped /\ work[m] # 0 /\ m \in Labels
      BY DEF InWindow, TypeOK
    <3>2. work'[m] = work[m]
      BY <3>1 DEF TypeOK
    <3>. QED
      BY <3>1, <3>2 DEF InWindow, effective_own_slot
  <2>5. ASSUME NEW m \in live \ snapped, work'[m] # 0, NEW t \in Slots PROVE disk'[t] # work'[m]
    <3>1. CASE work[m] # 0
      BY <2>5, <3>1 DEF InWindow, TypeOK
    <3>2. CASE work[m] = 0
      BY <2>1, <2>5, <3>2 DEF TypeOK
    <3>. QED
      BY <3>1, <3>2
  <2>. QED
    BY <2>3, <2>4, <2>5 DEF InWindow
<1>8. OneHolder'
  BY LabelFacts, SlotFacts, EffectiveFacts DEF TypeOK, AtRest, ClosedIsEmpty, OnDisk, InWindow, Asked, OneHolder
<1>. QED
  BY <1>1, <1>2, <1>3, <1>4, <1>6, <1>7, <1>8

LEMMA AutosaveStep == ASSUME IInv, NEW l \in Labels, Autosave(l) PROVE IInv'
<1>. USE DEF IInv, Autosave, shell
<1>1. TypeOK'
  <2>1. disk' \in [Slots -> Works] /\ begun' \in Works /\ work' \in [Labels -> Works]
    BY LabelFacts, SlotFacts, EffectiveFacts DEF TypeOK
  <2>2. running' \in BOOLEAN /\ starts' \in 0 .. MaxStarts /\ counter' \in Labels
    BY LabelFacts, SeedFacts, SlotsAssumption DEF TypeOK
  <2>3. pending' \in [Labels -> Slots \cup {NoSlot}] /\ armed' \in [Labels -> BOOLEAN]
    BY LabelFacts, SlotFacts DEF TypeOK
  <2>4. protected' \subseteq Slots /\ prompt' \subseteq Slots /\ rest' \subseteq Slots
    BY DEF TypeOK, Files
  <2>5. live' \subseteq Labels /\ blank' \subseteq live' /\ snapped' \subseteq live'
    BY LabelFacts DEF TypeOK
  <2>6. undecided' \subseteq 1 .. begun'
    BY LabelFacts DEF TypeOK, OnDisk
  <2>7. \A k \in live' : k <= counter'
    BY LabelFacts, SeedFacts DEF TypeOK, main
  <2>. QED
    BY <2>1, <2>2, <2>3, <2>4, <2>5, <2>6, <2>7 DEF TypeOK
<1>2. AtRest' /\ ClosedIsEmpty' /\ Asked'
  BY LabelFacts, SlotFacts DEF TypeOK, AtRest, ClosedIsEmpty, Asked, Promised
<1>3. Promised'
  BY LabelFacts, SlotFacts DEF TypeOK, AtRest, ClosedIsEmpty, Asked, Promised
<1>4. Counted'
  BY LabelFacts, SlotFacts, SeedFacts, EffectiveFacts DEF TypeOK, AtRest, Asked, Promised, Counted, Files
<1>5. OnDisk'
  BY LabelFacts, SlotFacts, EffectiveFacts DEF TypeOK, OnDisk, InWindow
<1>6. InWindow'
  BY LabelFacts, SlotFacts, EffectiveFacts DEF TypeOK, AtRest, ClosedIsEmpty, Counted, OnDisk, InWindow, Asked, OneHolder, effective_own_slot
<1>7. OneHolder'
  BY LabelFacts, SlotFacts, EffectiveFacts DEF TypeOK, AtRest, ClosedIsEmpty, OnDisk, InWindow, Asked, OneHolder
<1>. QED
  BY <1>1, <1>2, <1>3, <1>4, <1>5, <1>6, <1>7

LEMMA CleanStep == ASSUME IInv, NEW l \in Labels, Clean(l) PROVE IInv'
<1>. USE DEF IInv, Clean, Usable, Cleared, shell
<1>1. TypeOK'
  <2>1. disk' \in [Slots -> Works] /\ begun' \in Works /\ work' \in [Labels -> Works]
    BY LabelFacts, SlotFacts, EffectiveFacts DEF TypeOK
  <2>2. running' \in BOOLEAN /\ starts' \in 0 .. MaxStarts /\ counter' \in Labels
    BY LabelFacts, SeedFacts, SlotsAssumption DEF TypeOK
  <2>3. pending' \in [Labels -> Slots \cup {NoSlot}] /\ armed' \in [Labels -> BOOLEAN]
    BY LabelFacts, SlotFacts DEF TypeOK
  <2>4. protected' \subseteq Slots /\ prompt' \subseteq Slots /\ rest' \subseteq Slots
    BY DEF TypeOK, Files
  <2>5. live' \subseteq Labels /\ blank' \subseteq live' /\ snapped' \subseteq live'
    BY LabelFacts DEF TypeOK
  <2>6. undecided' \subseteq 1 .. begun'
    BY LabelFacts DEF TypeOK, OnDisk
  <2>7. \A k \in live' : k <= counter'
    BY LabelFacts, SeedFacts DEF TypeOK, main
  <2>. QED
    BY <2>1, <2>2, <2>3, <2>4, <2>5, <2>6, <2>7 DEF TypeOK
<1>2. AtRest' /\ ClosedIsEmpty' /\ Asked'
  BY LabelFacts, SlotFacts DEF TypeOK, AtRest, ClosedIsEmpty, Asked, Promised
<1>3. Promised'
  BY LabelFacts, SlotFacts DEF TypeOK, AtRest, ClosedIsEmpty, Asked, Promised
<1>4. Counted'
  BY LabelFacts, SlotFacts, SeedFacts, EffectiveFacts DEF TypeOK, AtRest, Asked, Promised, Counted, Files
<1>5. OnDisk'
  BY LabelFacts, SlotFacts, EffectiveFacts DEF TypeOK, OnDisk, InWindow
<1>6. InWindow'
  BY LabelFacts, SlotFacts, EffectiveFacts DEF TypeOK, AtRest, ClosedIsEmpty, Counted, OnDisk, InWindow, Asked, OneHolder, effective_own_slot
<1>7. OneHolder'
  BY LabelFacts, SlotFacts, EffectiveFacts DEF TypeOK, AtRest, ClosedIsEmpty, OnDisk, InWindow, Asked, OneHolder
<1>. QED
  BY <1>1, <1>2, <1>3, <1>4, <1>5, <1>6, <1>7

LEMMA CloseStep == ASSUME IInv, NEW l \in Labels, Close(l) PROVE IInv'
<1>. USE DEF IInv, Close, Usable
<1>1. TypeOK'
  <2>1. disk' \in [Slots -> Works] /\ begun' \in Works /\ work' \in [Labels -> Works]
    BY LabelFacts, SlotFacts, EffectiveFacts DEF TypeOK, Cleared
  <2>2. running' \in BOOLEAN /\ starts' \in 0 .. MaxStarts /\ counter' \in Labels
    BY LabelFacts, SeedFacts, SlotsAssumption DEF TypeOK
  <2>3. pending' \in [Labels -> Slots \cup {NoSlot}] /\ armed' \in [Labels -> BOOLEAN]
    BY LabelFacts, SlotFacts DEF TypeOK
  <2>4. protected' \subseteq Slots /\ prompt' \subseteq Slots /\ rest' \subseteq Slots
    BY DEF TypeOK, Files
  <2>5. live' \subseteq Labels /\ blank' \subseteq live' /\ snapped' \subseteq live'
    BY LabelFacts DEF TypeOK
  <2>6. undecided' \subseteq 1 .. begun'
    <3>1. \A s \in Slots : disk[s] \in Nat /\ disk[s] <= begun
      BY LabelFacts DEF TypeOK, OnDisk
    <3>2. begun \in Nat /\ undecided \subseteq 1 .. begun
      BY LabelFacts DEF TypeOK
    <3>3. \A s \in Slots : Cleared(l)[s] \in Nat /\ Cleared(l)[s] <= begun
      BY <3>1, <3>2, EffectiveFacts DEF TypeOK, Cleared
    <3>4. undecided' \subseteq undecided \cup ({Cleared(l)[s] : s \in Slots} \ {0})
      OBVIOUS
    <3>5. begun' = begun
      OBVIOUS
    <3>6. ASSUME NEW u \in {Cleared(l)[s] : s \in Slots} \ {0} PROVE u \in 1 .. begun
      BY <3>2, <3>3
    <3>. QED
      BY <3>2, <3>4, <3>5, <3>6
  <2>7. \A k \in live' : k <= counter'
    BY LabelFacts, SeedFacts DEF TypeOK, main
  <2>. QED
    BY <2>1, <2>2, <2>3, <2>4, <2>5, <2>6, <2>7 DEF TypeOK
<1>2. AtRest' /\ ClosedIsEmpty' /\ Asked'
  BY LabelFacts, SlotFacts DEF TypeOK, AtRest, ClosedIsEmpty, Asked, Promised
<1>3. Promised'
  BY LabelFacts, SlotFacts DEF TypeOK, AtRest, ClosedIsEmpty, Asked, Promised
<1>4. Counted'
  BY LabelFacts, SlotFacts, SeedFacts, EffectiveFacts DEF Cleared, TypeOK, AtRest, Asked, Promised, Counted, Files
<1>5. OnDisk'
  BY LabelFacts, SlotFacts, EffectiveFacts DEF Cleared, TypeOK, OnDisk, InWindow
<1>6. InWindow'
  BY LabelFacts, SlotFacts, EffectiveFacts DEF Cleared, TypeOK, AtRest, ClosedIsEmpty, Counted, OnDisk, InWindow, Asked, OneHolder, effective_own_slot
<1>7. OneHolder'
  BY LabelFacts, SlotFacts, EffectiveFacts DEF Cleared, TypeOK, AtRest, ClosedIsEmpty, OnDisk, InWindow, Asked, OneHolder
<1>. QED
  BY <1>1, <1>2, <1>3, <1>4, <1>5, <1>6, <1>7

-----------------------------------------------------------------------------
(* The theorems                                                            *)

LEMMA NextIInv == IInv /\ [Next]_vars => IInv'
<1>. SUFFICES ASSUME IInv, [Next]_vars PROVE IInv'
  OBVIOUS
<1>1. CASE UNCHANGED vars
  <2>1. TypeOK' /\ AtRest' /\ ClosedIsEmpty' /\ Asked'
    BY <1>1 DEF IInv, vars, shell, pages, ghosts, TypeOK, AtRest, ClosedIsEmpty, Asked
  <2>2. Promised' /\ Counted' /\ OnDisk' /\ InWindow' /\ OneHolder'
    BY <1>1 DEF IInv, vars, shell, pages, ghosts, Promised, Counted, Files, OnDisk, InWindow,
                OneHolder, effective_own_slot
  <2>. QED
    BY <2>1, <2>2 DEF IInv
<1>2. CASE Starts \/ StartsWithFile \/ Crash
  BY <1>2, StartsStep, StartsWithFileStep, CrashStep
<1>3. CASE handleRecover \/ RecoverInWindow \/ handleDiscardRecovery \/ handleDismissRecovery
  BY <1>3, RecoverStep, RecoverInWindowStep, DiscardStep, DismissStep
<1>4. CASE NewWindow
  BY <1>4, NewWindowStep
<1>5. ASSUME NEW l \in Labels, ClaimPending(l) \/ Edit(l) \/ Autosave(l) \/ Clean(l) \/ Close(l)
      PROVE  IInv'
  BY <1>5, ClaimPendingStep, EditStep, AutosaveStep, CleanStep, CloseStep
<1>. QED
  BY <1>1, <1>2, <1>3, <1>4, <1>5 DEF Next

\* The inductive invariant is one.
THEOREM SlotsInvariant == Spec => []IInv
BY InitIInv, NextIInv, PTL DEF Spec

\* Every reachable state has the types of TypeOK, for any bounds.
THEOREM TypeCorrect == Spec => []TypeOK
<1>1. IInv => TypeOK
  BY DEF IInv
<1>. QED
  BY <1>1, SlotsInvariant, PTL

\* A window's work that has reached a slot, by its autosave or its claim, is in
\* some slot until it is saved or given up, and only one window goes on with it,
\* for any number of windows, crashes and starts (main.rs: recovery_claim,
\* effective_own_slot, seed_window_counter; App.tsx: handleRecover).  Nothing is
\* said of snapshots that the dialog offered and nobody has decided about.
THEOREM WorkIsKept == Spec => []WorkHasOneHome
<1>1. IInv => WorkHasOneHome
  <2>. SUFFICES ASSUME IInv PROVE WorkHasOneHome
    OBVIOUS
  <2>1. ASSUME NEW l \in snapped PROVE \E s \in Slots : disk[s] = work[l]
    <3>1. effective_own_slot(l) \in Slots
      BY EffectiveFacts DEF IInv, TypeOK
    <3>. QED
      BY <3>1 DEF IInv, InWindow
  <2>. QED
    BY <2>1 DEF IInv, WorkHasOneHome, WorkStaysInSlot
<1>. QED
  BY <1>1, SlotsInvariant, PTL

\* A new window's label names no slot on disk, and the slot of a label stays as
\* it is while the shell protects it and its user has not decided.
LEMMA FreshStep ==
  ASSUME IInv, [Next]_vars, NEW l \in live' \ live, l # main
  PROVE  disk[<<l, "own">>] = 0 /\ disk[<<l, "deferred">>] = 0
<1>. USE DEF IInv
<1>1. running /\ counter < MaxLabel /\ l = counter + 1
  <2>1. CASE RecoverInWindow \/ NewWindow
    <3>1. l = counter + 1 /\ counter < MaxLabel
      BY <2>1 DEF RecoverInWindow, NewWindow, Opens
    <3>2. live # {}
      BY <2>1 DEF RecoverInWindow, NewWindow
    <3>. QED
      BY <3>1, <3>2 DEF AtRest, TypeOK
  <2>2. CASE Starts \/ StartsWithFile \/ Crash
    BY <2>2 DEF Starts, StartsWithFile, Crash
  <2>3. CASE handleRecover \/ handleDiscardRecovery \/ handleDismissRecovery
    BY <2>3 DEF handleRecover, handleDiscardRecovery, handleDismissRecovery
  <2>4. ASSUME NEW k \in Labels, ClaimPending(k) \/ Edit(k) \/ Autosave(k) \/ Clean(k) \/ Close(k)
        PROVE  FALSE
    BY <2>4 DEF ClaimPending, Edit, Autosave, Clean, Close
  <2>5. CASE UNCHANGED vars
    BY <2>5 DEF vars, pages
  <2>. QED
    BY <2>1, <2>2, <2>3, <2>4, <2>5 DEF Next
<1>2. l \in Labels /\ counter \in Nat /\ l \in Nat /\ counter < l
  BY <1>1, NextLabel
<1>3. ASSUME NEW k \in {"own", "deferred"} PROVE disk[<<l, k>>] = 0
  <2>1. <<l, k>> \in Slots
    BY <1>2, SlotFacts
  <2>2. <<l, k>> \notin Files
    BY <1>1, <1>2 DEF Counted
  <2>. QED
    BY <2>1, <2>2 DEF Files
<1>. QED
  BY <1>3

LEMMA KeptStep ==
  ASSUME IInv, [Next]_vars, NEW l \in Labels, <<l, "own">> \in protected,
         disk[<<l, "own">>] # 0, disk'[<<l, "own">>] # disk[<<l, "own">>]
  PROVE  disk[<<l, "own">>] \notin undecided'
<1>. DEFINE s == <<l, "own">>
<1>. USE DEF IInv
<1>1. s \in Slots
  BY SlotFacts
<1>2. ASSUME NEW k \in Labels PROVE effective_own_slot(k) # s
  BY SlotFacts DEF effective_own_slot
<1>3. ASSUME NEW k \in live, NEW t \in Slots, Adopts(k, t) PROVE disk[s] \notin undecided'
  <2>1. CASE t = s
    BY <1>3, <2>1 DEF Adopts
  <2>2. CASE t # s
    BY <1>1, <1>3, <2>2 DEF Adopts, Claim, TypeOK
  <2>. QED
    BY <2>1, <2>2
<1>4. CASE handleRecover
  BY <1>3, <1>4 DEF handleRecover, TypeOK
<1>5. ASSUME NEW k \in Labels, ClaimPending(k) PROVE disk[s] \notin undecided'
  BY <1>3, <1>5 DEF ClaimPending, TypeOK
<1>6. ASSUME NEW k \in Labels, Autosave(k) \/ Clean(k) \/ Close(k) PROVE FALSE
  BY <1>1, <1>2, <1>6 DEF Autosave, Clean, Close, Cleared, TypeOK
<1>7. CASE handleDiscardRecovery
  BY <1>7 DEF handleDiscardRecovery
<1>8. CASE Starts \/ StartsWithFile \/ Crash \/ RecoverInWindow \/ handleDismissRecovery \/ NewWindow
  BY <1>8 DEF Starts, StartsWithFile, Crash, RecoverInWindow, handleDismissRecovery, NewWindow
<1>9. ASSUME NEW k \in Labels, Edit(k) PROVE FALSE
  BY <1>9 DEF Edit
<1>10. CASE UNCHANGED vars
  BY <1>10 DEF vars
<1>. QED
  BY <1>4, <1>5, <1>6, <1>7, <1>8, <1>9, <1>10 DEF Next

\* Labels of new windows are past every slot on disk, whatever earlier runs left,
\* and what a window's own slot holds while the shell protects it is replaced by
\* the user's decision alone (main.rs: seed_window_counter, effective_own_slot).
\* A slot that is undecided and no longer protected is not meant.
THEOREM SlotsStayTheirs == Spec => SlotsAreKept
<1>1. IInv /\ [Next]_vars =>
        [\A l \in live' \ live : l # main => disk[<<l, "own">>] = 0 /\ disk[<<l, "deferred">>] = 0]_vars
  BY FreshStep
<1>2. IInv /\ [Next]_vars =>
        [\A l \in Labels : LET s == <<l, "own">> IN
           s \in protected /\ disk[s] # 0 /\ disk'[s] # disk[s] => disk[s] \notin undecided']_vars
  BY KeptStep
<1>3. Spec => LabelsAreFresh
  BY <1>1, SlotsInvariant, PTL DEF Spec, LabelsAreFresh
<1>4. Spec => ProtectedIsKept
  BY <1>2, SlotsInvariant, PTL DEF Spec, ProtectedIsKept
<1>. QED
  BY <1>3, <1>4 DEF SlotsAreKept

-----------------------------------------------------------------------------
(* One window: the inductive invariant                                     *)

\* A clean document has an empty slot, or a clear is on its way: a write that
\* is still under way then is waited for.
CleanIsCleared == dirty \/ clearing \/ (slot = None /\ writes = <<>>)

\* What the slot will hold is this document's, unless a clear or another autosave comes after.
LatestIsOurs ==
  \/ clearing
  \/ Latest = None \/ Latest.doc = doc
  \/ writes = <<>> /\ dirty /\ dirtySince /\ timer

\* A write under way brings what there is, and a clear is followed by one.
WritesAreCurrent ==
  dirty /\ ~raced =>
    /\ writes # <<>> => Content = Latest
    /\ clearing => writes = <<>> /\ dirtySince /\ timer

\* A save that was not raced leaves the document clean.
SaveIsCurrent == save # None /\ ~raced => Len(undo) = Len(save.undo)

SessionIInv ==
  /\ SessionTypeOK /\ CleanIsCleared /\ LatestIsOurs
  /\ UnsavedIsDue /\ WritesAreCurrent /\ SaveIsCurrent

LEMMA ContentFields ==
  /\ Content.doc = doc /\ Content.undo = undo /\ Content.scenes = scenes
  /\ None.doc = 0 /\ None.undo = <<>> /\ None.scenes = 0
BY DEF Content, None

LEMMA ContentTyped ==
  Content \in Contents <=> doc \in 1 .. MaxDocs /\ undo \in Stacks /\ scenes \in 0 .. MaxScenes
BY DEF Content, Contents

\* The bounds are numbers.
LEMMA SessionBounds ==
  MaxEdits \in Nat \ {0} /\ MaxScenes \in Nat \ {0} /\ MaxDocs \in Nat \ {0} /\ MaxWrites \in Nat \ {0}
BY SessionAssumption

\* A sequence without its last element.
LEMMA FrontOfSeq ==
  ASSUME NEW S, NEW s \in Seq(S), s # <<>>
  PROVE  SubSeq(s, 1, Len(s) - 1) \in Seq(S) /\ Len(SubSeq(s, 1, Len(s) - 1)) = Len(s) - 1
<1>. DEFINE n == Len(s) - 1
<1>1. Len(s) \in Nat /\ Len(s) # 0
  BY EmptySeq, LenProperties
<1>2. n \in Nat /\ Len(s) = n + 1
  BY <1>1
<1>. HIDE DEF n
<1>3. ASSUME NEW i \in 1 .. n PROVE s[i] \in S
  <2>1. i \in 1 .. Len(s)
    BY <1>2
  <2>. QED
    BY <2>1, ElementOfSeq
<1>4. SubSeq(s, 1, n) \in Seq(S) /\ Len(SubSeq(s, 1, n)) = IF 1 <= n THEN n - 1 + 1 ELSE 0
  BY <1>2, <1>3, SubSeqProperties
<1>5. Len(SubSeq(s, 1, n)) = n
  BY <1>2, <1>4
<1>. QED
  BY <1>4, <1>5 DEF n

LEMMA SessionInitIInv == SessionInit => SessionIInv
<1>. SUFFICES ASSUME SessionInit PROVE SessionIInv
  OBVIOUS
<1>1. Content \in Contents
  BY SessionBounds, ContentTyped DEF SessionInit, Stacks
<1>2. redo \in Stacks /\ Len(undo) + Len(redo) <= edits /\ writes \in Seq(Contents) /\ Len(writes) = 0
  BY DEF SessionInit, Stacks
<1>3. mark \in {Unreachable} \cup 0 .. edits /\ edits \in 0 .. MaxEdits /\ 0 <= MaxWrites
  BY SessionBounds DEF SessionInit
<1>4. SessionTypeOK
  BY <1>1, <1>2, <1>3 DEF SessionInit, SessionTypeOK
<1>. QED
  BY <1>4 DEF SessionIInv, SessionInit, CleanIsCleared, LatestIsOurs, Latest,
              UnsavedIsDue, WritesAreCurrent, SaveIsCurrent

-----------------------------------------------------------------------------
(* The handlers of edits                                                   *)

\* Whatever the edit was, handleDocumentChanged leaves a clean document to a
\* clear and a dirty one to the timer.
LEMMA ChangedStep ==
  ASSUME SessionIInv, handleDocumentChanged
  PROVE  /\ dirty' \in BOOLEAN /\ dirtySince' \in BOOLEAN /\ timer' \in BOOLEAN /\ clearing' \in BOOLEAN
         /\ raced' \in BOOLEAN
         /\ CleanIsCleared' /\ LatestIsOurs' /\ UnsavedIsDue' /\ WritesAreCurrent' /\ SaveIsCurrent'
<1>. USE DEF handleDocumentChanged, clearRecoverySnapshot, armAutosaveTick, Changed
<1>1. dirty' \in BOOLEAN /\ dirtySince' \in BOOLEAN /\ timer' \in BOOLEAN /\ clearing' \in BOOLEAN
  BY DEF SessionIInv, SessionTypeOK
<1>2. raced' \in BOOLEAN /\ (raced' <=> writes' # <<>> \/ save' # None)
  OBVIOUS
<1>3. CleanIsCleared'
  BY DEF SessionIInv, CleanIsCleared
<1>4. LatestIsOurs'
  BY DEF SessionIInv, LatestIsOurs, Latest
<1>5. dirty' => dirtySince' /\ timer'
  OBVIOUS
<1>6. UnsavedIsDue' /\ WritesAreCurrent' /\ SaveIsCurrent'
  BY <1>2, <1>5 DEF UnsavedIsDue, WritesAreCurrent, SaveIsCurrent
<1>. QED
  BY <1>1, <1>2, <1>3, <1>4, <1>6

LEMMA CommitStep == ASSUME SessionIInv, Commit PROVE SessionIInv'
<1>1. edits' \in 1 .. MaxEdits /\ edits' = edits + 1
  BY SessionBounds DEF Commit, SessionIInv, SessionTypeOK
<1>2. undo \in Stacks /\ redo \in Stacks
  BY ContentTyped DEF SessionIInv, SessionTypeOK
<1>3. undo' \in Stacks /\ Len(undo') = Len(undo) + 1
  BY <1>1, <1>2 DEF Commit, Stacks
<1>4. redo' \in Stacks /\ Len(redo') = 0
  BY DEF Commit, Stacks
<1>5. mark' \in {Unreachable} \cup 0 .. edits'
  BY <1>1 DEF Commit, SessionIInv, SessionTypeOK
<1>6. Len(undo') + Len(redo') <= edits'
  BY <1>1, <1>2, <1>3, <1>4 DEF SessionIInv, SessionTypeOK, Stacks
<1>7. Content' \in Contents
  BY <1>3, ContentTyped DEF SessionIInv, SessionTypeOK, Commit, handleDocumentChanged, Contents, Content
<1>8. SessionTypeOK'
  BY <1>1, <1>4, <1>5, <1>6, <1>7, ChangedStep DEF SessionIInv, SessionTypeOK, Commit, handleDocumentChanged
<1>. QED
  BY <1>8, ChangedStep DEF SessionIInv, Commit

LEMMA UndoStep == ASSUME SessionIInv, Undo PROVE SessionIInv'
<1>1. undo \in Stacks /\ redo \in Stacks /\ undo # <<>>
  BY ContentTyped DEF SessionIInv, SessionTypeOK, Undo
<1>2. Len(undo) \in Nat /\ Len(undo) >= 1 /\ undo[Len(undo)] \in 1 .. MaxEdits
  BY <1>1, EmptySeq, ElementOfSeq, SessionBounds DEF Stacks
<1>3. undo' \in Stacks /\ Len(undo') = Len(undo) - 1
  BY <1>1, FrontOfSeq DEF Undo, Stacks
<1>4. redo' \in Stacks /\ Len(redo') = 1 + Len(redo)
  BY <1>1, <1>2 DEF Undo, Stacks
<1>5. Len(undo') + Len(redo') <= edits'
  <2>1. Len(redo) \in Nat
    BY <1>1 DEF Stacks
  <2>2. Len(undo') + Len(redo') = Len(undo) + Len(redo)
    BY <1>2, <1>3, <1>4, <2>1
  <2>. QED
    BY <2>2 DEF SessionIInv, SessionTypeOK, Undo
<1>6. Content' \in Contents
  BY <1>3, ContentTyped DEF SessionIInv, SessionTypeOK, Undo, handleDocumentChanged, Contents, Content
<1>7. SessionTypeOK'
  BY <1>4, <1>5, <1>6, ChangedStep DEF SessionIInv, SessionTypeOK, Undo, handleDocumentChanged
<1>. QED
  BY <1>7, ChangedStep DEF SessionIInv, Undo

LEMMA RedoStep == ASSUME SessionIInv, Redo PROVE SessionIInv'
<1>1. undo \in Stacks /\ redo \in Stacks /\ redo # <<>>
  BY ContentTyped DEF SessionIInv, SessionTypeOK, Redo
<1>2. Head(redo) \in 1 .. MaxEdits /\ Tail(redo) \in Stacks /\ Len(Tail(redo)) = Len(redo) - 1
  BY <1>1, HeadTailProperties DEF Stacks
<1>3. undo' \in Stacks /\ Len(undo') = Len(undo) + 1
  BY <1>1, <1>2 DEF Redo, Stacks
<1>4. Len(undo) \in Nat /\ Len(redo) \in Nat
  BY <1>1 DEF Stacks
<1>5. Len(undo') + Len(redo') <= edits'
  BY <1>2, <1>3, <1>4 DEF SessionIInv, SessionTypeOK, Redo
<1>6. Content' \in Contents
  BY <1>3, ContentTyped DEF SessionIInv, SessionTypeOK, Redo, handleDocumentChanged, Contents, Content
<1>7. SessionTypeOK'
  BY <1>2, <1>5, <1>6, ChangedStep DEF SessionIInv, SessionTypeOK, Redo, handleDocumentChanged
<1>. QED
  BY <1>7, ChangedStep DEF SessionIInv, Redo

LEMMA ScenesStep == ASSUME SessionIInv, EditScenes PROVE SessionIInv'
<1>1. Content' \in Contents
  BY ContentTyped, SessionBounds DEF SessionIInv, SessionTypeOK, EditScenes, Contents, Content
<1>2. SessionTypeOK'
  BY <1>1 DEF SessionIInv, SessionTypeOK, EditScenes, armAutosaveTick, Changed
<1>3. CleanIsCleared' /\ UnsavedIsDue' /\ WritesAreCurrent' /\ SaveIsCurrent'
  <2>1. dirtySince' /\ timer' /\ (raced' <=> writes' # <<>> \/ save' # None) /\ dirty'
    BY DEF EditScenes, armAutosaveTick, Changed
  <2>. QED
    BY <2>1 DEF CleanIsCleared, UnsavedIsDue, WritesAreCurrent, SaveIsCurrent
<1>4. LatestIsOurs'
  BY DEF SessionIInv, EditScenes, armAutosaveTick, LatestIsOurs, Latest
<1>. QED
  BY <1>2, <1>3, <1>4 DEF SessionIInv

LEMMA LoadStep == ASSUME SessionIInv, Load PROVE SessionIInv'
<1>1. Content' \in Contents
  BY SessionBounds, ContentTyped DEF SessionIInv, SessionTypeOK, Load, Contents, Content, Stacks
<1>2. SessionTypeOK'
  <2>1. redo' \in Stacks /\ Len(undo') + Len(redo') <= edits' /\ mark' \in 0 .. edits'
    BY DEF SessionIInv, SessionTypeOK, Load, Stacks
  <2>. QED
    BY <1>1, <2>1 DEF SessionIInv, SessionTypeOK, Load, clearRecoverySnapshot, Changed
<1>3. UnsavedIsDue' /\ WritesAreCurrent' /\ SaveIsCurrent'
  <2>1. ~dirty' /\ (save' # None => raced')
    BY DEF Load, Changed
  <2>. QED
    BY <2>1 DEF UnsavedIsDue, WritesAreCurrent, SaveIsCurrent
<1>4. clearing' \/ (slot' = None /\ writes' = <<>>)
  BY DEF SessionIInv, CleanIsCleared, Load, clearRecoverySnapshot
<1>5. CleanIsCleared' /\ LatestIsOurs'
  BY <1>4 DEF CleanIsCleared, LatestIsOurs, Latest
<1>. QED
  BY <1>2, <1>3, <1>5 DEF SessionIInv
-----------------------------------------------------------------------------
(* Saves and autosaves                                                     *)

LEMMA StartSaveStep == ASSUME SessionIInv, StartSave PROVE SessionIInv'
<1>1. SessionTypeOK'
  BY DEF SessionIInv, SessionTypeOK, StartSave, scene, autosave, Content
<1>. QED
  BY <1>1, ContentFields DEF SessionIInv, StartSave, scene, autosave, CleanIsCleared, LatestIsOurs,
       Latest, UnsavedIsDue, WritesAreCurrent, SaveIsCurrent, Content

LEMMA SaveFailsStep == ASSUME SessionIInv, SaveFails PROVE SessionIInv'
<1>1. SessionTypeOK'
  BY DEF SessionIInv, SessionTypeOK, SaveFails, scene, autosave, Content
<1>. QED
  BY <1>1 DEF SessionIInv, SaveFails, scene, autosave, CleanIsCleared, LatestIsOurs,
       Latest, UnsavedIsDue, WritesAreCurrent, SaveIsCurrent, Content

LEMMA SaveDoneStep == ASSUME SessionIInv, SaveDone PROVE SessionIInv'
<1>1. undo \in Stacks /\ redo \in Stacks
  BY ContentTyped DEF SessionIInv, SessionTypeOK
<1>2. Len(undo) \in 0 .. edits
  BY <1>1 DEF SessionIInv, SessionTypeOK, Stacks
<1>3. mark' \in {Unreachable} \cup 0 .. edits
  BY <1>2 DEF SaveDone, MarkAfter, SessionIInv, SessionTypeOK
<1>4. SessionTypeOK'
  BY <1>3 DEF SessionIInv, SessionTypeOK, SaveDone, clearRecoverySnapshot, at_saved_mark, Content
<1>5. CleanIsCleared' /\ LatestIsOurs' /\ SaveIsCurrent'
  BY DEF SaveDone, clearRecoverySnapshot, CleanIsCleared, LatestIsOurs, SaveIsCurrent
<1>6. dirty' => raced'
  BY DEF SessionIInv, SessionTypeOK, SaveIsCurrent, SaveDone, MarkAfter, at_saved_mark
<1>7. UnsavedIsDue' /\ WritesAreCurrent'
  BY <1>6 DEF UnsavedIsDue, WritesAreCurrent
<1>. QED
  BY <1>4, <1>5, <1>7 DEF SessionIInv

LEMMA TickStep == ASSUME SessionIInv, Tick PROVE SessionIInv'
<1>. USE DEF Tick, scene, session
<1>1. CASE dirty /\ dirtySince
  <2>1. writes \in Seq(Contents) /\ Content \in Contents /\ writes' = Append(writes, Content)
    BY <1>1 DEF SessionIInv, SessionTypeOK
  <2>2. /\ writes' \in Seq(Contents) /\ Len(writes') = Len(writes) + 1
        /\ writes'[Len(writes')] = Content /\ writes' # <<>>
    BY <2>1
  <2>3. Len(writes') <= MaxWrites
    BY <1>1, <2>1, <2>2, SessionBounds
  <2>4. SessionTypeOK'
    BY <1>1, <2>2, <2>3 DEF SessionIInv, SessionTypeOK, Content
  <2>5. CleanIsCleared' /\ SaveIsCurrent'
    BY <1>1, <2>2 DEF SessionIInv, CleanIsCleared, SaveIsCurrent
  <2>6. Latest' = Content /\ Content' = Content /\ ~clearing'
    BY <1>1, <2>2 DEF Latest, Content
  <2>7. Latest'.doc = doc'
    BY <2>6, ContentFields
  <2>8. UnsavedIsDue' /\ WritesAreCurrent'
    BY <2>6 DEF UnsavedIsDue, WritesAreCurrent
  <2>. QED
    BY <2>4, <2>5, <2>7, <2>8 DEF SessionIInv, LatestIsOurs
<1>2. CASE ~(dirty /\ dirtySince)
  <2>1. SessionTypeOK'
    BY <1>2 DEF SessionIInv, SessionTypeOK, Content
  <2>2. CleanIsCleared' /\ SaveIsCurrent' /\ UnsavedIsDue' /\ WritesAreCurrent'
    BY <1>2 DEF SessionIInv, CleanIsCleared, SaveIsCurrent, UnsavedIsDue, WritesAreCurrent,
                Latest, Content
  <2>3. LatestIsOurs'
    BY <1>2 DEF SessionIInv, LatestIsOurs, Latest
  <2>. QED
    BY <2>1, <2>2, <2>3 DEF SessionIInv
<1>. QED
  BY <1>1, <1>2

\* The oldest write leaves: the latest one stays the latest, or is done.
LEMMA TailOfWrites ==
  ASSUME SessionIInv, writes # <<>>
  PROVE  /\ Head(writes) \in Contents
         /\ Tail(writes) \in Seq(Contents) /\ Len(Tail(writes)) <= MaxWrites
         /\ Tail(writes) = <<>> => Head(writes) = writes[Len(writes)]
         /\ Tail(writes) # <<>> => Tail(writes)[Len(Tail(writes))] = writes[Len(writes)]
<1>. DEFINE n == Len(writes)  t == Tail(writes)
<1>1. writes \in Seq(Contents) /\ n <= MaxWrites
  BY DEF SessionIInv, SessionTypeOK
<1>2. n \in Nat /\ n # 0
  BY <1>1, EmptySeq, LenProperties
<1>3. /\ Head(writes) = writes[1] /\ Head(writes) \in Contents
      /\ t \in Seq(Contents) /\ Len(t) = n - 1
      /\ \A i \in 1 .. Len(t) : t[i] = writes[i + 1]
  BY <1>1, HeadTailProperties
<1>4. Len(t) <= MaxWrites
  BY <1>1, <1>2, <1>3, SessionBounds
<1>5. t = <<>> => n = 1
  <2>1. t = <<>> => Len(t) = 0
    BY EmptySeq
  <2>. QED
    BY <1>2, <1>3, <2>1
<1>6. t # <<>> => Len(t) \in 1 .. Len(t)
  BY <1>3, EmptySeq, LenProperties
<1>7. Len(t) + 1 = n
  BY <1>2, <1>3
<1>8. t # <<>> => t[Len(t)] = writes[n]
  BY <1>3, <1>6, <1>7
<1>. QED
  BY <1>3, <1>4, <1>5, <1>8

LEMMA WriteDoneStep == ASSUME SessionIInv, WriteDone PROVE SessionIInv'
<1>. USE DEF WriteDone, scene, session
<1>1. slot' \in Contents /\ writes' \in Seq(Contents) /\ Len(writes') <= MaxWrites
  BY TailOfWrites
<1>2. SessionTypeOK'
  BY <1>1 DEF SessionIInv, SessionTypeOK, Content
<1>3. Content' = Content
  BY DEF Content
<1>4. CleanIsCleared'
  BY DEF SessionIInv, CleanIsCleared
<1>5. Latest' = Latest
  BY TailOfWrites DEF Latest
<1>7. UnsavedIsDue' /\ WritesAreCurrent' /\ SaveIsCurrent'
  BY <1>3, <1>5 DEF SessionIInv, UnsavedIsDue, WritesAreCurrent, SaveIsCurrent
<1>6. LatestIsOurs'
  BY <1>5 DEF SessionIInv, LatestIsOurs
<1>. QED
  BY <1>2, <1>4, <1>6, <1>7 DEF SessionIInv

LEMMA WriteFailsStep == ASSUME SessionIInv, WriteFails PROVE SessionIInv'
<1>. USE DEF WriteFails, scene, session, armAutosaveTick
<1>1. writes' \in Seq(Contents) /\ Len(writes') <= MaxWrites
  BY TailOfWrites
<1>2. SessionTypeOK'
  BY <1>1 DEF SessionIInv, SessionTypeOK, Content
<1>3. UnsavedIsDue' /\ WritesAreCurrent' /\ SaveIsCurrent'
  <2>1. Content' = Content /\ dirtySince' /\ timer'
    BY DEF Content
  <2>2. writes' # <<>> => Latest' = Latest
    BY TailOfWrites DEF Latest
  <2>. QED
    BY <2>1, <2>2 DEF SessionIInv, UnsavedIsDue, WritesAreCurrent, SaveIsCurrent
<1>4. dirty \/ clearing
  BY DEF SessionIInv, CleanIsCleared
<1>5. CleanIsCleared'
  BY <1>4 DEF CleanIsCleared
<1>6. LatestIsOurs'
  <2>1. CASE writes' = <<>>
    BY <1>4, <2>1 DEF LatestIsOurs
  <2>2. CASE writes' # <<>>
    <3>1. Latest' = Latest
      BY <2>2, TailOfWrites DEF Latest
    <3>. QED
      BY <3>1 DEF SessionIInv, LatestIsOurs
  <2>. QED
    BY <2>1, <2>2
<1>. QED
  BY <1>2, <1>3, <1>5, <1>6 DEF SessionIInv

LEMMA ClearStep == ASSUME SessionIInv, Clear PROVE SessionIInv'
<1>. USE DEF Clear, scene, session
<1>1. SessionTypeOK'
  BY DEF SessionIInv, SessionTypeOK, Content
<1>. QED
  BY <1>1 DEF SessionIInv, CleanIsCleared, LatestIsOurs, Latest, UnsavedIsDue, WritesAreCurrent,
              SaveIsCurrent, Content

-----------------------------------------------------------------------------
(* The theorems of one window                                              *)

LEMMA SessionNextIInv == SessionIInv /\ [SessionNext]_sessionVars => SessionIInv'
<1>. SUFFICES ASSUME SessionIInv, [SessionNext]_sessionVars PROVE SessionIInv'
  OBVIOUS
<1>1. CASE UNCHANGED sessionVars
  <2>1. SessionTypeOK'
    BY <1>1 DEF SessionIInv, SessionTypeOK, sessionVars, scene, session, autosave, Content
  <2>. QED
    BY <1>1, <2>1 DEF SessionIInv, sessionVars, scene, session, autosave,
                      CleanIsCleared, LatestIsOurs, Latest, UnsavedIsDue, WritesAreCurrent,
                      SaveIsCurrent, Content
<1>. QED
  BY <1>1, CommitStep, UndoStep, RedoStep, ScenesStep, LoadStep, StartSaveStep, SaveDoneStep,
     SaveFailsStep, TickStep, WriteDoneStep, WriteFailsStep, ClearStep DEF SessionNext

LEMMA SessionInvariance == SessionSpec => []SessionIInv
<1>. QED
  BY SessionInitIInv, SessionNextIInv, PTL DEF SessionSpec

\* Every variable keeps its type; the undone and the redone steps together are
\* no more than the edits made, so the saved mark is never beyond them.
THEOREM SessionTypeCorrect == SessionSpec => []SessionTypeOK
<1>1. SessionIInv => SessionTypeOK
  BY DEF SessionIInv
<1>. QED
  BY <1>1, SessionInvariance, PTL

\* A dirty document that differs from what its latest autosave wrote or is
\* writing has the timer set and the autosave armed, whatever failed, was saved,
\* cleared or loaded before (App.tsx, armAutosaveTick, runAutosaveTick and
\* clearRecoverySnapshot); unless it was last changed while a write or a save
\* was under way, whose end disarms it.
THEOREM UnsavedWorkIsDue == SessionSpec => []UnsavedIsDue
<1>1. SessionIInv => UnsavedIsDue
  BY DEF SessionIInv
<1>. QED
  BY <1>1, SessionInvariance, PTL

\* At rest the slot holds nothing of a clean document and nothing of a document
\* the window has replaced, however many writes overlapped the clear (App.tsx,
\* clearRecoverySnapshot against runAutosaveTick).
THEOREM SettledSlotIsOurs == SessionSpec => []NothingResurfaces
<1>1. SessionIInv => NothingResurfaces
  BY DEF SessionIInv, CleanIsCleared, LatestIsOurs, Latest, NothingResurfaces, Quiet
<1>. QED
  BY <1>1, SessionInvariance, PTL
=============================================================================
