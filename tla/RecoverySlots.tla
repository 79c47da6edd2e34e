--------------------------- MODULE RecoverySlots ---------------------------
(***************************************************************************)
(* Crash recovery on the desktop: the autosave slots of the document       *)
(* windows (recovery-<label>.hew, and its deferred side-slot), the shell's *)
(* set of protected slots and its counter of window labels, the dialog of  *)
(* the first window at startup, and the windows that claim what the user   *)
(* recovers (shells/tauri/src-tauri/src/main.rs, app/src/App.tsx).         *)
(*                                                                         *)
(* What a window holds unsaved is a work: a number given at its first      *)
(* edit, kept until it is saved, undone or given up.  The slots outlive    *)
(* the app; everything else is lost in a crash, which may come at any      *)
(* step.  Each command of the shell is one step (they run on its main      *)
(* thread); an autosave is one step here, its awaits are DocSession's.     *)
(***************************************************************************)
EXTENDS Naturals, FiniteSets

CONSTANTS
  MaxLabel,  \* bound: labels of windows
  MaxWork,   \* bound: works ever begun
  MaxStarts  \* bound: times the app is started

ASSUME SlotsAssumption == MaxLabel \in Nat \ {0} /\ MaxWork \in Nat /\ MaxStarts \in Nat

Labels == 1 .. MaxLabel
main == 1
Works == 0 .. MaxWork     \* 0: nothing unsaved
Slots == Labels \X {"own", "deferred"}
NoSlot == <<0, "none">>

VARIABLES
  disk,      \* slot -> the work of its snapshot, 0 for no file
  running, starts,
  counter,   \* WindowCounter
  protected, \* ProtectedSlots
  pending,   \* PendingRecovery: the slot a new window is to claim
  live,      \* labels of the open windows
  blank,     \* windows that hold no file and nothing drawn
  work,      \* window -> its unsaved work
  armed,     \* window -> changed since its last autosave
  prompt,    \* slots the recovery dialog shows, {} when closed
  rest,      \* slots Recover has yet to open windows for
  begun,     \* history: works begun so far
  snapped,   \* history: windows whose work is in a slot, unless all were discarded
  undecided  \* history: works found at a start, not yet claimed or discarded

shell == <<running, starts, counter, protected, pending>>
pages == <<live, blank, work, armed, prompt, rest>>
ghosts == <<begun, snapped, undecided>>
vars == <<disk, shell, pages, ghosts>>

TypeOK ==
  /\ disk \in [Slots -> Works]
  /\ running \in BOOLEAN /\ starts \in 0 .. MaxStarts /\ counter \in Labels
  /\ protected \subseteq Slots
  /\ pending \in [Labels -> Slots \cup {NoSlot}]
  /\ live \subseteq Labels /\ blank \subseteq live
  /\ work \in [Labels -> Works] /\ armed \in [Labels -> BOOLEAN]
  /\ prompt \subseteq Slots /\ rest \subseteq Slots
  /\ begun \in Works /\ snapped \subseteq live /\ undecided \subseteq 1 .. begun
  /\ \A l \in live : l <= counter

Init ==
  /\ disk = [s \in Slots |-> 0]
  /\ running = FALSE /\ starts = 0 /\ counter = 1
  /\ protected = {} /\ pending = [l \in Labels |-> NoSlot]
  /\ live = {} /\ blank = {} /\ work = [l \in Labels |-> 0] /\ armed = [l \in Labels |-> FALSE]
  /\ prompt = {} /\ rest = {}
  /\ begun = 0 /\ snapped = {} /\ undecided = {}

---------------------------------------------------------------------------
(* The shell.                                                              *)

Files == {s \in Slots : disk[s] # 0}

\* seed_window_counter: past every label with a slot on disk; the deferred
\* slot of the first window has no number in its name.
seed_window_counter ==
  LET numbers == {1} \cup {s[1] : s \in Files \ {<<main, "deferred">>}}
  IN  CHOOSE n \in numbers : \A m \in numbers : m <= n

\* (mutant: protection forgotten)
own_slot(l) == <<l, "own">>

\* Where the autosaves and clears of a window go.
effective_own_slot(l) ==
  IF <<l, "own">> \in protected THEN <<l, "deferred">> ELSE <<l, "own">>

Cleared(l) == [disk EXCEPT ![effective_own_slot(l)] = 0]

\* (mutant: the adopted slot is deleted, as in the browser's store)
ClaimDeletes(l, s) ==
  /\ disk' = [disk EXCEPT ![s] = 0]
  /\ protected' = protected \ {s, <<l, "own">>}

\* recovery_claim moves the file pair to the claimer's own slot, unless that
\* one shelters someone else's undecided snapshot.
Claim(l, s) ==
  LET own == <<l, "own">>
      sheltered == s # own /\ own \in protected /\ disk[own] # 0
  IN  /\ disk' = IF s = own \/ sheltered THEN disk ELSE [disk EXCEPT ![own] = disk[s], ![s] = 0]
      /\ protected' = protected \ (IF sheltered THEN {s} ELSE {s, own})

\* (mutant: the label is not counted)
OpensUncounted(l) ==
  /\ live' = live \cup {l} /\ blank' = blank \cup {l}
  /\ UNCHANGED counter

\* A window begins: the next label.
Opens(l) ==
  /\ live' = live \cup {l} /\ blank' = blank \cup {l}
  /\ counter' = l

---------------------------------------------------------------------------
(* The first window at startup.                                            *)

\* A file the app was started with is opened at once: nothing is listed.
StartsWithFile ==
  /\ ~running /\ starts < MaxStarts
  /\ running' = TRUE /\ starts' = starts + 1
  /\ counter' = seed_window_counter
  /\ live' = {main} /\ blank' = {}
  /\ UNCHANGED <<disk, protected, pending, work, armed, prompt, rest, ghosts>>

\* recovery_list protects what it lists, and the dialog comes up.
Starts ==
  /\ ~running /\ starts < MaxStarts
  /\ running' = TRUE /\ starts' = starts + 1
  /\ counter' = seed_window_counter
  /\ live' = {main} /\ blank' = {main}
  /\ protected' = Files /\ prompt' = Files
  /\ UNCHANGED <<disk, pending, work, armed, rest, ghosts>>

\* A claimed snapshot becomes the window's document, changed and armed.
Adopts(l, s) ==
  /\ disk[s] # 0
  /\ Claim(l, s)
  /\ work' = [work EXCEPT ![l] = disk[s]] /\ armed' = [armed EXCEPT ![l] = TRUE]
  /\ blank' = blank \ {l}
  /\ snapped' = snapped \cup {l} /\ undecided' = undecided \ {disk[s]}

(* handleRecover: the first window takes its own slot if it is listed, any *)
(* other one if not, and a window is made for each of the rest.            *)
handleRecover ==
  /\ prompt # {} /\ main \in live
  /\ \E s \in prompt :
       /\ <<main, "own">> \in prompt => s = <<main, "own">>
       /\ Adopts(main, s)
       /\ rest' = prompt \ {s}
  /\ prompt' = {}
  /\ UNCHANGED <<running, starts, counter, pending, live, begun>>

\* new_window with a slot, one after the other,
RecoverInWindow ==
  /\ main \in live /\ counter < MaxLabel
  /\ \E s \in rest :
       /\ rest' = rest \ {s}
       /\ pending' = [pending EXCEPT ![counter + 1] = s]
  /\ Opens(counter + 1)
  /\ UNCHANGED <<disk, running, starts, protected, work, armed, prompt, ghosts>>

\* which claims it when its page is up (take_pending_recovery).
ClaimPending(l) ==
  /\ l \in live /\ pending[l] # NoSlot
  /\ pending' = [pending EXCEPT ![l] = NoSlot]
  /\ IF disk[pending[l]] # 0
     THEN Adopts(l, pending[l])
     ELSE UNCHANGED <<disk, protected, work, armed, blank, snapped, undecided>>
  /\ UNCHANGED <<running, starts, counter, live, prompt, rest, begun>>

\* recovery_discard_all: whatever is there.
handleDiscardRecovery ==
  /\ prompt # {}
  /\ disk' = [s \in Slots |-> 0] /\ protected' = {} /\ prompt' = {}
  /\ snapped' = {} /\ undecided' = {}
  /\ UNCHANGED <<running, starts, counter, pending, live, blank, work, armed, rest, begun>>

\* Escape: decide at the next start.
handleDismissRecovery ==
  /\ prompt # {} /\ prompt' = {}
  /\ UNCHANGED <<disk, shell, live, blank, work, armed, rest, ghosts>>

---------------------------------------------------------------------------
(* The windows.                                                            *)

NewWindow ==
  /\ live # {} /\ counter < MaxLabel
  /\ Opens(counter + 1)
  /\ UNCHANGED <<disk, running, starts, protected, pending, work, armed, prompt, rest, ghosts>>

\* The dialog is modal, and a window that is to claim does so first.
Usable(l) == l \in live /\ pending[l] = NoSlot /\ (l = main => prompt = {})

Edit(l) ==
  /\ Usable(l)
  /\ IF work[l] # 0 THEN UNCHANGED <<work, begun>>
     ELSE /\ begun < MaxWork /\ begun' = begun + 1
          /\ work' = [work EXCEPT ![l] = begun + 1]
  /\ armed' = [armed EXCEPT ![l] = TRUE] /\ blank' = blank \ {l}
  /\ UNCHANGED <<disk, shell, live, prompt, rest, snapped, undecided>>

\* runAutosaveTick and recovery_write.
Autosave(l) ==
  /\ l \in live /\ work[l] # 0 /\ armed[l]
  /\ disk' = [disk EXCEPT ![effective_own_slot(l)] = work[l]]
  /\ armed' = [armed EXCEPT ![l] = FALSE]
  /\ snapped' = snapped \cup {l}
  /\ UNCHANGED <<shell, live, blank, work, prompt, rest, begun, undecided>>

\* A save, or an undo back to the saved state: the slot is cleared.
Clean(l) ==
  /\ Usable(l) /\ work[l] # 0
  /\ disk' = Cleared(l)
  /\ work' = [work EXCEPT ![l] = 0] /\ armed' = [armed EXCEPT ![l] = FALSE]
  /\ snapped' = snapped \ {l}
  /\ UNCHANGED <<shell, live, blank, prompt, rest, begun, undecided>>

\* The close button, or hew.doc.close: the slot is cleared, the window
\* destroyed; the app ends with its last window.
Close(l) ==
  /\ Usable(l)
  /\ disk' = Cleared(l)
  /\ live' = live \ {l} /\ blank' = blank \ {l}
  /\ work' = [work EXCEPT ![l] = 0] /\ armed' = [armed EXCEPT ![l] = FALSE]
  /\ snapped' = snapped \ {l}
  /\ IF live = {l}
     THEN running' = FALSE /\ protected' = {} /\ rest' = {} /\ undecided' = undecided \cup ({Cleared(l)[s] : s \in Slots} \ {0})
     ELSE UNCHANGED <<running, protected, undecided>> /\ rest' = IF l = main THEN {} ELSE rest
  /\ UNCHANGED <<starts, counter, pending, prompt, begun>>

\* The app crashes or is killed.
Crash ==
  /\ running
  /\ running' = FALSE
  /\ protected' = {} /\ pending' = [l \in Labels |-> NoSlot]
  /\ live' = {} /\ blank' = {}
  /\ work' = [l \in Labels |-> 0] /\ armed' = [l \in Labels |-> FALSE]
  /\ prompt' = {} /\ rest' = {} /\ snapped' = {}
  /\ undecided' = undecided \cup ({disk[s] : s \in Slots} \ {0})
  /\ UNCHANGED <<disk, starts, counter, begun>>

Next ==
  \/ Starts \/ StartsWithFile \/ Crash
  \/ handleRecover \/ RecoverInWindow \/ handleDiscardRecovery \/ handleDismissRecovery
  \/ NewWindow
  \/ \E l \in Labels : ClaimPending(l) \/ Edit(l) \/ Autosave(l) \/ Clean(l) \/ Close(l)

Spec == Init /\ [][Next]_vars

---------------------------------------------------------------------------
(* Once a window's work is in a slot, by an autosave or because the window *)
(* adopted it from one, some slot holds it until it is saved or given up:  *)
(* a crash between a claim and the next autosave loses nothing, and no     *)
(* other window's claim, autosave or clear touches it.                     *)
WorkStaysInSlot == \A l \in snapped : \E s \in Slots : disk[s] = work[l]

(* Recovery gives a work to one window only: no two windows go on with the *)
(* same document, each under the belief that it is the only one.           *)
OneHolder == \A l, m \in live : l # m /\ work[l] # 0 => work[l] # work[m]

(* So recovery gives every work it gives to one window, and keeps for that *)
(* one what reached a slot.  What was offered and is not decided about is  *)
(* UndecidedIsKept's.                                                      *)
WorkHasOneHome == WorkStaysInSlot /\ OneHolder

(* A new window never gets a label that a snapshot on disk goes by.        *)
LabelsAreFresh ==
  [][\A l \in live' \ live : l # main => disk[<<l, "own">>] = 0 /\ disk[<<l, "deferred">>] = 0]_vars

(* What a window has in the slot of its label when the shell protects that *)
(* slot is replaced or removed only by the user's own decision on it.      *)
ProtectedIsKept ==
  [][\A l \in Labels : LET s == <<l, "own">> IN
       s \in protected /\ disk[s] # 0 /\ disk'[s] # disk[s] => disk[s] \notin undecided']_vars

(* No slot on disk is taken over by a label that is new, and no protected  *)
(* one by its own.  A slot that is undecided and no longer protected is    *)
(* not meant: UndecidedIsKept.                                             *)
SlotsAreKept == LabelsAreFresh /\ ProtectedIsKept

(* "The undecided snapshot is never overwritten" (main.rs:402): a snapshot *)
(* that is there when the app starts stays in some slot until the user     *)
(* recovers or discards it.                                                *)
UndecidedIsKept == \A u \in undecided : \E s \in Slots : disk[s] = u
=============================================================================
