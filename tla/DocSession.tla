----------------------------- MODULE DocSession -----------------------------
(***************************************************************************)
(* One document window between its edits, its file and its recovery slot   *)
(* (app/src/App.tsx, app/src/io/documentSession.ts): the kernel's saved    *)
(* mark, the session's own idea of dirty, the one-shot autosave timer, the *)
(* writes of the host that are under way, and the clears that wait for     *)
(* them.                                                                   *)
(*                                                                         *)
(* Undone and redone steps come from the kernel's history (DocHistory has  *)
(* that one whole); here a step is a number, a document what its undo      *)
(* stack and its scenes hold.  The page's handlers are steps; what the     *)
(* host does between them is a step of its own, in the order of the calls  *)
(* for writes to the slot.  The render after a handler is part of it: the  *)
(* effects run within milliseconds, the timer is 12 s.                     *)
(***************************************************************************)
EXTENDS Integers, Sequences

CONSTANTS
  MaxEdits,  \* bound: edits ever made
  MaxScenes, \* bound: changes of scenes in one document
  MaxDocs,   \* bound: documents loaded
  MaxWrites  \* bound: autosaves under way at once

ASSUME SessionAssumption == {MaxEdits, MaxScenes, MaxDocs, MaxWrites} \subseteq Nat \ {0}

Unreachable == -1 \* SavedMark(None)
None == [doc |-> 0, undo |-> <<>>, scenes |-> 0] \* no snapshot, no save under way

VARIABLES
  doc, undo, redo, scenes, \* the scene: which document, its history, its scenes
  mark,     \* SavedMark: the depth that is clean
  reasons,  \* nonUndoableReasons is not empty
  dirty,    \* docSession.dirty
  file,     \* what the file of docSession.currentRef holds
  save,     \* the save under way: what was captured, or None
  dirtySince, \* dirtySinceAutosaveRef
  timer,    \* autosaveTimerRef is set
  writes,   \* autosaves under way, oldest first; autosaveWriteRef is the last one begun
  clearing, \* a clearRecoverySnapshot waits for that one to end
  slot,     \* the recovery slot
  edits,    \* history: edits made
  raced     \* history: changed while a write or a save was under way, and not
            \* since, nor autosaved since

scene == <<doc, undo, redo, scenes, mark>>
session == <<reasons, dirty, file, save>>
autosave == <<dirtySince, timer, writes, clearing, slot>>
sessionVars == <<scene, session, autosave, edits, raced>>

Content == [doc |-> doc, undo |-> undo, scenes |-> scenes]

Stacks == Seq(1 .. MaxEdits)
Contents == [doc : 1 .. MaxDocs, undo : Stacks, scenes : 0 .. MaxScenes]

SessionTypeOK ==
  /\ edits \in 0 .. MaxEdits
  /\ Content \in Contents /\ redo \in Stacks
  /\ Len(undo) + Len(redo) <= edits
  /\ mark \in {Unreachable} \cup 0 .. edits
  /\ reasons \in BOOLEAN /\ dirty \in BOOLEAN
  /\ dirtySince \in BOOLEAN /\ timer \in BOOLEAN /\ clearing \in BOOLEAN
  /\ file \in Contents
  /\ save \in Contents \cup {None} /\ slot \in Contents \cup {None}
  /\ writes \in Seq(Contents) /\ Len(writes) <= MaxWrites
  /\ raced \in BOOLEAN

SessionInit ==
  /\ doc = 1 /\ undo = <<>> /\ redo = <<>> /\ scenes = 0 /\ mark = 0
  /\ reasons = FALSE /\ dirty = FALSE /\ file = Content /\ save = None
  /\ dirtySince = FALSE /\ timer = FALSE
  /\ writes = <<>> /\ clearing = FALSE /\ slot = None
  /\ edits = 0 /\ raced = FALSE

---------------------------------------------------------------------------
(* What the handlers share.                                                *)

at_saved_mark(m, stack) == m = Len(stack)

armAutosaveTick == dirtySince' = TRUE /\ timer' = TRUE

\* clearRecoverySnapshot up to its await: the timer goes at once.
clearRecoverySnapshot ==
  /\ dirtySince' = FALSE /\ timer' = FALSE
  /\ clearing' = TRUE

Changed == raced' = (writes # <<>> \/ save # None)

\* handleDocumentChanged, then the effect of turning clean.
handleDocumentChanged ==
  /\ dirty' = (~at_saved_mark(mark', undo') \/ reasons)
  /\ IF dirty /\ ~dirty'
     THEN clearRecoverySnapshot
     ELSE armAutosaveTick /\ UNCHANGED clearing
  /\ Changed
  /\ UNCHANGED <<doc, scenes, reasons, file, save, writes, slot>>

\* commit_new_action: the redo branch goes, and the mark if it was in it.
Commit ==
  /\ edits < MaxEdits
  /\ edits' = edits + 1
  /\ undo' = Append(undo, edits') /\ redo' = <<>>
  /\ mark' = IF redo # <<>> /\ mark > Len(undo) THEN Unreachable ELSE mark
  /\ handleDocumentChanged

Undo ==
  /\ undo # <<>>
  /\ undo' = SubSeq(undo, 1, Len(undo) - 1)
  /\ redo' = <<undo[Len(undo)]>> \o redo
  /\ UNCHANGED mark
  /\ handleDocumentChanged
  /\ UNCHANGED edits

Redo ==
  /\ redo # <<>>
  /\ undo' = Append(undo, Head(redo)) /\ redo' = Tail(redo)
  /\ UNCHANGED mark
  /\ handleDocumentChanged
  /\ UNCHANGED edits

\* A change the undo stack does not see (markNonUndoableDirty).
EditScenes ==
  /\ scenes < MaxScenes
  /\ scenes' = scenes + 1
  /\ reasons' = TRUE /\ dirty' = TRUE
  /\ armAutosaveTick
  /\ Changed
  /\ UNCHANGED <<doc, undo, redo, mark, file, save, writes, clearing, slot, edits>>

\* Another file takes the window (Open, New in the browser, Revert): only
\* once what it held is given up, and dirty is read before it is replaced.
Load ==
  /\ doc < MaxDocs
  /\ doc' = doc + 1 /\ undo' = <<>> /\ redo' = <<>> /\ scenes' = 0 /\ mark' = 0
  /\ reasons' = FALSE /\ dirty' = FALSE /\ file' = Content'
  /\ IF dirty THEN clearRecoverySnapshot ELSE UNCHANGED <<dirtySince, timer, clearing>>
  /\ Changed
  /\ UNCHANGED <<save, writes, slot, edits>>

---------------------------------------------------------------------------
(* Saving: saveToRef and saveAsDocument.                                   *)

StartSave ==
  /\ save = None
  /\ save' = Content
  /\ UNCHANGED <<scene, reasons, dirty, file, autosave, edits, raced>>

\* markSavedIfUnmoved
MarkAfter(captured) == IF Len(undo) = Len(captured.undo) THEN Len(undo) ELSE mark

\* The host has written it.
SaveDone ==
  /\ save # None
  /\ file' = save /\ save' = None
  /\ mark' = MarkAfter(save)
  /\ reasons' = FALSE /\ dirty' = ~at_saved_mark(mark', undo)
  /\ clearRecoverySnapshot
  /\ UNCHANGED <<doc, undo, redo, scenes, writes, slot, edits, raced>>

\* Cancelled, or the write failed.
SaveFails ==
  /\ save # None /\ save' = None
  /\ UNCHANGED <<scene, reasons, dirty, file, autosave, edits, raced>>

---------------------------------------------------------------------------
(* Autosaving.                                                             *)

\* The timer fires: runAutosaveTick, which gives up if nothing is due.  A
\* clear that waited for an earlier write then leaves the slot alone; one
\* with nothing to wait for is through long before.
Tick ==
  /\ timer /\ timer' = FALSE
  /\ clearing => writes # <<>>
  /\ IF dirty /\ dirtySince
     THEN /\ Len(writes) < MaxWrites
          /\ writes' = Append(writes, Content)
          /\ clearing' = FALSE
          /\ raced' = (raced /\ save # None)
     ELSE UNCHANGED <<writes, clearing, raced>>
  /\ UNCHANGED <<scene, session, dirtySince, slot, edits>>

\* The oldest write is done; the last one begun disarms.
WriteDone ==
  /\ writes # <<>>
  /\ slot' = Head(writes) /\ writes' = Tail(writes)
  /\ dirtySince' = (dirtySince /\ writes' # <<>>)
  /\ UNCHANGED <<scene, session, timer, clearing, edits, raced>>

\* (mutant: a failed write waits for the next edit)
NotRetried ==
  /\ writes # <<>> /\ writes' = Tail(writes)
  /\ UNCHANGED <<scene, session, dirtySince, timer, clearing, slot, edits, raced>>

\* It failed: tried again when the timer next fires.
WriteFails ==
  /\ writes # <<>> /\ writes' = Tail(writes)
  /\ armAutosaveTick
  /\ UNCHANGED <<scene, session, clearing, slot, edits, raced>>

\* (mutant: a clear does not wait for the write under way)
ClearAtOnce ==
  /\ clearing /\ clearing' = FALSE
  /\ slot' = None
  /\ UNCHANGED <<scene, session, dirtySince, timer, writes, edits, raced>>

\* The write a clear waited for is over.
Clear ==
  /\ clearing /\ writes = <<>> /\ clearing' = FALSE
  /\ slot' = None
  /\ UNCHANGED <<scene, session, dirtySince, timer, writes, edits, raced>>

SessionNext ==
  \/ Commit \/ Undo \/ Redo \/ EditScenes \/ Load
  \/ StartSave \/ SaveDone \/ SaveFails
  \/ Tick \/ WriteDone \/ WriteFails
  \/ Clear

SessionSpec == SessionInit /\ [][SessionNext]_sessionVars

---------------------------------------------------------------------------
\* Nothing is under way and no timer is set.
Quiet == writes = <<>> /\ ~clearing /\ save = None /\ ~timer

(* Once all is quiet, the slot holds nothing for a clean document, and     *)
(* never a document the window has replaced: what was saved, undone or     *)
(* given up is not offered at the next start, whatever autosave was under  *)
(* way when it was.                                                        *)
NothingResurfaces == Quiet /\ slot # None => dirty /\ slot.doc = doc

\* What the slot will hold when the writes under way are done.
Latest == IF writes = <<>> THEN slot ELSE writes[Len(writes)]

(* A dirty document that is not what its latest autosave wrote, or is      *)
(* writing, has the timer set and the autosave armed: a failed write is    *)
(* tried again without another edit, and no overlap of writes, clears,     *)
(* loads and saves leaves work without one to come.  Except work that was  *)
(* last changed while a write or a save was under way: the end of that     *)
(* disarms it (App.tsx:1203, 3548).                                        *)
UnsavedIsDue == dirty /\ ~raced /\ Content # Latest => dirtySince /\ timer

(* "Armed on the first dirty mutation and disarmed the instant there's     *)
(* nothing left to do" (App.tsx:1152-1153): with no write under way, work  *)
(* the slot does not hold has an autosave to come.                         *)
WorkIsNeverLeft == dirty /\ writes = <<>> /\ Content # slot => dirtySince /\ timer

(* "An edit landing during that await must never be silently marked clean" *)
(* (App.tsx:387).                                                          *)
CleanIsOnDisk == ~dirty => file = Content
=============================================================================
