----------------------------- MODULE DocHistory -----------------------------
(***************************************************************************)
(* The document history of crates/kernel/src/document.rs: the undo and     *)
(* redo stacks, the saved mark, the transaction bracket that turns many    *)
(* edits into one undo step, and the group editing sessions whose fold-in  *)
(* at close reads the undo stack back.                                     *)
(*                                                                         *)
(* The data is the node tree alone: objects and groups, who is in whom,    *)
(* what is hidden, and which group holds a drawing.  Edits are drawing an  *)
(* object, deleting one, grouping, ungrouping and moving a node into or    *)
(* out of a group; every other DocAction is an edit of one node that       *)
(* neither moves nodes nor opens a session.  Component sessions keep the   *)
(* same frames and boundaries and are left out with their poses.           *)
(*                                                                         *)
(* A history entry is a sequence of steps; compound says whether it is a   *)
(* DocAction::Compound.  An ungroup that released drawings is one step,    *)
(* though the kernel wraps it with its followups in a compound of its own, *)
(* and so is a move, which is a compound of one wherever it stands.        *)
(* before is a history variable: what the document looked like when the    *)
(* entry was recorded.                                                     *)
(*                                                                         *)
(* A node that does not exist yet is hidden and fresh.  Creating a group   *)
(* makes its record, and redo finds it there.                              *)
(***************************************************************************)
EXTENDS Integers, Sequences, FiniteSets, SequencesExt

CONSTANTS
  Objects,        \* the objects, drawn already or not
  Groups,         \* the groups, formed already or not
  Top, NoGroup,   \* "no parent", and "not there yet" in Home
  Home,           \* the tree at the start: the parent of every node
  Drawn,          \* the groups that hold a drawing of their own
  Ops,            \* what this instance does, beside undo and redo
  RedoInBracket,  \* whether a bracket's body may redo
  MaxPushes       \* bound: pushes counted by the two stacks

Nodes == Objects \cup Groups
Parents == Groups \cup {Top}

\* Objects and groups are told apart, and so are a parent, no parent and
\* not there yet.
ASSUME NamesAssumption ==
  /\ Objects \cap Groups = {}
  /\ Top \notin Nodes /\ NoGroup \notin Parents

\* The document at the start is a tree: who contains a node is there, and
\* nothing contains itself.
ASSUME HomeAssumption ==
  /\ Home \in [Nodes -> Parents \cup {NoGroup}]
  /\ \A n \in Nodes : Home[n] \in Groups => Home[Home[n]] # NoGroup
  /\ \A S \in SUBSET Nodes : (\A n \in S : Home[n] \in S) => S = {}
  /\ Drawn \subseteq {g \in Groups : Home[g] # NoGroup}
  /\ Ops \subseteq {"draw", "delete", "group", "ungroup", "reparent",
                    "session", "bracket", "refuse", "save", "forget"}
  /\ MaxPushes \in Nat

VARIABLES
  tree,       \* parents, hidden nodes, groups' member lists, drawings
  fresh,      \* the nodes that were never created
  sessions,   \* Document.sessions, outermost first
  undo, redo, \* the actions of the two ActionStacks
  pushes,     \* their push counts
  saved,      \* SavedMark: a content depth, or Unreachable
  bracket,    \* the snapshot of the open DocTransaction, or Closed
  disk,       \* history: what the last save wrote
  marked      \* history: the content of the undo stack when the mark was set

vars == <<tree, fresh, sessions, undo, redo, pushes, saved, bracket, disk, marked>>

Unreachable == -1
Closed == [open |-> FALSE]

Live(t) == Nodes \ t.hidden
\* node_is_top_level_world
TopLevel(t) == {n \in Live(t) : t.parent[n] = Top}

Stack(s) == {s[i] : i \in DOMAIN s}
OpenGroups(frames) == {f.group : f \in Stack(frames)}

-----------------------------------------------------------------------------
(* Content depth and the saved mark. *)

Bookkeeping == {"open", "close"}

\* A compound is never bookkeeping, whatever its steps are.
IsBookkeeping(e) == ~e.compound /\ e.steps[1].op \in Bookkeeping

Counted(stack) == {i \in DOMAIN stack : ~IsBookkeeping(stack[i])}
ContentDepth(stack) == Cardinality(Counted(stack))

\* The entries that count, each with the depth it brought the stack to.
Content(stack) ==
  LET counted == Counted(stack)
  IN  {<<Cardinality({j \in counted : j <= i}), stack[i]>> : i \in counted}

AtSavedMark == saved = ContentDepth(undo)

\* Mutant: the mark survives the branch that held it.
MarkAfterKeeps(stack) == saved

\* commit_new_action, given the undo stack with the new entry on it.
MarkAfter(stack) ==
  LET before == ContentDepth(Front(stack))
  IN  IF redo # <<>> /\ saved > before THEN Unreachable ELSE saved

-----------------------------------------------------------------------------
(* One step, forward and back.  A state is [tree, frames, stack]: redo and *)
(* undo of a compound push its children on the real stacks one by one, and *)
(* a session's boundary is an index into the stack as it then stands.      *)

State(t, f, s) == [tree |-> t, frames |-> f, stack |-> s]
\* A child of a compound, on the stack while the compound is replayed.
Child(step) ==
  [compound |-> step.op = "move" \/ (step.op = "ungroup" /\ step.lines # {}),
   steps |-> <<step>>, before |-> <<>>]

SetParents(t, ns, p) ==
  [t EXCEPT !.parent = [n \in Nodes |-> IF n \in ns THEN p ELSE t.parent[n]]]

\* created_nodes
Creates(step) == IF step.op \in {"draw", "group"} THEN {step.node} ELSE {}

\* nodes_surfaced_since: an ungroup is seen only as an entry of its own.
\* Mutant: the boundary is one entry late.
SurfacedLate(t, stack, bound) ==
  UNION {UNION {Creates(s) : s \in Stack(stack[i].steps)} :
         i \in bound + 2 .. Len(stack)}

Surfaced(t, stack, bound) ==
  UNION {(UNION {Creates(s) : s \in Stack(stack[i].steps)}) \cup
         (IF stack[i].steps[1].op = "ungroup" /\ ~stack[i].compound
          THEN t.members[stack[i].steps[1].node] ELSE {}) :
         i \in bound + 1 .. Len(stack)}

\* released_sketches, which does look inside a compound.
Released(stack, bound) ==
  UNION {UNION {s.lines : s \in {x \in Stack(stack[i].steps) :
                                 x.op = "ungroup" /\ x.parent = Top}} :
         i \in bound + 1 .. Len(stack)}

\* group_session_scope
Scope(t, frames, stack) ==
  Last(frames).members \cup Surfaced(t, stack, Last(frames).bound)

\* The nodes that exit_group_session puts back into the group.
Folded(t, frame, stack) ==
  (frame.members \cup Surfaced(t, stack, frame.bound)) \cap TopLevel(t)

Emptied(ms, line, g) == ms = {} /\ \A h \in Drawn : line[h] # g

\* exit_group_session: re-home the survivors and what surfaced since the
\* open, fold the released drawings, drop the group if nothing is left.
Exit(t, f, stack) ==
  LET g == f.group
      ms == Folded(t, f, stack)
      line == [h \in Drawn |->
                 IF t.line[h] = Top /\ h \in Released(stack, f.bound)
                 THEN g ELSE t.line[h]]
  IN  [SetParents(t, ms, g) EXCEPT
         !.members[g] = ms,
         !.line = line,
         !.hidden = IF Emptied(ms, line, g) THEN @ ELSE @ \ {g}]

\* Mutant: the members of a dissolved group are lost to its parent's list.
SplicedShort(members, pg, n, ms) == [members EXCEPT ![pg] = @ \ {n}]

\* splice_out_parent
Spliced(members, pg, n, ms) ==
  [members EXCEPT ![pg] = IF n \in @ THEN (@ \ {n}) \cup ms ELSE @]

\* splice_in_parent
SplicedIn(members, pg, n, ms) ==
  IF pg = Top THEN members
  ELSE [members EXCEPT ![pg] = IF @ \cap ms = {} THEN @
                               ELSE (@ \ ms) \cup {n}]

\* The arms of redo_step; the first run of an edit does the same.
ApplyDraw(t, step) == [t EXCEPT !.hidden = @ \ {step.node}]

ApplyDelete(t, step) ==
  [t EXCEPT !.hidden = @ \cup {step.node},
            !.members = IF step.parent = Top THEN @
                        ELSE Spliced(@, step.parent, step.node, {})]

ApplyGroup(t, step) ==
  LET g == step.node
      ms == t.members[g]
  IN  [SetParents(t, ms, g) EXCEPT
         !.parent[g] = step.parent,
         !.hidden = @ \ {g},
         !.members = SplicedIn(@, step.parent, g, ms)]

ApplyUngroup(t, step) ==
  LET g == step.node
      ms == t.members[g]
  IN  [SetParents(t, ms, step.parent) EXCEPT
         !.hidden = @ \cup {g},
         !.members = IF step.parent = Top THEN @
                     ELSE Spliced(@, step.parent, g, ms),
         !.line = [h \in Drawn |-> IF h \in step.lines THEN step.parent
                                   ELSE @[h]]]

Replaced(members, lists) ==
  [g \in Groups |-> IF g \in DOMAIN lists THEN lists[g] ELSE members[g]]

\* apply_reparent: the recorded lists, verbatim.
ApplyMove(t, step) ==
  [SetParents(t, {step.node}, step.next) EXCEPT !.members = Replaced(@, step.after)]

ApplyOpen(t, step) ==
  [SetParents(t, step.members, Top) EXCEPT !.hidden = @ \cup {step.node}]

FrameOf(s, step) ==
  [group |-> step.node, members |-> step.members, bound |-> Len(s.stack) + 1,
   outside |-> TopLevel(s.tree) \ {step.node}]

Apply(s, step) ==
  LET t == CASE step.op = "draw"    -> ApplyDraw(s.tree, step)
             [] step.op = "delete"  -> ApplyDelete(s.tree, step)
             [] step.op = "group"   -> ApplyGroup(s.tree, step)
             [] step.op = "ungroup" -> ApplyUngroup(s.tree, step)
             [] step.op = "move"    -> ApplyMove(s.tree, step)
             [] step.op = "open"    -> ApplyOpen(s.tree, step)
             [] step.op = "close"   -> Exit(s.tree, Last(s.frames), s.stack)
      frames == CASE step.op = "open"  -> Append(s.frames, FrameOf(s, step))
                  [] step.op = "close" -> Front(s.frames)
                  [] OTHER             -> s.frames
  IN  State(t, frames, Append(s.stack, Child(step)))

\* Mutant: undoing a close re-opens the session with the boundary of now.
ReopenedHere(step, rest) ==
  [group |-> step.node, members |-> step.prev, bound |-> Len(rest),
   outside |-> step.outside]

\* The frame that undoing a close puts back, with the recorded boundary.
Reopened(step, rest) ==
  [group |-> step.node, members |-> step.prev, bound |-> step.bound,
   outside |-> step.outside]

\* The arms of undo_step.
RevertDraw(t, step) == [t EXCEPT !.hidden = @ \cup {step.node}]

RevertDelete(t, step) ==
  [t EXCEPT !.hidden = @ \ {step.node},
            !.members = IF step.parent = Top THEN @
                        ELSE [@ EXCEPT ![step.parent] = step.prev]]

RevertGroup(t, step) ==
  LET g == step.node
  IN  [SetParents(t, t.members[g], step.parent) EXCEPT
         !.hidden = @ \cup {g},
         !.members = IF step.parent = Top THEN @
                     ELSE [@ EXCEPT ![step.parent] = step.prev]]

RevertMove(t, step) ==
  [SetParents(t, {step.node}, step.from) EXCEPT !.members = Replaced(@, step.before)]

RevertUngroup(t, step) ==
  LET g == step.node
  IN  [SetParents(t, t.members[g], g) EXCEPT
         !.hidden = @ \ {g},
         !.members = IF step.parent = Top THEN @
                     ELSE [@ EXCEPT ![step.parent] = step.prev],
         !.line = [h \in Drawn |-> IF h \in step.lines THEN g ELSE @[h]]]

RevertOpen(t, step) ==
  [SetParents(t, step.members, step.node) EXCEPT !.hidden = @ \ {step.node}]

\* The drawings that the close folded in stay where they are.
RevertClose(t, step) ==
  [SetParents(t, step.members, Top) EXCEPT
     !.hidden = @ \cup {step.node},
     !.members[step.node] = step.prev]

Revert(s, step) ==
  LET t == CASE step.op = "draw"    -> RevertDraw(s.tree, step)
             [] step.op = "delete"  -> RevertDelete(s.tree, step)
             [] step.op = "group"   -> RevertGroup(s.tree, step)
             [] step.op = "ungroup" -> RevertUngroup(s.tree, step)
             [] step.op = "move"    -> RevertMove(s.tree, step)
             [] step.op = "open"    -> RevertOpen(s.tree, step)
             [] step.op = "close"   -> RevertClose(s.tree, step)
      frames == CASE step.op = "open" ->
                       IF s.frames # <<>> /\ Last(s.frames).group = step.node
                       THEN Front(s.frames) ELSE s.frames
                  [] step.op = "close" ->
                       Append(s.frames, Reopened(step, Front(s.stack)))
                  [] OTHER -> s.frames
  IN  State(t, frames, Front(s.stack))

\* The stack with the children of an entry in its place.
Spread(stack, steps) == stack \o [i \in DOMAIN steps |-> Child(steps[i])]

\* Mutant: the children of a compound are undone in the order they ran.
UndoEntryForward(t, frames, stack) ==
  LET steps == Last(stack).steps
      back[k \in 0 .. Len(steps)] ==
        IF k = 0 THEN State(t, frames, Spread(Front(stack), steps))
        ELSE Revert(back[k - 1], steps[k])
      s == back[Len(steps)]
  IN  State(s.tree, s.frames, Front(stack))

\* undo_step and redo_step of a whole entry.
UndoEntry(t, frames, stack) ==
  LET steps == Last(stack).steps
      back[k \in 0 .. Len(steps)] ==
        IF k = 0 THEN State(t, frames, Spread(Front(stack), steps))
        ELSE Revert(back[k - 1], steps[Len(steps) + 1 - k])
      s == back[Len(steps)]
  IN  State(s.tree, s.frames, Front(stack))

RedoEntry(t, frames, stack, e) ==
  LET on[k \in 0 .. Len(e.steps)] ==
        IF k = 0 THEN State(t, frames, stack)
        ELSE Apply(on[k - 1], e.steps[k])
      s == on[Len(e.steps)]
  IN  State(s.tree, s.frames, Append(stack, e))

-----------------------------------------------------------------------------
(* What a save writes, and what is compared.                               *)

\* session_closed: the document as if every open session had been closed.
SessionClosed(t, frames, stack) ==
  LET out[k \in 0 .. Len(frames)] ==
        IF k = 0 THEN t
        ELSE Exit(out[k - 1], frames[Len(frames) + 1 - k], stack)
  IN  out[Len(frames)]

Written(t) == [nodes |-> {<<n, t.parent[n]>> : n \in Live(t)},
               lines |-> {<<h, t.line[h]>> : h \in Drawn}]

\* save_for_persistence
SaveForPersistence == Written(SessionClosed(tree, sessions, undo))

Look(t, frames, stack) ==
  [shown |-> Written(t).nodes, open |-> OpenGroups(frames),
   file |-> Written(SessionClosed(t, frames, stack))]

-----------------------------------------------------------------------------
Init ==
  /\ tree = [parent |-> [n \in Nodes |-> IF Home[n] = NoGroup THEN Top
                                         ELSE Home[n]],
             hidden |-> {n \in Nodes : Home[n] = NoGroup},
             members |-> [g \in Groups |-> {n \in Nodes : Home[n] = g}],
             line |-> [h \in Drawn |-> h]]
  /\ fresh = {n \in Nodes : Home[n] = NoGroup}
  /\ sessions = <<>>
  /\ undo = <<>>
  /\ redo = <<>>
  /\ pushes = [undo |-> 0, redo |-> 0]
  /\ saved = 0
  /\ bracket = Closed
  /\ disk = SaveForPersistence
  /\ marked = {}

MayPush(k) == pushes.undo + pushes.redo + k <= MaxPushes

\* A new edit of the document t: apply it, push it, commit_new_action.  The
\* wrap of an ungroup by reconcile_group_drawing happens inside, uncounted.
RecordOn(t, step) ==
  LET s == Apply(State(t, sessions, undo), step)
      e == [Child(step) EXCEPT !.before = Look(tree, sessions, undo)]
  IN  /\ MayPush(1)
      /\ tree' = s.tree
      /\ fresh' = fresh \ Creates(step)
      /\ sessions' = s.frames
      /\ undo' = Append(undo, e)
      /\ redo' = <<>>
      /\ pushes' = [pushes EXCEPT !.undo = @ + 1]
      /\ saved' = MarkAfter(Append(undo, e))
      /\ UNCHANGED <<bracket, disk, marked>>

Record(step) == RecordOn(tree, step)

Draw(n) ==
  /\ "draw" \in Ops
  /\ n \in fresh
  /\ Record([op |-> "draw", node |-> n])

\* The member list that an edit of a node splices, as it stood before.
SiblingsOf(n) ==
  IF tree.parent[n] = Top THEN {} ELSE tree.members[tree.parent[n]]

\* delete_node of an object, in or out of a session.
Delete(n) ==
  /\ "delete" \in Ops
  /\ n \in Live(tree)
  /\ Record([op |-> "delete", node |-> n, parent |-> tree.parent[n],
             prev |-> SiblingsOf(n)])

\* The node and the groups that contain it: the least set that holds the node
\* and the parent of whatever it holds.
Chain(n) ==
  {m \in Nodes : \A S \in SUBSET Nodes :
     n \in S /\ (\A k \in S : tree.parent[k] \in S \cup {Top}) => m \in S}

\* node_in_group_scope: the node or a container of it is in the scope.
InScope(n) == Chain(n) \cap Scope(tree, sessions, undo) # {}

\* The record of a new group, before its members are told.
WithGroup(t, g, ms, p) == [t EXCEPT !.members[g] = ms, !.parent[g] = p]

\* group_nodes, into a group formed for the occasion.
Group(g, ms) ==
  /\ "group" \in Ops
  /\ g \in fresh
  /\ ms # {} /\ ms \subseteq Live(tree)
  /\ sessions # <<>> => \A m \in ms : InScope(m)
  /\ \A m, n \in ms : tree.parent[m] = tree.parent[n]
  /\ LET m == CHOOSE n \in ms : TRUE
         p == tree.parent[m]
     IN  RecordOn(WithGroup(tree, g, ms, p),
                  [op |-> "group", node |-> g, members |-> ms,
                   parent |-> p, prev |-> SiblingsOf(m)])

Ungroup(g) ==
  /\ "ungroup" \in Ops
  /\ g \in Live(tree)
  /\ sessions # <<>> => InScope(g)
  /\ Record([op |-> "ungroup", node |-> g, parent |-> tree.parent[g],
             prev |-> SiblingsOf(g),
             lines |-> {h \in Drawn : tree.line[h] = g}])

\* reparent_nodes of one node, in a transaction of its own.  reparent_node
\* clears the redo stack itself, before the commit could see what the branch
\* held: the mark stays.
Reparent(n, p) ==
  LET from == tree.parent[n]
      lists == {from, p} \ {Top}
      after == [g \in lists |-> IF g = p THEN tree.members[g] \cup {n}
                               ELSE tree.members[g] \ {n}]
      step == [op |-> "move", node |-> n, from |-> from, next |-> p,
               before |-> [g \in lists |-> tree.members[g]], after |-> after]
      s == Apply(State(tree, sessions, undo), step)
  IN  /\ "reparent" \in Ops
      /\ sessions = <<>>
      /\ n \in Live(tree) /\ p # from
      /\ p # Top => p \in Live(tree) /\ n \notin Chain(p)
      /\ MayPush(2)
      /\ tree' = s.tree
      /\ undo' = Append(undo, [Child(step) EXCEPT
                                 !.before = Look(tree, sessions, undo)])
      /\ redo' = <<>>
      /\ pushes' = [pushes EXCEPT !.undo = @ + 2]
      /\ UNCHANGED <<fresh, sessions, saved, bracket, disk, marked>>

OpenGroupSession(g) ==
  /\ "session" \in Ops
  /\ g \in TopLevel(tree)
  /\ sessions # <<>> => InScope(g)
  /\ Record([op |-> "open", node |-> g, members |-> tree.members[g]])

\* close_group_session.  The callers keep to transact.rs's context balance:
\* a bracket's body closes only a session it opened, and the bodies of the
\* app's own brackets open and close none.
CloseGroupSession ==
  /\ "session" \in Ops
  /\ sessions # <<>>
  /\ bracket.open => Len(sessions) > Len(bracket.sessions)
  /\ LET f == Last(sessions)
     IN  Record([op |-> "close", node |-> f.group, bound |-> f.bound,
                 prev |-> tree.members[f.group],
                 members |-> Folded(tree, f, undo), outside |-> f.outside])

\* A compound replays its children on both stacks, then swaps them for
\* itself: k pushes here, k and one there.  An ungroup and its followups
\* count as one child.
Replayed(e) == IF e.compound THEN Len(e.steps) ELSE 0

Undo ==
  /\ undo # <<>>
  /\ LET e == Last(undo)
         s == UndoEntry(tree, sessions, undo)
     IN  /\ MayPush(2 * Replayed(e) + 1)
         /\ tree' = s.tree
         /\ sessions' = s.frames
         /\ undo' = s.stack
         /\ redo' = Append(redo, e)
         /\ pushes' = [undo |-> pushes.undo + Replayed(e),
                       redo |-> pushes.redo + Replayed(e) + 1]
  /\ bracket' = IF bracket.open THEN [bracket EXCEPT !.undid = TRUE]
                ELSE bracket
  /\ UNCHANGED <<fresh, saved, disk, marked>>

\* A refused undo puts the entry back: the only trace is one more push.
UndoRefused ==
  /\ "refuse" \in Ops
  /\ undo # <<>>
  /\ MayPush(1)
  /\ pushes' = [pushes EXCEPT !.undo = @ + 1]
  /\ UNCHANGED <<tree, fresh, sessions, undo, redo, saved, bracket, disk, marked>>

Redo ==
  /\ redo # <<>>
  /\ bracket.open => RedoInBracket
  /\ LET e == Last(redo)
         s == RedoEntry(tree, sessions, undo, e)
     IN  /\ MayPush(2 * Replayed(e) + 1)
         /\ tree' = s.tree
         /\ sessions' = s.frames
         /\ undo' = s.stack
         /\ redo' = Front(redo)
         /\ pushes' = [undo |-> pushes.undo + Replayed(e) + 1,
                       redo |-> pushes.redo + Replayed(e)]
  /\ UNCHANGED <<fresh, saved, bracket, disk, marked>>

\* mark_saved after save_for_persistence.  Neither a bracket's body nor an
\* envelope saves: both run without yielding, and hew.doc.save is solitary.
Save ==
  /\ "save" \in Ops
  /\ ~bracket.open
  /\ saved' = ContentDepth(undo)
  /\ disk' = SaveForPersistence
  /\ marked' = Content(undo)
  /\ UNCHANGED <<tree, fresh, sessions, undo, redo, pushes, bracket>>

\* forget_history, after an import into a fresh document.
ForgetHistory ==
  /\ "forget" \in Ops
  /\ ~bracket.open
  /\ sessions = <<>>
  /\ undo' = <<>>
  /\ redo' = <<>>
  /\ saved' = 0
  /\ disk' = SaveForPersistence
  /\ marked' = {}
  /\ UNCHANGED <<tree, fresh, sessions, pushes, bracket>>

BeginTransaction ==
  /\ "bracket" \in Ops
  /\ ~bracket.open
  /\ bracket' = [open |-> TRUE, tree |-> tree, fresh |-> fresh, sessions |-> sessions,
                 undo |-> undo, redo |-> redo, pushes |-> pushes,
                 saved |-> saved, undid |-> FALSE]
  /\ UNCHANGED <<tree, fresh, sessions, undo, redo, pushes, saved, disk, marked>>

\* abort_transaction
Restore ==
  /\ tree' = bracket.tree
  /\ fresh' = bracket.fresh
  /\ sessions' = bracket.sessions
  /\ undo' = bracket.undo
  /\ redo' = bracket.redo
  /\ pushes' = bracket.pushes
  /\ saved' = bracket.saved
  /\ bracket' = Closed
  /\ UNCHANGED <<disk, marked>>

AbortTransaction == bracket.open /\ Restore

FrameIds(frames) == [i \in DOMAIN frames |-> frames[i].group]

\* Mutant: only the length of the stack tells.
DisturbedIfShorter == Len(undo) < Len(bracket.undo)

Disturbed ==
  \/ pushes.redo # bracket.pushes.redo
  \/ Len(undo) < Len(bracket.undo)

Unbalanced == FrameIds(sessions) # FrameIds(bracket.sessions)

CommitRefused ==
  /\ bracket.open
  /\ Disturbed \/ Unbalanced
  /\ Restore

CommitNothing ==
  /\ bracket.open
  /\ ~Disturbed /\ ~Unbalanced
  /\ Len(undo) = Len(bracket.undo)
  /\ bracket' = Closed
  /\ UNCHANGED <<tree, fresh, sessions, undo, redo, pushes, saved, disk, marked>>

\* The entries since begin, as one compound.
Collapse ==
  LET start == Len(bracket.undo)
      drained == SubSeq(undo, start + 1, Len(undo))
  IN  Append(SubSeq(undo, 1, start),
             [compound |-> TRUE,
              steps |-> FlattenSeq([i \in DOMAIN drained |-> drained[i].steps]),
              before |-> Look(bracket.tree, bracket.sessions, bracket.undo)])

CommitTransaction ==
  /\ bracket.open
  /\ ~Disturbed /\ ~Unbalanced
  /\ Len(undo) > Len(bracket.undo)
  /\ MayPush(1)
  /\ undo' = Collapse
  /\ redo' = <<>>
  /\ pushes' = [pushes EXCEPT !.undo = @ + 1]
  /\ saved' = MarkAfter(Collapse)
  /\ bracket' = Closed
  /\ UNCHANGED <<tree, fresh, sessions, disk, marked>>

Next ==
  \/ \E n \in Objects : Draw(n) \/ Delete(n)
  \/ \E g \in Groups : Ungroup(g) \/ OpenGroupSession(g)
  \/ \E g \in Groups, ms \in SUBSET Nodes : Group(g, ms)
  \/ \E n \in Nodes, p \in Parents : Reparent(n, p)
  \/ CloseGroupSession
  \/ Undo \/ UndoRefused \/ Redo
  \/ Save \/ ForgetHistory
  \/ BeginTransaction \/ AbortTransaction
  \/ CommitRefused \/ CommitNothing \/ CommitTransaction

Spec == Init /\ [][Next]_vars

-----------------------------------------------------------------------------
(* Properties.                                                             *)

\* The shape of the tree and of what refers to it.
TreeTyped ==
  /\ tree.parent \in [Nodes -> Parents]
  /\ tree.hidden \subseteq Nodes
  /\ tree.members \in [Groups -> SUBSET Nodes]
  /\ tree.line \in [Drawn -> Parents]
  /\ fresh \subseteq tree.hidden
  /\ \A f \in Stack(sessions) : f.group \in Groups /\ f.bound \in Nat

\* The shape of the stacks and their counts.  No history entry is empty.
StacksTyped ==
  /\ \A e \in Stack(undo) \cup Stack(redo) : e.steps # <<>>
  /\ pushes \in [undo : 0 .. MaxPushes, redo : 0 .. MaxPushes]
  /\ saved \in Unreachable .. MaxPushes
  /\ bracket.open \in BOOLEAN

\* The group tree agrees with itself: the member list of every group that
\* is shown holds exactly the live nodes whose parent it is, and no group is
\* edited by two sessions.
TreeAgrees ==
  /\ TreeTyped
  /\ \A g \in Groups \cap Live(tree) :
       tree.members[g] = {n \in Live(tree) : tree.parent[n] = g}
  /\ Cardinality(OpenGroups(sessions)) = Len(sessions)

\* A document that reads clean holds the entries it was saved with, and no
\* other: the mark is a number of entries, and never of another branch.
MarkIsOfThisBranch == AtSavedMark => Content(undo) = marked

\* A bracket that can still commit has every entry from before it where it
\* was, so that the collapse takes its own entries and no others.
BracketKeepsBefore ==
  bracket.open /\ ~Disturbed => SubSeq(undo, 1, Len(bracket.undo)) = bracket.undo

\* A bracket in which an undo ran is seen to be disturbed.
UndoIsNoticed == bracket.open /\ bracket.undid => Disturbed

\* What the stacks promise whatever their entries do: the mark and a bracket
\* refer to them by a number, and still mean the entries they meant
\* (at_saved_mark, commit_transaction).
StacksAreTrue ==
  StacksTyped /\ MarkIsOfThisBranch /\ BracketKeepsBefore /\ UndoIsNoticed

\* A document that reads clean is the document on disk: saving it again
\* would write the same file, whatever was undone, redone, entered, left,
\* bracketed or aborted since the save.
SavedMarkIsTrue == AtSavedMark => SaveForPersistence = disk

\* Undoing the top entry, a whole bracket or an edit inside a session that
\* has since been closed, shows the document it was recorded on.
UndoShowsBefore ==
  undo # <<>> =>
    LET s == UndoEntry(tree, sessions, undo)
    IN  Look(s.tree, s.frames, s.stack) = Last(undo).before

\* Redo after undo is no change: it re-derives every close from the stack
\* as it stands and finds the tree and the frames it started from.
RedoInvertsUndo ==
  undo # <<>> =>
    LET s == UndoEntry(tree, sessions, undo)
        r == RedoEntry(s.tree, s.frames, s.stack, Last(undo))
    IN  /\ Look(r.tree, r.frames, r.stack) = Look(tree, sessions, undo)
        /\ r.frames = sessions

\* The boundary of every open session sits right after the entry that
\* opened it (the kernel's own debug_assert when a close is undone).
BoundariesSit ==
  \A f \in Stack(sessions) :
    /\ f.bound \in 1 .. Len(undo)
    /\ undo[f.bound].steps = <<[op |-> "open", node |-> f.group,
                                members |-> f.members]>>

\* The step put one entry on the undo stack: this session step.  An abort that
\* brings back a longer stack puts none there.
Grows(op) ==
  /\ undo' # <<>> /\ Front(undo') = undo /\ bracket' = bracket
  /\ ~Last(undo').compound /\ Last(undo').steps[1].op = op

\* Undo and redo are each other's inverse on the document shown, and rest on
\* boundaries that are where they are taken to be.
HistoryInverts == UndoShowsBefore /\ RedoInvertsUndo /\ BoundariesSit

\* Closing a session leaves at the top level what was there when it opened
\* and the group itself: nothing that surfaced in the session leaks out, and
\* nothing from outside is swept in.
SessionKeepsItsOwn ==
  [][Grows("close")
      => LET f == Last(sessions)
         IN  TopLevel(tree') \ {f.group} = TopLevel(tree) \cap f.outside]_vars

\* Entering or leaving a session changes nothing a save would write.
SessionsWriteNothing ==
  [][Grows("open") \/ Grows("close")
      => SaveForPersistence' = SaveForPersistence]_vars

\* A transaction that entered and left sessions, and did nothing else, does
\* not dirty the document.
ContextsStayClean ==
  [][CommitTransaction /\ AtSavedMark
      /\ (\A i \in Len(bracket.undo) + 1 .. Len(undo) : IsBookkeeping(undo[i]))
      => AtSavedMark']_vars
=============================================================================
