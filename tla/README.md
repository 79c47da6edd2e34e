# TLA+ models of Hew

Hew is a 3D modeller: a Rust kernel compiled to WASM, a TypeScript/React app, a
Tauri desktop shell, a command-line and MCP client that drive a running app
through its live API, and Cloudflare workers (or a small self-hosted server) that
share documents and take bug reports. This directory holds models of the parts
where the difficulty is in the order of things: who runs between two steps, what
is remembered and when it stops being true, what is left behind by a step that
fails. The geometry is not one of them.

    cd tla
    tlc -workers 2 -config MCHistory.cfg MCDocHistory   # one run
    tlapm RelayStoreProofs.tla                          # the proofs of a module

## The system

| part | state | operations | what is hard | what makes it correct |
|---|---|---|---|---|
| **Self-hosted relay** `crates/hew-relay` | a map of drops, two byte counters, per-upload reservations | PUT, GET, HEAD, DELETE, sweep, timeout, restart | many bodies stream against one cap; clocks read before the lock; every way out of an upload must give its bytes back | counters exact, cap held, one reader at most, nothing alive evicted, memory comes back |
| **Share relay worker** `workers/share-relay` | one Durable Object per drop: chunk rows, a meta row, an alarm | store/append, consume/take, peek, destroy, alarm | a PUT or GET is several RPCs; anything may happen between two, also the caller's death | whole or nothing, one reader, no residue |
| **Live API** `shells/tauri` (`live.rs`, `live_router.rs`), `app/src/api/liveBridge.ts`, `crates/api/src/dispatch.rs` | connection threads, reply slots, what is believed of each window; in the page, queues and dispatcher sessions | hello, requests, attach, probe, close | replies are matched by connection only; pages boot late, hang, close; state held across waits | each request gets its own answer, beliefs are true, nothing waits for ever, sessions end |
| **Live windows** `main.rs`, `live_router.rs`, `App.tsx` | windows, path registry, pending opens, the lifecycle lock | new, open, close, save; the user's own | the claim of a path and its use are apart; pages report late, hang, close | one window per opened file, refused commands leave nothing |
| **Document history** `crates/kernel/src/document.rs` | undo and redo stacks, saved mark, open sessions, transaction snapshot | edits, undo, redo, save, begin/commit/abort, open/close a group session | sessions and saved mark refer to the stacks by index or depth, while undo, redo, collapse and abort move both | clean means saved, undo and redo are inverse, a session keeps its own nodes |
| **Document session** `App.tsx`, `io/documentSession.ts` | dirty, non-undoable reasons, autosave timer, writes and clears under way | edit, save, load, autosave, clear | the document is edited while the host writes | unsaved work has an autosave coming, what is settled is not offered again |
| **Crash recovery** `main.rs`, `App.tsx` | a slot per window label, protected slots, the label counter, the dialog | list, claim, discard, defer, write, clear | slots outlive labels, labels start again at each launch, crashes at any step | work in a slot stays in one, for one window |
| **Bug intake** `workers/bug-intake` | drops with an alarm, an index of rows, threads with an alarm | START, PIECE, COMMIT, post, status, seen, forget, expire, prune | three kinds of object are called one after the other; anything between; each call may fail | whole reports, one mail, no orphan row, nothing stays for ever |
| **Follow clients** `webFollowHost.ts`, `followPolicy.ts` (desktop: `follow.rs`) | a record per followed report | check, post, attach, mark seen, forget | calls side by side, answers late or lost | the record is the thread at one moment, marks arrive |
| **Caches** libraries, recents, thumbnails | IndexedDB records or files | write, evict | best effort by design | never blocks a save |
| **Geometry, rendering, import, export, UI** | none beyond their input | pure functions | floating point | out of TLC's reach |

The app calls the kernel through `crates/wasm-api`, synchronously, on one thread.
The live API reaches the same kernel: client, shell thread, an event to the page,
the page's dispatcher (`crates/api`), and back. `hew.doc.transact` is the only way
several commands become one undo step; the app's own multi-step tools use the same
kernel bracket. The relays are used by the desktop shell and the phone page; the
bug intake by the app's report dialog and by the follow clients.

## The modules

| module | models | state, and where it is in the code |
|---|---|---|
| `DropContract` | what either relay promises of a drop | `phase` of each drop: unused, present, claimed, delivered, gone |
| `RelayStore` | `hew-relay`: `store.rs` and the drop handlers of `http.rs` | `drops`, `total`, `reserved` are `Inner`; `held` is a `Reservation`; `left` is `expires_at` minus now; `up`, `got` are the requests |
| `ShareDrop` | one Durable Object (`dropStore.ts`, `shareDrop.ts`) and the handlers that call it | `schema`, `meta`, `rows`, `alarm` are its storage; `put`, `get`, `from`, `got` are the Workers' requests |
| `LiveConn` | a connection from the socket to the page | `slot`, `rx` are `pending_replies` and the channel; `opened`, `current` are `ConnRoute.opened` and `conn_window`; `inbox`, `known`, `session` are the page's |
| `LiveWindows` | the `hew.doc.*` commands the shell answers itself, the pages' file operations, the user | `ops` is `window_ops`, `paths` is `DocumentPaths`, `pending` is `PendingWindowOpen`; `bound` is the page's `currentRef`, `told` its `lastReportedPathRef` |
| `DocHistory` | `document.rs`: stacks, mark, brackets, group sessions | `undo`, `redo`, `pushes` are the two `ActionStack`s; `sessions` the frames; `saved` the `SavedMark`; `bracket` the `DocTransaction` snapshot; `tree` who is in whom |
| `DocSession` | one window between edits, file and recovery slot (`App.tsx`, `documentSession.ts`) | `mark` is the kernel's, `dirty`, `reasons` the session's; `dirtySince`, `timer` are `dirtySinceAutosaveRef`, `autosaveTimerRef`; `writes`, `clearing` what awaits |
| `RecoverySlots` | the desktop's slots over several starts (`main.rs`, `App.tsx`) | `disk` the files, `protected`, `pending`, `counter` the shell's states, `prompt`, `rest` the dialog and its Recover |
| `ReportIndex` | a report's row in the index (`indexStore.ts`) | the row's `committed`, `following`, `bundleDeleted`, `size`, and the index's operators on it |
| `ReportUpload` | START, PIECE and COMMIT (`handlers.ts`, `reportStore.ts`) | `drop`, `expire` are the drop's object and its alarm; `row`, `stale` the index; `start`, `req` the Workers; `at` the client |
| `ReportThread` | a thread against everything that creates, uses and ends it (`threadStore.ts`, `handlers.ts`) | `thread` its meta row, `armed`, `fired` its alarm, `ends` each `destroyNotifying`; `row` and `drop` the other two objects |
| `FollowClient` | the reporter's browser (`webFollowHost.ts`, `followPolicy.ts`) against a thread's messages | `msgs`, `status`, `seen`, `finalSeen` are the thread's, `rec` the stored record, `call` the host's calls |
| `MC...` | instances for TLC | trees to start from, upload sizes, symmetry |
| `RelayStoreProofs`, `ShareDropProofs`, `LiveConnProofs`, `LiveWindowsProofs`, `ReportUploadProofs`, `DocHistoryProofs` | the proofs about the modules they are named for | |
| `RecoveryProofs` | the proofs about `RecoverySlots` and `DocSession`, the two halves of crash recovery; it extends both, so the definitions every specification has are prefixed in one of them (`SessionInit`, `SessionNext`, `SessionTypeOK`) | |
| `FollowingProofs` | the proofs about `ReportThread` and `FollowClient`, the two ends of a followed report; for the same reason `FollowClient` has `FollowInit`, `FollowNext`, `FollowTypeOK` | |

`DropContract` is the abstract specification; `RelayStore` and `ShareDrop`, two
programs in two languages with nothing in common but the promise, are each shown
to implement it (`ImplementsContract`). `ReportUpload` and `ReportThread` share
`ReportIndex`: the row is where the two meet. `FollowClient` takes the thread as
`ReportThread` leaves it: there, or gone.

### RelayStore

A `Store` method is one critical section of a mutex and one step. Between two
frames of a body every other request runs. `take`, `peek` and `put_reserved` read
the clock before they lock, so they may act on an instant up to `Skew` ticks old;
the sweep reads it inside. `PutOversize`, `PutRefused`, `PutCut` and `PutEmpty` are
the ways out of an upload; each goes through `Leave`, which is `Reservation`'s
`Drop`. A restart empties the store and cuts what is in flight.

### ShareDrop

Each RPC of the object is one step (it is single-threaded and its storage holds
back other events); a Worker may die between any two (`PutCut`, `GetCut`), and the
alarm and a DELETE may come between any two. Chunks are numbers: `Batch` of them
travel in one call.

### LiveConn

A connection's thread is `pc`: idle, routing, probing, attaching, awaiting. Every
wait is the code's `send_and_await`: a fresh channel takes the connection's slot,
the frame goes behind the page's queue, and the wait ends by a reply, by its
timeout, or by the window's end. An event for a page that has not registered its
listeners is lost. A reply is given to whatever wait of its connection is pending,
which is the code's rule and the reason for half of the properties. The client
sends one request at a time. Its first is a hello, which the shell keeps to replay
as the probe of other windows; one that names a version the dispatcher does not
speak (`badHello`) is kept too, and refused by each of them.

### LiveWindows

`cmd_new`, `cmd_open` and `cmd_close` are split where the code awaits: the lock and
the check, the claim, the probe of the page, the operation asked of it, the wait for
the window to go. `hew.doc.save` takes no lock. A page's operations run side by
side, each in the pieces its awaits leave (`openPathInPlace`, `Loads`; `saveToRef`,
`Saved`; `Closes`, `Cleared`, `afterReply`), and what it tells the registry travels
in `report`. No page step is fair: a page may hang anywhere. A window that is
destroyed stays until the event loop reaches it. Where the code asks for the window
that holds a path, it takes the first match of a map in no order: so when several
hold it (`Holders`), any of them may be the answer.

### DocHistory

An edit is drawing an object, deleting one, grouping, ungrouping, or moving a node
into or out of a group; any other `DocAction` changes one node, moves nothing and
opens no session, so to the history it is one of these. A move is always a compound
of one, because `reparent_nodes` brackets itself; a batch of moves is a bracket of
them. A close is derived, in the code and here, by reading the undo stack from
the boundary the session remembers; that reading happens again at each redo
(`Apply` of a close) and when an undone close opens the session once more
(`Reopened`). A compound is replayed child by child on the real stacks. Saves do
not occur inside a bracket: both run without yielding and `hew.doc.save` is a
solitary command. A bracket closes only sessions it opened (`transact.rs` checks
it, the app's brackets touch none). Three history variables serve the properties only:
`before` of an entry, `disk`, and `marked`, the entries the stack held when the mark was
last set.

### DocSession

A handler of the page is a step, and the effects of the render after it are part of
it. What the host does (`SaveDone`, `WriteDone`, `WriteFails`) comes when it comes;
writes to one slot end in the order they began. A step of the history is a number,
so that two stacks of one depth can differ in content, which is what the saved mark
cannot see. A `Tick` waits for a clear that has nothing to wait for: the clear takes
milliseconds, the timer twelve seconds. `raced` is a history variable: the document
was last changed while a write or a save was under way, and not autosaved since.

### RecoverySlots

A window's unsaved work is a number given at its first edit. A start reads the slots
on disk, seeds the counter, protects what the dialog lists; Recover gives one slot
to the first window and opens windows one after the other for the rest, each of
which claims when its page is up. A crash may come at any step and keeps the disk
alone. An autosave is one step here; its awaits are `DocSession`'s.

### ReportUpload and ReportThread

A method of an object that awaits only its own storage is one step; a request is a
Worker that calls one object after the other and may die, or have a call fail,
between two (`MaxFails`). In `ReportUpload` the client repeats each PIECE and COMMIT
once, while the first may still be running. Time is a flag per drop and per row,
with the code's own order between the limits (the prune waits longer than the
drop's alarm, the retention longer than any request). In `ReportThread` the one
method that awaits another object, `destroyNotifying`, is three steps (`BeginDestroy`,
`TellIndex`, `Wipe`) with its catch block (`TellFails`) and an eviction between them.
The client sends its COMMITs in order, the next whenever it gives the one before up,
which may be on its way, running, or done with the answer lost; it goes by the answer to
the last. Any number of them run at once, also after the report was followed and
forgotten. `overtaken` is a history variable: since a Forget began, a COMMIT has
changed the thread or the row.

### FollowClient

Each call of the host reads the record, awaits the worker, and writes onto the
record as it then is; any number of them overlap. A request is lost before it
reaches the worker (`Lose`) or its answer is lost after (`Serve...` with a failed
answer). `Earlier` is what the maintainer did before the run begins.

## The runs

| run | instance | what it shows |
|---|---|---|
| `relay_store` | 3 uploads, drops of at most 2 bytes, cap 3, life 1, skew 1; 129 000 states | RelayStore's invariants, the contract and liveness |
| `share_drop` | 3 readers, 1 to 5 chunks, batches of 2, life 2; 33 000 states | ShareDrop's invariants, the contract and liveness |
| `live_conn` | 1 connection, 2 windows, 2 probes, 6 frames; 196 000 states | answers, sessions, and that everything ends |
| `live_windows` | 2 connections, 2 files, 3 windows, 1 call each, 1 act of the user, 2 reports on their way | one window per opened file, a registry that knows, nothing left of a refusal |
| `history_saved` | a group with a drawing and one member, two objects to draw, 7 pushes; 807 000 states | mark, undo, redo, brackets, aborts, `forget_history` |
| `history_fold` | a group, one to form (in it, around it or beside it), two objects, no saves, 9 pushes; 521 000 states | sessions, grouping, ungrouping, moves and fold-in |
| `doc_session` | 2 edits, 1 change of scenes, 2 documents, 2 writes under way; 610 000 states | the slot and the timer agree with the document |
| `recovery_slots` | 4 labels, 4 works, 3 starts | recovery loses, doubles and overwrites nothing that it has adopted |
| `recovery_undecided` | 2 labels, 3 works, 3 starts | a disagreement below |
| `report_upload` | 1 upload of two pieces, a ceiling of 2 shared with other reports, 2 failures | whole reports, one mail, no prune of what was acknowledged, all of it ends |
| `report_thread` | 2 COMMITs that may overlap, a Forget, a post, a reply, a poll, 1 failure; 752 000 states | followed rows have threads, Forget is final, all of it ends |
| `follow_client` | the launch check and one other call, 1 attachment, 4 messages, one of them before the start and one the maintainer's reserve, a reply and a status by the maintainer; 1.2 million states | the record is the thread, the thread is fair, marks arrive |

Why the bounds are enough. *Relay*: two streaming bodies and a stored drop are the
least that can overrun a cap by adding up, and a cap of 3 with drops of 2 makes two
of them not fit together; a drop of life 1 with a skew of 1 is read on either side
of its last instant. *Worker*: five chunks in batches of two are a first call, a
full one and a short one; the third reader arrives while one reads and one has been
refused. *Live*: two windows are what it takes for a request to name another than
the current one; a second probe is the retry of a page that boots; six frames allow
two client requests with the hellos and attaches the shell adds. Two connections
share nothing but the pages' queues. *Windows*: two opens
and an act of the user against three windows, so that each may have made its own.
*History*: `MaxPushes` bounds recorded actions; seven allow an open, an edit, a close
and a bracket with two edits and their undo, which every interleaving of index and
collapse needs; `history_fold` has nine and no saves, as none of its properties speaks
of the mark. *Session*: two edits and an undo are the least that put other content
at a depth already seen; three edits (5.7 million states) were checked once. *Slots*:
three starts are a first run, one that defers and one that finds what was deferred;
four labels let a Recover of three slots run to its end. *Reports*: one report, since
reports share the ceiling only, and the others' share of it is any number at every
START; two failures are a Worker that dies and a repair that fails. *Thread*: a
COMMIT and its retry, and one of everything that can end the thread. *Follow*: three
messages are a status, an answer and the line of the reopening; the fourth is the one
kept free, so a post that reopens takes two of the three, or finds room for one and is
refused, or for none. `MaxReplies` and `MaxStatuses` bound what the maintainer does in
the run: without them the safety properties were checked once (6.7 million states).

Deadlock is checked in both relays, where the clock or another request can always
run. It is off in the others: connections and windows may all have closed, edits,
works, starts, messages and requests are bounded, and a report may be gone for good.

### Properties

* `RelayStore`: `BudgetIsSound` (the counters are the sums they stand for, and the cap
  holds); `AnswersStayTrue` (only a GET, a DELETE or a restart takes a live drop; a
  404 is for ever, though the clocks differ; a body is refused only for live bytes);
  `EverythingGoes` (drops settle, the budget comes back).
* `ShareDrop`: `DropIsSound` (no reader gets part of a drop; the error branch of
  `take` is unreachable from the handlers; rows have an alarm); `AbsentIsFinal`;
  `EverythingGoes`.
* `LiveConn`: `RightAnswer`; `SessionsAgree` (what the shell believes of a window's
  session is so, the window named is attached, no session without a connection);
  `EverythingEnds`. Of the first two only the last part, `NoOrphan`, holds whatever
  happens; the others hold of a connection on which the shell never gave up on a window
  that is still there.
* `LiveWindows`: `FilesHaveOneWindow` (`OpenedOnce`: two windows never both hold a file
  the API loaded into them; `RegistryKnowsWriters`: the registry has the file of each
  window whose reports have arrived; both but for windows in which a save ended while an
  open was dealing with them, `overrun`); `RefusedLeavesNothing`.
* `DocHistory`: `StacksAreTrue` (a document that reads clean holds the entries it was
  saved with, a bracket commits its own entries and no others, an undo inside a bracket
  is noticed); `SavedMarkIsTrue` (what it would write is on disk); `HistoryInverts` (an
  undo shows what the entry was recorded on, a redo takes it back, boundaries sit on
  their entries); `TreeAgrees`; `SessionKeepsItsOwn`. The types are in two parts, of the
  stacks (in `StacksAreTrue`) and of the tree (in `TreeAgrees`).
* `DocSession`: `NothingResurfaces`; `UnsavedIsDue` (a dirty document that differs from
  what its latest autosave wrote, or is writing, has one coming, unless it was last
  changed while a write or a save was under way (`raced`): see `WorkIsNeverLeft` below).
* `RecoverySlots`: `WorkHasOneHome` (a window's work that reached a slot stays in some slot,
  and has one window); `SlotsAreKept` (a new label names no slot on disk, a protected slot
  is not written while it is undecided). Neither speaks of a snapshot that is undecided
  and no longer protected: `recovery_undecided` does.
* `ReportUpload`: `CommittedIsWhole`; `CommitsOnce` (one mail; nothing acknowledged is
  left to a prune of idle uploads; a late PIECE may still abandon it, `AckedIsKept`); `NothingLingers` (reservations settle, drops end).
* `ReportThread`: `FollowingMeansThread`, `ForgottenIsRefused`, `NothingLingers` (threads
  end, and the rows kept for them). All but the end of threads say nothing once a COMMIT
  overtaken by a Forget has undone something of it (`overtaken`): see `NeverOrphaned`
  and `SecretIsRevoked` below.
* `FollowClient`: `RecordIsThread`; `ThreadIsFair` (the grace clock runs only for what
  was seen, an attachment appears once, the maintainer has room); `MarkArrives`.

### Fairness

* `RelayStore`: the clock runs, the sweeper's interval fires, an upload is cut by
  `REQUEST_TIMEOUT` at the latest and a response ends with its connection. Nobody has
  to read a drop and no client has to finish a body.
* `ShareDrop`: time passes, the runtime delivers alarms (Durable Objects retry them),
  and a GET ends, if only by its Worker's end.
* `LiveConn`: the shell's threads run and their waits time out. No page has to
  answer for requests to end; that sessions end is stated of pages that handle their
  events (`PagesRun`).
* `ReportUpload`, `ReportThread`: time passes, alarms are delivered and their handlers
  finish unless a call of theirs fails (then they come again), and a Worker's call
  ends. In `ReportUpload` somebody sends a START now and then: the idle rows are
  pruned by nothing else.
* `FollowClient`: the app is launched again and again while it has a record, and a
  request made for ever is not lost for ever.

## Disagreements between the code and what is said of it

One is a run.

`recovery_undecided`: `effective_own_slot` (`main.rs:408`) looks at the own
slot of a label only. After Escape at one start the first window's autosaves go to
`main-deferred`; at the next start that slot is listed and protected as well, and
after a second Escape the same window's autosaves and clears go there all the same.
A start with a file lists nothing, so nothing is protected and closing that window
clears `recovery-main`. The comment at `main.rs:396-402` says that the undecided
snapshot is never overwritten.

The others are stated as definitions, of the module named, that any run of that
module can take as a property to see the counterexample:

| definition | the code | what is said |
|---|---|---|
| `RelayStore!DeadDropsAdmit` | the check of a declared length counts dead drops (`http.rs:345`) | `store.rs:128`: expired drops are swept before the check |
| `LiveConn!NoReplyToNext` | a window that answers an attach or a probe too late answers the next request (`live_router.rs:675`) | `live.rs:602` closes a connection for just that reason |
| `LiveConn!NamedNeverNoDocument` with `MaxFrames = 8`, `MaxProbes = 1` | an `ensure_session` that gave up leaves a late attach reply; it answers a plain call, whose own reply, that there is no document, then answers a request that names one (`live_router.rs:675`) | `live_router.rs:565`: such a request never answers -32002 |
| `LiveConn!NamedKeepsAttachment` | when the window of a request that names its document goes away, the connection loses its own attachment (`live_router.rs:1506`) | `HEW_API.md:274-276` |
| `DocHistory!SessionKeepsItsOwn` with `ungroup` and either `Drawn` or `bracket` | an ungroup that releases a drawing is wrapped in a compound, and so is one committed by a bracket inside the session; `nodes_surfaced_since` does not look into either (`document.rs:18225`): the members stay at the model root after the close | the same function's comment |
| `DocHistory!SessionsWriteNothing` | entering and leaving a group that an edit outside has emptied removes it from the next save, and the document still reads clean (`document.rs:17998`) | `document.rs:19187-19190` |
| `DocHistory!HistoryInverts` with `RedoInBracket = TRUE` | a close, an undo, then a bracket that redoes the close and opens the group again collapses to one entry; the session's boundary is left beyond the stack (`document.rs:19674`) | `document.rs:19651-19654`: not detected |
| `DocHistory!SavedMarkIsTrue`, `MarkIsOfThisBranch` with `RedoInBracket = TRUE` | a redo inside a bracket, which the kernel allows and no caller does, makes the mark point at other content after the collapse (`document.rs:19688`) | |
| `DocHistory!SavedMarkIsTrue`, `MarkIsOfThisBranch` with `"reparent"` in `Ops` | `reparent_node` clears the redo stack itself (`document.rs:14308`), so `commit_new_action` never sees that the branch held the saved state: edit, save, undo, move a node, and the depth is the saved one again; the document reads clean with other content than the file. Material, definition and purge edits clear it the same way (`7855`, `7887`, `10537`, `10732`) | `document.rs:18936-18943` and `tests/saved_mark_specs.rs:6-12` |
| `DocHistory!ContextsStayClean` | a transaction that only enters and leaves a group dirties a saved document (`document.rs:2171`) | `document.rs:19187-19190` |
| `DocSession!WorkIsNeverLeft` | the end of a write disarms the autosave for the document as it is, not as it was written: an edit made while an autosave writes is disarmed by its success (`App.tsx:1203`), and a save that an edit raced clears slot, flag and timer though the document stays dirty (`App.tsx:3548`): the edit is in no slot and waits for the next mutation | `App.tsx:1151-1154`: disarmed "the instant there's nothing left to do" |
| `DocSession!CleanIsOnDisk` | scenes changed while a save awaits are marked clean; an undo and another edit restore the depth; the mark of a save that was raced survives; a save that ends after a load is taken for the new document's (`App.tsx:391`, `3548`) | `App.tsx:385-389`: an edit during the await must never be silently marked clean |
| `ReportThread!NothingPostedIntoDying` | the mark of a dying thread is cleared by the call that set it, also while another destroy is under way, which then wipes what was posted in between (`threadStore.ts:467`) | `threadStore.ts:446-458` |
| `ReportThread!NeverOrphaned` | `commitReport` marks a row as followed whatever has happened since its COMMIT passed the drop (`handlers.ts:507`); a client that times out repeats the COMMIT while the first may still run (`reportClient.ts:242-249`), and when the repeat is answered and the report then forgotten, the first one's `commitReport` comes after `threadEnded`: a followed row without a thread, which nothing ever deletes | `threadStore.ts:29-34` orders a destroy so that just that cannot happen |
| `ReportThread!SecretIsRevoked` | a COMMIT that was overtaken by its retry and by the Forget of the report may also still be before its call of the thread: it creates the thread again, with the secret that was forgotten (`handlers.ts:480`) | `workers/bug-intake/README.md:50`: Forget revokes the secret and destroys the thread |
| `ReportUpload!AckedIsKept` | the abandonment alarm reads the head, awaits the index and wipes; a PIECE that finds the drop expired abandons it later; a COMMIT in between was answered 201 (`reportStore.ts:475`) | `handlers.ts:543-545` |

Met on the way, without a definition: the first request that names the document a
connection is bound to attaches it (`live_router.rs:587`), while `HEW_API.md:247-251`
says requests without a name keep answering -32002 until the connection attaches; a
request that times out closes its connection (`live.rs:617`), while `live.rs:76-78`
says it does not; `history_generation` can be the same with another stack after
`forget_history` (`document.rs:19221`, `18848-18855`); redoing a compound inside a
bracket is refused as a disturbance (`document.rs:19661-19667`); a bracket that closes
a session and opens it again leaves a boundary beyond the collapsed stack
(`document.rs:19674`, undetected as `19651-19654` says). A `threadEnded` whose answer
is lost revives a thread whose row no longer follows it (it ends by its idle alarm); an
admin's delete that dies after the thread leaves a following row until it is
repeated. Two saves, or a save and a Save As, can bind two windows to one file
(`live_router.rs:1282`), and the check before the next save then sees the first of
them only (`main.rs:528-552`): `overrun` keeps those that an open was dealing with out of
`FilesHaveOneWindow`; a close that was refused by timeout stays queued in a page that
hangs. A hello that was refused is the one that is replayed for the rest of the
connection, also when the client has since sent one that was accepted
(`live_router.rs:1438`): every other document then refuses its requests.

## What is proved

By TLAPS, for every value of the constants that the named assumptions allow.

`RelayStoreProofs`, under `LimitsAssumption` (finitely many uploads, positive limits,
one drop fits):

* `TypeCorrect` and `BudgetIsKept`: `TypeOK` and `BudgetIsSound` are invariants. The
  invariant that carries them is `IInv`, their conjunction with `IdleHoldsNothing`: an
  upload whose headers were not accepted has no bytes and no drop. Without it a PUT
  that begins could find a claim of its own already counted. The counters are sums
  over sets of uploads; the lemmas `Size...` say how a sum changes when a set is
  joined, split or one value changes, and each action has a lemma for its step.
* `LifecycleInvariant`: a stored drop has its answer and no reader.
* `StoreImplementsContract`: with it, every step moves each drop along the contract or
  leaves it where it is.
* `AnswersAreKept`: the action property `AnswersStayTrue`. A drop with time left leaves
  by a GET, a DELETE or a restart (`LiveStays`); one a HEAD did not find is not stored
  and is not on its way there (`AbsentSound`, an invariant), so no GET sends it; and a
  body is refused only after the sweep, when the live bytes alone pass the cap
  (`FullIsFull`).

`LiveConnProofs`, under `LiveAssumption` (any number of connections, windows, probes and
frames, so for runs of requests far longer than the run's):

* `TypeCorrect`: `TypeOK`, and with it that `ensure_session` never needs an id beyond
  those its request left it (`Budget`).
* `AnswersMatch`: `RightAnswer`, although a reply is matched by its connection only. The
  invariant is `Tidy`: frames of a connection are only in the queue of the window it
  deals with, in the order of their ids (`Sorted`), the awaited one last; so once its
  reply is there no frame is left that could answer the next wait. An `ensure_session`
  that gives up breaks just that, unless the window is gone.
* `SessionsMatch`: `SessionsAgree`. `Trusted` adds that no end of a session is queued,
  and that an attach waits behind attaches only, so that a reply without an error is
  from a window that attached. `Owed` carries the last part: whenever the shell is not at
  work on a session it does not hold, a window that knows the connection, or is about to
  be told of it, has a close queued with no announcement behind it. `Trusted` is where
  `NamedIsAttached` needs its condition: within the run's six frames it holds without
  one, the induction fails, and with eight frames TLC finds why
  (`NamedNeverNoDocument` above).

`LiveWindowsProofs`, under `WindowsAssumption` (any number of connections, files, windows,
calls and acts of the user):

* `TypeCorrect`: `TypeOK`.
* `RefusalsLeaveNothing`: `RefusedLeavesNothing`, although a command that is refused
  part of the way may have a window that is loading by then.
* `OneWindowPerFile`: `FilesHaveOneWindow`. It speaks of windows whose reports are in;
  `IInv` says what leads there. A command past its lock has `window_ops` (`CallsFit`), so
  there is one such command. Requests are numbered, so a page that answers late answers
  only the open that asked (`Aged`). A window gets its file from the API or from the
  user, never from both, and from one request (`OneSource`, `OneOpen`): neither holds
  by the lock, since pages take a pending open and the user opens without it. From
  there, outside `overrun`, a claimed path stays registered until the window's reports
  agree with it (`ClaimStands`, `ToldTruly`), because a page that was given a file tells
  of no other before it has loaded that one (`StillNew`). Only `cmd_open` gives an API
  file to a window it was not for (`HeldTurn`), and at that moment, `window_ops` being
  free, every file that is held shows in the registry (`HeldIsRegistered`), so the
  holder is found and no second window is made (`Apart`). `IInv` was checked by TLC on
  the run's instance before it was proved.

`ShareDropProofs`, under `ShareAssumption` (finitely many readers; positive sizes,
otherwise free):

* `TypeCorrect`, `DropSoundness`, `AbsentForGood`: `TypeOK`, `DropIsSound` and the
  action property `AbsentIsFinal`. The invariant, `IInv`, says what the chunks are at
  every moment: an open drop has the ones sent, in order; while the drop is there, its
  one reader has exactly those that are gone from it (`DownloadSound`). That is what
  makes counting them at the end enough. `OneClaims` has the one reader come to a
  complete drop, and `AbsentSound` keeps what a HEAD saw true.
* `DropImplementsContract`: from the same invariant, each step moves the phase along the
  contract or leaves it. `Fades` covers every step that only takes away.

`RecoveryProofs`, under `SlotsAssumption` (positive bounds; any number of starts,
windows and works):

* `TypeCorrect`, `WorkIsKept`, `SlotsStayTheirs`: `TypeOK`, `WorkHasOneHome` and the
  action property `SlotsAreKept`, of windows' own work, of protected slots and of new
  labels; a snapshot that was put off and has lost its protection is in neither. `WorkHasOneHome` is far from inductive. `IInv` adds
  where each work is (`OnDisk`, `InWindow`), that a promised slot is protected, promised
  once and to an empty window (`Promised`), that labels are counted past every slot on
  disk so that no later window takes one (`Counted`), and what holds while the dialog is
  up (`Asked`) and while the application is not running (`AtRest`).

and, of one window (`DocSession`), under `SessionAssumption` (positive bounds; their
values are free, so stacks and overlapping writes are of any length):

* `SessionTypeCorrect`, `UnsavedWorkIsDue` and `SettledSlotIsOurs`: `SessionTypeOK`,
  `UnsavedIsDue` and `NothingResurfaces`. `UnsavedIsDue` needs to know what is under way:
  unless the document was changed since, the write begun last is of the document as it
  is (`WritesAreCurrent`), and the save was captured at its depth (`SaveIsCurrent`), so
  their ends leave nothing unsaved behind. `NothingResurfaces` speaks of quiet states only and needs two facts about the
  others: `CleanIsCleared` (a clean document with something in the slot or on its way
  has a clear coming) and `LatestIsOurs` (with no clear coming, the write that ends
  last, or the slot when there is none, is of this document).

`ReportUploadProofs`, under `UploadAssumption` (any number of reports, of any positive
number of pieces, repeats and failures):

* `TypeCorrect`: `TypeOK`.
* `WholeReports`: `CommittedIsWhole`. The invariant adds that the pieces of every drop,
  committed or not, are in order from 0 (`InOrder`). `DropSteps` lists what any step does
  to a drop: keeps it, begins it with piece 0, extends it by the next piece, or drops it.
* `CommitIsOnce`: `CommitsOnce`, which speaks of mails and of the prune of idle uploads,
  not of a late PIECE. The argument follows the report's route: nothing is
  asked or told before START answered (`StartFirst`), only a COMMIT mails
  (`RoutesApart`), at most one is about to and none after the mail (`MailOnce`), and what
  a prune is about to destroy was taken from the index uncommitted, never told to the
  client, and cannot commit again (`PrunedUntold`).

`FollowingProofs`, of `ReportThread`, under `ThreadAssumption` (finitely many COMMITs, Forgets, posts and
replies, of any number; any bound on polls and failures):

* `TypeCorrect`: `TypeOK`. The thread's messages are counted against the posts and
  replies that were written (`MessagesCounted`).
* `FollowedRowsHaveThreads`: `FollowingMeansThread`, however many COMMITs overlap. Only
  the client's Forget can end a thread while a COMMIT may still run (`EndsComeLater`,
  `ForgetsComeLater`), and a COMMIT that changes something after that sets `overtaken`.
  Until a Forget has begun, the thread there is knows the reporter's secret while a COMMIT
  may run (`ThreadOfCommit`); an end tells the index before it touches the thread
  (`RowIsTold`); so a row that is followed keeps such a thread (`RowHasThread`).
* `ForgetIsFinal`: `ForgottenIsRefused`: what a Forget ended, only a COMMIT that it
  overtook creates again (`ForgottenForGood`).

The exception is needed: without it TLC finds `NeverOrphaned` and `SecretIsRevoked` violated.

and of `FollowClient`, under `FollowAssumption` (any number of calls, attachments and
messages, any reserve, any earlier statuses, any bounds on the maintainer):

* `FollowTypeCorrect`, `RecordMirrorsThread`, `ThreadStaysFair`: `FollowTypeOK`, `RecordIsThread` and
  `ThreadIsFair`. The invariant speaks of what is under way: an answer says what the
  thread was (`Truthful`), which stays true since messages are only added (`Grown`,
  `StatusStays`), a fetch asks for what follows a message the record has, and a mark
  under way, like the worker's own, is not ahead of the record's (`CallAgrees`,
  `SeenFollows`): without that the grace clock could start for a message nobody saw.

`DocHistoryProofs`, under `HomeAssumption` (any objects and groups, any tree to start
from, any number of pushes; so stacks, brackets and sessions of any depth):

* `BracketsKeepTheStacks`: `StacksTyped`, `BracketKeepsBefore` and `UndoIsNoticed`, whatever
  is done. The invariant is `StackInv`: the count of redo pushes never falls under the
  bracket's, an undo lifts it for good, and while it stands still the entries from before
  the bracket begin the stack (`UndisturbedHolds`).
* `TheStacksAreTrue`: `StacksAreTrue`, with `MarkIsOfThisBranch`, if no bracket's body
  redoes and nothing is reparented. The invariant follows the line of entries that the two
  stacks hold between them (`Timeline`): undo and redo move along it and leave it as it is
  (`TimelineMoves`), so a mark that can be reached counts entries of that line, those
  that were saved (`MarkHolds`), until an edit cuts the line below it and the mark is
  given up. Inside an undisturbed bracket with entries of its own nothing is left to
  redo and the mark is below them (`BracketMarked`), which is why the collapse cannot
  move it. The lemmas on `Content` and `Cut` say that the beginning of a stack counts the
  same entries at the same depths, and those on `FlattenSeq` that a collapse is not empty.

Both hypotheses are those of the runs, and each is needed: without either,
`MarkIsOfThisBranch` fails (the table above).

* `TheHistoryInverts` and `TheTreeAgrees`: `HistoryInverts` and `TreeAgrees`, if no
  bracket's body redoes (a redo there can open again the session the bracket opened) and
  no drawing is released by an ungroup inside a session (one that a later close folds in
  stays folded when that close is undone). Undo and redo replay folds over entries of any
  length, so nothing can be said of one entry alone. The invariant (`HistoryInv`) is that
  there is a line `W` of documents, one before and after each entry of the two stacks,
  such that the document stands at the place between them (`Stands`), every entry takes
  its document to the next and its inverse takes it back, and the tree of each agrees.
  Two things keep `W` from being the documents as they were: a group made since is a
  record left behind, empty and hidden, in the earlier ones (`Amended`), and a collapse
  joins entries whose documents then count no longer (`CollapseLinks`). An edit extends
  `W` (one lemma `...Fits` per edit), undo and redo move along it, a close needs the
  sessions of the line to nest.
* `CleanMeansSaved`: `SavedMarkIsTrue`, if moreover nothing is reparented and entering and
  leaving a group writes nothing: with sessions, each group has a drawing of its own and
  none is ungrouped. Along `W` the file that a save would write changes only where the
  count of content entries does (`Even`, from `BookkeepingWritesNothing`), and where the
  count is the mark's it is the file on disk (`Kept`); both survive the cut of a new
  edit, since the mark is then given up or is below it (`TheStacksAreTrue`). The
  hypotheses are those of run `history_saved`.
* `SessionsKeepTheirOwn`: the action property `SessionKeepsItsOwn`, if no bracket's body
  redoes and an ungroup is seen for what it is: none at all, or neither drawings nor
  brackets. A close finds its nodes by reading the stack from the session's boundary, so
  what it takes depends on every entry above. The line `W` carries `Scoped` for each of
  its documents (`AllScoped`): in every open session, the outermost too, the nodes that
  are at the top level, or will be once the sessions inside it are left (`Under`), are its
  own or were outside when it opened, never both (`Apart`). To keep that, what was
  outside stays at the top level while it is shown (`Aside`), what is outside a session
  is outside those in it (`Nested`), and a dissolved group is neither shown nor open, so
  the list by which its members count as surfaced stays as it was (`Gone`). Each edit
  must leave alone what is outside (`Clear`, from its guards; for `group_nodes` from
  `node_in_group_scope`), undo and redo need nothing, being moves along `W`, and a
  collapse surfaces what its entries did (`CollapsedScoped`).

Without the hypothesis on brackets `HistoryInverts` fails (the table above), and so does
`SavedMarkIsTrue` without those on reparenting and on what sessions write. That no
drawing is released inside a session is what the proof needs, since one that a close
folds in stays folded when that close is undone; TLC has found no counterexample to the
first two without it. `SessionKeepsItsOwn` fails with ungroups and either drawings or
brackets (the same table).

Out of the prover's reach, and left to TLC: liveness under fairness (`EverythingGoes`,
`EverythingEnds`, `NothingLingers`, `MarkArrives`), `ENABLED`, and what a recursive
definition computes for every input, since the induction theorems of the library take
operators as parameters; the proofs about folds induct over their prefixes, with the
least number that fails (`UpTo`). Every safety property that the
passing runs check is proved.

## What is not modelled

* Relays and live API: bytes, tokens, encryption, CORS, pages and rate limits of the
  relays; the token handshake and the discovery files of the live API, its
  notifications (no reply, no state) and a page that reloads.
* Live windows: `hew.doc.revert` and focus, copies, Library opens, the Finder's and the
  command line's opens.
* History: component sessions with their poses, and gestures.
* Recovery: the browser's store (IndexedDB, tabs that ping each other), where a claim
  deletes the snapshot before the first autosave, a slow tab's slot is offered to
  another, and a discard clears those of live tabs; the source document kept beside a
  snapshot; a claimed snapshot that does not load.
* Reports: malformed pieces, an oversized PIECE's abandonment, rate limits, tokens,
  the admin's pages, the daily budget of mails; in `ReportUpload` the thread that a
  COMMIT creates (it is `ReportThread`'s).
* Following: `follow.rs`, the same protocol in Rust; the 365-day and six-hour limits,
  versions, the list's caches.
* Geometry, tessellation, rendering, inference, import, export, the file format, the
  user interface and the caches: by far most of the repository's lines. They are
  computations on floating-point meshes and bytes, or one thread's user interface,
  with no order of events of their own; a finite instance of them says nothing about
  the code.

## Plan

1. `DocHistory`: component sessions.
2. The browser's recovery store, with tabs that are alive and do not answer in time.
