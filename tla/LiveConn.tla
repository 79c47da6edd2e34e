------------------------------ MODULE LiveConn ------------------------------
(***************************************************************************)
(* The desktop live API: how the frames of one client connection reach the *)
(* webviews of the document windows and how the replies find their way     *)
(* back (shells/tauri/src-tauri/src/live.rs and live_router.rs on the      *)
(* shell's side, app/src/api/liveBridge.ts in each window).                *)
(*                                                                         *)
(* Each connection has a thread of the shell, which serves one request at  *)
(* a time.  It talks to a window by events, which the window handles in    *)
(* order and in its own time: a page whose scripts have not registered     *)
(* their listeners loses them, a page that hangs keeps them.  A reply      *)
(* carries the connection's number and is given to whatever wait of that   *)
(* connection is pending.                                                  *)
(*                                                                         *)
(* The requests modelled are the client's hello, one that names a protocol *)
(* version the dispatcher does not speak, a request to the current         *)
(* document, a request that names its document, and hew.doc.attach.        *)
(***************************************************************************)
EXTENDS Integers, Sequences

CONSTANTS
  Conns,      \* client connections
  Windows,    \* labels of document windows
  NoWindow,   \* a connection with no entry in conn_window
  MaxProbes,  \* probes that fit into WINDOW_READY_TIMEOUT
  MaxFrames   \* bound: frames, the shell's own included, of one connection

ASSUME LiveAssumption ==
  /\ NoWindow \notin Windows
  /\ MaxProbes \in Nat \ {0} /\ MaxFrames \in Nat \ {0}

VARIABLES
  pc,       \* what each connection's thread is doing
  req,      \* the client's last request: kind, window it names, id; and its
            \* first, ConnRoute.hello, which is kept to be replayed
  at,       \* the window the thread is dealing with
  seq,      \* id of the last frame sent, to the shell or by it
  tries,    \* probes of the ensure_session under way
  slot,     \* the connection has an entry in pending_replies
  rx,       \* what the channel of the current wait holds
  answer,   \* the last reply written to the client
  gaveUp,   \* history: ensure_session failed on a window that is still there
  opened,   \* ConnRoute.opened: absent, open (false) or attached (true)
  current,  \* conn_window
  page,     \* each window: none yet, booting, loading, ready, gone
  inbox,    \* events the window has not handled
  known,    \* openConnIds of the window
  session   \* the wasm connection behind wasmConnOf, if any

thread == <<pc, req, at, seq, tries, slot, rx, answer, gaveUp, opened, current>>
webview == <<page, inbox, known, session>>
vars == <<thread, webview>>

Codes == {"ok", "not_ready", "no_document", "refused", "timeout"}
Replies == [id : 0 .. MaxFrames, code : Codes]
Nothing == [id |-> 0, code |-> "ok"]

Hellos == {"hello", "badHello"}
Kinds == Hellos \cup {"call", "callAt", "attachTo"}
Requests == [kind : Kinds, window : Windows \cup {NoWindow}, id : 0 .. MaxFrames, hello : Hellos]
Frames == Hellos \cup {"attach", "call"}
Events == [kind : Frames \cup {"open", "close"}, conn : Conns, id : 0 .. MaxFrames]

TypeOK ==
  /\ pc \in [Conns -> {"new", "idle", "route", "probe", "pause", "attach", "await", "closed"}]
  /\ req \in [Conns -> Requests]
  /\ at \in [Conns -> Windows \cup {NoWindow}]
  /\ seq \in [Conns -> 0 .. MaxFrames]
  /\ tries \in [Conns -> 0 .. MaxProbes]
  /\ slot \in [Conns -> BOOLEAN]
  /\ rx \in [Conns -> Replies]
  /\ answer \in [Conns -> Replies]
  /\ gaveUp \in [Conns -> BOOLEAN]
  /\ opened \in [Conns -> [Windows -> {"absent", "open", "attached"}]]
  /\ current \in [Conns -> Windows \cup {NoWindow}]
  /\ page \in [Windows -> {"booting", "loading", "ready", "gone"}]
  /\ inbox \in [Windows -> Seq(Events)]
  /\ known \in [Windows -> SUBSET Conns]
  /\ session \in [Windows -> [Conns -> {"none", "fresh", "hello", "attached"}]]

Init ==
  /\ pc = [c \in Conns |-> "new"]
  /\ req = [c \in Conns |-> [kind |-> "hello", window |-> NoWindow, id |-> 0, hello |-> "hello"]]
  /\ at = [c \in Conns |-> NoWindow]
  /\ seq = [c \in Conns |-> 0]
  /\ tries = [c \in Conns |-> 0]
  /\ slot = [c \in Conns |-> FALSE]
  /\ rx = [c \in Conns |-> Nothing]
  /\ answer = [c \in Conns |-> Nothing]
  /\ gaveUp = [c \in Conns |-> FALSE]
  /\ opened = [c \in Conns |-> [w \in Windows |-> "absent"]]
  /\ current = [c \in Conns |-> NoWindow]
  /\ page \in [Windows -> {"booting", "ready"}]
  /\ inbox = [w \in Windows |-> <<>>]
  /\ known = [w \in Windows |-> {}]
  /\ session = [w \in Windows |-> [c \in Conns |-> "none"]]

-----------------------------------------------------------------------------
(* The shell's building blocks *)

Alive(w) == w # NoWindow /\ page[w] # "gone"

\* emit_to: an event for a page without listeners is lost.
Emitted(w, events) ==
  IF page[w] \in {"loading", "ready"} THEN inbox[w] \o events ELSE inbox[w]

Event(k, c, n) == [kind |-> k, conn |-> c, id |-> n]

\* send_and_await: a fresh channel takes the connection's slot, and the frame
\* goes out behind the given events.
SendAndAwait(c, w, p, before, frame) ==
  /\ pc' = [pc EXCEPT ![c] = p]
  /\ at' = [at EXCEPT ![c] = w]
  /\ slot' = [slot EXCEPT ![c] = TRUE]
  /\ rx' = [rx EXCEPT ![c] = Nothing]
  /\ inbox' = [inbox EXCEPT ![w] = Emitted(w, before \o <<frame>>)]

\* A reply goes to the client and the thread reads the next line.
Reply(c, code) ==
  /\ answer' = [answer EXCEPT ![c] = [id |-> req[c].id, code |-> code]]
  /\ pc' = [pc EXCEPT ![c] = "idle"]

\* Mutant: only the session in the current window is ended.
UnregisterCurrent(c) ==
  /\ pc' = [pc EXCEPT ![c] = "closed"]
  /\ current' = [current EXCEPT ![c] = NoWindow]
  /\ slot' = [slot EXCEPT ![c] = FALSE]
  /\ opened' = [opened EXCEPT ![c] = [w \in Windows |-> "absent"]]
  /\ inbox' = [w \in Windows |->
                 IF w = current[c] THEN Emitted(w, <<Event("close", c, 0)>>) ELSE inbox[w]]

\* unregister_connection: the entries go and every session is ended.
Unregister(c) ==
  /\ pc' = [pc EXCEPT ![c] = "closed"]
  /\ current' = [current EXCEPT ![c] = NoWindow]
  /\ slot' = [slot EXCEPT ![c] = FALSE]
  /\ opened' = [opened EXCEPT ![c] = [w \in Windows |-> "absent"]]
  /\ inbox' = [w \in Windows |->
                 IF opened[c][w] # "absent" THEN Emitted(w, <<Event("close", c, 0)>>)
                                            ELSE inbox[w]]

-----------------------------------------------------------------------------
(* Accepting a connection, and what the client does *)

\* register_connection: the front window is the connection's from now on.
Accept(c) ==
  /\ pc[c] = "new"
  /\ \E w \in Windows :
       /\ Alive(w)
       /\ current' = [current EXCEPT ![c] = w]
       /\ opened' = [opened EXCEPT ![c][w] = "open"]
       /\ inbox' = [inbox EXCEPT ![w] = Emitted(w, <<Event("open", c, 0)>>)]
  /\ pc' = [pc EXCEPT ![c] = "idle"]
  /\ UNCHANGED <<req, at, seq, tries, slot, rx, answer, gaveUp, page, known, session>>

\* The client sends a frame; its first is a hello.
Request(c) ==
  /\ pc[c] = "idle" /\ seq[c] < MaxFrames
  /\ \E k \in Kinds, w \in Windows \cup {NoWindow} :
       /\ seq[c] = 0 => k \in Hellos
       /\ k \in {"callAt", "attachTo"} <=> w # NoWindow
       /\ w # NoWindow => seq[c] + 2 + MaxProbes <= MaxFrames
       /\ req' = [req EXCEPT ![c] = [kind |-> k, window |-> w, id |-> seq[c] + 1,
                                     hello |-> IF seq[c] = 0 THEN k ELSE @.hello]]
  /\ seq' = [seq EXCEPT ![c] = @ + 1]
  /\ pc' = [pc EXCEPT ![c] = "route"]
  /\ UNCHANGED <<at, tries, slot, rx, answer, gaveUp, opened, current, webview>>

\* The client hangs up between two requests.
Disconnect(c) ==
  /\ pc[c] = "idle"
  /\ Unregister(c)
  /\ UNCHANGED <<req, at, seq, tries, rx, answer, gaveUp, page, known, session>>

-----------------------------------------------------------------------------
(* handle_frame: a frame for the current document *)

Forward(c, w) ==
  SendAndAwait(c, w, "await", <<>>,
    Event(IF req[c].kind \in Hellos THEN req[c].kind ELSE "call", c, req[c].id))

RouteCurrent(c) ==
  /\ pc[c] = "route" /\ req[c].kind \in Hellos \cup {"call"}
  /\ \/ /\ Alive(current[c])
        /\ Forward(c, current[c])
        /\ UNCHANGED <<answer, current>>
     \/ /\ ~Alive(current[c])
        /\ current' = [current EXCEPT ![c] = NoWindow]
        /\ Reply(c, "no_document")
        /\ UNCHANGED <<at, slot, rx, inbox>>
  /\ UNCHANGED <<req, seq, tries, gaveUp, opened, page, known, session>>

-----------------------------------------------------------------------------
(* handle_frame and cmd_attach: a frame that names its document *)

Ready(c, w) == opened[c][w] = "attached"

\* One probe: the announcement, then the client's first hello under an id of ours.
Probe(c, w) ==
  /\ seq' = [seq EXCEPT ![c] = @ + 1]
  /\ SendAndAwait(c, w, "probe", <<Event("open", c, 0)>>, Event(req[c].hello, c, seq[c] + 1))

AttachSession(c, w) ==
  /\ seq' = [seq EXCEPT ![c] = @ + 1]
  /\ SendAndAwait(c, w, "attach", <<>>, Event("attach", c, seq[c] + 1))

\* What the request was for, once its window has an attached session.
Proceed(c, w) ==
  \/ /\ req[c].kind = "callAt"
     /\ Forward(c, w)
     /\ UNCHANGED <<answer, current>>
  \/ /\ req[c].kind = "attachTo"
     /\ current' = [current EXCEPT ![c] = w]
     /\ Reply(c, "ok")
     /\ UNCHANGED <<at, slot, rx, inbox>>

RouteNamed(c) ==
  LET w == req[c].window IN
  /\ pc[c] = "route" /\ req[c].kind \in {"callAt", "attachTo"}
  /\ tries' = [tries EXCEPT ![c] = 0]
  /\ \/ /\ ~Alive(w)
        /\ Reply(c, "refused")
        /\ UNCHANGED <<at, seq, slot, rx, current, inbox>>
     \/ /\ Alive(w) /\ Ready(c, w)
        /\ Proceed(c, w)
        /\ UNCHANGED seq
     \/ /\ Alive(w) /\ ~Ready(c, w) /\ opened[c][w] = "open"
        /\ AttachSession(c, w)
        /\ UNCHANGED <<answer, current>>
     \/ /\ Alive(w) /\ opened[c][w] = "absent"
        /\ Probe(c, w)
        /\ UNCHANGED <<answer, current>>
  /\ UNCHANGED <<req, gaveUp, opened, page, known, session>>

\* ensure_session failed: a session it began is ended, the connection stays.
EnsureFails(c) ==
  /\ Reply(c, "refused")
  /\ slot' = [slot EXCEPT ![c] = FALSE]
  /\ gaveUp' = [gaveUp EXCEPT ![c] = @ \/ Alive(at[c])]
  /\ inbox' = [inbox EXCEPT ![at[c]] =
                 IF opened[c][at[c]] = "absent" THEN Emitted(at[c], <<Event("close", c, 0)>>)
                                                ELSE @]

-----------------------------------------------------------------------------
(* ensure_session_inner and attach_session, wait by wait *)

\* Mutant: the probe loop takes any reply for the answer to its probe.
AnyReply(c) == rx[c] # Nothing

\* Only the reply to the latest probe counts.
OwnReply(c) == rx[c].id = seq[c]

\* The window is up, attached to next; or it refuses the hello for good; or the
\* page is not ready, or the reply an earlier probe's.
ProbeAnswered(c) ==
  /\ pc[c] = "probe" /\ rx[c] # Nothing
  /\ \/ /\ OwnReply(c) /\ rx[c].code = "ok"
        /\ AttachSession(c, at[c])
        /\ UNCHANGED <<tries, answer, gaveUp>>
     \/ /\ OwnReply(c) /\ rx[c].code \notin {"ok", "not_ready"}
        /\ EnsureFails(c)
        /\ UNCHANGED <<at, seq, tries, rx>>
     \/ /\ ~OwnReply(c) \/ rx[c].code = "not_ready"
        /\ pc' = [pc EXCEPT ![c] = "pause"]
        /\ tries' = [tries EXCEPT ![c] = @ + 1]
        /\ UNCHANGED <<at, seq, slot, rx, answer, gaveUp, inbox>>
  /\ UNCHANGED <<req, opened, current, page, known, session>>

ProbeTimeout(c) ==
  /\ pc[c] = "probe" /\ rx[c] = Nothing /\ Alive(at[c])
  /\ pc' = [pc EXCEPT ![c] = "pause"]
  /\ slot' = [slot EXCEPT ![c] = FALSE]
  /\ tries' = [tries EXCEPT ![c] = @ + 1]
  /\ UNCHANGED <<req, at, seq, rx, answer, gaveUp, opened, current, webview>>

\* The window has gone, while a probe waits or between two.
ProbeGone(c) ==
  /\ pc[c] \in {"probe", "pause"} /\ ~Alive(at[c])
  /\ pc[c] = "probe" => rx[c] = Nothing
  /\ EnsureFails(c)
  /\ UNCHANGED <<req, at, seq, tries, rx, opened, current, page, known, session>>

\* Mutant: the deadline is looked at one probe too late.
ProbeOnceMore(c) ==
  /\ pc[c] = "pause" /\ tries[c] <= MaxProbes /\ Alive(at[c])
  /\ Probe(c, at[c])
  /\ UNCHANGED <<req, tries, answer, gaveUp, opened, current, page, known, session>>

ProbeAgain(c) ==
  /\ pc[c] = "pause" /\ tries[c] < MaxProbes /\ Alive(at[c])
  /\ Probe(c, at[c])
  /\ UNCHANGED <<req, tries, answer, gaveUp, opened, current, page, known, session>>

\* Its time is up.
ProbeDeadline(c) ==
  /\ pc[c] = "pause" /\ tries[c] = MaxProbes
  /\ EnsureFails(c)
  /\ UNCHANGED <<req, at, seq, tries, rx, opened, current, page, known, session>>

\* attach_session takes any reply that is not an error.
AttachAnswered(c) ==
  /\ pc[c] = "attach" /\ rx[c] # Nothing
  /\ \/ /\ rx[c].code = "ok"
        /\ opened' = [opened EXCEPT ![c][at[c]] = "attached"]
        /\ Proceed(c, at[c])
        /\ UNCHANGED gaveUp
     \/ /\ rx[c].code # "ok"
        /\ EnsureFails(c)
        /\ UNCHANGED <<at, rx, opened, current>>
  /\ UNCHANGED <<req, seq, tries, page, known, session>>

\* REPLY_TIMEOUT, or the window went.
AttachFails(c) ==
  /\ pc[c] = "attach" /\ rx[c] = Nothing
  /\ EnsureFails(c)
  /\ UNCHANGED <<req, at, seq, tries, rx, opened, current, page, known, session>>

-----------------------------------------------------------------------------
(* The reply to a forwarded frame *)

Answered(c) ==
  /\ pc[c] = "await" /\ rx[c] # Nothing
  /\ answer' = [answer EXCEPT ![c] = rx[c]]
  /\ pc' = [pc EXCEPT ![c] = "idle"]
  /\ UNCHANGED <<req, at, seq, tries, slot, rx, gaveUp, opened, current, webview>>

\* Mutant: the timeout is answered and the connection stays.
TimeoutKeeps(c) ==
  /\ pc[c] = "await" /\ rx[c] = Nothing /\ Alive(at[c])
  /\ Reply(c, "timeout")
  /\ slot' = [slot EXCEPT ![c] = FALSE]
  /\ UNCHANGED <<req, at, seq, tries, rx, gaveUp, opened, current, webview>>

\* A synthesized reply, then the connection ends.
Timeout(c) ==
  /\ pc[c] = "await" /\ rx[c] = Nothing /\ Alive(at[c])
  /\ answer' = [answer EXCEPT ![c] = [id |-> req[c].id, code |-> "timeout"]]
  /\ Unregister(c)
  /\ UNCHANGED <<req, at, seq, tries, rx, gaveUp, page, known, session>>

\* The window went mid-request: detach, answer, keep the connection.
WindowGone(c) ==
  /\ pc[c] = "await" /\ rx[c] = Nothing /\ ~Alive(at[c])
  /\ current' = [current EXCEPT ![c] = NoWindow]
  /\ slot' = [slot EXCEPT ![c] = FALSE]
  /\ Reply(c, "no_document")
  /\ UNCHANGED <<req, at, seq, tries, rx, gaveUp, opened, webview>>

-----------------------------------------------------------------------------
(* A window's page *)

\* installLiveBridge's listeners are registered; then the WASM scene is up.
PageBoots(w) ==
  /\ \/ page[w] = "booting" /\ page' = [page EXCEPT ![w] = "loading"]
     \/ page[w] = "loading" /\ page' = [page EXCEPT ![w] = "ready"]
  /\ UNCHANGED <<thread, inbox, known, session>>

PageCloses(w) ==
  /\ page[w] # "gone"
  /\ page' = [page EXCEPT ![w] = "gone"]
  /\ inbox' = [inbox EXCEPT ![w] = <<>>]
  /\ known' = [known EXCEPT ![w] = {}]
  /\ session' = [session EXCEPT ![w] = [c \in Conns |-> "none"]]
  /\ UNCHANGED thread

HandleOpen(w) ==
  LET e == Head(inbox[w]) IN
  /\ inbox[w] # <<>> /\ e.kind = "open"
  /\ known' = [known EXCEPT ![w] = @ \cup {e.conn}]
  /\ session' = [session EXCEPT ![w][e.conn] =
                   IF @ = "none" /\ page[w] = "ready" THEN "fresh" ELSE @]
  /\ inbox' = [inbox EXCEPT ![w] = Tail(@)]
  /\ UNCHANGED <<thread, page>>

HandleClose(w) ==
  LET e == Head(inbox[w]) IN
  /\ inbox[w] # <<>> /\ e.kind = "close"
  /\ known' = [known EXCEPT ![w] = @ \ {e.conn}]
  /\ session' = [session EXCEPT ![w][e.conn] = "none"]
  /\ inbox' = [inbox EXCEPT ![w] = Tail(@)]
  /\ UNCHANGED <<thread, page>>

\* The dispatcher: a session in state s after a frame, and its reply's code.
AfterFrame(s, kind) ==
  CASE kind = "hello" -> IF s = "attached" THEN s ELSE "hello"
    [] kind = "attach" /\ s \in {"hello", "attached"} -> "attached"
    [] OTHER -> IF s = "none" THEN "fresh" ELSE s

CodeOf(s, kind) ==
  CASE kind = "hello" -> "ok"
    [] kind = "badHello" -> "refused"
    [] kind \in {"attach", "call"} /\ s \in {"none", "fresh"} -> "not_ready"
    [] kind = "call" /\ s = "hello" -> "no_document"
    [] OTHER -> "ok"

\* handleFrame, and the shell's listener that takes the reply: it goes to the
\* wait that is pending for the connection, or nowhere.
HandleFrame(w) ==
  LET e == Head(inbox[w])
      s == session[w][e.conn]
      up == page[w] = "ready"
      code == IF up THEN CodeOf(s, e.kind) ELSE "not_ready"
      reaches == e.conn \in known[w] /\ slot[e.conn] IN
  /\ inbox[w] # <<>> /\ e.kind \in Frames
  /\ inbox' = [inbox EXCEPT ![w] = Tail(@)]
  /\ session' = [session EXCEPT ![w][e.conn] =
                   IF e.conn \in known[w] /\ up THEN AfterFrame(@, e.kind) ELSE @]
  /\ rx' = [rx EXCEPT ![e.conn] = IF reaches THEN [id |-> e.id, code |-> code] ELSE @]
  /\ slot' = [slot EXCEPT ![e.conn] = @ /\ ~reaches]
  /\ UNCHANGED <<pc, req, at, seq, tries, answer, gaveUp, opened, current, page, known>>

-----------------------------------------------------------------------------
Handle(w) == HandleOpen(w) \/ HandleClose(w) \/ HandleFrame(w)

Serve(c) ==
  \/ RouteCurrent(c) \/ RouteNamed(c)
  \/ ProbeAnswered(c) \/ ProbeTimeout(c) \/ ProbeGone(c) \/ ProbeAgain(c) \/ ProbeDeadline(c)
  \/ AttachAnswered(c) \/ AttachFails(c)
  \/ Answered(c) \/ Timeout(c) \/ WindowGone(c)

Next ==
  \/ \E c \in Conns : Accept(c) \/ Request(c) \/ Disconnect(c) \/ Serve(c)
  \/ \E w \in Windows : PageBoots(w) \/ PageCloses(w) \/ Handle(w)

Spec == Init /\ [][Next]_vars

\* The shell's threads run and their waits time out; no page has to answer.
ShellSpec == Spec /\ \A c \in Conns : WF_vars(Serve(c))

\* A page that lives handles its events.
PagesRun == \A w \in Windows : WF_vars(Handle(w))

-----------------------------------------------------------------------------
(* Properties *)

\* No answer goes to the wrong request: replies are matched by connection
\* only, and still the client never reads another request's reply, however
\* late probes and forwarded frames are handled, as long as no
\* ensure_session gave up on a window that lives.
RightAnswer ==
  \A c \in Conns : pc[c] = "idle" /\ ~gaveUp[c] => answer[c].id = req[c].id

\* What the shell remembers is so: a session it holds for attached is one
\* in the window, which will serve the request about to be forwarded.
BeliefIsTrue ==
  \A c \in Conns, w \in Windows :
    opened[c][w] = "attached" /\ page[w] # "gone" /\ ~gaveUp[c] => session[w][c] = "attached"

\* A request that names its document finds an attached session there: the
\* dispatcher never answers it that it has no document.
NamedIsAttached ==
  \A c \in Conns :
    pc[c] = "await" /\ req[c].kind = "callAt" /\ ~gaveUp[c] => rx[c].code # "no_document"

EndIsQueued(c, w) == \E i \in DOMAIN inbox[w] : inbox[w][i] = Event("close", c, 0)

\* A window keeps no orphan: a session of a connection that has ended, or
\* that the shell no longer counts among the connection's, has its end queued.
NoOrphan ==
  \A c \in Conns, w \in Windows :
    /\ c \in known[w] \/ session[w][c] # "none"
    /\ pc[c] \in {"idle", "closed"} /\ opened[c][w] = "absent"
    => EndIsQueued(c, w)

\* What the shell holds of a connection and what the windows hold agree.
SessionsAgree == BeliefIsTrue /\ NamedIsAttached /\ NoOrphan

\* Every request is answered or its connection ends, whatever the pages do.
RequestsEnd == \A c \in Conns : pc[c] = "route" ~> pc[c] \in {"idle", "closed"}

\* When a connection has ended, every window whose page handles its events
\* forgets it.
SessionsEnd ==
  PagesRun =>
    \A c \in Conns, w \in Windows :
      pc[c] = "closed" ~> c \notin known[w] /\ session[w][c] = "none"
EverythingEnds == RequestsEnd /\ SessionsEnd

\* live.rs:604 "a late one must not be handed to the NEXT request".
NoReplyToNext == \A c \in Conns : pc[c] = "idle" => answer[c].id = req[c].id

\* live_router.rs:565 "a request that names its document never answers
\* -32002".
NamedNeverNoDocument ==
  \A c \in Conns : pc[c] = "await" /\ req[c].kind = "callAt" => rx[c].code # "no_document"

\* docs/agents/HEW_API.md:276 of a request that names its document: "The
\* connection's attachment does not change".
NamedKeepsAttachment ==
  [][\A c \in Conns : pc[c] # "idle" /\ req[c].kind = "callAt" /\ Alive(current[c])
       => pc'[c] = "closed" \/ current'[c] = current[c]]_vars
=============================================================================
