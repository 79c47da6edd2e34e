---------------------------- MODULE FollowClient -----------------------------
(***************************************************************************)
(* Following a report: the messages of one thread as the worker keeps them *)
(* (workers/bug-intake/src/threadStore.ts) and the reporter's copy of them *)
(* (app/src/io/webFollowHost.ts), which any number of calls of the host    *)
(* refresh at once: the check at launch, checks by hand, posts,            *)
(* attachments, seen marks.  Each call reads the stored record, awaits the *)
(* network, and writes onto the record as it then is.                      *)
(*                                                                         *)
(* ReportThread.tla has the thread's birth and its end; here it exists, and *)
(* ends when it ends.  `fixed' and `closed' are one status, "final".       *)
(***************************************************************************)
EXTENDS Naturals, Sequences, FiniteSets

CONSTANTS
  Calls,        \* calls of the host the user makes, each used again and again
  Children,     \* follow-up attachments
  Earlier,      \* statuses the maintainer set before the run begins
  MaxMessages,  \* THREAD_MAX_MESSAGES
  Reserve,      \* THREAD_MAINTAINER_RESERVE
  MaxReplies,   \* bound: the maintainer's replies
  MaxStatuses   \* bound: statuses the maintainer sets, the earlier ones included

ASSUME FollowAssumption ==
  /\ "launch" \notin Calls
  /\ Children \cap {"reply", "status", "reopen", "text"} = {}
  /\ Earlier \in Seq({"open", "need-info", "final"}) /\ Len(Earlier) <= MaxMessages
  /\ MaxMessages \in Nat /\ Reserve \in 0 .. MaxMessages
  /\ MaxReplies \in Nat /\ MaxStatuses \in Nat

VARIABLES
  msgs,      \* the thread's messages; each keeps the status it left behind
  status,    \* the thread's status
  seen,      \* reporterSeenUpTo
  finalSeen, \* finalSeenAt is set: the grace clock runs
  ended,     \* the thread is gone
  rec,       \* the reporter's record
  call       \* the host's calls

threadState == <<msgs, status, seen, finalSeen, ended>>
followVars == <<threadState, rec, call>>

Slots == Calls \cup {"launch"}
Status == {"open", "need-info", "final"}
Kinds == {"reply", "status", "reopen", "text"} \cup Children
Seqs == 0 .. MaxMessages
latestSeq == Len(msgs)

Idle == [at |-> "idle"]
NoRec == [status |-> "forgotten"]
Failed == [got |-> "nothing"]
Forbidden == [got |-> "forbidden"]
Ack == [got |-> "ack"]

Views == [got : {"view"}, status : Status, latest : Seqs, after : Seqs]

\* why: a launch check; a check by hand, or a seen mark alone; the refresh after
\* a post or an attachment.
Whys == {"launch", "check", "own"}

CallStates ==
  {Idle}
  \cup [at : {"fetch"}, why : Whys, after : Seqs]
  \cup [at : {"answer"}, why : Whys, view : Views \cup {Failed, Forbidden}]
  \cup [at : {"seen"}, why : Whys, sent : Seqs]
  \cup [at : {"acked"}, why : Whys, sent : Seqs, view : {Ack, Failed, Forbidden}]
  \cup [at : {"post"}, after : Seqs]
  \cup [at : {"attach"}, after : Seqs, child : Children]
  \cup [at : {"forget"}]

FollowTypeOK ==
  /\ msgs \in Seq([kind : Kinds, leaves : Status]) /\ Len(msgs) <= MaxMessages
  /\ status \in Status /\ seen \in Seqs
  /\ finalSeen \in BOOLEAN /\ ended \in BOOLEAN
  /\ rec = NoRec \/ rec \in [status : Status \cup {"gone"}, known : SUBSET Seqs,
                              latest : Seqs, seen : Seqs, synced : Seqs]
  /\ call \in [Slots -> CallStates]

\* The reporter has fetched nothing of what the maintainer did so far.
FollowInit ==
  /\ msgs = [n \in DOMAIN Earlier |-> [kind |-> "status", leaves |-> Earlier[n]]]
  /\ status = IF Earlier = <<>> THEN "open" ELSE Earlier[Len(Earlier)]
  /\ seen = 0
  /\ finalSeen = FALSE /\ ended = FALSE
  /\ rec = [status |-> "open", known |-> {}, latest |-> 0, seen |-> 0, synced |-> 0]
  /\ call = [c \in Slots |-> Idle]

-----------------------------------------------------------------------------
(* The thread *)

\* A change of status stops the clock: what it says has not been seen yet.
Clock(cleared) == finalSeen' = (finalSeen /\ ~cleared)

insertMessage(kind, s) == msgs' = Append(msgs, [kind |-> kind, leaves |-> s])

\* Mutant: a full thread takes one more.
RoomPast(n) == latestSeq <= MaxMessages

Room(n) == latestSeq + n <= MaxMessages

\* Mutant: a reopening's own line is not counted.
ReporterRoomOfOne(n) == latestSeq + 1 <= MaxMessages - Reserve

\* The reporter's side stops short of the cap.
ReporterRoom(n) == latestSeq + n <= MaxMessages - Reserve

\* Bounds what the maintainer does in a run.
Fewer(kind, bound) == Cardinality({n \in 1 .. latestSeq : msgs[n].kind = kind}) < bound

postMaintainer ==
  /\ ~ended /\ Room(1) /\ Fewer("reply", MaxReplies)
  /\ insertMessage("reply", status)
  /\ UNCHANGED <<status, seen, finalSeen, ended, rec, call>>

setStatus ==
  /\ ~ended /\ Room(1) /\ Fewer("status", MaxStatuses)
  /\ \E s \in Status :
       /\ insertMessage("status", s)
       /\ status' = s
       /\ Clock(TRUE)
  /\ UNCHANGED <<seen, ended, rec, call>>

\* Nothing of a thread that has ended is left; msgs stays as its history.
destroy ==
  /\ ended' = TRUE /\ status' = "open" /\ seen' = 0 /\ finalSeen' = FALSE
  /\ UNCHANGED msgs

\* The idle or the grace alarm, the maintainer's delete, a ForgetReport elsewhere.
End == ~ended /\ destroy /\ UNCHANGED <<rec, call>>

AfterReply == IF status = "need-info" THEN "open" ELSE status

postReporter ==
  IF status = "final"
  THEN /\ ReporterRoom(2)
       /\ msgs' = msgs \o <<[kind |-> "text", leaves |-> "final"],
                            [kind |-> "reopen", leaves |-> "open"]>>
       /\ status' = "open" /\ Clock(TRUE)
       /\ UNCHANGED <<seen, ended>>
  ELSE /\ ReporterRoom(1)
       /\ insertMessage("text", AfterReply)
       /\ status' = AfterReply
       /\ UNCHANGED <<seen, finalSeen, ended>>

IsStatus(n) == msgs[n].kind \in {"status", "reopen"}

\* The greatest seq of a status message in S, 0 when there is none.
LastStatusSeq(S) ==
  CHOOSE n \in {0} \cup {i \in S : IsStatus(i)} : \A i \in S : IsStatus(i) => i <= n

StartsClock(upTo) == status = "final" /\ upTo >= LastStatusSeq(1 .. latestSeq)

markSeen(upTo) ==
  LET known == IF upTo < latestSeq THEN upTo ELSE latestSeq
      now == IF known > seen THEN known ELSE seen
  IN  /\ seen' = now
      /\ finalSeen' = (finalSeen \/ StartsClock(now))
      /\ UNCHANGED <<msgs, status, ended>>

\* Mutant: an attachment is appended whenever its COMMIT arrives.
AttachedBeforeNever(child) == FALSE

AttachedBefore(child) == \E n \in 1 .. latestSeq : msgs[n].kind = child

\* A full thread drops the attachment: its report is committed all the same.
appendAttachment(child) ==
  IF ended \/ AttachedBefore(child) \/ ~ReporterRoom(1) THEN UNCHANGED threadState
  ELSE /\ insertMessage(child, AfterReply)
       /\ status' = AfterReply
       /\ Clock(status = "final")
       /\ UNCHANGED <<seen, ended>>

-----------------------------------------------------------------------------
(* The reporter's record *)

LastStatusKnown(r) == LastStatusSeq(r.known)

\* computeState: a final status was seen, or the thread is gone.
Done(r) ==
  \/ r.status = "gone"
  \/ r.status = "final" /\ r.seen >= LastStatusKnown(r)

\* The service has not acknowledged the mark yet.
SeenDue(r) == r # NoRec /\ r.status # "gone" /\ r.synced < r.seen

\* Mutant: the view's status is taken however old the view is.
MergeStale(r, v) ==
  [r EXCEPT !.known = @ \cup (v.after + 1 .. v.latest),
            !.latest = IF v.latest > @ THEN v.latest ELSE @,
            !.status = v.status]

\* A view older than what is stored must not roll the status back.
mergeThread(r, v) ==
  [r EXCEPT !.known = @ \cup (v.after + 1 .. v.latest),
            !.latest = IF v.latest > @ THEN v.latest ELSE @,
            !.status = IF v.latest >= r.latest THEN v.status ELSE @]

goneRecord(r) == IF r = NoRec THEN NoRec ELSE [r EXCEPT !.status = "gone"]

applyFetched(r, view) ==
  IF r = NoRec \/ view = Failed THEN r
  ELSE IF view = Forbidden THEN goneRecord(r)
  ELSE mergeThread(r, view)

fetchOne(why, after) == [at |-> "fetch", why |-> why, after |-> after]
postThreadSeen(why, r) == [at |-> "seen", why |-> why, sent |-> r.seen]

syncSeen(why, r, otherwise) ==
  IF SeenDue(r) THEN postThreadSeen(why, r) ELSE otherwise

\* Mutant: a launch check forgets the marks of done reports.
ResendNever(why, r) == Idle

\* A launch check ends with the mark of a done report, which it never fetches.
Resend(why, r) ==
  IF why = "launch" /\ r # NoRec /\ Done(r) THEN syncSeen("check", r, Idle) ELSE Idle

\* After a fetch: a check sends the mark that never got through.
AfterFetch(why, view, r) ==
  IF why \in {"launch", "check"} /\ view \notin {Failed, Forbidden}
  THEN syncSeen(why, r, Resend(why, r))
  ELSE Resend(why, r)

Starts(c, state) ==
  /\ call[c] = Idle /\ rec # NoRec
  /\ call' = [call EXCEPT ![c] = state]

\* Once per launch: a report still followed is fetched, a done one only has its
\* mark sent again.
Launch ==
  /\ rec # NoRec
  /\ LET first == IF Done(rec) THEN Resend("launch", rec) ELSE fetchOne("launch", rec.latest)
     IN  first # Idle /\ Starts("launch", first)
  /\ UNCHANGED <<threadState, rec>>

Check(c) ==
  /\ rec # NoRec
  /\ Starts(c, fetchOne("check", rec.latest))
  /\ UNCHANGED <<threadState, rec>>

MarkSeen(c) ==
  /\ call[c] = Idle /\ rec # NoRec
  /\ \E upTo \in 1 .. rec.latest :
       LET r == [rec EXCEPT !.seen = IF upTo > @ THEN upTo ELSE @]
       IN  rec' = r /\ call' = [call EXCEPT ![c] = syncSeen("check", r, Idle)]
  /\ UNCHANGED threadState

\* post and attach read the record before they send, and fetch with it after.
Post(c) ==
  /\ rec # NoRec
  /\ Starts(c, [at |-> "post", after |-> rec.latest])
  /\ UNCHANGED <<threadState, rec>>

\* An upload has an id of its own.
NewId(child) ==
  /\ \A n \in 1 .. latestSeq : msgs[n].kind # child
  /\ \A c \in Slots : call[c].at = "attach" => call[c].child # child

Attach(c) ==
  /\ rec # NoRec
  /\ \E child \in Children :
       /\ NewId(child)
       /\ Starts(c, [at |-> "attach", after |-> rec.latest, child |-> child])
  /\ UNCHANGED <<threadState, rec>>

ForgetReport(c) ==
  /\ Starts(c, [at |-> "forget"])
  /\ UNCHANGED <<threadState, rec>>

-----------------------------------------------------------------------------
(* What the worker does with a request *)

Becomes(c, state) == call' = [call EXCEPT ![c] = state]

Answer(c, view) ==
  IF call[c].at = "fetch"
  THEN Becomes(c, [at |-> "answer", why |-> call[c].why, view |-> view])
  ELSE Becomes(c, [at |-> "acked", why |-> call[c].why, sent |-> call[c].sent, view |-> view])

\* Nothing came back: the request was lost before the worker did anything.
Lose(c) ==
  /\ \/ call[c].at \in {"fetch", "seen"} /\ Answer(c, Failed)
     \/ call[c].at = "post" /\ Becomes(c, Idle)
  /\ UNCHANGED <<threadState, rec>>

ServeRead(c) ==
  /\ call[c].at = "fetch"
  /\ Answer(c, IF ended THEN Forbidden
               ELSE [got |-> "view", status |-> status, latest |-> latestSeq,
                     after |-> call[c].after])
  /\ UNCHANGED <<threadState, rec>>

\* The mark is stored; its answer may be lost all the same.
ServeSeen(c) ==
  /\ call[c].at = "seen"
  /\ IF ended THEN Answer(c, Forbidden) /\ UNCHANGED threadState
     ELSE /\ markSeen(call[c].sent)
          /\ Answer(c, Ack) \/ Answer(c, Failed)
  /\ UNCHANGED rec

\* A post past the day's limit or the thread's room stores nothing; one to a
\* thread that has ended tells the host that it has.
ServePost(c) ==
  /\ call[c].at = "post"
  /\ IF ended THEN rec' = goneRecord(rec) /\ Becomes(c, Idle) /\ UNCHANGED threadState
     ELSE /\ UNCHANGED rec
          /\ \/ Becomes(c, Idle) /\ UNCHANGED threadState
             \/ /\ postReporter
                /\ Becomes(c, fetchOne("own", call[c].after)) \/ Becomes(c, Idle)

\* The follow-up's COMMIT, tried again when its answer is lost.  The START of a
\* follow-up is refused once the thread has ended.
ServeAttach(c) ==
  /\ call[c].at = "attach"
  /\ \/ ended /\ Becomes(c, Idle) /\ UNCHANGED threadState
     \/ /\ appendAttachment(call[c].child)
        /\ Becomes(c, fetchOne("own", call[c].after)) \/ UNCHANGED call
  /\ UNCHANGED rec

\* The record goes whatever became of the request.
ServeForget(c) ==
  /\ call[c].at = "forget"
  /\ destroy \/ UNCHANGED threadState
  /\ rec' = NoRec /\ Becomes(c, Idle)

-----------------------------------------------------------------------------
(* What the host does with an answer *)

TakeView(c) ==
  /\ call[c].at = "answer"
  /\ rec' = applyFetched(rec, call[c].view)
  /\ Becomes(c, AfterFetch(call[c].why, call[c].view, rec'))
  /\ UNCHANGED threadState

Acked(r, sent) == [r EXCEPT !.synced = IF sent > @ THEN sent ELSE @]

TakeAck(c) ==
  /\ call[c].at = "acked"
  /\ rec' = CASE rec = NoRec \/ call[c].view = Failed -> rec
              [] rec # NoRec /\ call[c].view = Forbidden -> goneRecord(rec)
              [] OTHER -> Acked(rec, call[c].sent)
  /\ Becomes(c, Resend(call[c].why, rec'))
  /\ UNCHANGED threadState

Serve(c) == ServeRead(c) \/ ServeSeen(c) \/ ServePost(c) \/ ServeAttach(c) \/ ServeForget(c)
Take(c) == TakeView(c) \/ TakeAck(c)

FollowNext ==
  \/ postMaintainer \/ setStatus \/ End
  \/ Launch
  \/ \E c \in Calls : Check(c) \/ MarkSeen(c) \/ Post(c) \/ Attach(c) \/ ForgetReport(c)
  \/ \E c \in Slots : Serve(c) \/ Lose(c) \/ Take(c)

FollowSpec == FollowInit /\ [][FollowNext]_followVars

\* The application is launched again and again while it has a record; the call
\* of a launch comes to an answer (followClient.ts has a timeout), and a request
\* that is made for ever is not lost for ever.
FollowFairness ==
  /\ WF_followVars(Launch)
  /\ WF_followVars(Take("launch"))
  /\ SF_followVars(ServeRead("launch")) /\ SF_followVars(ServeSeen("launch"))

FollowLiveSpec == FollowSpec /\ FollowFairness

-----------------------------------------------------------------------------
(* Properties *)

StatusAt(n) == IF n = 0 THEN "open" ELSE msgs[n].leaves

\* Whatever the order in which views arrive, the record is the thread as it
\* stood at the message the record calls the latest: every message up to it, no
\* later one, and the status that message left.  A record says `gone' only when
\* the thread is.
RecordIsThread ==
  rec = NoRec \/
    /\ rec.latest <= latestSeq
    /\ rec.known = 1 .. rec.latest
    /\ IF rec.status = "gone" THEN ended ELSE rec.status = StatusAt(rec.latest)

\* The 30 days to the thread's end run only while the status is final and the
\* reporter has seen the message that says so.
GraceNeedsSeen ==
  finalSeen =>
    /\ status = "final"
    /\ rec = NoRec \/ rec.seen >= LastStatusSeq(1 .. latestSeq)

\* A retried COMMIT of a follow-up shows its attachment once.
AttachedOnce ==
  \A m, n \in 1 .. latestSeq : msgs[m].kind \in Children /\ msgs[m].kind = msgs[n].kind => m = n

\* The reporter's side, a reopening with its own line included, never takes the
\* last messages of a thread: the maintainer can always answer.
RoomForMaintainer ==
  \A n \in 1 .. latestSeq :
    msgs[n].kind \in {"text", "reopen"} \cup Children => n <= MaxMessages - Reserve

\* The thread as both sides write to it: neither shuts the other out, repeats
\* itself, or ends it before it was read.
ThreadIsFair == GraceNeedsSeen /\ AttachedOnce /\ RoomForMaintainer

\* What the reporter has seen reaches the worker, unless the thread ends or the
\* record goes: the grace clock has nothing else to start it.
MarkArrives ==
  (rec # NoRec /\ rec.seen > seen) ~> (rec = NoRec \/ ended \/ seen >= rec.seen)
=============================================================================
