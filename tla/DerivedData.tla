----------------------------- MODULE DerivedData -----------------------------
(***************************************************************************)
(* The derived layer: rows, sessions and vectors (services/work-activity,  *)
(* services/retrieval/sqlite-vector-store.ts), written per frame by an     *)
(* indexing run, closed by whoever flushes, summarised on demand, deleted  *)
(* by the cascade of delete-range, and filtered by what find and recall    *)
(* hide.  An action runs from one real await (file, HTTP or model call) to *)
(* the next: calls on the SQLite stores in between do not yield.           *)
(*                                                                         *)
(* A run here takes what is newer than the checkpoint; module Indexing has *)
(* the paging, the backlog and the re-check of blocked records.            *)
(***************************************************************************)
EXTENDS Integers, Sequences, FiniteSets

CONSTANTS
  N,               \* frames that may be captured: positions 1..N
  Time,            \* Time[f]: the tick a frame is captured at
  Context,         \* Context[f]: its application and context key
  Idle,            \* idleThresholdSeconds, in ticks
  Hour,            \* the reach of delete-range last_1h, in ticks
  MaxClock,        \* bound on time
  MaxFaults,       \* bound on failing runs, cascades and models, and on restarts
  MaxDeletes       \* bound on delete-range requests

Frames == 1..N

ASSUME FrameAssumption ==
  /\ N \in Nat /\ Time \in [Frames -> Nat]
  /\ \A f, g \in Frames : f < g => Time[f] <= Time[g]
ASSUME BoundAssumption ==
  {Idle, Hour, MaxClock, MaxFaults, MaxDeletes} \subseteq Nat

VARIABLES
  clock, upstream,  \* the capture source
  suppressed,       \* ticks whose frames the privacy state blocks
  tombstones,       \* unresolved cascade-failure ranges: [from, to, frames, byRange]
  content, vectors, \* frames with an extracted_content row; with a vector
  sessions, nextId, \* rows of the sessions table; the id of the next one
  ckpt,             \* position the checkpoint has reached
  pc, todo, hand, prepared, held, failed,  \* the indexing run
  del,              \* the delete-range request: [pc, from, to, frames, byRange]
  call,             \* the summary being written: [id, text]
  gone,             \* ghost: frames whose deletion has been answered
  late,             \* ghost: frames a run already had in hand when they were deleted
  faults, deletes
source == <<clock, upstream>>
derived == <<content, vectors, sessions, nextId>>
privacy == <<suppressed, tombstones>>
run == <<pc, todo, hand, prepared, held, failed>>
ghosts == <<gone, late>>
vars == <<source, privacy, derived, ckpt, run, del, call, ghosts, faults, deletes>>

Larger(a, b) == IF a > b THEN a ELSE b
First(S)     == CHOOSE f \in S : \A g \in S : f <= g
Newest(S)    == CHOOSE f \in S : \A g \in S : g <= f
Elements(s)  == {s[i] : i \in 1..Len(s)}
Last(s)      == s[Len(s)]
None         == 0
Within(from, to) == {f \in Frames : from <= Time[f] /\ Time[f] <= to}

NoSummary == [status |-> "none", text |-> {}]
NoDelete  == [pc |-> "idle", from |-> 0, to |-> 0, frames |-> {}, byRange |-> FALSE]
NoCall    == [id |-> 0, text |-> {}]

(* A sessions row; started_at and ended_at are those of its first and last *)
(* frame.                                                                  *)
StartedAt(s) == Time[Head(s.evidence)]
EndedAt(s)   == Time[Last(s.evidence)]
Touches(s, S) == Elements(s.evidence) \cap S # {}

NoRun == /\ pc' = "idle" /\ todo' = {} /\ hand' = None
         /\ prepared' = {} /\ held' = {} /\ failed' = {}

Init ==
  /\ clock = 0 /\ upstream = {f \in Frames : Time[f] = 0} /\ suppressed = {} /\ tombstones = {}
  /\ content = {} /\ vectors = {} /\ sessions = {} /\ nextId = 1
  /\ ckpt = 0 /\ pc = "idle" /\ todo = {} /\ hand = None
  /\ prepared = {} /\ held = {} /\ failed = {}
  /\ del = NoDelete /\ call = NoCall
  /\ gone = {} /\ late = {} /\ faults = 0 /\ deletes = 0

Tick == /\ clock < MaxClock
        /\ clock' = clock + 1
        /\ upstream' = upstream \cup {f \in Frames : Time[f] = clock + 1}
        /\ UNCHANGED <<privacy, derived, ckpt, run, del, call, ghosts, faults, deletes>>

Fault == faults < MaxFaults /\ faults' = faults + 1

-----------------------------------------------------------------------------
(* SessionAggregator over SessionStore.                                    *)

FlushIdle(S) == {IF EndedAt(s) < clock - Idle THEN [s EXCEPT !.open = FALSE] ELSE s : s \in S}

(* findOpenSessionFor: the open row of the context that ended last.        *)
OpenFor(f) ==
  LET mine == {s \in sessions : s.open /\ s.ctx = Context[f]}
  IN  {s \in mine : \A t \in mine : EndedAt(t) <= EndedAt(s)}

Gap(s, f) == Time[f] - EndedAt(s)

(* Mutant: any later frame extends the session.                            *)
CanExtendAnyGap(s, f)    == 0 <= Gap(s, f)

CanExtend(s, f) == 0 <= Gap(s, f) /\ Gap(s, f) <= Idle

AppendFrame(s, f) ==
  [s EXCEPT !.evidence = Append(@, f), !.active = @ + Gap(s, f)]

CreateSession(f) ==
  [id |-> nextId, ctx |-> Context[f], evidence |-> <<f>>, active |-> 0,
   open |-> TRUE, summary |-> NoSummary]

HandleExtraction(f) ==
  \/ \E s \in OpenFor(f) :
       /\ CanExtend(s, f)
       /\ sessions' = (sessions \ {s}) \cup {AppendFrame(s, f)}
       /\ UNCHANGED nextId
  \/ /\ \A s \in OpenFor(f) : ~CanExtend(s, f)
     /\ sessions' = (sessions \ OpenFor(f))
                      \cup {[s EXCEPT !.open = FALSE] : s \in OpenFor(f)}
                      \cup {CreateSession(f)}
     /\ nextId' = nextId + 1

(* recall and the status report flush before they read.                    *)
Flush == /\ sessions' = FlushIdle(sessions)
         /\ UNCHANGED <<source, privacy, content, vectors, nextId, ckpt, run, del, call,
                        ghosts, faults, deletes>>

-----------------------------------------------------------------------------
(* The indexing run.                                                       *)

StartRun ==
  /\ pc = "idle"
  /\ sessions' = FlushIdle(sessions)
  /\ todo' = {f \in upstream : f > ckpt}
  /\ pc' = "extract"
  /\ UNCHANGED <<source, privacy, content, vectors, nextId, ckpt, hand, prepared, held,
                 failed, del, call, ghosts, faults, deletes>>

(* The privacy state is read for the next record; if it does not block the *)
(* record, its frame detail is asked for.                                  *)
Admit ==
  /\ pc = "extract" /\ hand = None /\ todo # {}
  /\ LET f == First(todo)
     IN  /\ todo' = todo \ {f}
         /\ IF Time[f] \in suppressed
            THEN held' = held \cup {f} /\ UNCHANGED hand
            ELSE hand' = f /\ UNCHANGED held
  /\ UNCHANGED <<source, privacy, derived, ckpt, pc, prepared, failed, del, call, ghosts,
                 faults, deletes>>

(* Frame detail has come back (or failed, and the record's text is used).  *)
Store ==
  /\ hand # None
  /\ content' = content \cup {hand}
  /\ HandleExtraction(hand)
  /\ prepared' = prepared \cup {hand}
  /\ hand' = None
  /\ UNCHANGED <<source, privacy, vectors, ckpt, pc, todo, held, failed, del, call, ghosts,
                 faults, deletes>>

(* All embeddings of texts have settled, and those that succeeded are      *)
(* stored; an extraction without text needs none.                          *)
EmbedAndUpsertOf(texts) ==
  /\ pc = "extract" /\ hand = None /\ todo = {}
  /\ \E F \in SUBSET texts :
       /\ failed' = F
       /\ IF F = {} THEN UNCHANGED faults ELSE Fault
       /\ vectors' = vectors \cup (texts \ F)
  /\ pc' = "finish"
  /\ UNCHANGED <<source, privacy, content, sessions, nextId, ckpt, todo, hand, prepared,
                 held, del, call, ghosts, deletes>>

EmbedAndUpsert == EmbedAndUpsertOf(prepared)

(* Candidates below the earliest failure; blocked records if none failed.  *)
Reached == {f \in prepared \ failed : \A g \in failed : f < g}
             \cup (IF failed = {} THEN held ELSE {})

(* A run in which all of texts failed, and nothing was held, persists      *)
(* nothing and throws.                                                     *)
Throws(texts) == texts # {} /\ failed = texts /\ held = {}

FinishOf(texts) ==
  /\ pc = "finish"
  /\ ckpt' = IF Throws(texts) THEN ckpt ELSE Newest({ckpt} \cup Reached)
  /\ NoRun
  /\ UNCHANGED <<source, privacy, derived, del, call, ghosts, faults, deletes>>

Finish == FinishOf(prepared)

(* An exception ends the run; nothing is persisted.                        *)
Abort == /\ pc # "idle" /\ Fault
         /\ NoRun
         /\ UNCHANGED <<source, privacy, derived, ckpt, del, call, ghosts, deletes>>

-----------------------------------------------------------------------------
(* delete-range, the cascade, and what is done when the cascade fails.     *)

(* last_1h is suppressed before anything is deleted; the longer ranges are *)
(* not.                                                                    *)
RequestDelete ==
  /\ del.pc = "idle" /\ deletes < MaxDeletes /\ deletes' = deletes + 1
  /\ \/ /\ del' = [NoDelete EXCEPT !.pc = "upstream", !.from = Larger(0, clock - Hour), !.to = clock]
        /\ suppressed' = suppressed \cup (Larger(0, clock - Hour)..clock)
     \/ /\ del' = [NoDelete EXCEPT !.pc = "upstream", !.to = clock]
        /\ UNCHANGED suppressed
  /\ UNCHANGED <<source, tombstones, derived, ckpt, run, call, ghosts, faults>>

(* What the run will still write, whatever is deleted now.                 *)
InHand == prepared \cup ({hand} \ {None}) \cup {f \in todo : Time[f] \notin suppressed}

DeleteUpstream ==
  /\ del.pc = "upstream"
  /\ LET ids == upstream \cap Within(del.from, del.to)
     IN  /\ upstream' = upstream \ ids
         /\ late' = late \cup (ids \cap InHand)
         /\ del' = [del EXCEPT !.pc = "rows", !.frames = ids, !.byRange = (ids = {})]
  /\ UNCHANGED <<clock, privacy, derived, ckpt, run, call, gone, faults, deletes>>

(* Mutant: only the rows go; a session keeps its deleted evidence.         *)
DeleteRowsNotSessions(S) ==
  /\ content' = content \ S
  /\ UNCHANGED sessions

(* deleteDerivedByFrameIds: one transaction over both tables.              *)
DeleteRows(S) ==
  /\ content' = content \ S
  /\ sessions' = {s \in sessions : ~Touches(s, S)}

(* cascadeByTimestampRange, which a request that found no frame upstream   *)
(* takes, lists the rows of the window first.                              *)
Target(d) == IF d.byRange THEN Within(d.from, d.to) ELSE d.frames

RowsOf(d) == IF d.byRange THEN content \cap Target(d) ELSE Target(d)

CascadeRows ==
  /\ del.pc = "rows"
  /\ DeleteRows(RowsOf(del))
  /\ del' = [del EXCEPT !.pc = "vectors"]
  /\ UNCHANGED <<source, privacy, vectors, nextId, ckpt, run, call, ghosts, faults, deletes>>

CascadeVectors ==
  /\ del.pc = "vectors"
  /\ vectors' = vectors \ Target(del)
  /\ gone' = gone \cup Target(del)
  /\ del' = NoDelete
  /\ UNCHANGED <<source, privacy, content, sessions, nextId, ckpt, run, call, late, faults, deletes>>

(* Mutant: a failed cascade is answered as if it had succeeded.            *)
CascadeFailsSwallowed ==
  /\ del.pc \in {"rows", "vectors"} /\ Fault
  /\ gone' = gone \cup Target(del)
  /\ del' = NoDelete
  /\ UNCHANGED <<source, privacy, derived, ckpt, run, call, late, deletes>>

CascadeFails ==
  /\ del.pc \in {"rows", "vectors"} /\ Fault
  /\ del' = [del EXCEPT !.pc = "bury"]
  /\ UNCHANGED <<source, privacy, derived, ckpt, run, call, ghosts, deletes>>

(* The tombstone that hides what the cascade has left.                     *)
Bury ==
  /\ del.pc = "bury"
  /\ tombstones' = tombstones \cup
       {[from |-> del.from, to |-> del.to, frames |-> del.frames, byRange |-> del.byRange]}
  /\ gone' = gone \cup Target(del)
  /\ del' = NoDelete
  /\ UNCHANGED <<source, suppressed, derived, ckpt, run, call, late, faults, deletes>>

(* reconcileCascadeFailures, for one tombstone.                            *)
Reconcile ==
  /\ \E t \in tombstones :
       /\ DeleteRows(RowsOf(t))
       /\ vectors' = vectors \ Target(t)
       /\ tombstones' = tombstones \ {t}
  /\ UNCHANGED <<source, suppressed, nextId, ckpt, run, del, call, ghosts, faults, deletes>>

(* The process dies and is started again: a deletion under way is not      *)
(* taken up, and its user has had no answer.                               *)
Restart ==
  /\ pc # "idle" \/ del # NoDelete \/ call # NoCall
  /\ Fault
  /\ NoRun /\ del' = NoDelete /\ call' = NoCall
  /\ UNCHANGED <<source, privacy, derived, ckpt, ghosts, deletes>>

-----------------------------------------------------------------------------
(* SummaryWorker.ensureSummary: read, ask a model, write back.             *)

AskSummary ==
  /\ call = NoCall
  /\ \E s \in sessions :
       /\ s.summary.status # "ready"
       /\ call' = [id |-> s.id, text |-> Elements(s.evidence) \cap content]
  /\ UNCHANGED <<source, privacy, derived, ckpt, run, del, ghosts, faults, deletes>>

Summarised(S, status) ==
  {IF s.id = call.id THEN [s EXCEPT !.summary = [status |-> status, text |-> call.text]] ELSE s
     : s \in S}

(* When the model fails the template steps in, and the row stays open to a *)
(* further attempt.                                                        *)
WriteSummary ==
  /\ call # NoCall
  /\ \/ sessions' = Summarised(sessions, "ready") /\ UNCHANGED faults
     \/ sessions' = Summarised(sessions, "degraded") /\ Fault
  /\ call' = NoCall
  /\ UNCHANGED <<source, privacy, content, vectors, nextId, ckpt, run, del, ghosts, deletes>>

-----------------------------------------------------------------------------
RunStep == StartRun \/ Admit \/ Store \/ EmbedAndUpsert \/ Finish
DeleteStep == DeleteUpstream \/ CascadeRows \/ CascadeVectors \/ CascadeFails \/ Bury

Next == \/ Tick \/ Flush \/ RunStep \/ Abort \/ Restart
        \/ RequestDelete \/ DeleteStep \/ Reconcile
        \/ AskSummary \/ WriteSummary

Spec == Init /\ [][Next]_vars

-----------------------------------------------------------------------------
Summary == [status : {"none", "ready", "degraded"}, text : SUBSET Frames]
Session == [id : Nat \ {0}, ctx : {Context[f] : f \in Frames}, evidence : Seq(Frames),
            active : Nat, open : BOOLEAN, summary : Summary]

TypeOK ==
  /\ clock \in Nat /\ upstream \subseteq Frames /\ suppressed \subseteq Nat
  /\ tombstones \subseteq [from : Nat, to : Nat, frames : SUBSET Frames, byRange : BOOLEAN]
  /\ content \subseteq Frames /\ vectors \subseteq Frames
  /\ sessions \subseteq Session /\ \A s \in sessions : s.evidence # <<>>
  /\ nextId \in Nat \ {0} /\ ckpt \in Frames \cup {0}
  /\ pc \in {"idle", "extract", "finish"} /\ todo \subseteq Frames
  /\ hand \in Frames \cup {None} /\ prepared \subseteq Frames
  /\ held \subseteq Frames /\ failed \subseteq prepared
  /\ del \in [pc : {"idle", "upstream", "rows", "vectors", "bury"}, from : Nat, to : Nat,
              frames : SUBSET Frames, byRange : BOOLEAN]
  /\ call \in [id : Nat, text : SUBSET Frames]
  /\ gone \subseteq Frames /\ late \subseteq Frames
  /\ faults \in 0..MaxFaults /\ deletes \in 0..MaxDeletes

(* What find and recall still answer from: rows and sessions outside every *)
(* unresolved cascade-failure range.                                       *)
Visible(f)        == \A t \in tombstones : ~(t.from <= Time[f] /\ Time[f] <= t.to)
VisibleSession(s) == \A t \in tombstones : ~(t.from <= EndedAt(s) /\ StartedAt(s) <= t.to)

Shown == {f \in content \cup vectors : Visible(f)}
           \cup UNION {Elements(s.evidence) \cup s.summary.text
                         : s \in {s \in sessions : VisibleSession(s)}}

(* delete-range keeps its word (Cascade_Completeness, W25, and the         *)
(* tombstones of failed cascades): once it has answered, nothing derived   *)
(* from a deleted frame is found, recalled or summarised again, unless a   *)
(* run was already past its privacy check for that frame.                  *)
DeletedStaysGone == gone \cap Shown \subseteq late

(* The same without the exception, as cascade-delete-coordinator.ts:14-16  *)
(* states it for every frame.                                              *)
CascadeCompleteness == gone \cap Shown = {}

(* Every session's evidence can be resolved, and a summary tells nothing   *)
(* that is not evidence of its session: a cascade, a replayed frame or a   *)
(* model's late answer leaves no session that points at nothing.           *)
EvidenceHasContent ==
  \A s \in sessions : s.summary.text \subseteq Elements(s.evidence) /\ Elements(s.evidence) \subseteq content

(* A frame finds one session to extend: per context at most one is open,   *)
(* whatever is replayed, flushed or deleted in between.                    *)
OneOpenPerContext ==
  \A s, t \in sessions : s.open /\ t.open /\ s.ctx = t.ctx => s = t

(* Idle_Closure: a session holds frames of one context in capture order    *)
(* with no gap above the threshold, and active_seconds counts each such    *)
(* gap once.                                                               *)
SessionsContinuous ==
  \A s \in sessions :
    /\ \A i \in 1..Len(s.evidence) : Context[s.evidence[i]] = s.ctx
    /\ \A i \in 1..Len(s.evidence) - 1 :
         LET gap == Time[s.evidence[i + 1]] - Time[s.evidence[i]] IN 0 <= gap /\ gap <= Idle
    /\ s.active = EndedAt(s) - StartedAt(s)

(* The derived layer implements the history that its readers see: the rows *)
(* are the frames kept, and of a session count its frames, whether it is   *)
(* open, and what its summary was made of.  A session that is closed does  *)
(* not grow or open again, no id is used twice, and a deletion leaves no   *)
(* session behind that touches a deleted frame, whatever run, cascade,     *)
(* reader or late summary steps in between.                                *)
Told(s) == [id |-> s.id, ctx |-> s.ctx, frames |-> Elements(s.evidence), open |-> s.open,
            told |-> s.summary.text]
History == INSTANCE WorkHistory WITH kept <- content, history <- {Told(s) : s \in sessions}
ImplementsHistory == History!HistorySpec
=============================================================================
