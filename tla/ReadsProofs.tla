------------------------------ MODULE ReadsProofs ------------------------------
(***************************************************************************)
(* What find and recall answer, for any number of frames, deletions,       *)
(* cascades that fail, restarts and requests.                              *)
(*                                                                         *)
(* An answer tells of nothing that was hidden all along: while a request   *)
(* is under way, every row it has read was shown, or is hidden and will be *)
(* dropped when it is filtered, or has been released in between; and a     *)
(* session it has listed grows, and is summarised, by nothing else.  That  *)
(* is Held, by the place the request has come to.  It rests on what        *)
(* DerivedDataProofs shows of the layer beneath, and on Emptied: a window  *)
(* that was deleted has no frames at the source any more, so what a run    *)
(* stores under a tombstone is a frame it had in hand.                     *)
(*                                                                         *)
(* The scan of find is a loop over pages.  A page keeps what Going says of *)
(* the scan or ends it with the newest rows; were a scan to go wrong,      *)
(* there would be a first page at which it does, and that is refuted.      *)
(*                                                                         *)
(* The blocks of recall are a sum over sums, taken apart in the last part. *)
(***************************************************************************)
EXTENDS Reads, DerivedDataProofs, FiniteSetTheorems

(***************************************************************************)
(* The cursor loop of find, as the function it defines.                    *)

NextScan(scan) == IF scan.stop THEN scan ELSE ScanPage(scan)

LEMMA ScanFunction ==
  CollectKeywordMatches =
    [k \in 0..N + 1 |-> IF k = 0 THEN FirstScan ELSE NextScan(CollectKeywordMatches[k - 1])]
<1> DEFINE Runs(n, g) == g = [k \in 0..n |-> IF k = 0 THEN FirstScan ELSE NextScan(g[k - 1])]
           stuck == {n \in Nat : ~(\E g : Runs(n, g))}
<1>1. stuck = {}
  <2> SUFFICES ASSUME stuck # {} PROVE FALSE
    OBVIOUS
  <2>1. PICK n \in stuck : \A m \in stuck : n <= m
    <3>1. stuck \in SUBSET Nat
      OBVIOUS
    <3> HIDE DEF stuck
    <3> QED
      BY <3>1, LeastNumber
  <2>2. CASE n = 0
    <3>1. Runs(0, [k \in 0..0 |-> FirstScan])
      OBVIOUS
    <3> QED
      BY <2>1, <2>2, <3>1
  <2>3. CASE n # 0
    <3>1. n \in Nat /\ n - 1 \in Nat /\ n - 1 \notin stuck
      <4>1. n \in Nat
        OBVIOUS
      <4> HIDE DEF stuck
      <4> QED
        BY <2>1, <2>3, <4>1
    <3>2. PICK g : Runs(n - 1, g)
      BY <3>1
    <3> DEFINE h == [k \in 0..n |-> IF k = n THEN NextScan(g[n - 1]) ELSE g[k]]
    <3>3. ASSUME NEW k \in 0..n
          PROVE  h[k] = IF k = 0 THEN FirstScan ELSE NextScan(h[k - 1])
      <4>1. CASE k = n
        <5>1. h[k] = NextScan(g[n - 1]) /\ h[k - 1] = g[n - 1]
          BY <2>3, <3>1, <4>1
        <5> QED
          BY <2>3, <4>1, <5>1
      <4>2. CASE k # n
        <5>1. k \in 0..n - 1 /\ h[k] = g[k] /\ (k # 0 => k - 1 \in 0..n - 1 /\ h[k - 1] = g[k - 1])
          BY <3>1, <4>2
        <5>2. g[k] = IF k = 0 THEN FirstScan ELSE NextScan(g[k - 1])
          BY <3>2, <5>1
        <5> QED
          BY <5>1, <5>2
      <4> QED
        BY <4>1, <4>2
    <3>4. Runs(n, h)
      <4>1. h = [k \in 0..n |-> h[k]]
        OBVIOUS
      <4> HIDE DEF h
      <4> QED
        BY <3>3, <4>1
    <3> QED
      BY <2>1, <3>4
  <2> QED
    BY <2>2, <2>3
<1>2. N + 1 \in Nat
  BY FrameAssumption
<1>3. PICK g : Runs(N + 1, g)
  BY <1>1, <1>2
<1>4. CollectKeywordMatches =
        CHOOSE f : f = [k \in 0..N + 1 |-> IF k = 0 THEN FirstScan ELSE NextScan(f[k - 1])]
  BY DEF CollectKeywordMatches, NextScan
<1> QED
  BY <1>3, <1>4

(* Whatever it stops at, what find has found are rows.                     *)
LEMMA ScanFindsRows == Scanned.matched \subseteq content
<1> DEFINE scan == CollectKeywordMatches
           wrong == {k \in 0..N + 1 : ~(scan[k].matched \subseteq content)}
<1>1. N + 1 \in Nat
  BY FrameAssumption
<1>2. \A k \in 0..N + 1 : scan[k] = IF k = 0 THEN FirstScan ELSE NextScan(scan[k - 1])
  BY ScanFunction
<1>3. ASSUME NEW s, s.matched \subseteq content
      PROVE  NextScan(s).matched \subseteq content
  <2>1. FetchPage(s.cursor) \subseteq content
    BY DEF FetchPage
  <2>2. ScanPage(s).matched \subseteq s.matched \cup FetchPage(s.cursor)
    BY DEF ScanPage
  <2> QED
    BY <1>3, <2>1, <2>2 DEF NextScan
<1> HIDE DEF scan
<1>4. wrong = {}
  <2> SUFFICES ASSUME wrong # {} PROVE FALSE
    OBVIOUS
  <2>1. PICK k \in wrong : \A m \in wrong : k <= m
    <3>1. wrong \in SUBSET Nat
      BY <1>1
    <3> HIDE DEF wrong
    <3> QED
      BY <3>1, LeastNumber
  <2>2. CASE k = 0
    BY <1>1, <1>2, <2>1, <2>2 DEF FirstScan
  <2>3. CASE k # 0
    <3>1. k - 1 \in 0..N + 1 /\ k - 1 \notin wrong
      BY <1>1, <2>1, <2>3
    <3> QED
      BY <1>2, <1>3, <2>1, <2>3, <3>1
  <2> QED
    BY <2>2, <2>3
<1> QED
  BY <1>1, <1>4 DEF Scanned, scan

-----------------------------------------------------------------------------
(* What a request holds before it is answered.                             *)
Excused == witnessed \cup released \cup late

FindKinds == {"find", "semantic", "degraded"}

(* A window that was deleted is empty at the source, and stays so.         *)
Emptied ==
  /\ \A t \in tombstones : upstream \cap Within(t.from, t.to) = {}
  /\ del.pc \in {"rows", "vectors", "bury"} => upstream \cap Within(del.from, del.to) = {}

AskShape ==
  /\ DOMAIN ask = DOMAIN NoAsk
  /\ \/ ask.pc = "embed" /\ ask.kind = "semantic"
     \/ ask.pc = "filter" /\ ask.kind \in FindKinds \cup {"sessions", "blocks"}
     \/ ask.pc = "summaries" /\ ask.kind \in {"sessions", "inspect"}
     \/ ask.pc \in {"idle", "answered"}
  /\ ask.pc \in {"embed", "filter"} => ask.text = {}
  /\ ask.left \subseteq Nat

CallHeld == call # NoCall => ask.pc = "summaries" /\ call.id \in ask.left

(* A row find has read was shown, or is hidden.                            *)
RowHeld(f) == f \in Excused \/ ~Visible(f)

RowsHeld == ask.pc = "filter" /\ ask.kind \in FindKinds => \A f \in ask.rows : RowHeld(f)

(* So is a session recall has listed, and what it has grown by since.      *)
SessionHeld(s) ==
  /\ s.id \in Nat /\ s.id < nextId
  /\ Elements(s.evidence) \subseteq Excused \/ ~VisibleSession(s)
  /\ \A r \in sessions : r.id = s.id => Elements(r.evidence) \subseteq Elements(s.evidence) \cup Excused

SessionsHeld ==
  ask.pc = "filter" /\ ask.kind = "sessions" => \A s \in ask.listed : SessionHeld(s)

(* What is summarised afterwards was shown.                                *)
IdHeld(id) ==
  /\ id < nextId
  /\ \A r \in sessions : r.id = id => Elements(r.evidence) \subseteq Excused

SummariesHeld ==
  ask.pc = "summaries" /\ ask.kind = "sessions" /\ ~ask.blind =>
    /\ ask.rows \cup ask.text \subseteq Excused
    /\ \A id \in ask.left : IdHeld(id)
    /\ call # NoCall => call.text \subseteq Excused

Held == AskShape /\ CallHeld /\ RowsHeld /\ SessionsHeld /\ SummariesHeld

ReadsInv == IInv /\ DeletionInv /\ Emptied /\ Held /\ AnswersWereVisible

-----------------------------------------------------------------------------
(* What readers do to the derived layer is what it allows, but for         *)
(* failures that end a request and change nothing else.                    *)
Quiet ==
  /\ UNCHANGED <<source, privacy, derived, ckpt, ghosts, deletes>>
  /\ UNCHANGED run \/ NoRun
  /\ del' = del \/ del' = NoDelete
  /\ call' = call \/ call' = NoCall
  /\ faults' = faults \/ Fault

LEMMA ReadersStep == ReadsNext => Next \/ Quiet
<1>1. FindKeyword \/ FindSemantic \/ AllSummarised \/ InspectFrame \/ Answered => Quiet
  BY DEF FindKeyword, FindSemantic, AllSummarised, InspectFrame, Answered, Quiet, vars
<1>2. ExecuteSemanticQuery \/ ApplySuppressionFilter => Quiet
  BY DEF ExecuteSemanticQuery, ApplySuppressionFilter, Quiet
<1>3. \A kind : Recall(kind) => Flush
  BY DEF Recall, Flush
<1>4. FilterSessions => Quiet
  BY DEF FilterSessions, Quiet
<1>5. EnsureSummary => AskSummary \/ Quiet
  BY DEF EnsureSummary, AskSummary, Row, Quiet
<1>6. SummaryWritten => WriteSummary
  BY DEF SummaryWritten
<1>7. InspectSession => AskSummary \/ Quiet
  BY DEF InspectSession, AskSummary, Quiet
<1>8. Unreadable \/ RestartReading => Quiet
  BY DEF Unreadable, RestartReading, Quiet
<1> QED
  BY <1>1, <1>2, <1>3, <1>4, <1>5, <1>6, <1>7, <1>8 DEF ReadsNext, ReadStep, Others, Next

LEMMA QuietStep ==
  ASSUME IInv, DeletionInv, Quiet
  PROVE  IInv' /\ DeletionInv'
<1>1. UNCHANGED <<clock, upstream, suppressed, tombstones, content, vectors, sessions, nextId,
                  ckpt, gone, late, deletes>>
  BY DEF Quiet, source, privacy, derived, ghosts
<1>2. /\ pc' \in {"idle", "extract", "finish"} /\ todo' \subseteq Frames /\ hand' \in Frames \cup {None}
      /\ prepared' \subseteq Frames /\ held' \subseteq Frames /\ failed' \subseteq prepared'
  BY DEF Quiet, run, NoRun, IInv, TypeOK
<1>3. /\ del' \in [pc : {"idle", "upstream", "rows", "vectors", "bury"}, from : Nat, to : Nat,
                  frames : SUBSET Frames, byRange : BOOLEAN]
      /\ call' \in [id : Nat, text : SUBSET Frames]
  <2>1. /\ NoDelete \in [pc : {"idle", "upstream", "rows", "vectors", "bury"}, from : Nat, to : Nat,
                         frames : SUBSET Frames, byRange : BOOLEAN]
        /\ NoCall \in [id : Nat, text : SUBSET Frames]
    BY DEF NoDelete, NoCall
  <2> QED
    BY <2>1 DEF Quiet, IInv, TypeOK
<1>4. faults' \in 0..MaxFaults
  BY BoundAssumption DEF Quiet, Fault, IInv, TypeOK
<1>5. TypeOK'
  BY <1>1, <1>2, <1>3, <1>4 DEF IInv, TypeOK
<1>6. CallFits'
  BY <1>1 DEF Quiet, CallFits, IInv
<1>7. Sound(sessions, content, nextId)'
  BY <1>1 DEF IInv, Sound, IdsSound, OneOpen
<1>8. InHand' \subseteq InHand
  BY <1>1 DEF Quiet, run, InHand, NoRun
<1>9. Deleting'
  <2>1. CASE del' = del
    BY <1>1, <2>1 DEF DeletionInv, Covers, Deleting, Target
  <2>2. CASE del' = NoDelete
    BY <2>2 DEF Deleting, NoDelete
  <2> QED
    BY <2>1, <2>2 DEF Quiet
<1>10. DeletionInv'
  BY <1>1, <1>8, <1>9 DEF DeletionInv, Covers, Hidden, Target
<1> QED
  BY <1>5, <1>6, <1>7, <1>10 DEF IInv

LEMMA EmptiedStep ==
  ASSUME IInv, DeletionInv, Emptied, Next \/ Quiet
  PROVE  Emptied'
<1>1. /\ clock \in Nat /\ upstream \subseteq Frames /\ \A f \in Frames : Time[f] \in Nat
      /\ \A t \in tombstones : t.to \in Nat /\ t.to <= clock
      /\ del.pc # "idle" => del.to \in Nat /\ del.to <= clock
  BY FrameAssumption DEF IInv, TypeOK, DeletionInv, Covers, Deleting
<1>2. ASSUME UNCHANGED upstream \/ (upstream' \subseteq upstream), tombstones' \subseteq tombstones,
             del' = del \/ del'.pc \in {"idle", "upstream"}
      PROVE  Emptied'
  BY <1>2 DEF Emptied
<1>3. CASE Quiet
  BY <1>2, <1>3 DEF Quiet, source, privacy, NoDelete
<1>4. CASE \/ Flush \/ StartRun \/ Admit \/ Store \/ EmbedAndUpsert \/ Finish \/ Abort \/ Restart
           \/ AskSummary \/ WriteSummary \/ Reconcile \/ CascadeVectors \/ RequestDelete
  <2>1. /\ upstream' = upstream /\ tombstones' \subseteq tombstones
        /\ del' = del \/ del'.pc \in {"idle", "upstream"}
    <3>1. CASE Flush \/ StartRun \/ Admit \/ Store \/ EmbedAndUpsert \/ Finish \/ Abort
      BY <3>1 DEF Flush, StartRun, Admit, Store, EmbedAndUpsert, EmbedAndUpsertOf, Finish, FinishOf,
                  Abort, source, privacy
    <3>2. CASE Restart \/ AskSummary \/ WriteSummary \/ CascadeVectors
      BY <3>2 DEF Restart, AskSummary, WriteSummary, CascadeVectors, NoDelete, source, privacy
    <3>3. CASE Reconcile
      BY <3>3 DEF Reconcile, source
    <3>4. CASE RequestDelete
      BY <3>4 DEF RequestDelete, NoDelete, source
    <3> QED
      BY <1>4, <3>1, <3>2, <3>3, <3>4
  <2> QED
    BY <1>2, <2>1
<1>5. CASE Tick
  <2>1. /\ upstream' = upstream \cup {f \in Frames : Time[f] = clock + 1}
        /\ tombstones' = tombstones /\ del' = del
    BY <1>5 DEF Tick, privacy
  <2>2. ASSUME NEW from, NEW to \in Nat, to <= clock, upstream \cap Within(from, to) = {}
        PROVE  upstream' \cap Within(from, to) = {}
    BY <1>1, <2>1, <2>2 DEF Within
  <2> QED
    BY <1>1, <2>1, <2>2 DEF Emptied
<1>6. CASE DeleteUpstream
  <2>1. /\ upstream' = upstream \ Within(del.from, del.to) /\ tombstones' = tombstones
        /\ del'.from = del.from /\ del'.to = del.to
    BY <1>6 DEF DeleteUpstream, privacy, IInv, TypeOK
  <2> QED
    BY <2>1 DEF Emptied
<1>7. CASE CascadeRows \/ CascadeFails
  <2>1. /\ upstream' = upstream /\ tombstones' = tombstones /\ del.pc \in {"rows", "vectors"}
        /\ del'.from = del.from /\ del'.to = del.to
    BY <1>7 DEF CascadeRows, CascadeFails, source, privacy, IInv, TypeOK
  <2> QED
    BY <2>1 DEF Emptied
<1>8. CASE Bury
  <2> DEFINE new == [from |-> del.from, to |-> del.to, frames |-> del.frames, byRange |-> del.byRange]
  <2>1. /\ upstream' = upstream /\ tombstones' = tombstones \cup {new} /\ del.pc = "bury"
        /\ del'.pc = "idle" /\ new.from = del.from /\ new.to = del.to
    BY <1>8 DEF Bury, source, NoDelete
  <2> HIDE DEF new
  <2> QED
    BY <2>1 DEF Emptied
<1> QED
  BY <1>3, <1>4, <1>5, <1>6, <1>7, <1>8 DEF Next, RunStep, DeleteStep

LEMMA LayerStep ==
  ASSUME IInv, DeletionInv, Emptied, ReadsNext
  PROVE  IInv' /\ DeletionInv' /\ Emptied'
BY ReadersStep, InvariantStep, DeletionStep, QuietStep, EmptiedStep

-----------------------------------------------------------------------------
(* What was excused stays excused, and what is shown is from now on.       *)
LEMMA Remembered ==
  ASSUME ReadsNext, ask'.pc # "idle"
  PROVE  /\ Excused \subseteq Excused' /\ Shown \subseteq Excused' /\ Shown' \subseteq Excused'
         /\ Released \subseteq Excused'
<1>1. witnessed' = witnessed \cup Shown \cup Shown' /\ released' = released \cup Released
  BY DEF ReadsNext, Witness
<1>2. late \subseteq late'
  <2>1. Next => late \subseteq late'
    BY DEF Next, RunStep, DeleteStep, Tick, Flush, StartRun, Admit, Store, EmbedAndUpsert,
           EmbedAndUpsertOf, Finish, FinishOf, Abort, Restart, RequestDelete, DeleteUpstream,
           CascadeRows, CascadeVectors, CascadeFails, Bury, Reconcile, AskSummary, WriteSummary, ghosts
  <2>2. Quiet => late \subseteq late'
    BY DEF Quiet, ghosts
  <2> QED
    BY <2>1, <2>2, ReadersStep
<1> QED
  BY <1>1, <1>2 DEF Excused

(* A row that is found is shown, or hidden by a tombstone.                 *)
LEMMA RowShown ==
  ASSUME NEW f \in content
  PROVE  f \in Shown \/ ~Visible(f)
BY DEF Shown

LEMMA SessionShown ==
  ASSUME NEW s \in sessions
  PROVE  Elements(s.evidence) \subseteq Shown \/ ~VisibleSession(s)
BY DEF Shown

-----------------------------------------------------------------------------
(* Sessions grow by frames that are shown or late.                         *)
LEMMA GrownBy ==
  ASSUME NEW f \in Frames, Sound(sessions, content, nextId), HandleExtraction(f)
  PROVE  \A r \in sessions' :
           \/ r.id = nextId
           \/ \E q \in sessions : r.id = q.id /\ Elements(r.evidence) \subseteq Elements(q.evidence) \cup {f}
<1>1. \A s \in sessions : s \in Session /\ s.evidence \in Seq(Frames)
  BY DEF Sound, RowSound, Session
<1>2. OpenFor(f) \subseteq sessions
  BY DEF OpenFor
<1>3. ASSUME NEW s \in sessions
      PROVE  /\ AppendFrame(s, f).id = s.id
             /\ Elements(AppendFrame(s, f).evidence) = Elements(s.evidence) \cup {f}
  <2>1. AppendFrame(s, f).id = s.id /\ AppendFrame(s, f).evidence = Append(s.evidence, f)
    BY <1>1 DEF AppendFrame, Session
  <2> QED
    BY <1>1, <2>1, ElementsOfAppend
<1>4. \A s \in sessions : [s EXCEPT !.open = FALSE].id = s.id /\ [s EXCEPT !.open = FALSE].evidence = s.evidence
  BY <1>1 DEF Session
<1>5. CreateSession(f).id = nextId
  BY DEF CreateSession
<1>6. CASE \E s \in OpenFor(f) : sessions' = (sessions \ {s}) \cup {AppendFrame(s, f)}
  BY <1>2, <1>3, <1>6
<1>7. CASE sessions' = (sessions \ OpenFor(f)) \cup {[s EXCEPT !.open = FALSE] : s \in OpenFor(f)}
                          \cup {CreateSession(f)}
  BY <1>2, <1>4, <1>5, <1>7
<1> QED
  BY <1>6, <1>7 DEF HandleExtraction

LEMMA FlushedRows ==
  ASSUME Sound(sessions, content, nextId)
  PROVE  \A r \in FlushIdle(sessions) : \E q \in sessions : r.id = q.id /\ r.evidence = q.evidence
<1>1. \A s \in sessions : [s EXCEPT !.open = FALSE].id = s.id /\ [s EXCEPT !.open = FALSE].evidence = s.evidence
  BY DEF Sound, RowSound, Session
<1> QED
  BY <1>1 DEF FlushIdle

LEMMA SummarisedRows ==
  ASSUME NEW status, Sound(sessions, content, nextId)
  PROVE  \A r \in Summarised(sessions, status) : \E q \in sessions : r.id = q.id /\ r.evidence = q.evidence
<1> DEFINE W(s) == [s EXCEPT !.summary = [status |-> status, text |-> call.text]]
<1>1. \A s \in sessions : W(s).id = s.id /\ W(s).evidence = s.evidence
  BY DEF Sound, RowSound, Session
<1>2. \A r \in Summarised(sessions, status) : \E s \in sessions : r = W(s) \/ r = s
  BY DEF Summarised
<1> HIDE DEF W
<1> QED
  BY <1>1, <1>2

(* Of any row after a step: its id is new, or it has grown by nothing but  *)
(* what is excused.                                                        *)
Grown ==
  /\ nextId <= nextId'
  /\ \A r \in sessions' :
       \/ r.id = nextId
       \/ \E q \in sessions : r.id = q.id /\ Elements(r.evidence) \subseteq Elements(q.evidence) \cup Excused'

LEMMA RowsGrow ==
  ASSUME IInv, DeletionInv, Emptied, ReadsNext, Next, ask'.pc # "idle"
  PROVE  Grown
<1>1. nextId \in Nat /\ Sound(sessions, content, nextId)
  BY DEF IInv, TypeOK
<1>2. ASSUME sessions' \subseteq sessions, nextId' = nextId
      PROVE  Grown
  BY <1>1, <1>2 DEF Grown
<1>3. ASSUME \A r \in sessions' : \E q \in sessions : r.id = q.id /\ r.evidence = q.evidence, nextId' = nextId
      PROVE  Grown
  BY <1>1, <1>3 DEF Grown
<1>4. CASE Tick \/ Admit \/ EmbedAndUpsert \/ Finish \/ Abort \/ RequestDelete
           \/ DeleteUpstream \/ CascadeVectors \/ CascadeFails \/ Bury \/ Restart \/ AskSummary
  <2>1. sessions' = sessions /\ nextId' = nextId
    BY <1>4 DEF Tick, Admit, EmbedAndUpsert, EmbedAndUpsertOf, Finish, FinishOf, Abort, RequestDelete,
                DeleteUpstream, CascadeVectors, CascadeFails, Bury, Restart, AskSummary, derived
  <2> QED
    BY <1>2, <2>1
<1>5. CASE CascadeRows \/ Reconcile
  <2>1. sessions' \subseteq sessions /\ nextId' = nextId
    BY <1>5 DEF CascadeRows, Reconcile, DeleteRows
  <2> QED
    BY <1>2, <2>1
<1>6. CASE Flush \/ StartRun
  <2>1. sessions' = FlushIdle(sessions) /\ nextId' = nextId
    BY <1>6 DEF Flush, StartRun
  <2> QED
    BY <1>1, <1>3, <2>1, FlushedRows
<1>7. CASE WriteSummary
  <2>1. \E status : sessions' = Summarised(sessions, status)
    BY <1>7 DEF WriteSummary
  <2>2. nextId' = nextId
    BY <1>7 DEF WriteSummary
  <2> QED
    BY <1>1, <1>3, <2>1, <2>2, SummarisedRows
<1>8. CASE Store
  <2>1. /\ hand \in Frames /\ content' = content \cup {hand} /\ HandleExtraction(hand)
        /\ UNCHANGED <<upstream, tombstones, late>>
    BY <1>8 DEF Store, IInv, TypeOK, None, source, privacy, ghosts
  <2>2. hand \in upstream \cup late
    BY <1>8 DEF Store, DeletionInv, InHand
  <2>3. hand \in Excused'
    <3>1. CASE hand \in late
      BY <2>1, <3>1 DEF Excused
    <3>2. CASE hand \in upstream
      <4>1. \A t \in tombstones' : ~(t.from <= Time[hand] /\ Time[hand] <= t.to)
        BY <2>1, <3>2 DEF Emptied, Within
      <4>2. hand \in Shown'
        BY <2>1, <4>1 DEF Shown, Visible
      <4> QED
        BY <4>2, Remembered
    <3> QED
      BY <2>2, <3>1, <3>2
  <2>4. nextId <= nextId'
    BY <1>1, <2>1, HandleExtractionSound DEF IInv, TypeOK
  <2> QED
    BY <1>1, <2>1, <2>3, <2>4, GrownBy DEF Grown
<1> QED
  BY <1>4, <1>5, <1>6, <1>7, <1>8 DEF Next, RunStep, DeleteStep

LEMMA RowsGrowOrRest ==
  ASSUME IInv, DeletionInv, Emptied, ReadsNext, ask'.pc # "idle"
  PROVE  Grown
<1>1. nextId \in Nat
  BY DEF IInv, TypeOK
<1>2. Quiet => Grown
  BY <1>1 DEF Quiet, derived, Grown
<1> QED
  BY <1>2, RowsGrow, ReadersStep

-----------------------------------------------------------------------------
(* What holds of something the request has read goes on to hold: what a    *)
(* tombstone releases is excused.                                          *)
LEMMA StillHeld ==
  ASSUME IInv, DeletionInv, Emptied, ReadsNext, ask'.pc # "idle"
  PROVE  /\ \A f \in ask.rows : RowHeld(f) => RowHeld(f)'
         /\ \A s \in ask.listed : SessionHeld(s) => SessionHeld(s)'
         /\ \A id \in Nat : IdHeld(id) => IdHeld(id)'
<1>1. /\ Excused \subseteq Excused' /\ Released \subseteq Excused'
      /\ Grown /\ nextId \in Nat /\ nextId' \in Nat
  BY Remembered, RowsGrowOrRest, LayerStep DEF IInv, TypeOK
<1>2. \A f \in ask.rows : RowHeld(f) => RowHeld(f)'
  <2> SUFFICES ASSUME NEW f \in ask.rows, ~Visible(f), Visible(f)'
               PROVE  f \in Released
    BY <1>1 DEF RowHeld
  <2> QED
    BY DEF Released
<1>3. ASSUME NEW s \in ask.listed, SessionHeld(s)
      PROVE  SessionHeld(s)'
  <2>1. s.id \in Nat /\ s.id < nextId'
    BY <1>1, <1>3 DEF SessionHeld, Grown
  <2>2. Elements(s.evidence) \subseteq Excused' \/ ~VisibleSession(s)'
    <3>1. CASE Elements(s.evidence) \subseteq Excused
      BY <1>1, <3>1
    <3>2. CASE ~VisibleSession(s)
      <4>1. VisibleSession(s)' => Elements(s.evidence) \subseteq Released
        BY <3>2 DEF Released
      <4> QED
        BY <1>1, <4>1
    <3> QED
      BY <1>3, <3>1, <3>2 DEF SessionHeld
  <2>3. ASSUME NEW r \in sessions', r.id = s.id
        PROVE  Elements(r.evidence) \subseteq Elements(s.evidence) \cup Excused'
    <3>1. s.id # nextId
      BY <1>1, <1>3 DEF SessionHeld
    <3>2. PICK q \in sessions : r.id = q.id /\ Elements(r.evidence) \subseteq Elements(q.evidence) \cup Excused'
      BY <1>1, <2>3, <3>1 DEF Grown
    <3> QED
      BY <1>1, <1>3, <2>3, <3>2 DEF SessionHeld
  <2> QED
    BY <2>1, <2>2, <2>3 DEF SessionHeld
<1>4. ASSUME NEW id \in Nat, IdHeld(id)
      PROVE  IdHeld(id)'
  <2>1. id < nextId' /\ id # nextId
    BY <1>1, <1>4 DEF IdHeld, Grown
  <2>2. ASSUME NEW r \in sessions', r.id = id
        PROVE  Elements(r.evidence) \subseteq Excused'
    <3>1. PICK q \in sessions : r.id = q.id /\ Elements(r.evidence) \subseteq Elements(q.evidence) \cup Excused'
      BY <1>1, <2>1, <2>2 DEF Grown
    <3> QED
      BY <1>1, <1>4, <2>2, <3>1 DEF IdHeld
  <2> QED
    BY <2>1, <2>2 DEF IdHeld
<1> QED
  BY <1>2, <1>3, <1>4

-----------------------------------------------------------------------------
(* The rest of the system works while the request waits.                   *)
LEMMA WhileOthersWork ==
  ASSUME ReadsInv, ReadsNext, ask' = ask, call' = call, ask.pc # "idle"
  PROVE  Held' /\ AnswersWereVisible'
<1>1. Excused \subseteq Excused'
  BY Remembered
<1>2. /\ \A f \in ask.rows : RowHeld(f) => RowHeld(f)'
      /\ \A s \in ask.listed : SessionHeld(s) => SessionHeld(s)'
      /\ \A id \in Nat : IdHeld(id) => IdHeld(id)'
  BY StillHeld DEF ReadsInv
<1>3. AskShape' /\ CallHeld'
  BY DEF ReadsInv, Held, AskShape, CallHeld
<1>4. RowsHeld'
  BY <1>2 DEF ReadsInv, Held, RowsHeld
<1>5. SessionsHeld'
  BY <1>2 DEF ReadsInv, Held, SessionsHeld
<1>6. SummariesHeld'
  BY <1>1, <1>2 DEF ReadsInv, Held, SummariesHeld, AskShape
<1>7. AnswersWereVisible'
  BY <1>1 DEF ReadsInv, AnswersWereVisible, Answering, Excused
<1> QED
  BY <1>3, <1>4, <1>5, <1>6, <1>7 DEF Held

LEMMA NoRequest ==
  ASSUME ask'.pc = "idle", DOMAIN ask' = DOMAIN NoAsk, call' = NoCall, ask'.left = {}
  PROVE  Held' /\ AnswersWereVisible'
BY DEF Held, AskShape, CallHeld, RowsHeld, SessionsHeld, SummariesHeld, AnswersWereVisible, Answering

(* An answer that says nothing find or recall would: inspect's, or an      *)
(* error.                                                                  *)
LEMMA OtherAnswer ==
  ASSUME ask'.pc = "answered", ask'.kind \notin FindKinds \cup {"sessions"}, call' = NoCall,
         DOMAIN ask' = DOMAIN NoAsk, ask'.left \subseteq Nat
  PROVE  Held' /\ AnswersWereVisible'
BY DEF Held, AskShape, CallHeld, RowsHeld, SessionsHeld, SummariesHeld, AnswersWereVisible, Answering,
       FindKinds

-----------------------------------------------------------------------------
(* The steps of a request.                                                 *)
Fields == {"pc", "kind", "rows", "listed", "left", "text", "blocks", "missing", "truncated", "blind"}

LEMMA AskFields == DOMAIN NoAsk = Fields
BY DEF NoAsk, Fields

(* Rows have been read: each is shown now, or hidden.                      *)
LEMMA RowsRead ==
  ASSUME ReadsInv, ReadsNext, call' = call, call = NoCall, tombstones' = tombstones,
         NEW kind \in FindKinds, NEW rows \in SUBSET content,
         ask'.pc = "filter", ask'.kind = kind, ask'.rows = rows, ask'.text = {}, ask'.left \subseteq Nat,
         DOMAIN ask' = DOMAIN NoAsk
  PROVE  Held' /\ AnswersWereVisible'
<1>1. \A f \in rows : RowHeld(f)'
  BY RowShown, Remembered DEF RowHeld, Visible
<1>2. RowsHeld'
  BY <1>1 DEF RowsHeld
<1>3. kind # "sessions"
  BY DEF FindKinds
<1> QED
  BY <1>2, <1>3 DEF Held, AskShape, CallHeld, SessionsHeld, SummariesHeld, AnswersWereVisible, Answering

LEMMA FindStep ==
  ASSUME ReadsInv, ReadsNext, FindKeyword \/ FindSemantic \/ ExecuteSemanticQuery
  PROVE  Held' /\ AnswersWereVisible'
<1>1. call = NoCall
  BY DEF ReadsInv, Held, CallHeld, FindKeyword, FindSemantic, NewRead, ExecuteSemanticQuery
<1>2. call' = call /\ tombstones' = tombstones
  BY DEF FindKeyword, FindSemantic, ExecuteSemanticQuery, vars, privacy
<1>3. ASSUME NEW kind \in FindKinds, ask' = Rows(kind)
      PROVE  Held' /\ AnswersWereVisible'
  <2>1. /\ ask'.pc = "filter" /\ ask'.kind = kind /\ ask'.rows = Scanned.matched /\ ask'.text = {}
        /\ ask'.left = {} /\ DOMAIN ask' = DOMAIN NoAsk
    BY <1>3 DEF Rows, NoAsk
  <2> QED
    BY <1>1, <1>2, <2>1, ScanFindsRows, RowsRead
<1>4. CASE FindKeyword
  BY <1>3, <1>4 DEF FindKeyword, FindKinds
<1>5. CASE FindSemantic
  <2>1. /\ ask'.pc = "embed" /\ ask'.kind = "semantic" /\ ask'.text = {}
        /\ ask'.left = {} /\ DOMAIN ask' = DOMAIN NoAsk
    BY <1>5 DEF FindSemantic, NoAsk
  <2> QED
    BY <1>1, <1>2, <2>1 DEF Held, AskShape, CallHeld, RowsHeld, SessionsHeld, SummariesHeld,
                            AnswersWereVisible, Answering
<1>6. CASE ExecuteSemanticQuery
  <2>1. CASE ask' = Rows("degraded")
    BY <1>3, <2>1 DEF FindKinds
  <2>2. ASSUME NEW hits, NEW items \in Top(FindLimit, hits \cap content),
               ask' = [ask EXCEPT !.pc = "filter", !.rows = items]
        PROVE  Held' /\ AnswersWereVisible'
    <3>1. items \in SUBSET content
      BY DEF Top
    <3>2. ask.pc = "embed" /\ ask.kind = "semantic" /\ ask.text = {} /\ DOMAIN ask = DOMAIN NoAsk
      BY <1>6 DEF ExecuteSemanticQuery, ReadsInv, Held, AskShape
    <3>3. /\ ask'.pc = "filter" /\ ask'.kind = "semantic" /\ ask'.rows = items /\ ask'.text = {}
          /\ ask'.left \subseteq Nat /\ DOMAIN ask' = DOMAIN NoAsk
      BY <2>2, <3>2, AskFields DEF Fields, ReadsInv, Held, AskShape
    <3> QED
      BY <1>1, <1>2, <3>1, <3>3, RowsRead DEF FindKinds
  <2> QED
    BY <1>6, <2>1, <2>2 DEF ExecuteSemanticQuery
<1> QED
  BY <1>4, <1>5, <1>6

LEMMA FilterStep ==
  ASSUME ReadsInv, ReadsNext, ApplySuppressionFilter
  PROVE  Held' /\ AnswersWereVisible'
<1>1. /\ ask.pc = "filter" /\ ask.kind \in FindKinds /\ ask.text = {} /\ ask.left \subseteq Nat
      /\ call = NoCall /\ call' = call /\ DOMAIN ask = Fields
      /\ \A f \in ask.rows : RowHeld(f)
  BY AskFields DEF ApplySuppressionFilter, ReadsInv, Held, AskShape, CallHeld, RowsHeld, FindKinds
<1>2. /\ ask'.pc = "answered" /\ ask'.kind = ask.kind /\ ask'.text = {} /\ ask'.left \subseteq Nat
      /\ DOMAIN ask' = Fields
      /\ ask'.blind \/ ask'.rows = {f \in ask.rows : Visible(f)}
  BY <1>1 DEF ApplySuppressionFilter, Fields
<1>3. ~ask'.blind => ask'.rows \subseteq Excused'
  BY <1>1, <1>2, Remembered DEF RowHeld
<1>4. Held'
  BY <1>1, <1>2, AskFields DEF Held, AskShape, CallHeld, RowsHeld, SessionsHeld, SummariesHeld
<1>5. AnswersWereVisible'
  BY <1>2, <1>3 DEF AnswersWereVisible, Answering, Excused
<1> QED
  BY <1>4, <1>5

LEMMA RecallStep ==
  ASSUME ReadsInv, IInv', ReadsNext, NEW kind \in {"sessions", "blocks"}, Recall(kind)
  PROVE  Held' /\ AnswersWereVisible'
<1>1. call = NoCall /\ call' = call
  BY DEF ReadsInv, Held, CallHeld, Recall, NewRead
<1>2. /\ ask'.pc = "filter" /\ ask'.kind = kind /\ ask'.text = {} /\ ask'.left = {}
      /\ DOMAIN ask' = DOMAIN NoAsk
      /\ ask'.listed \subseteq sessions'
  BY DEF Recall, NoAsk, ListSessions
<1>3. ASSUME NEW s \in sessions'
      PROVE  SessionHeld(s)'
  <2>1. s.id \in Nat /\ s.id < nextId' /\ \A r \in sessions' : r.id = s.id => r = s
    BY DEF IInv, Sound, IdsSound, RowSound, Session
  <2>2. Elements(s.evidence) \subseteq Excused' \/ ~VisibleSession(s)'
    BY <1>2, SessionShown, Remembered DEF Shown
  <2> QED
    BY <2>1, <2>2 DEF SessionHeld
<1>4. SessionsHeld'
  BY <1>2, <1>3 DEF SessionsHeld
<1> QED
  BY <1>1, <1>2, <1>4 DEF Held, AskShape, CallHeld, RowsHeld, SummariesHeld, AnswersWereVisible, Answering,
                          FindKinds

LEMMA FilterSessionsStep ==
  ASSUME ReadsInv, ReadsNext, FilterSessions
  PROVE  Held' /\ AnswersWereVisible'
<1>1. /\ ask.pc = "filter" /\ ask.text = {} /\ call = NoCall /\ call' = call /\ DOMAIN ask = Fields
      /\ tombstones' = tombstones
      /\ ask.left \subseteq Nat
  BY AskFields DEF FilterSessions, ReadsInv, Held, AskShape, CallHeld, FindKinds, privacy
<1>2. PICK blind \in BOOLEAN :
        LET kept == IF blind THEN ask.listed ELSE {s \in ask.listed : VisibleSession(s)}
            next == [ask EXCEPT !.listed = kept, !.blind = blind]
        IN  ask' = IF ask.kind = "sessions"
                   THEN [next EXCEPT !.pc = "summaries", !.left = {s.id : s \in kept},
                                     !.rows = UNION {Elements(s.evidence) : s \in kept}]
                   ELSE [next EXCEPT !.pc = "answered", !.blocks = Blocks(kept),
                                     !.missing = SumOver(kept, [s \in kept |-> Missing(s)])]
  BY DEF FilterSessions
<1> DEFINE kept == IF blind THEN ask.listed ELSE {s \in ask.listed : VisibleSession(s)}
           next == [ask EXCEPT !.listed = kept, !.blind = blind]
<1>3. /\ DOMAIN next = Fields /\ next.kind = ask.kind /\ next.text = {} /\ next.blind = blind
      /\ next.left \subseteq Nat
  BY <1>1 DEF Fields
<1> HIDE DEF kept, next
<1>4. CASE ask.kind = "blocks"
  <2> DEFINE blocks == Blocks(kept)
             missing == SumOver(kept, [s \in kept |-> Missing(s)])
  <2>1. ask' = [next EXCEPT !.pc = "answered", !.blocks = blocks, !.missing = missing]
    BY <1>2, <1>4 DEF kept, next
  <2> HIDE DEF blocks, missing
  <2>2. /\ ask'.pc = "answered" /\ ask'.kind = "blocks" /\ ask'.left \subseteq Nat /\ DOMAIN ask' = Fields
    BY <1>3, <1>4, <2>1 DEF Fields
  <2> QED
    BY <1>1, <2>2, OtherAnswer, AskFields DEF FindKinds
<1>5. CASE ask.kind = "sessions"
  <2>0. ask'.pc = "summaries"
    BY <1>2, <1>3, <1>5 DEF kept, next, Fields
  <2>1. \A s \in ask.listed : SessionHeld(s) /\ SessionHeld(s)'
    <3>1. \A s \in ask.listed : SessionHeld(s)
      BY <1>1, <1>5 DEF ReadsInv, Held, SessionsHeld
    <3>2. \A s \in ask.listed : SessionHeld(s) => SessionHeld(s)'
      BY <2>0, StillHeld DEF ReadsInv
    <3> QED
      BY <3>1, <3>2
  <2> DEFINE ids == {s.id : s \in kept}
             rows == UNION {Elements(s.evidence) : s \in kept}
  <2>2. ask' = [next EXCEPT !.pc = "summaries", !.left = ids, !.rows = rows]
    BY <1>2, <1>5 DEF kept, next
  <2>3. kept \subseteq ask.listed /\ (~blind => \A s \in kept : VisibleSession(s))
    BY DEF kept
  <2>4. ids \subseteq Nat
    BY <2>1, <2>3 DEF SessionHeld
  <2>5. ASSUME ~blind, NEW s \in kept
        PROVE  Elements(s.evidence) \subseteq Excused' /\ IdHeld(s.id)'
    <3>1. Elements(s.evidence) \subseteq Excused'
      BY <2>1, <2>3, <2>5, Remembered DEF SessionHeld, FilterSessions
    <3> QED
      BY <2>1, <2>3, <3>1 DEF SessionHeld, IdHeld
  <2>6. ~blind => rows \subseteq Excused' /\ \A id \in ids : IdHeld(id)'
    BY <2>5
  <2> HIDE DEF ids, rows
  <2>7. /\ ask'.pc = "summaries" /\ ask'.kind = "sessions" /\ ask'.left = ids /\ ask'.rows = rows
        /\ ask'.text = {} /\ ask'.blind = blind /\ DOMAIN ask' = Fields
    BY <1>3, <1>5, <2>2 DEF Fields
  <2>8. SummariesHeld'
    BY <1>1, <2>6, <2>7 DEF SummariesHeld
  <2> QED
    BY <1>1, <2>4, <2>7, <2>8, AskFields DEF Held, AskShape, CallHeld, RowsHeld, SessionsHeld,
                                            AnswersWereVisible, Answering
<1> QED
  BY <1>4, <1>5 DEF FilterSessions

LEMMA EnsureStep ==
  ASSUME ReadsInv, ReadsNext, EnsureSummary
  PROVE  Held' /\ AnswersWereVisible'
<1>1. /\ ask.pc = "summaries" /\ ask.kind \in {"sessions", "inspect"} /\ ask.left # {}
      /\ ask.left \subseteq Nat /\ call = NoCall /\ DOMAIN ask = Fields
      /\ UNCHANGED <<sessions, content, nextId>>
  BY AskFields DEF EnsureSummary, ReadsInv, Held, AskShape, derived
<1>2. NextSummary \in ask.left
  <2>1. \E id \in ask.left : \A other \in ask.left : id <= other
    BY <1>1, LeastNumber
  <2> QED
    BY <2>1 DEF NextSummary
<1>3. ask.kind = "sessions" /\ ~ask.blind =>
        /\ ask.rows \cup ask.text \subseteq Excused
        /\ \A id \in ask.left : IdHeld(id)
  BY <1>1 DEF ReadsInv, Held, SummariesHeld
<1>4. ask.kind = "sessions" /\ ~ask.blind =>
        \A s \in Row(NextSummary) :
          Elements(s.evidence) \subseteq Excused /\ s.summary.text \subseteq Elements(s.evidence)
  BY <1>2, <1>3 DEF Row, IdHeld, ReadsInv, IInv, Sound, RowSound
<1> DEFINE Waits(left, text) ==
             /\ ask'.pc = "summaries" /\ ask'.kind = ask.kind /\ ask'.blind = ask.blind
             /\ ask'.rows = ask.rows /\ ask'.left = left /\ ask'.text = text
             /\ DOMAIN ask' = Fields
<1>5. ASSUME NEW left \in SUBSET ask.left, NEW text, Waits(left, text),
             ask.kind = "sessions" /\ ~ask.blind => text \subseteq Excused,
             \/ call' = NoCall
             \/ /\ call'.id \in left
                /\ ask.kind = "sessions" /\ ~ask.blind => call'.text \subseteq Excused
      PROVE  Held' /\ AnswersWereVisible'
  <2>1. ask'.pc # "idle"
    BY <1>5
  <2>2. Excused \subseteq Excused' /\ \A id \in Nat : IdHeld(id) => IdHeld(id)'
    BY <2>1, Remembered, StillHeld DEF ReadsInv
  <2>3. SummariesHeld'
    BY <1>1, <1>3, <1>5, <2>2 DEF SummariesHeld
  <2> QED
    BY <1>1, <1>5, <2>3, AskFields DEF Held, AskShape, CallHeld, RowsHeld, SessionsHeld,
                                       AnswersWereVisible, Answering
<1>6. CASE ask' = [ask EXCEPT !.left = @ \ {NextSummary}] /\ call' = call
  <2>1. Waits(ask.left \ {NextSummary}, ask.text)
    BY <1>1, <1>6 DEF Fields
  <2> HIDE DEF Waits
  <2> QED
    BY <1>1, <1>3, <1>5, <1>6, <2>1
<1>7. ASSUME NEW s \in Row(NextSummary),
             ask' = [ask EXCEPT !.left = @ \ {s.id}, !.text = @ \cup s.summary.text], call' = call
      PROVE  Held' /\ AnswersWereVisible'
  <2> DEFINE text == ask.text \cup s.summary.text
  <2>1. Waits(ask.left \ {s.id}, text)
    BY <1>1, <1>7 DEF Fields
  <2>2. ask.kind = "sessions" /\ ~ask.blind => text \subseteq Excused
    BY <1>3, <1>4, <1>7
  <2> HIDE DEF Waits, text
  <2> QED
    BY <1>1, <1>5, <1>7, <2>1, <2>2
<1>8. ASSUME NEW s \in Row(NextSummary),
             call' = [id |-> s.id, text |-> Elements(s.evidence) \cap content], ask' = ask
      PROVE  Held' /\ AnswersWereVisible'
  <2>1. Waits(ask.left, ask.text)
    BY <1>1, <1>8
  <2>2. call'.id \in ask.left
    BY <1>2, <1>8 DEF Row
  <2>3. ask.kind = "sessions" /\ ~ask.blind => call'.text \subseteq Excused
    BY <1>4, <1>8
  <2> HIDE DEF Waits
  <2> QED
    BY <1>3, <1>5, <2>1, <2>2, <2>3
<1> QED
  BY <1>6, <1>7, <1>8 DEF EnsureSummary

LEMMA WrittenStep ==
  ASSUME ReadsInv, ReadsNext, SummaryWritten
  PROVE  Held' /\ AnswersWereVisible'
<1>1. /\ ask.pc = "summaries" /\ ask.kind \in {"sessions", "inspect"} /\ ask.left \subseteq Nat
      /\ call # NoCall /\ call' = NoCall /\ DOMAIN ask = Fields
      /\ ask' = [ask EXCEPT !.left = @ \ {call.id}, !.text = @ \cup call.text]
  BY AskFields DEF SummaryWritten, WriteSummary, ReadsInv, Held, AskShape
<1>2. /\ ask'.pc = "summaries" /\ ask'.kind = ask.kind /\ ask'.blind = ask.blind /\ ask'.rows = ask.rows
      /\ ask'.left \subseteq ask.left /\ ask'.text = ask.text \cup call.text /\ DOMAIN ask' = Fields
  BY <1>1 DEF Fields
<1>3. Excused \subseteq Excused' /\ \A id \in Nat : IdHeld(id) => IdHeld(id)'
  <2>1. ask'.pc # "idle"
    BY <1>2
  <2> QED
    BY <2>1, Remembered, StillHeld DEF ReadsInv
<1>4. ask.kind = "sessions" /\ ~ask.blind =>
        /\ ask.rows \cup ask.text \cup call.text \subseteq Excused
        /\ \A id \in ask.left : IdHeld(id)
  BY <1>1 DEF ReadsInv, Held, SummariesHeld
<1>5. SummariesHeld'
  BY <1>1, <1>2, <1>3, <1>4 DEF SummariesHeld
<1> QED
  BY <1>1, <1>2, <1>5, AskFields DEF Held, AskShape, CallHeld, RowsHeld, SessionsHeld,
                                     AnswersWereVisible, Answering

LEMMA AllSummarisedStep ==
  ASSUME ReadsInv, ReadsNext, AllSummarised
  PROVE  Held' /\ AnswersWereVisible'
<1>1. /\ ask.pc = "summaries" /\ ask.kind \in {"sessions", "inspect"} /\ ask.left = {}
      /\ call = NoCall /\ call' = call /\ DOMAIN ask = Fields
      /\ ask' = [ask EXCEPT !.pc = "answered"]
  BY AskFields DEF AllSummarised, vars, ReadsInv, Held, AskShape, CallHeld
<1>2. /\ ask'.pc = "answered" /\ ask'.kind = ask.kind /\ ask'.blind = ask.blind /\ ask'.rows = ask.rows
      /\ ask'.left = {} /\ ask'.text = ask.text /\ DOMAIN ask' = Fields
  BY <1>1 DEF Fields
<1>3. Excused \subseteq Excused'
  <2>1. ask'.pc # "idle"
    BY <1>2
  <2> QED
    BY <2>1, Remembered
<1>4. ask.kind = "sessions" /\ ~ask.blind => ask.rows \cup ask.text \subseteq Excused
  BY <1>1 DEF ReadsInv, Held, SummariesHeld
<1>5. AnswersWereVisible'
  BY <1>1, <1>2, <1>3, <1>4 DEF AnswersWereVisible, Answering, Excused
<1> QED
  BY <1>1, <1>2, <1>5, AskFields DEF Held, AskShape, CallHeld, RowsHeld, SessionsHeld, SummariesHeld

LEMMA InspectStep ==
  ASSUME ReadsInv, ReadsNext, InspectSession \/ InspectFrame
  PROVE  Held' /\ AnswersWereVisible'
<1>1. call = NoCall
  BY DEF ReadsInv, Held, CallHeld, InspectSession, InspectFrame, NewRead
<1>2. CASE InspectFrame
  <2>1. ask'.pc = "answered" /\ ask'.kind = "frame" /\ ask'.left = {} /\ DOMAIN ask' = DOMAIN NoAsk
    BY <1>2 DEF InspectFrame, NoAsk
  <2> QED
    BY <1>1, <1>2, <2>1, OtherAnswer DEF InspectFrame, vars, FindKinds
<1>3. CASE InspectSession
  <2>1. PICK s \in sessions :
          LET shown == [NoAsk EXCEPT !.kind = "inspect", !.rows = Elements(s.evidence) \cap content]
          IN  \/ ask' = [shown EXCEPT !.pc = "answered", !.text = s.summary.text] /\ call' = call
              \/ /\ ask' = [shown EXCEPT !.pc = "summaries", !.left = {s.id}]
                 /\ call' = [id |-> s.id, text |-> Elements(s.evidence) \cap content]
    BY <1>3 DEF InspectSession
  <2>2. s.id \in Nat
    BY DEF ReadsInv, IInv, Sound, RowSound, Session
  <2> DEFINE shown == [NoAsk EXCEPT !.kind = "inspect", !.rows = Elements(s.evidence) \cap content]
  <2>3. shown.kind = "inspect" /\ shown.left = {} /\ DOMAIN shown = Fields
    BY AskFields DEF NoAsk, Fields
  <2>4. \/ ask' = [shown EXCEPT !.pc = "answered", !.text = s.summary.text] /\ call' = call
        \/ /\ ask' = [shown EXCEPT !.pc = "summaries", !.left = {s.id}]
           /\ call' = [id |-> s.id, text |-> Elements(s.evidence) \cap content]
    BY <2>1
  <2> HIDE DEF shown
  <2>5. \/ /\ ask'.pc = "answered" /\ ask'.kind = "inspect" /\ ask'.left = {} /\ DOMAIN ask' = DOMAIN NoAsk
           /\ call' = call
        \/ /\ ask'.pc = "summaries" /\ ask'.kind = "inspect" /\ ask'.left = {s.id}
           /\ DOMAIN ask' = DOMAIN NoAsk /\ call'.id = s.id
    <3>1. CASE ask' = [shown EXCEPT !.pc = "answered", !.text = s.summary.text] /\ call' = call
      BY <2>3, <3>1, AskFields DEF Fields
    <3>2. CASE /\ ask' = [shown EXCEPT !.pc = "summaries", !.left = {s.id}]
               /\ call' = [id |-> s.id, text |-> Elements(s.evidence) \cap content]
      <4>1. /\ ask'.pc = "summaries" /\ ask'.kind = "inspect" /\ ask'.left = {s.id}
            /\ DOMAIN ask' = DOMAIN NoAsk
        BY <2>3, <3>2, AskFields DEF Fields
      <4>2. call'.id = s.id
        BY <3>2
      <4> QED
        BY <4>1, <4>2
    <3> QED
      BY <2>4, <3>1, <3>2
  <2>6. CASE ask'.pc = "answered"
    BY <1>1, <2>5, <2>6, OtherAnswer DEF FindKinds
  <2>7. CASE ask'.pc = "summaries"
    BY <2>2, <2>5, <2>7 DEF Held, AskShape, CallHeld, RowsHeld, SessionsHeld, SummariesHeld,
                            AnswersWereVisible, Answering
  <2> QED
    BY <2>5, <2>6, <2>7
<1> QED
  BY <1>2, <1>3

LEMMA EndStep ==
  ASSUME ReadsInv, ReadsNext, Answered \/ Unreadable \/ RestartReading
  PROVE  Held' /\ AnswersWereVisible'
<1>1. CASE Answered
  <2>1. call = NoCall /\ call' = call /\ ask' = NoAsk
    BY <1>1 DEF Answered, vars, ReadsInv, Held, CallHeld
  <2> QED
    BY <2>1, NoRequest DEF NoAsk
<1>2. CASE Unreadable
  <2>1. ask'.pc = "answered" /\ ask'.kind = "none" /\ ask'.left = {} /\ DOMAIN ask' = DOMAIN NoAsk /\ call' = NoCall
    BY <1>2 DEF Unreadable, NoAsk
  <2> QED
    BY <2>1, OtherAnswer DEF FindKinds
<1>3. CASE RestartReading
  BY <1>3, NoRequest DEF RestartReading, NoAsk
<1> QED
  BY <1>1, <1>2, <1>3

LEMMA OthersStep ==
  ASSUME ReadsInv, ReadsNext, Others, ask' = ask
  PROVE  Held' /\ AnswersWereVisible'
<1>1. call' = call
  BY DEF Others, Tick, RunStep, StartRun, Admit, Store, EmbedAndUpsert, EmbedAndUpsertOf, Finish, FinishOf,
         Abort, RequestDelete, DeleteStep, DeleteUpstream, CascadeRows, CascadeVectors, CascadeFails,
         Bury, Reconcile
<1>2. CASE ask.pc = "idle"
  BY <1>1, <1>2 DEF ReadsInv, Held, AskShape, CallHeld, RowsHeld, SessionsHeld, SummariesHeld,
                    AnswersWereVisible, Answering
<1>3. CASE ask.pc # "idle"
  BY <1>1, <1>3, WhileOthersWork
<1> QED
  BY <1>2, <1>3

LEMMA ReadsStep == ReadsInv /\ [ReadsNext]_readVars => ReadsInv'
<1> SUFFICES ASSUME ReadsInv, [ReadsNext]_readVars PROVE ReadsInv'
  OBVIOUS
<1>1. CASE ReadsNext
  <2>1. IInv' /\ DeletionInv' /\ Emptied'
    BY <1>1, LayerStep DEF ReadsInv
  <2>2. Held' /\ AnswersWereVisible'
    BY <1>1, <2>1, FindStep, FilterStep, RecallStep, FilterSessionsStep, EnsureStep, WrittenStep,
       AllSummarisedStep, InspectStep, EndStep, OthersStep DEF ReadsNext, ReadStep
  <2> QED
    BY <2>1, <2>2 DEF ReadsInv
<1>2. CASE UNCHANGED readVars
  <2>1. IInv' /\ DeletionInv'
    BY <1>2, DeletionStutter DEF readVars, ReadsInv, IInv, TypeOK, Sound, IdsSound, OneOpen, CallFits, vars,
       source, privacy, derived, run, ghosts
  <2>2. UNCHANGED <<upstream, tombstones, del, call, ask, sessions, nextId, content, vectors, late,
                    witnessed, released>>
    BY <1>2 DEF readVars, vars, source, privacy, derived, ghosts
  <2>3. Emptied'
    BY <2>2 DEF ReadsInv, Emptied
  <2>4. Held'
    BY <2>2 DEF ReadsInv, Held, AskShape, CallHeld, RowsHeld, RowHeld, SessionsHeld, SessionHeld, SummariesHeld,
                IdHeld, Excused, Visible, VisibleSession
  <2>5. AnswersWereVisible'
    BY <2>2 DEF ReadsInv, AnswersWereVisible, Answering
  <2> QED
    BY <2>1, <2>3, <2>4, <2>5 DEF ReadsInv
<1> QED
  BY <1>1, <1>2

LEMMA ReadsInitially == ReadsInit => ReadsInv
<1> SUFFICES ASSUME ReadsInit PROVE ReadsInv
  OBVIOUS
<1>1. Init /\ ask = NoAsk
  BY DEF ReadsInit
<1>2. Emptied
  BY <1>1 DEF Init, Emptied, NoDelete
<1>3. Held /\ AnswersWereVisible
  BY <1>1 DEF Init, Held, AskShape, CallHeld, RowsHeld, SessionsHeld, SummariesHeld, AnswersWereVisible,
              Answering, NoAsk
<1> QED
  BY <1>1, <1>2, <1>3, SoundInit, DeletionInit DEF ReadsInv

(* find and recall tell of nothing that was hidden throughout the request, *)
(* for any number of frames, deletions, cascades that fail, restarts and   *)
(* requests, any limit and page size, whatever the rows and the ranges     *)
(* that hide them do between being read (FindService.find,                 *)
(* RecallService.recall, applySuppressionFilter).                          *)
THEOREM AnswersTheorem == ReadsSpec => []AnswersWereVisible
<1>1. ReadsInv => AnswersWereVisible
  BY DEF ReadsInv
<1> QED
  BY <1>1, ReadsStep, ReadsInitially, PTL DEF ReadsSpec

-----------------------------------------------------------------------------
(* What find returns is the newest rows that match: From is what a scan    *)
(* has seen of a set when it has come down to f.                           *)
From(S, f)     == {g \in S : g >= f}
Above(S, f)    == {g \in S : g > f}
NewestOf(k, S) == {f \in S : Cardinality(Above(S, f)) < k}

LEMMA FramesAreNumbers == Frames \subseteq Nat /\ 0 \notin Frames
BY FrameAssumption DEF Frames

LEMMA Sizes ==
  ASSUME NEW S \in SUBSET Frames
  PROVE  /\ IsFiniteSet(S) /\ Cardinality(S) \in Nat
         /\ \A T \in SUBSET S : Cardinality(T) \in Nat /\ Cardinality(T) <= Cardinality(S)
<1>1. IsFiniteSet(S)
  <2>1. 1 \in Int /\ N \in Int
    BY FrameAssumption
  <2>2. IsFiniteSet(1..N)
    BY <2>1, FS_Interval
  <2> QED
    BY <2>2, FS_Subset DEF Frames
<1>2. \A T \in SUBSET S : IsFiniteSet(T) /\ Cardinality(T) <= Cardinality(S)
  BY <1>1, FS_Subset
<1> QED
  BY <1>1, <1>2, FS_CardinalityType

(* What lies above f begins with a frame, or there is nothing.             *)
LEMMA NextAbove ==
  ASSUME NEW S \in SUBSET Frames, NEW f \in Nat
  PROVE  Above(S, f) = {} \/ \E h \in S : h > f /\ Above(S, f) = From(S, h)
<1> SUFFICES ASSUME Above(S, f) # {} PROVE \E h \in S : h > f /\ Above(S, f) = From(S, h)
  OBVIOUS
<1>1. Above(S, f) \in SUBSET Nat
  BY FramesAreNumbers DEF Above
<1>2. PICK h \in Above(S, f) : \A g \in Above(S, f) : h <= g
  BY <1>1, LeastNumber
<1>3. \A g \in S : g > f <=> g >= h
  <2>1. h \in Nat /\ h > f /\ \A g \in S : g > f => h <= g
    BY <1>1, <1>2 DEF Above
  <2>2. S \subseteq Nat
    BY FramesAreNumbers
  <2> QED
    BY <2>1, <2>2
<1>4. Above(S, f) = From(S, h)
  BY <1>3, Zenon DEF Above, From
<1> QED
  BY <1>2, <1>4 DEF Above

(* A scan that stops at the limit has exactly the newest.                  *)
LEMMA StopsAtLimit ==
  ASSUME NEW S \in SUBSET Frames, NEW e \in S, NEW k \in Nat,
         Cardinality(From(S, e)) >= k, Cardinality(Above(S, e)) < k
  PROVE  From(S, e) = NewestOf(k, S)
<1>1. S \subseteq Nat
  BY FramesAreNumbers
<1>2. ASSUME NEW f \in S, f >= e
      PROVE  Cardinality(Above(S, f)) < k
  <2>1. \A g \in S : g > f => g > e
    BY <1>1, <1>2
  <2>2. Above(S, f) \subseteq Above(S, e) /\ Above(S, e) \in SUBSET Frames
    BY <2>1 DEF Above
  <2> QED
    BY <2>2, Sizes
<1>3. ASSUME NEW f \in S, ~(f >= e)
      PROVE  ~(Cardinality(Above(S, f)) < k)
  <2>1. \A g \in S : g >= e => g > f
    BY <1>1, <1>3
  <2>2. From(S, e) \subseteq Above(S, f) /\ Above(S, f) \in SUBSET Frames
    BY <2>1 DEF Above, From
  <2> QED
    BY <2>2, Sizes
<1> QED
  BY <1>2, <1>3 DEF From, NewestOf

LEMMA AllFit ==
  ASSUME NEW S \in SUBSET Frames, NEW k \in Nat, Cardinality(S) < k
  PROVE  S = NewestOf(k, S)
<1>1. \A f \in S : Above(S, f) \in SUBSET S
  BY DEF Above
<1> QED
  BY <1>1, Sizes DEF NewestOf

(* A page is the newest part of what is left, all of it if it is not full. *)
LEMMA PageOf ==
  ASSUME NEW S \in SUBSET Frames
  PROVE  /\ \A f \in NewestOf(PageSize, S) : From(S, f) \subseteq NewestOf(PageSize, S)
         /\ Cardinality(NewestOf(PageSize, S)) < PageSize => NewestOf(PageSize, S) = S
<1> DEFINE page == NewestOf(PageSize, S)
<1>1. S \subseteq Nat /\ PageSize \in Nat /\ page \in SUBSET S
  BY FramesAreNumbers, ReadAssumption DEF NewestOf
<1>2. ASSUME NEW f \in page, NEW g \in From(S, f)
      PROVE  g \in page
  <2>0. f \in S /\ g \in S /\ g >= f
    BY <1>2 DEF From, NewestOf
  <2>1. Above(S, g) \subseteq Above(S, f) /\ Above(S, f) \in SUBSET Frames
    <3>1. \A h \in S : h > g => h > f
      BY <1>1, <2>0
    <3> QED
      BY <3>1 DEF Above
  <2>2. Cardinality(Above(S, f)) < PageSize
    BY DEF NewestOf
  <2> QED
    BY <1>1, <2>0, <2>1, <2>2, Sizes DEF NewestOf
<1>3. ASSUME Cardinality(page) < PageSize, page # S
      PROVE  FALSE
  <2> DEFINE rest == S \ page
  <2>1. rest # {} /\ rest \in SUBSET (Frames \cup {0})
    BY <1>1, <1>3
  <2>2. Newest(rest) \in rest /\ \A g \in rest : g <= Newest(rest)
    <3> HIDE DEF rest
    <3> QED
      BY <2>1, GreatestFrame
  <2>3. Above(S, Newest(rest)) \subseteq page
    <3>1. \A g \in rest : ~(g > Newest(rest))
      <4>1. Newest(rest) \in Nat /\ \A g \in rest : g \in Nat
        BY <1>1, <2>2
      <4>2. ASSUME NEW g \in rest PROVE ~(g > Newest(rest))
        <5>1. g <= Newest(rest) /\ g \in Nat
          BY <2>2, <4>1
        <5> QED
          BY <4>1, <5>1
      <4> QED
        BY <4>2
    <3> QED
      BY <3>1 DEF Above
  <2>4. Cardinality(Above(S, Newest(rest))) <= Cardinality(page)
    BY <1>1, <2>3, Sizes
  <2>5. ~(Cardinality(Above(S, Newest(rest))) < PageSize)
    BY <2>2 DEF NewestOf
  <2>6. Cardinality(page) \in Nat /\ Cardinality(Above(S, Newest(rest))) \in Nat
    BY <1>1, <2>3, Sizes
  <2> QED
    BY <1>1, <1>3, <2>4, <2>5, <2>6
<1> QED
  BY <1>2, <1>3

-----------------------------------------------------------------------------
(* A scan that has come down to low has found what matches from there on,  *)
(* and has room for more; one that is over has the newest, or has given up.*)
Found == content \cap Matching

Going(scan, low) ==
  /\ ~scan.stop /\ ~scan.truncated
  /\ \A f \in content : Before(f, scan.cursor) <=> f < low
  /\ scan.matched = From(Found, low) /\ Cardinality(scan.matched) < FindLimit

Over(scan) == scan.stop /\ (scan.truncated \/ scan.matched = NewestOf(FindLimit, Found))

LEMMA PageStep ==
  ASSUME content \subseteq Frames, NEW low \in 1..N + 1, NEW scan, Going(scan, low)
  PROVE  \/ Over(ScanPage(scan))
         \/ \E l \in 1..low - 1 : Going(ScanPage(scan), l)
<1> DEFINE older      == {f \in content : Before(f, scan.cursor)}
           page       == FetchPage(scan.cursor)
           upTo(f)    == {g \in page : g >= f}
           limit(f)   == f \in Matching /\ Cardinality(scan.matched \cup (upTo(f) \cap Matching)) >= FindLimit
           tooMany(f) == scan.scanned + Cardinality(upTo(f)) >= ScanLimit
           ends       == {f \in page : limit(f) \/ tooMany(f)}
           read       == {f \in page : \A g \in ends : g <= f}
           after      == ScanPage(scan)
<1>1. /\ after.cursor = IF page = {} THEN scan.cursor ELSE [time |-> Time[First(page)], id |-> First(page)]
      /\ after.matched = scan.matched \cup (read \cap Matching)
      /\ after.truncated = \E f \in read : tooMany(f) /\ ~limit(f)
      /\ after.stop = (ends # {} \/ Cardinality(page) < PageSize)
  BY DEF ScanPage
<1>2. older = {f \in content : f < low} /\ older \in SUBSET Frames /\ Found \in SUBSET Frames
  BY DEF Going, Found
<1>3. page = NewestOf(PageSize, older)
  BY DEF FetchPage, NewestOf, Above
<1>4. /\ page \subseteq older /\ \A f \in page : From(older, f) \subseteq page
      /\ Cardinality(page) < PageSize => page = older
  BY <1>2, <1>3, PageOf DEF NewestOf
<1>5. /\ content \subseteq Nat /\ low \in Nat /\ FindLimit \in Nat \ {0} /\ PageSize \in Nat \ {0} /\ Found \subseteq content
  BY FramesAreNumbers, ReadAssumption, FrameAssumption DEF Found
<1> HIDE DEF older, page, tooMany, after
(* Down to a row of the page, the scan has found what there is.            *)
<1>6. ASSUME NEW f \in page
      PROVE  scan.matched \cup (upTo(f) \cap Matching) = From(Found, f)
  <2>1. f \in content /\ f < low /\ f \in Nat
    BY <1>2, <1>4, <1>5
  <2>2. ASSUME NEW g \in Found
        PROVE  g >= f <=> g >= low \/ g \in upTo(f)
    <3>1. g \in content /\ g \in Nat
      BY <1>5
    <3>2. CASE g >= low
      BY <1>5, <2>1, <3>1, <3>2
    <3>3. CASE g < low
      <4>1. g \in older
        BY <1>2, <3>1, <3>3
      <4>2. g >= f => g \in page
        BY <1>4, <4>1 DEF From
      <4> QED
        BY <1>5, <2>1, <3>1, <3>3, <4>2
    <3> QED
      BY <1>5, <3>1, <3>2, <3>3
  <2>3. upTo(f) \cap Matching \subseteq Found
    BY <1>2, <1>4 DEF Found
  <2>4. \A g \in upTo(f) \cap Matching : g \in upTo(f)
    OBVIOUS
  <2>5. upTo(f) \cap Found = upTo(f) \cap Matching
    BY <1>2, <1>4 DEF Found
  <2> HIDE DEF upTo
  <2> QED
    BY <2>2, <2>3, <2>5, Zenon DEF Going, From
<1>7. \A f \in page : limit(f) <=> f \in Matching /\ Cardinality(From(Found, f)) >= FindLimit
  BY <1>6
<1>8. scan.matched = From(Found, low) /\ Cardinality(scan.matched) < FindLimit
  BY DEF Going
<1>9. \A f : From(Found, f) \in SUBSET Found /\ Cardinality(From(Found, f)) \in Nat
  <2>1. \A f : From(Found, f) \in SUBSET Found
    BY DEF From
  <2> QED
    BY <1>2, <2>1, Sizes
<1> HIDE DEF upTo, limit
(* Short of a row that ends the scan, there is room.                       *)
<1>10. ASSUME NEW f \in page, f \in Matching, f \notin ends
       PROVE  Cardinality(From(Found, f)) < FindLimit
  <2>1. ~limit(f)
    BY <1>10
  <2> QED
    BY <1>5, <1>7, <1>9, <1>10, <2>1
<1>11. CASE ends = {}
  <2>1. read = page /\ ~after.truncated
    BY <1>1, <1>11
  <2>2. after.matched = scan.matched \cup (page \cap Matching)
    BY <1>1, <2>1
  <2>3. CASE Cardinality(page) < PageSize
    <3>0. page = older
      BY <1>4, <2>3
    <3>1. after.matched = Found
      <4>1. \A f \in Found : f >= low \/ f \in page
        BY <1>2, <1>5, <3>0
      <4>2. page \cap Matching \subseteq Found
        BY <1>2, <3>0 DEF Found
      <4>3. Found \subseteq Matching
        BY DEF Found
      <4> QED
        BY <1>8, <2>2, <4>1, <4>2, <4>3 DEF From
    <3>2. Cardinality(Found) < FindLimit
      <4>1. CASE page \cap Matching = {}
        BY <1>8, <2>2, <3>1, <4>1
      <4>2. CASE page \cap Matching # {}
        <5>1. PICK f \in page \cap Matching : \A g \in page \cap Matching : f <= g
          <6>1. page \cap Matching \in SUBSET Nat
            BY <1>2, <1>4, <1>5
          <6> QED
            BY <4>2, <6>1, LeastNumber
        <5>2. \A g \in Found : g >= f
          <6> SUFFICES ASSUME NEW g \in Found PROVE g >= f
            OBVIOUS
          <6>1. f \in Nat /\ f < low /\ g \in Nat
            BY <1>2, <1>4, <1>5
          <6>2. g \in From(Found, low) \/ g \in page \cap Matching
            BY <1>8, <2>2, <3>1
          <6> QED
            BY <1>5, <5>1, <6>1, <6>2 DEF From
        <5>3. From(Found, f) = Found
          BY <5>2 DEF From
        <5> QED
          BY <1>10, <1>11, <5>1, <5>3
      <4> QED
        BY <4>1, <4>2
    <3>3. after.stop /\ after.matched = NewestOf(FindLimit, Found)
      BY <1>1, <1>2, <1>5, <2>3, <3>1, <3>2, AllFit
    <3> QED
      BY <3>3 DEF Over, after
  <2>4. CASE ~(Cardinality(page) < PageSize)
    <3>1. page # {}
      BY <1>5, <2>4, FS_EmptySet
    <3> DEFINE l == First(page)
    <3>2. l \in page /\ \A g \in page : l <= g
      <4>1. \E x \in page : \A y \in page : x <= y
        <5>1. page \in SUBSET Nat
          BY <1>2, <1>4, <1>5
        <5> QED
          BY <3>1, <5>1, LeastNumber
      <4> QED
        BY <4>1 DEF First
    <3>3. after.cursor = [time |-> Time[l], id |-> l] /\ ~after.stop
      BY <1>1, <1>11, <2>4, <3>1
    <3> HIDE DEF l
    <3>4. l \in Frames /\ l \in Nat \ {0} /\ l \in 1..low - 1 /\ l \in content
      <4>1. l \in Frames /\ l \in content /\ l < low
        BY <1>2, <1>4, <3>2
      <4> QED
        BY <1>5, <4>1, FramesAreNumbers
    <3>5. ASSUME NEW f \in content
          PROVE  Before(f, after.cursor) <=> f < l
      <4>1. f \in Frames /\ f \in Nat /\ Time[f] \in Nat /\ Time[l] \in Nat
        BY <1>5, <3>4, FrameAssumption
      <4>2. f < l => Time[f] <= Time[l]
        BY <3>4, <4>1, FrameAssumption
      <4>3. f > l => Time[l] <= Time[f]
        BY <3>4, <4>1, FrameAssumption
      <4>4. Before(f, after.cursor) <=> Time[f] < Time[l] \/ (Time[f] = Time[l] /\ f < l)
        BY <3>3, <3>4 DEF Before
      <4> QED
        BY <3>4, <4>1, <4>2, <4>3, <4>4
    <3>6. after.matched = From(Found, l)
      <4>1. upTo(l) = page
        BY <3>2, <1>2, <1>4, <1>5, <3>4 DEF upTo
      <4> QED
        BY <1>6, <2>2, <3>2, <4>1
    <3>7. Cardinality(after.matched) < FindLimit
      <4>1. CASE page \cap Matching = {}
        BY <1>8, <2>2, <4>1
      <4>2. CASE page \cap Matching # {}
        <5>1. PICK f \in page \cap Matching : \A g \in page \cap Matching : f <= g
          <6>1. page \cap Matching \in SUBSET Nat
            BY <1>2, <1>4, <1>5
          <6> QED
            BY <4>2, <6>1, LeastNumber
        <5>2. f \in Nat /\ f < low /\ f \in page /\ f \in Matching
          BY <1>2, <1>4, <1>5, <5>1
        <5>3. after.matched \subseteq From(Found, f)
          <6> SUFFICES ASSUME NEW g \in after.matched PROVE g \in Found /\ g >= f
            BY DEF From
          <6>1. g \in Found /\ g \in Nat
            BY <1>5, <3>6 DEF From
          <6>2. g \in From(Found, low) \/ g \in page \cap Matching
            BY <1>8, <2>2
          <6> QED
            BY <1>5, <5>1, <5>2, <6>1, <6>2 DEF From
        <5>4. Cardinality(From(Found, f)) < FindLimit
          BY <1>10, <1>11, <5>2
        <5>5. /\ From(Found, f) \in SUBSET Frames /\ Cardinality(From(Found, f)) \in Nat
              /\ Cardinality(after.matched) \in Nat /\ Cardinality(after.matched) <= Cardinality(From(Found, f))
          <6>1. From(Found, f) \in SUBSET Frames
            BY <1>2 DEF From
          <6> QED
            BY <5>3, <6>1, Sizes
        <5> QED
          BY <1>5, <5>4, <5>5
      <4> QED
        BY <4>1, <4>2
    <3> QED
      BY <2>1, <3>3, <3>4, <3>5, <3>6, <3>7 DEF Going, after
  <2> QED
    BY <2>3, <2>4
<1>12. CASE ends # {}
  <2>1. PICK e \in ends : \A g \in ends : g <= e
    <3>1. ends \in SUBSET (Frames \cup {0})
      BY <1>2, <1>4
    <3> HIDE DEF ends
    <3> QED
      BY <1>12, <3>1, GreatestExists
  <2>2. e \in page /\ e \in content /\ e < low /\ e \in Nat /\ page \subseteq Nat
    BY <1>2, <1>4, <1>5, <2>1
  <2>3. \A f \in page : f \in read <=> f >= e
    BY <2>1, <2>2
  <2>4. read = upTo(e) /\ after.stop
    BY <1>1, <1>12, <2>3 DEF upTo
  <2>5. after.matched = From(Found, e)
    BY <1>1, <1>6, <2>2, <2>4
  <2>6. CASE ~limit(e)
    <3>1. tooMany(e) /\ e \in read
      BY <2>1, <2>2, <2>3, <2>6
    <3>2. after.truncated
      BY <1>1, <2>6, <3>1
    <3> QED
      BY <2>4, <3>2 DEF Over, after
  <2>7. CASE limit(e)
    <3>1. e \in Found /\ Cardinality(From(Found, e)) >= FindLimit
      BY <1>7, <2>2, <2>7 DEF Found
    <3>2. Cardinality(Above(Found, e)) < FindLimit
      <4>1. CASE Above(Found, e) = {}
        BY <1>5, <4>1, FS_EmptySet
      <4>2. ASSUME NEW h \in Found, h > e, Above(Found, e) = From(Found, h)
            PROVE  Cardinality(From(Found, h)) < FindLimit
        <5>1. h \in content /\ h \in Nat /\ h \in Matching
          BY <1>5 DEF Found
        <5>2. CASE h < low
          <6>1. h \in older /\ h >= e
            BY <1>2, <2>2, <4>2, <5>1, <5>2
          <6>2. h \in page
            BY <1>4, <2>2, <6>1 DEF From
          <6>3. h \notin ends
            BY <2>1, <2>2, <4>2, <5>1
          <6> QED
            BY <1>10, <5>1, <6>2, <6>3
        <5>3. CASE h >= low
          <6>1. From(Found, h) \subseteq From(Found, low)
            <7>1. \A g \in Found : g >= h => g >= low
              BY <1>5, <5>1, <5>3
            <7> QED
              BY <7>1 DEF From
          <6>2. /\ Cardinality(From(Found, h)) \in Nat /\ Cardinality(From(Found, low)) \in Nat
                /\ Cardinality(From(Found, h)) <= Cardinality(From(Found, low))
            <7>1. From(Found, low) \in SUBSET Frames
              BY <1>2 DEF From
            <7> QED
              BY <6>1, <7>1, Sizes
          <6> QED
            BY <1>5, <1>8, <6>2
        <5> QED
          BY <1>5, <5>1, <5>2, <5>3
      <4> QED
        BY <1>2, <2>2, <4>1, <4>2, NextAbove
    <3>3. after.matched = NewestOf(FindLimit, Found)
      BY <1>2, <1>5, <2>5, <3>1, <3>2, StopsAtLimit
    <3> QED
      BY <2>4, <3>3 DEF Over, after
  <2> QED
    BY <2>6, <2>7
<1> QED
  BY <1>11, <1>12

(* Every page but the last comes down by a frame at least, so N + 1 pages  *)
(* are enough.                                                             *)
LEMMA ScanIsNewest ==
  ASSUME content \subseteq Frames, \A f \in content : Time[f] <= MaxClock
  PROVE  Over(Scanned)
<1> DEFINE scan == CollectKeywordMatches
           Fine(k) == Over(scan[k]) \/ \E l \in 1..(N + 1) - k : Going(scan[k], l)
           wrong == {k \in 0..N + 1 : ~Fine(k)}
<1>1. N \in Nat /\ N + 1 \in Nat
  BY FrameAssumption
<1>2. \A k \in 0..N + 1 : scan[k] = IF k = 0 THEN FirstScan ELSE NextScan(scan[k - 1])
  BY ScanFunction
<1> HIDE DEF scan
<1>3. Fine(0)
  <2>1. \A f \in content : f \in Nat /\ f < N + 1 /\ f \in 1..N /\ Time[f] \in Nat
    BY <1>1, FrameAssumption DEF Frames
  <2>2. /\ FirstScan.cursor.time = MaxClock /\ FirstScan.cursor.id = 0 /\ FirstScan.matched = {}
        /\ ~FirstScan.stop /\ ~FirstScan.truncated
    BY DEF FirstScan, FirstPage
  <2>3. \A f \in content : Before(f, FirstScan.cursor)
    <3>1. MaxClock \in Nat
      BY BoundAssumption
    <3> QED
      BY <2>1, <2>2, <3>1 DEF Before
  <2>4. From(Found, N + 1) = {}
    BY <1>1, <2>1 DEF From, Found
  <2>5. Cardinality({}) < FindLimit
    BY ReadAssumption, FS_EmptySet
  <2>6. Going(FirstScan, N + 1)
    BY <2>1, <2>2, <2>3, <2>4, <2>5 DEF Going
  <2>7. scan[0] = FirstScan /\ N + 1 \in 1..(N + 1) - 0
    BY <1>1, <1>2
  <2> QED
    BY <2>6, <2>7
<1>4. ASSUME NEW k \in 0..N, Fine(k)
      PROVE  Fine(k + 1)
  <2>1. scan[k + 1] = NextScan(scan[k])
    <3>1. k + 1 \in 0..N + 1 /\ k + 1 # 0 /\ (k + 1) - 1 = k
      BY <1>1
    <3> QED
      BY <1>2, <3>1
  <2>2. CASE Over(scan[k])
    BY <2>1, <2>2 DEF Over, NextScan
  <2>3. ASSUME NEW l \in 1..(N + 1) - k, Going(scan[k], l)
        PROVE  Fine(k + 1)
    <3>1. scan[k + 1] = ScanPage(scan[k])
      BY <2>1, <2>3 DEF Going, NextScan
    <3>2. l \in 1..N + 1
      BY <1>1
    <3>3. Over(ScanPage(scan[k])) \/ \E m \in 1..l - 1 : Going(ScanPage(scan[k]), m)
      BY <2>3, <3>2, PageStep
    <3>4. \A m \in 1..l - 1 : m \in 1..(N + 1) - (k + 1)
      BY <1>1
    <3> QED
      BY <3>1, <3>3, <3>4
  <2> QED
    BY <1>4, <2>2, <2>3
<1>5. wrong = {}
  <2> HIDE DEF Fine
  <2> SUFFICES ASSUME wrong # {} PROVE FALSE
    OBVIOUS
  <2>1. PICK k \in wrong : \A m \in wrong : k <= m
    <3>1. wrong \in SUBSET Nat
      BY <1>1
    <3> HIDE DEF wrong
    <3> QED
      BY <3>1, LeastNumber
  <2>2. k # 0 /\ k \in 0..N + 1 /\ ~Fine(k)
    BY <1>3, <2>1
  <2>3. k - 1 \in 0..N /\ k - 1 \in 0..N + 1 /\ (k - 1) + 1 = k /\ k - 1 \notin wrong
    BY <1>1, <2>1, <2>2
  <2>4. Fine(k - 1)
    BY <2>3
  <2> QED
    BY <1>4, <2>2, <2>3, <2>4
<1>6. Fine(N + 1)
  <2>1. N + 1 \in 0..N + 1
    BY <1>1
  <2> HIDE DEF Fine
  <2> QED
    BY <1>5, <2>1
<1>7. 1..(N + 1) - (N + 1) = {}
  BY <1>1
<1> QED
  BY <1>6, <1>7 DEF Scanned, scan

(* The scan begins at the end of time: no row is captured after it.        *)
Clocked ==
  /\ clock <= MaxClock
  /\ \A f \in upstream \cup todo \cup content \cup ({hand} \ {None}) : Time[f] <= clock

LEMMA ClockedStep ==
  ASSUME IInv, Clocked, Next \/ Quiet
  PROVE  Clocked'
<1>1. /\ clock \in Nat /\ MaxClock \in Nat
      /\ upstream \subseteq Frames /\ todo \subseteq Frames /\ content \subseteq Frames
      /\ hand \in Frames \cup {None}
      /\ \A f \in Frames : Time[f] \in Nat
  BY FrameAssumption, BoundAssumption DEF IInv, TypeOK
<1>2. \A S \in SUBSET Frames : S # {} => First(S) \in S
  <2>1. ASSUME NEW S \in SUBSET Frames, S # {} PROVE First(S) \in S
    BY <2>1, LeastFrame DEF First
  <2> QED
    BY <2>1
<1>3. CASE Tick
  <2>1. /\ clock < MaxClock /\ clock' = clock + 1 /\ UNCHANGED <<todo, content, hand>>
        /\ upstream' = upstream \cup {f \in Frames : Time[f] = clock + 1}
    BY <1>3 DEF Tick, derived, run
  <2>2. clock' <= MaxClock /\ clock <= clock'
    BY <1>1, <2>1
  <2>3. ASSUME NEW f \in upstream' \cup todo' \cup content' \cup ({hand'} \ {None})
        PROVE  Time[f] <= clock'
    <3>1. \/ f \in upstream \cup todo \cup content \cup ({hand} \ {None})
          \/ f \in Frames /\ Time[f] = clock + 1
      BY <2>1
    <3>2. f \in Frames
      BY <1>1, <3>1
    <3> QED
      BY <1>1, <2>1, <3>1, <3>2 DEF Clocked
  <2> QED
    BY <2>2, <2>3 DEF Clocked
<1>4. ASSUME UNCHANGED clock,
             upstream' \cup todo' \cup content' \cup ({hand'} \ {None})
               \subseteq upstream \cup todo \cup content \cup ({hand} \ {None})
      PROVE  Clocked'
  BY <1>4 DEF Clocked
<1>5. CASE Flush \/ EmbedAndUpsert \/ Finish \/ Abort \/ Restart \/ RequestDelete \/ DeleteUpstream
           \/ CascadeVectors \/ CascadeFails \/ Bury \/ AskSummary \/ WriteSummary \/ Quiet
  <2>1. UNCHANGED clock /\ upstream' \subseteq upstream /\ todo' \subseteq todo /\ content' = content
        /\ hand' \in {hand, None}
    BY <1>5 DEF Flush, EmbedAndUpsert, EmbedAndUpsertOf, Finish, FinishOf, Abort, Restart, RequestDelete,
       DeleteUpstream, CascadeVectors, CascadeFails, Bury, AskSummary, WriteSummary, Quiet, NoRun,
       source, derived, run
  <2> QED
    BY <1>4, <2>1
<1>6. CASE CascadeRows \/ Reconcile
  <2>1. UNCHANGED <<clock, upstream, todo, hand>> /\ content' \subseteq content
    BY <1>6 DEF CascadeRows, Reconcile, DeleteRows, source, run
  <2> QED
    BY <1>4, <2>1
<1>7. CASE StartRun
  <2>1. UNCHANGED <<clock, upstream, content, hand>> /\ todo' \subseteq upstream
    BY <1>7 DEF StartRun, source
  <2> QED
    BY <1>4, <2>1
<1>8. CASE Admit
  <2>1. UNCHANGED <<clock, upstream, content>> /\ todo' \subseteq todo /\ hand' \in todo \cup {hand}
    BY <1>1, <1>2, <1>8 DEF Admit, source, derived
  <2> QED
    BY <1>4, <2>1
<1>9. CASE Store
  <2>1. UNCHANGED <<clock, upstream, todo>> /\ hand # None /\ content' = content \cup {hand} /\ hand' = None
    BY <1>9 DEF Store, source
  <2> QED
    BY <1>4, <2>1
<1> QED
  BY <1>3, <1>5, <1>6, <1>7, <1>8, <1>9 DEF Next, RunStep, DeleteStep

LEMMA ClockedReads == ReadsSpec => [](IInv /\ Clocked)
<1>1. ReadsInit => Clocked
  <2> SUFFICES ASSUME ReadsInit PROVE Clocked
    OBVIOUS
  <2>1. clock = 0 /\ upstream = {f \in Frames : Time[f] = 0} /\ content = {} /\ todo = {} /\ hand = None
    BY DEF ReadsInit, Init
  <2> QED
    BY <2>1, BoundAssumption DEF Clocked
<1>2. ReadsInv /\ Clocked /\ [ReadsNext]_readVars => Clocked'
  <2>1. ReadsInv /\ Clocked /\ ReadsNext => Clocked'
    BY ReadersStep, ClockedStep DEF ReadsInv
  <2>2. Clocked /\ UNCHANGED readVars => Clocked'
    BY DEF Clocked, readVars, vars, source, derived, run
  <2> QED
    BY <2>1, <2>2
<1>3. ReadsInv => IInv
  BY DEF ReadsInv
<1> QED
  BY <1>1, <1>2, <1>3, ReadsStep, ReadsInitially, PTL DEF ReadsSpec

(* What find by keyword answers is the reference definition: the FindLimit *)
(* newest rows that match, or it says that it gave up, for any number of   *)
(* rows, page size, limit and bound on the scan, and however many rows     *)
(* have the same timestamp where a page ends (collectKeywordMatches,       *)
(* fetchPage).                                                             *)
THEOREM FindsTheorem == ReadsSpec => []FindsNewest
<1>1. IInv /\ Clocked => FindsNewest
  <2> SUFFICES ASSUME IInv, Clocked PROVE FindsNewest
    OBVIOUS
  <2>1. content \subseteq Frames /\ clock \in Nat /\ MaxClock \in Nat /\ clock <= MaxClock
    BY BoundAssumption DEF IInv, TypeOK, Clocked
  <2>2. ASSUME NEW f \in content PROVE Time[f] <= MaxClock
    <3>1. Time[f] \in Nat /\ Time[f] <= clock
      BY <2>1, FrameAssumption DEF Clocked
    <3> QED
      BY <2>1, <3>1
  <2>3. Over(Scanned)
    BY <2>1, <2>2, ScanIsNewest
  <2> QED
    BY <2>3 DEF Over, NewestOf, Above, Found, FindsNewest
<1> QED
  BY <1>1, ClockedReads, PTL

-----------------------------------------------------------------------------
(***************************************************************************)
(* The blocks of recall add up.  A sum is a recursive function; what the   *)
(* proof needs of it is that a table adds up to the same by rows and by    *)
(* columns.  A piece of evidence counts in one block, so the blocks of a   *)
(* session add up to what its evidence counts; the gaps between what has a *)
(* row are at most the time of the session, and are exactly that if        *)
(* nothing is missing.                                                     *)

(* Counting up to a number.                                                *)
LEMMA CountingUp ==
  ASSUME NEW n \in Nat, NEW S, 0 \in S,
         \A k \in 1..n : k - 1 \in S => k \in S
  PROVE  0..n \subseteq S
<1> DEFINE wrong == {k \in 0..n : k \notin S}
<1> SUFFICES ASSUME wrong # {} PROVE FALSE
  OBVIOUS
<1>1. PICK k \in wrong : \A m \in wrong : k <= m
  <2>1. wrong \in SUBSET Nat
    OBVIOUS
  <2> HIDE DEF wrong
  <2> QED
    BY <2>1, LeastNumber
<1>2. k \in 1..n /\ k \notin S
  BY <1>1
<1>3. k - 1 \in 0..n /\ k - 1 \notin wrong
  BY <1>1, <1>2
<1> QED
  BY <1>2, <1>3

(* The sum as the function it defines.                                     *)
Sums(n, f, g) == g = [k \in 0..n |-> IF k = 0 THEN 0 ELSE g[k - 1] + f[k]]

LEMMA SumsExist ==
  ASSUME NEW n \in Nat, NEW f
  PROVE  \E g : Sums(n, f, g)
<1> DEFINE S == {k \in 0..n : \E g : Sums(k, f, g)}
<1>1. 0 \in S
  <2>1. Sums(0, f, [k \in 0..0 |-> 0])
    BY DEF Sums
  <2> QED
    BY <2>1
<1>2. ASSUME NEW m \in 1..n, m - 1 \in S
      PROVE  m \in S
  <2>1. PICK g : Sums(m - 1, f, g)
    BY <1>2
  <2> DEFINE h == [k \in 0..m |-> IF k = m THEN g[m - 1] + f[m] ELSE g[k]]
  <2>2. ASSUME NEW k \in 0..m
        PROVE  h[k] = IF k = 0 THEN 0 ELSE h[k - 1] + f[k]
    <3>1. CASE k = m
      <4>1. h[k] = g[m - 1] + f[m] /\ h[k - 1] = g[m - 1]
        BY <3>1
      <4> QED
        BY <3>1, <4>1
    <3>2. CASE k # m
      <4>1. k \in 0..m - 1 /\ h[k] = g[k] /\ (k # 0 => k - 1 \in 0..m - 1 /\ h[k - 1] = g[k - 1])
        BY <3>2
      <4>2. g[k] = IF k = 0 THEN 0 ELSE g[k - 1] + f[k]
        BY <2>1, <4>1 DEF Sums
      <4> QED
        BY <4>1, <4>2
    <3> QED
      BY <3>1, <3>2
  <2>3. h = [k \in 0..m |-> h[k]]
    OBVIOUS
  <2> HIDE DEF h
  <2>4. Sums(m, f, h)
    BY <2>2, <2>3 DEF Sums
  <2> QED
    BY <2>4
<1> HIDE DEF S
<1>3. 0..n \subseteq S
  BY <1>1, <1>2, CountingUp
<1> QED
  BY <1>3 DEF S

LEMMA SumsAgree ==
  ASSUME NEW n \in Nat, NEW m \in 0..n, NEW f, NEW g, NEW h, Sums(m, f, g), Sums(n, f, h)
  PROVE  g[m] = h[m]
<1> DEFINE S == {k \in 0..m : g[k] = h[k]}
<1>1. 0 \in S
  <2>1. g[0] = 0 /\ h[0] = 0
    BY DEF Sums
  <2> QED
    BY <2>1
<1>2. ASSUME NEW k \in 1..m, k - 1 \in S
      PROVE  k \in S
  <2>1. k \in 0..m /\ k \in 0..n /\ k # 0
    OBVIOUS
  <2>2. g[k] = g[k - 1] + f[k]
    BY <2>1 DEF Sums
  <2>3. h[k] = h[k - 1] + f[k]
    BY <2>1 DEF Sums
  <2> QED
    BY <1>2, <2>1, <2>2, <2>3
<1> HIDE DEF S
<1>3. 0..m \subseteq S
  BY <1>1, <1>2, CountingUp
<1> QED
  BY <1>3 DEF S

LEMMA TotalIs ==
  ASSUME NEW n \in Nat, NEW f
  PROVE  \E g : Sums(n, f, g) /\ Total(n, f) = g[n]
<1> DEFINE g == CHOOSE h : Sums(n, f, h)
<1>1. Sums(n, f, g)
  BY SumsExist
<1>2. Total(n, f) = g[n]
  BY DEF Total, Sums
<1> HIDE DEF g
<1> QED
  BY <1>1, <1>2

(* The empty sum, and the sum of one more.                                 *)
LEMMA TotalNone ==
  ASSUME NEW f
  PROVE  Total(0, f) = 0
<1>1. PICK g : Sums(0, f, g) /\ Total(0, f) = g[0]
  BY TotalIs
<1> QED
  BY <1>1 DEF Sums

LEMMA TotalNext ==
  ASSUME NEW n \in Nat, n # 0, NEW f
  PROVE  Total(n, f) = Total(n - 1, f) + f[n]
<1>0. n - 1 \in Nat /\ n - 1 \in 0..n /\ n \in 0..n
  OBVIOUS
<1>1. PICK g : Sums(n, f, g) /\ Total(n, f) = g[n]
  BY TotalIs
<1>2. PICK h : Sums(n - 1, f, h) /\ Total(n - 1, f) = h[n - 1]
  BY <1>0, TotalIs
<1>3. h[n - 1] = g[n - 1]
  BY <1>0, <1>1, <1>2, SumsAgree
<1>4. g[n] = g[n - 1] + f[n]
  BY <1>0, <1>1 DEF Sums
<1> QED
  BY <1>1, <1>2, <1>3, <1>4

LEMMA TotalType ==
  ASSUME NEW n \in Nat, NEW f, \A k \in 1..n : f[k] \in Int
  PROVE  \A k \in 0..n : Total(k, f) \in Int
<1> DEFINE S == {k \in 0..n : Total(k, f) \in Int}
<1>1. 0 \in S
  BY TotalNone
<1>2. ASSUME NEW k \in 1..n, k - 1 \in S
      PROVE  k \in S
  <2>1. k \in Nat /\ k # 0
    OBVIOUS
  <2>2. Total(k, f) = Total(k - 1, f) + f[k]
    BY <2>1, TotalNext
  <2> QED
    BY <1>2, <2>2
<1> HIDE DEF S
<1>3. 0..n \subseteq S
  BY <1>1, <1>2, CountingUp
<1> QED
  BY <1>3 DEF S

(* Sums of naturals: every part is nothing if the whole is.                *)
LEMMA TotalZero ==
  ASSUME NEW n \in Nat, NEW f, \A k \in 1..n : f[k] \in Nat
  PROVE  Total(n, f) \in Nat /\ (Total(n, f) = 0 => \A k \in 1..n : f[k] = 0)
<1> DEFINE S == {k \in 0..n : Total(k, f) \in Nat /\ (Total(k, f) = 0 => \A j \in 1..k : f[j] = 0)}
<1>1. 0 \in S
  BY TotalNone
<1>2. ASSUME NEW k \in 1..n, k - 1 \in S
      PROVE  k \in S
  <2>1. k \in Nat /\ k # 0
    OBVIOUS
  <2>2. Total(k, f) = Total(k - 1, f) + f[k]
    BY <2>1, TotalNext
  <2>3. Total(k - 1, f) \in Nat /\ (Total(k - 1, f) = 0 => \A j \in 1..k - 1 : f[j] = 0)
    BY <1>2
  <2>4. Total(k, f) \in Nat /\ (Total(k, f) = 0 => Total(k - 1, f) = 0 /\ f[k] = 0)
    BY <2>2, <2>3
  <2>5. \A j \in 1..k : j = k \/ j \in 1..k - 1
    OBVIOUS
  <2> QED
    BY <2>3, <2>4, <2>5
<1> HIDE DEF S
<1>3. n \in S
  BY <1>1, <1>2, CountingUp
<1> QED
  BY <1>3 DEF S

LEMMA TotalOfSums ==
  ASSUME NEW n \in Nat, NEW f, NEW g, NEW h,
         \A k \in 1..n : f[k] \in Int /\ g[k] \in Int /\ h[k] = f[k] + g[k]
  PROVE  Total(n, h) = Total(n, f) + Total(n, g)
<1> DEFINE S == {k \in 0..n : Total(k, h) = Total(k, f) + Total(k, g)}
<1>1. 0 \in S
  BY TotalNone
<1>2. ASSUME NEW k \in 1..n, k - 1 \in S
      PROVE  k \in S
  <2>1. k \in Nat /\ k # 0 /\ k - 1 \in 0..n
    OBVIOUS
  <2>2. /\ Total(k, f) = Total(k - 1, f) + f[k]
        /\ Total(k, g) = Total(k - 1, g) + g[k]
        /\ Total(k, h) = Total(k - 1, h) + h[k]
    BY <2>1, TotalNext
  <2>3. Total(k - 1, f) \in Int /\ Total(k - 1, g) \in Int
    BY <2>1, TotalType
  <2> QED
    BY <1>2, <2>2, <2>3
<1> HIDE DEF S
<1>3. n \in S
  BY <1>1, <1>2, CountingUp
<1> QED
  BY <1>3 DEF S

LEMMA TotalAtMost ==
  ASSUME NEW n \in Nat, NEW f, NEW g,
         \A k \in 1..n : f[k] \in Int /\ g[k] \in Int /\ f[k] <= g[k]
  PROVE  Total(n, f) <= Total(n, g)
<1> DEFINE S == {k \in 0..n : Total(k, f) <= Total(k, g)}
<1>1. 0 \in S
  BY TotalNone
<1>2. ASSUME NEW k \in 1..n, k - 1 \in S
      PROVE  k \in S
  <2>1. k \in Nat /\ k # 0 /\ k - 1 \in 0..n
    OBVIOUS
  <2>2. /\ Total(k, f) = Total(k - 1, f) + f[k]
        /\ Total(k, g) = Total(k - 1, g) + g[k]
    BY <2>1, TotalNext
  <2>3. Total(k - 1, f) \in Int /\ Total(k - 1, g) \in Int
    BY <2>1, TotalType
  <2> QED
    BY <1>2, <2>2, <2>3
<1> HIDE DEF S
<1>3. n \in S
  BY <1>1, <1>2, CountingUp
<1> QED
  BY <1>3 DEF S

LEMMA TotalSame ==
  ASSUME NEW n \in Nat, NEW f, NEW g, \A k \in 1..n : f[k] = g[k]
  PROVE  Total(n, f) = Total(n, g)
<1> DEFINE S == {k \in 0..n : Total(k, f) = Total(k, g)}
<1>1. 0 \in S
  BY TotalNone
<1>2. ASSUME NEW k \in 1..n, k - 1 \in S
      PROVE  k \in S
  <2>1. k \in Nat /\ k # 0 /\ k - 1 \in 0..n
    OBVIOUS
  <2>2. /\ Total(k, f) = Total(k - 1, f) + f[k]
        /\ Total(k, g) = Total(k - 1, g) + g[k]
    BY <2>1, TotalNext
  <2> QED
    BY <1>2, <2>2
<1> HIDE DEF S
<1>3. n \in S
  BY <1>1, <1>2, CountingUp
<1> QED
  BY <1>3 DEF S

(* Nothing but one part.                                                   *)
LEMMA TotalOfOne ==
  ASSUME NEW n \in Nat, NEW b \in 1..n, NEW v \in Int, NEW f,
         \A k \in 1..n : f[k] = IF b = k THEN v ELSE 0
  PROVE  Total(n, f) = v
<1> DEFINE S == {k \in 0..n : Total(k, f) = IF b <= k THEN v ELSE 0}
<1>1. 0 \in S
  BY TotalNone
<1>2. ASSUME NEW k \in 1..n, k - 1 \in S
      PROVE  k \in S
  <2>1. k \in Nat /\ k # 0 /\ k - 1 \in 0..n
    OBVIOUS
  <2>2. Total(k, f) = Total(k - 1, f) + f[k]
    BY <2>1, TotalNext
  <2> QED
    BY <1>2, <2>2
<1> HIDE DEF S
<1>3. n \in S
  BY <1>1, <1>2, CountingUp
<1> QED
  BY <1>3 DEF S

LEMMA TotalOfNothing ==
  ASSUME NEW n \in Nat, NEW f, \A k \in 1..n : f[k] = 0
  PROVE  Total(n, f) = 0
<1> DEFINE S == {k \in 0..n : Total(k, f) = 0}
<1>1. 0 \in S
  BY TotalNone
<1>2. ASSUME NEW k \in 1..n, k - 1 \in S
      PROVE  k \in S
  <2>1. k \in Nat /\ k # 0
    OBVIOUS
  <2>2. Total(k, f) = Total(k - 1, f) + f[k]
    BY <2>1, TotalNext
  <2> QED
    BY <1>2, <2>2
<1> HIDE DEF S
<1>3. n \in S
  BY <1>1, <1>2, CountingUp
<1> QED
  BY <1>3 DEF S

(* A table adds up to the same by rows and by columns.                     *)
Table(m, n, row, column) ==
  \A i \in 1..m, j \in 1..n : row[i][j] \in Int /\ column[j][i] = row[i][j]
Totals(m, n, row, r) == \A i \in 1..m : r[i] = Total(n, row[i])

LEMMA TotalSwapped ==
  ASSUME NEW m \in Nat, NEW n \in Nat, NEW row, NEW column, NEW r, NEW c,
         Table(m, n, row, column), Totals(m, n, row, r), Totals(n, m, column, c)
  PROVE  Total(m, r) = Total(n, c)
<1>0. /\ \A i \in 1..m, j \in 1..n : row[i][j] \in Int /\ column[j][i] = row[i][j]
      /\ \A i \in 1..m : r[i] = Total(n, row[i])
      /\ \A j \in 1..n : c[j] = Total(m, column[j])
  BY DEF Table, Totals
<1> DEFINE upTo(k) == [j \in 1..n |-> Total(k, column[j])]
           S == {k \in 0..m : Total(k, r) = Total(n, upTo(k))}
<1>1. 0 \in S
  <2>1. \A j \in 1..n : upTo(0)[j] = 0
    BY TotalNone
  <2>2. Total(0, r) = 0
    BY TotalNone
  <2> HIDE DEF upTo
  <2>3. Total(n, upTo(0)) = 0
    BY <2>1, TotalOfNothing
  <2> QED
    BY <2>2, <2>3
<1>2. ASSUME NEW k \in 1..m, k - 1 \in S
      PROVE  k \in S
  <2>1. k \in Nat /\ k # 0 /\ k - 1 \in 0..m
    OBVIOUS
  <2>2. ASSUME NEW j \in 1..n
        PROVE  /\ upTo(k - 1)[j] \in Int /\ row[k][j] \in Int
               /\ upTo(k)[j] = upTo(k - 1)[j] + row[k][j]
    <3>1. Total(k, column[j]) = Total(k - 1, column[j]) + column[j][k]
      BY <2>1, TotalNext
    <3>2. \A i \in 1..m : column[j][i] \in Int
      BY <1>0
    <3>3. Total(k - 1, column[j]) \in Int
      BY <2>1, <3>2, TotalType
    <3> QED
      BY <1>0, <3>1, <3>3
  <2> HIDE DEF upTo
  <2>3. Total(n, upTo(k)) = Total(n, upTo(k - 1)) + Total(n, row[k])
    <3>1. PICK f, g, h : f = upTo(k - 1) /\ g = row[k] /\ h = upTo(k)
      OBVIOUS
    <3>2. \A j \in 1..n : f[j] \in Int /\ g[j] \in Int /\ h[j] = f[j] + g[j]
      BY <2>2, <3>1
    <3> QED
      BY <3>1, <3>2, TotalOfSums
  <2>4. Total(k, r) = Total(k - 1, r) + r[k]
    BY <2>1, TotalNext
  <2> QED
    BY <1>0, <1>2, <2>3, <2>4
<1> HIDE DEF S
<1>3. m \in S
  BY <1>1, <1>2, CountingUp
<1>4. Total(m, r) = Total(n, upTo(m))
  BY <1>3 DEF S
<1>5. \A j \in 1..n : upTo(m)[j] = c[j]
  BY <1>0
<1> HIDE DEF upTo
<1>6. Total(n, upTo(m)) = Total(n, c)
  BY <1>5, TotalSame
<1> QED
  BY <1>4, <1>6

LEMMA BlockNumbers ==
  ASSUME NEW x \in Nat, NEW y \in Nat, x <= y
  PROVE  BucketOf(x) \in 1..BucketOf(y)
<1>0. Bucket \in Nat /\ Bucket > 0
  BY ReadAssumption
<1> DEFINE q == x \div Bucket
           r == y \div Bucket
<1>1. q \in Nat /\ r \in Nat
  BY <1>0
<1>2. q * Bucket <= x /\ y < (r + 1) * Bucket
  BY <1>0
<1> HIDE DEF q, r
<1>3. q <= r
  <2> SUFFICES ASSUME r + 1 <= q PROVE FALSE
    BY <1>1
  <2>1. (r + 1) * Bucket <= q * Bucket
    BY <1>0, <1>1
  <2> QED
    BY <1>0, <1>1, <1>2, <2>1
<1> QED
  BY <1>1, <1>3 DEF BucketOf, q, r

(* The time of a session's evidence.                                       *)
At(s, i) == Time[s.evidence[i]]

Timely(s) == RowSound(s, Frames) /\ \A f \in Elements(s.evidence) : Time[f] <= MaxClock

LEMMA RowTimes ==
  ASSUME NEW s, Timely(s)
  PROVE  /\ Len(s.evidence) \in Nat /\ Len(s.evidence) # 0
         /\ \A i \in 1..Len(s.evidence) : At(s, i) \in Nat /\ At(s, i) <= MaxClock
         /\ \A i \in 1..Len(s.evidence), j \in 1..Len(s.evidence) : i <= j => At(s, i) <= At(s, j)
         /\ \A i \in 1..Len(s.evidence) - 1 : At(s, i + 1) - At(s, i) <= Idle
         /\ StartedAt(s) = At(s, 1) /\ EndedAt(s) = At(s, Len(s.evidence))
         /\ s.active = At(s, Len(s.evidence)) - At(s, 1)
<1> DEFINE n == Len(s.evidence)
<1>0. s.evidence \in Seq(Frames) /\ s.evidence # <<>> /\ s.active = EndedAt(s) - StartedAt(s)
  BY DEF Timely, RowSound, Session
<1>1. n \in Nat /\ n # 0
  BY <1>0
<1>2. StartedAt(s) = At(s, 1) /\ EndedAt(s) = At(s, n)
  BY <1>0 DEF StartedAt, EndedAt, At, Last
<1>3. \A i \in 1..n : s.evidence[i] \in Frames /\ s.evidence[i] \in Elements(s.evidence)
  BY <1>0 DEF Elements
<1>4. \A i \in 1..n : At(s, i) \in Nat /\ At(s, i) <= MaxClock
  BY <1>3, FrameAssumption DEF At, Timely
<1>5. \A i \in 1..n - 1 : 0 <= At(s, i + 1) - At(s, i) /\ At(s, i + 1) - At(s, i) <= Idle
  BY DEF Timely, RowSound, At
<1> HIDE DEF n
<1>6. ASSUME NEW i \in 1..n PROVE \A j \in 1..n : i <= j => At(s, i) <= At(s, j)
  <2> DEFINE S == {k \in 0..n - i : At(s, i) <= At(s, i + k)}
  <2>1. 0 \in S
    BY <1>1, <1>4
  <2>2. n - i \in Nat
    BY <1>1
  <2>3. ASSUME NEW k \in 1..n - i, k - 1 \in S
        PROVE  k \in S
    <3>1. i + (k - 1) \in 1..n - 1 /\ (i + (k - 1)) + 1 = i + k /\ i + k \in 1..n
      BY <1>1
    <3>2. i + (k - 1) \in 1..n
      BY <1>1
    <3>3. At(s, i + (k - 1)) \in Nat /\ At(s, i + k) \in Nat /\ At(s, i) \in Nat
      BY <1>4, <3>1, <3>2
    <3>4. 0 <= At(s, i + k) - At(s, i + (k - 1))
      BY <1>5, <3>1
    <3>5. At(s, i) <= At(s, i + (k - 1))
      BY <2>3
    <3>6. k \in 0..n - i
      BY <1>1
    <3> QED
      BY <3>3, <3>4, <3>5, <3>6
  <2> HIDE DEF S
  <2>4. 0..n - i \subseteq S
    BY <2>1, <2>2, <2>3, CountingUp
  <2>5. ASSUME NEW j \in 1..n, i <= j PROVE At(s, i) <= At(s, j)
    <3>1. j - i \in 0..n - i /\ i + (j - i) = j
      BY <1>1, <2>5
    <3>2. At(s, i) <= At(s, i + (j - i))
      BY <2>4, <3>1 DEF S
    <3> QED
      BY <3>1, <3>2
  <2> QED
    BY <2>5
<1> QED
  BY <1>0, <1>1, <1>2, <1>4, <1>5, <1>6 DEF n

(* What comes after: the next frame, if there is one.                      *)
LEMMA NextFetched ==
  ASSUME NEW s, Timely(s), NEW i \in 1..Len(s.evidence)
  PROVE  /\ Fetched(s, i) => Later(s, i - 1) # {} /\ First(Later(s, i - 1)) = i
         /\ ~Fetched(s, i) => Later(s, i - 1) = Later(s, i)
         /\ Later(s, i) # {} =>
              /\ First(Later(s, i)) \in i + 1..Len(s.evidence)
              /\ Slice(s, i) \in Nat /\ Slice(s, i) <= At(s, First(Later(s, i))) - At(s, i)
         /\ Later(s, i) = {} => Slice(s, i) = 1
<1> DEFINE n == Len(s.evidence)
<1>0. n \in Nat /\ n # 0 /\ i \in 1..n /\ (i - 1) + 1 = i
  BY RowTimes
<1>1. \A j : j \in (i - 1) + 1..n <=> j = i \/ j \in i + 1..n
  BY <1>0
<1>2. Fetched(s, i) => Later(s, i - 1) = {i} \cup Later(s, i)
  BY <1>1 DEF Later
<1>3. ~Fetched(s, i) => Later(s, i - 1) = Later(s, i)
  BY <1>1 DEF Later
<1>4. \A j \in Later(s, i) : i <= j /\ j \in i + 1..n /\ j \in Nat
  BY <1>0 DEF Later
<1>5. ASSUME Fetched(s, i) PROVE First(Later(s, i - 1)) = i
  <2>1. \A j \in {i} \cup Later(s, i) : i <= j /\ j \in Nat
    BY <1>0, <1>4
  <2>2. i \in Later(s, i - 1) /\ \A j \in Later(s, i - 1) : i <= j /\ j \in Nat
    BY <1>2, <1>5, <2>1
  <2>3. \A k \in Later(s, i - 1) : k <= i => k = i
    BY <1>0, <2>2
  <2> QED
    BY <2>2, <2>3 DEF First
<1>6. ASSUME Later(s, i) # {} PROVE First(Later(s, i)) \in Later(s, i)
  <2>1. Later(s, i) \in SUBSET Nat
    BY <1>4
  <2>2. \E x \in Later(s, i) : \A y \in Later(s, i) : x <= y
    BY <1>6, <2>1, LeastNumber
  <2> QED
    BY <2>2 DEF First
<1>7. ASSUME Later(s, i) # {}
      PROVE  Slice(s, i) \in Nat /\ Slice(s, i) <= At(s, First(Later(s, i))) - At(s, i)
  <2>1. PICK j : j = First(Later(s, i))
    OBVIOUS
  <2>2. j \in 1..n /\ i <= j
    BY <1>0, <1>4, <1>6, <1>7, <2>1
  <2>3. At(s, j) \in Nat /\ At(s, i) \in Nat /\ At(s, i) <= At(s, j)
    BY <1>0, <2>2, RowTimes
  <2>4. GapAfter(s, i) = At(s, j) - At(s, i)
    BY <2>1 DEF GapAfter, At
  <2>5. Slice(s, i) = IF At(s, j) - At(s, i) > Idle THEN Idle ELSE At(s, j) - At(s, i)
    BY <1>7, <2>4 DEF Slice
  <2>6. Slice(s, i) \in Nat /\ Slice(s, i) <= At(s, j) - At(s, i)
    BY <2>3, <2>5, BoundAssumption
  <2> QED
    BY <2>1, <2>6
<1>8. Later(s, i) = {} => Slice(s, i) = 1
  BY DEF Slice
<1>9. Fetched(s, i) => Later(s, i - 1) # {}
  BY <1>2
<1> QED
  BY <1>3, <1>4, <1>5, <1>6, <1>7, <1>8, <1>9

SecondsOf(s) == [i \in 1..Len(s.evidence) |-> Seconds(s, i)]
MissingOf(s) == [i \in 1..Len(s.evidence) |-> IF Fetched(s, i) THEN 0 ELSE 1]

LEMMA EachCounts ==
  ASSUME NEW s, Timely(s)
  PROVE  \A i \in 1..Len(s.evidence) :
           /\ SecondsOf(s)[i] = Seconds(s, i) /\ Seconds(s, i) \in Nat
           /\ MissingOf(s)[i] = (IF Fetched(s, i) THEN 0 ELSE 1)
           /\ CountsIn(s, i) \in 1..LastBlock
<1> SUFFICES ASSUME NEW i \in 1..Len(s.evidence)
             PROVE  /\ SecondsOf(s)[i] = Seconds(s, i) /\ Seconds(s, i) \in Nat
                    /\ MissingOf(s)[i] = (IF Fetched(s, i) THEN 0 ELSE 1)
                    /\ CountsIn(s, i) \in 1..LastBlock
  OBVIOUS
<1>1. SecondsOf(s)[i] = Seconds(s, i) /\ MissingOf(s)[i] = (IF Fetched(s, i) THEN 0 ELSE 1)
  BY DEF SecondsOf, MissingOf
<1>2. Slice(s, i) \in Nat
  BY NextFetched
<1>3. Seconds(s, i) \in Nat
  BY <1>2 DEF Seconds
<1>4. CountsIn(s, i) \in 1..LastBlock
  <2>1. 1 \in 1..Len(s.evidence)
    BY RowTimes
  <2>2. PICK time \in Nat : CountsIn(s, i) = BucketOf(time) /\ time <= MaxClock
    BY <2>1, RowTimes DEF CountsIn, At
  <2>3. BucketOf(time) \in 1..BucketOf(MaxClock)
    BY <2>2, BlockNumbers, BoundAssumption
  <2> QED
    BY <2>2, <2>3 DEF LastBlock
<1> QED
  BY <1>1, <1>3, <1>4

(* What evidence counts is at most the time of the session, a second for   *)
(* the last frame, and one for each that has no row.                       *)
LEMMA CountsAtMost ==
  ASSUME NEW s, Timely(s)
  PROVE  Total(Len(s.evidence), SecondsOf(s)) <= s.active + 1 + Missing(s)
<1> DEFINE n == Len(s.evidence)
           c == SecondsOf(s)
           m == MissingOf(s)
           bound(k) == IF Later(s, k) = {} THEN At(s, n) - At(s, 1) + 1
                       ELSE At(s, First(Later(s, k))) - At(s, 1)
           S == {k \in 0..n : Total(k, c) <= bound(k) + Total(k, m)}
<1>0. n \in Nat /\ n # 0 /\ 1 \in 1..n
  BY RowTimes
<1>1. \A i \in 1..n : /\ c[i] = Seconds(s, i) /\ Seconds(s, i) \in Nat
                      /\ m[i] = (IF Fetched(s, i) THEN 0 ELSE 1)
  BY EachCounts
<1> HIDE DEF c, m, n
<1>2. \A k \in 0..n : Total(k, c) \in Int /\ Total(k, m) \in Int
  BY <1>0, <1>1, TotalType
<1>3. ASSUME NEW k \in 0..n
      PROVE  /\ bound(k) \in Int /\ bound(k) >= 0
             /\ Later(s, k) # {} => First(Later(s, k)) \in k + 1..n
  <2>1. CASE Later(s, k) = {}
    <3>1. At(s, n) \in Nat /\ At(s, 1) \in Nat /\ At(s, 1) <= At(s, n)
      BY <1>0, RowTimes DEF n
    <3> QED
      BY <2>1, <3>1
  <2>2. CASE Later(s, k) # {}
    <3>1. PICK j : j = First(Later(s, k))
      OBVIOUS
    <3>2. j \in k + 1..n
      <4>1. CASE k = 0
        <5>1. 1 \in 1..Len(s.evidence) /\ 1 - 1 = 0
          BY <1>0 DEF n
        <5>2. CASE Fetched(s, 1)
          BY <1>0, <3>1, <4>1, <5>1, <5>2, NextFetched
        <5>3. CASE ~Fetched(s, 1)
          <6>1. Later(s, 0) = Later(s, 1)
            BY <5>1, <5>3, NextFetched
          <6>2. j \in 1 + 1..n
            BY <2>2, <3>1, <4>1, <5>1, <6>1, NextFetched DEF n
          <6> QED
            BY <1>0, <4>1, <6>2
        <5> QED
          BY <5>2, <5>3
      <4>2. CASE k # 0
        <5>1. k \in 1..Len(s.evidence)
          BY <1>0, <4>2 DEF n
        <5> QED
          BY <2>2, <3>1, <5>1, NextFetched DEF n
      <4> QED
        BY <4>1, <4>2
    <3>3. j \in 1..n /\ 1 <= j
      BY <1>0, <3>2
    <3>4. At(s, j) \in Nat /\ At(s, 1) \in Nat /\ At(s, 1) <= At(s, j)
      BY <1>0, <3>3, RowTimes DEF n
    <3>5. bound(k) = At(s, j) - At(s, 1)
      BY <2>2, <3>1
    <3> QED
      BY <3>1, <3>2, <3>4, <3>5
  <2> QED
    BY <2>1, <2>2
<1>4. 0 \in S
  <2>1. Total(0, c) = 0 /\ Total(0, m) = 0 /\ 0 \in 0..n
    BY <1>0, TotalNone
  <2>2. bound(0) \in Int /\ bound(0) >= 0
    BY <1>3, <2>1
  <2> HIDE DEF bound
  <2> QED
    BY <2>1, <2>2
<1>5. ASSUME NEW k \in 1..n, k - 1 \in S
      PROVE  k \in S
  <2>1. k \in Nat /\ k # 0 /\ k - 1 \in 0..n /\ k \in 0..n /\ k \in 1..Len(s.evidence)
    BY <1>0 DEF n
  <2>2. Total(k, c) = Total(k - 1, c) + Seconds(s, k)
    BY <1>1, <2>1, TotalNext
  <2>3. Total(k, m) = Total(k - 1, m) + (IF Fetched(s, k) THEN 0 ELSE 1)
    BY <1>1, <2>1, TotalNext
  <2>4. Total(k - 1, c) <= bound(k - 1) + Total(k - 1, m)
    BY <1>5
  <2>5. /\ Total(k - 1, c) \in Int /\ Total(k - 1, m) \in Int /\ bound(k) \in Int
        /\ bound(k - 1) \in Int
    BY <1>2, <1>3, <2>1
  <2>6. CASE ~Fetched(s, k)
    <3>1. bound(k - 1) = bound(k)
      BY <2>1, <2>6, NextFetched
    <3>2. Seconds(s, k) = 1
      BY <2>6 DEF Seconds
    <3> HIDE DEF bound
    <3> QED
      BY <2>1, <2>2, <2>3, <2>4, <2>5, <2>6, <3>1, <3>2
  <2>7. CASE Fetched(s, k)
    <3>1. bound(k - 1) = At(s, k) - At(s, 1)
      BY <2>1, <2>7, NextFetched
    <3>2. Seconds(s, k) = Slice(s, k)
      BY <2>7 DEF Seconds
    <3>3. At(s, k) \in Nat /\ At(s, 1) \in Nat /\ At(s, n) \in Nat /\ At(s, k) <= At(s, n)
      BY <1>0, <2>1, RowTimes DEF n
    <3>4. bound(k - 1) + Slice(s, k) <= bound(k) /\ Slice(s, k) \in Nat
      <4>1. CASE Later(s, k) = {}
        <5>1. Slice(s, k) = 1 /\ bound(k) = At(s, n) - At(s, 1) + 1
          BY <2>1, <4>1, NextFetched
        <5> HIDE DEF bound
        <5> QED
          BY <3>1, <3>3, <5>1
      <4>2. CASE Later(s, k) # {}
        <5>1. PICK j : j = First(Later(s, k))
          OBVIOUS
        <5>2. j \in 1..n
          BY <1>3, <2>1, <4>2, <5>1
        <5>3. At(s, j) \in Nat
          BY <5>2, RowTimes DEF n
        <5>4. Slice(s, k) \in Nat /\ Slice(s, k) <= At(s, j) - At(s, k)
          BY <2>1, <4>2, <5>1, NextFetched
        <5>5. bound(k) = At(s, j) - At(s, 1)
          BY <4>2, <5>1
        <5> HIDE DEF bound
        <5> QED
          BY <3>1, <3>3, <5>3, <5>4, <5>5
      <4> QED
        BY <4>1, <4>2
    <3> HIDE DEF bound
    <3> QED
      BY <2>1, <2>2, <2>3, <2>4, <2>5, <2>7, <3>2, <3>4
  <2> QED
    BY <2>6, <2>7
<1> HIDE DEF S
<1>6. n \in S
  BY <1>0, <1>4, <1>5, CountingUp
<1>7. Later(s, n) = {}
  BY <1>0 DEF Later, n
<1>8. Total(n, c) <= At(s, n) - At(s, 1) + 1 + Total(n, m)
  BY <1>6, <1>7 DEF S
<1>9. s.active = At(s, n) - At(s, 1) /\ Missing(s) = Total(n, m)
  BY RowTimes DEF n, m, Missing, MissingOf
<1> QED
  BY <1>8, <1>9 DEF n, c

(* If none is missing, it is that exactly.                                 *)
LEMMA CountsExactly ==
  ASSUME NEW s, Timely(s), \A i \in 1..Len(s.evidence) : Fetched(s, i)
  PROVE  Total(Len(s.evidence), SecondsOf(s)) = s.active + 1
<1> DEFINE n == Len(s.evidence)
           c == SecondsOf(s)
           S == {k \in 0..n : Total(k, c) = IF k = n THEN At(s, n) - At(s, 1) + 1
                                            ELSE At(s, k + 1) - At(s, 1)}
<1>0. n \in Nat /\ n # 0 /\ 1 \in 1..n
  BY RowTimes
<1>1. \A i \in 1..n : c[i] = Seconds(s, i)
  BY EachCounts
<1> HIDE DEF c, n
<1>2. \A i \in 1..n : At(s, i) \in Nat
  BY RowTimes DEF n
<1>3. 0 \in S
  <2>1. Total(0, c) = 0
    BY TotalNone
  <2> QED
    BY <1>0, <1>2, <2>1
<1>4. ASSUME NEW k \in 1..n, k - 1 \in S
      PROVE  k \in S
  <2>1. k \in Nat /\ k # 0 /\ k \in 0..n /\ k - 1 # n /\ (k - 1) + 1 = k /\ k \in 1..Len(s.evidence)
    BY <1>0 DEF n
  <2>2. Total(k, c) = Total(k - 1, c) + Slice(s, k)
    BY <1>1, <2>1, TotalNext DEF Seconds, n
  <2>3. Total(k - 1, c) = At(s, k) - At(s, 1)
    BY <1>4, <2>1
  <2>4. CASE k = n
    <3>1. Later(s, k) = {}
      BY <1>0, <2>4 DEF Later, n
    <3>2. Slice(s, k) = 1
      BY <3>1 DEF Slice
    <3> QED
      BY <1>0, <1>2, <2>1, <2>2, <2>3, <2>4, <3>2
  <2>5. CASE k # n
    <3>1. k + 1 \in 1..n /\ k + 1 \in 1..Len(s.evidence) /\ (k + 1) - 1 = k /\ k \in 1..n - 1
          /\ k \in 1..Len(s.evidence) - 1
      BY <1>0, <2>1, <2>5 DEF n
    <3>2. Later(s, k) # {} /\ First(Later(s, k)) = k + 1
      BY <3>1, NextFetched
    <3>3. GapAfter(s, k) = At(s, k + 1) - At(s, k)
      BY <3>2 DEF GapAfter, At
    <3>4. At(s, k + 1) \in Nat /\ At(s, k) \in Nat /\ At(s, k + 1) - At(s, k) <= Idle
      BY <1>2, <3>1, RowTimes
    <3>5. Slice(s, k) = At(s, k + 1) - At(s, k)
      BY <3>2, <3>3, <3>4, BoundAssumption DEF Slice
    <3> QED
      BY <1>0, <1>2, <2>1, <2>2, <2>3, <2>5, <3>4, <3>5
  <2> QED
    BY <2>4, <2>5
<1> HIDE DEF S
<1>5. n \in S
  BY SMTT(30), <1>0, <1>3, <1>4, CountingUp
<1>6. Total(n, c) = At(s, n) - At(s, 1) + 1
  BY <1>5 DEF S
<1> QED
  BY <1>6, RowTimes DEF n, c

LEMMA BlockCount == LastBlock \in Nat
<1>1. Bucket \in Nat \ {0} /\ MaxClock \in Nat
  BY ReadAssumption, BoundAssumption
<1> QED
  BY <1>1 DEF LastBlock, BucketOf

(* Over the blocks, a session counts what its evidence does.               *)
LEMMA SessionBlocks ==
  ASSUME NEW s, Timely(s), NEW f, \A b \in 1..LastBlock : f[b] = SessionSeconds(s, b)
  PROVE  /\ \A b \in 1..LastBlock : f[b] \in Int
         /\ Total(LastBlock, f) = Total(Len(s.evidence), SecondsOf(s))
<1> DEFINE n == Len(s.evidence)
           part(b, i) == IF CountsIn(s, i) = b THEN Seconds(s, i) ELSE 0
           row == [b \in 1..LastBlock |-> [i \in 1..n |-> part(b, i)]]
           column == [i \in 1..n |-> [b \in 1..LastBlock |-> part(b, i)]]
<1>0. n \in Nat /\ \A i \in 1..n : Seconds(s, i) \in Nat /\ CountsIn(s, i) \in 1..LastBlock
  BY RowTimes, EachCounts
<1>1. LastBlock \in Nat
  BY BlockCount
<1>2. \A b \in 1..LastBlock, i \in 1..n : row[b][i] \in Int /\ column[i][b] = row[b][i]
  BY <1>0
<1>3. \A b \in 1..LastBlock : row[b] = [i \in 1..n |-> part(b, i)]
  OBVIOUS
<1>4. \A i \in 1..n, b \in 1..LastBlock : column[i][b] = IF CountsIn(s, i) = b THEN Seconds(s, i) ELSE 0
  OBVIOUS
<1>5. \A b \in 1..LastBlock : f[b] = Total(n, row[b])
  BY <1>3 DEF SessionSeconds
<1> HIDE DEF n, row, column
<1>6. ASSUME NEW b \in 1..LastBlock PROVE f[b] \in Int
  <2>1. n \in 0..n
    BY <1>0
  <2>2. \A i \in 1..n : row[b][i] \in Int
    BY <1>2
  <2>3. Total(n, row[b]) \in Int
    BY <1>0, <2>1, <2>2, TotalType
  <2> QED
    BY <1>5, <2>3
<1>7. ASSUME NEW i \in 1..n
      PROVE  SecondsOf(s)[i] = Total(LastBlock, column[i])
  <2>1. PICK v \in Int : v = Seconds(s, i)
    BY <1>0
  <2>2. PICK b \in 1..LastBlock : b = CountsIn(s, i)
    BY <1>0
  <2>3. \A k \in 1..LastBlock : column[i][k] = IF b = k THEN v ELSE 0
    BY <1>4, <2>1, <2>2
  <2>4. Total(LastBlock, column[i]) = v
    BY <1>1, <2>3, TotalOfOne
  <2>5. SecondsOf(s)[i] = v
    BY <2>1, EachCounts DEF n
  <2> QED
    BY <2>4, <2>5
<1>8. /\ Table(LastBlock, n, row, column) /\ Totals(LastBlock, n, row, f)
      /\ Totals(n, LastBlock, column, SecondsOf(s))
  BY <1>2, <1>5, <1>7 DEF Table, Totals
<1>9. Total(LastBlock, f) = Total(n, SecondsOf(s))
  BY <1>0, <1>1, <1>8, TotalSwapped
<1> QED
  BY <1>6, <1>9 DEF n

(* A finite set in some order.                                             *)
LEMMA Listing ==
  ASSUME NEW S, IsFiniteSet(S)
  PROVE  Cardinality(S) \in Nat /\ SE!SetToSeq(S) \in [1..Cardinality(S) -> S]
<1>1. Cardinality(S) \in Nat /\ ExistsBijection(1..Cardinality(S), S)
  BY FS_CardinalityType
<1>2. PICK f \in [1..Cardinality(S) -> S] : \A a, b \in 1..Cardinality(S) : f[a] = f[b] => a = b
  BY <1>1 DEF ExistsBijection, Bijection, Injection, IsInjective
<1>3. DOMAIN f = 1..Cardinality(S)
  OBVIOUS
<1>4. SE!IsInjective(f)
  BY <1>2, <1>3 DEF SE!IsInjective
<1> HIDE DEF IsInjective
<1>5. \E g \in [1..Cardinality(S) -> S] : SE!IsInjective(g)
  BY <1>4
<1>6. SE!Cardinality(S) = Cardinality(S)
  BY DEF SE!Cardinality, Cardinality
<1>7. SE!SetToSeq(S) \in [1..Cardinality(S) -> S]
  BY <1>5, <1>6, Zenon DEF SE!SetToSeq
<1> QED
  BY <1>1, <1>7

(* What a session counts, whatever it is listed in.                        *)
LEMMA SessionCounts ==
  ASSUME NEW s, Timely(s), NEW f, \A b \in 1..LastBlock : f[b] = SessionSeconds(s, b)
  PROVE  /\ s.active + 1 \in Int /\ Missing(s) \in Nat /\ Total(LastBlock, f) \in Int
         /\ Total(LastBlock, f) <= s.active + 1 + Missing(s)
         /\ Missing(s) = 0 => Total(LastBlock, f) = s.active + 1
<1>1. Total(LastBlock, f) = Total(Len(s.evidence), SecondsOf(s))
  BY SessionBlocks
<1>2. s.active \in Int
  BY DEF Timely, RowSound, Session
<1>3. Total(LastBlock, f) \in Int
  <2>1. LastBlock \in Nat /\ LastBlock \in 0..LastBlock
    BY BlockCount
  <2>2. \A b \in 1..LastBlock : f[b] \in Int
    BY SessionBlocks
  <2> QED
    BY <2>1, <2>2, TotalType
<1>4. PICK n \in Nat : n = Len(s.evidence)
  BY RowTimes
<1>5. Missing(s) = Total(n, MissingOf(s))
  BY <1>4 DEF Missing, MissingOf
<1>6. \A i \in 1..n : MissingOf(s)[i] = (IF Fetched(s, i) THEN 0 ELSE 1)
  BY <1>4, EachCounts
<1>7. \A i \in 1..n : MissingOf(s)[i] \in Nat
  BY <1>6
<1>8. Missing(s) \in Nat /\ (Missing(s) = 0 => \A i \in 1..n : MissingOf(s)[i] = 0)
  BY <1>5, <1>7, TotalZero
<1>9. Missing(s) = 0 => \A i \in 1..Len(s.evidence) : Fetched(s, i)
  BY <1>4, <1>6, <1>8
<1>10. Missing(s) = 0 => Total(LastBlock, f) = s.active + 1
  BY <1>1, <1>9, CountsExactly
<1>11. Total(LastBlock, f) <= s.active + 1 + Missing(s)
  BY <1>1, CountsAtMost
<1> QED
  BY <1>2, <1>3, <1>8, <1>10, <1>11

(* The blocks add up to what the sessions count.                           *)
LEMMA BlocksAddUp ==
  ASSUME NEW S, IsFiniteSet(S), \A s \in S : Timely(s)
  PROVE  LET total   == Total(LastBlock, Blocks(S))
             sum     == SumOver(S, [s \in S |-> s.active + 1])
             missing == SumOver(S, [s \in S |-> Missing(s)])
         IN  total <= sum + missing /\ (missing = 0 => total = sum)
<1> DEFINE m == Cardinality(S)
           q == SE!SetToSeq(S)
           row == [k \in 1..m |-> [b \in 1..LastBlock |-> SessionSeconds(q[k], b)]]
           column == [b \in 1..LastBlock |-> [k \in 1..m |-> SessionSeconds(q[k], b)]]
           counts == [k \in 1..m |-> Total(LastBlock, row[k])]
           active == [k \in 1..m |-> q[k].active + 1]
           lost == [k \in 1..m |-> Missing(q[k])]
           both == [k \in 1..m |-> active[k] + lost[k]]
<1>0. m \in Nat
  BY Listing
<1>1. \A k \in 1..m : q[k] \in S /\ Timely(q[k])
  <2>1. q \in [1..m -> S]
    BY Listing
  <2> HIDE DEF q, m
  <2> QED
    BY <2>1
<1> HIDE DEF m, q
<1>2. SumOver(S, [s \in S |-> s.active + 1]) = Total(m, active)
  <2>1. [k \in 1..m |-> [s \in S |-> s.active + 1][q[k]]] = active
    BY <1>1
  <2> QED
    BY <2>1 DEF SumOver, m, q
<1>3. SumOver(S, [s \in S |-> Missing(s)]) = Total(m, lost)
  <2>1. [k \in 1..m |-> [s \in S |-> Missing(s)][q[k]]] = lost
    BY <1>1
  <2> QED
    BY <2>1 DEF SumOver, m, q
<1>4. \A k \in 1..m, b \in 1..LastBlock : row[k][b] = SessionSeconds(q[k], b) /\ column[b][k] = row[k][b]
  OBVIOUS
<1>5. ASSUME NEW b \in 1..LastBlock
      PROVE  Blocks(S)[b] = Total(m, column[b])
  <2>1. [k \in 1..m |-> [s \in S |-> SessionSeconds(s, b)][q[k]]] = [k \in 1..m |-> SessionSeconds(q[k], b)]
    BY <1>1
  <2>2. column[b] = [k \in 1..m |-> SessionSeconds(q[k], b)]
    OBVIOUS
  <2> HIDE DEF column
  <2>3. SumOver(S, [s \in S |-> SessionSeconds(s, b)]) = Total(m, column[b])
    BY <2>1, <2>2 DEF SumOver, m, q
  <2>4. Blocks(S)[b] = SumOver(S, [s \in S |-> SessionSeconds(s, b)])
    BY DEF Blocks
  <2> QED
    BY <2>3, <2>4
<1>6. \A k \in 1..m : /\ counts[k] = Total(LastBlock, row[k]) /\ active[k] = q[k].active + 1
                      /\ lost[k] = Missing(q[k]) /\ both[k] = active[k] + lost[k]
  OBVIOUS
<1> HIDE DEF row, column, counts, active, lost, both
<1>7. ASSUME NEW k \in 1..m
      PROVE  /\ \A b \in 1..LastBlock : row[k][b] \in Int
             /\ active[k] \in Int /\ lost[k] \in Nat /\ counts[k] \in Int
             /\ counts[k] <= active[k] + lost[k]
             /\ lost[k] = 0 => counts[k] = active[k]
  <2>1. Timely(q[k]) /\ \A b \in 1..LastBlock : row[k][b] = SessionSeconds(q[k], b)
    BY <1>1, <1>4
  <2>2. \A b \in 1..LastBlock : row[k][b] \in Int
    BY <2>1, SessionBlocks
  <2> QED
    BY <1>6, <2>1, <2>2, SessionCounts
<1>8. Total(m, counts) = Total(LastBlock, Blocks(S))
  <2>1. LastBlock \in Nat
    BY BlockCount
  <2>2. /\ Table(m, LastBlock, row, column) /\ Totals(m, LastBlock, row, counts)
        /\ Totals(LastBlock, m, column, Blocks(S))
    BY <1>4, <1>5, <1>6, <1>7 DEF Table, Totals
  <2> QED
    BY <1>0, <2>1, <2>2, TotalSwapped
<1>9. \A k \in 1..m : /\ active[k] \in Int /\ lost[k] \in Int /\ both[k] = active[k] + lost[k]
                      /\ counts[k] \in Int /\ both[k] \in Int /\ counts[k] <= both[k]
  BY <1>6, <1>7
<1>10. Total(m, both) = Total(m, active) + Total(m, lost)
  BY <1>0, <1>9, TotalOfSums
<1>11. Total(m, counts) <= Total(m, both)
  BY <1>0, <1>9, TotalAtMost
<1>12. Total(m, lost) = 0 => Total(m, counts) = Total(m, active)
  <2> SUFFICES ASSUME Total(m, lost) = 0 PROVE Total(m, counts) = Total(m, active)
    OBVIOUS
  <2>1. \A k \in 1..m : lost[k] \in Nat
    BY <1>7
  <2>2. \A k \in 1..m : lost[k] = 0
    BY <1>0, <2>1, TotalZero
  <2>3. \A k \in 1..m : counts[k] = active[k]
    BY <1>7, <2>2
  <2> QED
    BY <1>0, <2>3, TotalSame
<1> QED
  BY <1>2, <1>3, <1>8, <1>10, <1>11, <1>12

(* What recall adds up is what it has listed: sound rows, and none of      *)
(* their frames captured after the end of time.                            *)
BlocksListed ==
  ask.pc = "filter" /\ ask.kind = "blocks" =>
    IsFiniteSet(ask.listed) /\ \A s \in ask.listed : Timely(s)

BlocksHeld == BlocksListed /\ BlocksReconcile

LEMMA FiniteRows ==
  ASSUME NEW S, NEW n \in Nat, S \subseteq Session, IdsSound(S, n)
  PROVE  IsFiniteSet(S)
<1>1. /\ \A s \in S : s.id \in Nat /\ s.id < n
      /\ \A s, t \in S : s.id = t.id => s = t
  BY DEF IdsSound, Session
<1> DEFINE f == [s \in S |-> s.id]
<1>2. f \in [S -> 0..n]
  BY <1>1
<1>3. \A s, t \in S : f[s] = f[t] => s = t
  BY <1>1
<1> HIDE DEF f
<1>4. f \in Injection(S, 0..n)
  BY <1>2, <1>3 DEF Injection, IsInjective
<1>5. IsFiniteSet(0..n)
  BY FS_Interval
<1> QED
  BY <1>4, <1>5, FS_Injection

LEMMA TimelyRow ==
  ASSUME NEW C \in SUBSET Frames, NEW now \in Nat, now <= MaxClock, \A f \in C : Time[f] <= now,
         NEW s, RowSound(s, C)
  PROVE  Timely(s)
<1>1. MaxClock \in Nat
  BY BoundAssumption
<1>2. ASSUME NEW f \in C PROVE Time[f] <= MaxClock
  <2>1. Time[f] \in Nat /\ Time[f] <= now
    BY FrameAssumption
  <2> QED
    BY <1>1, <2>1
<1>3. RowSound(s, Frames) /\ Elements(s.evidence) \subseteq C
  BY DEF RowSound
<1> QED
  BY <1>2, <1>3 DEF Timely

LEMMA RecallBlocks ==
  ASSUME IInv', Clocked', Recall("blocks")
  PROVE  BlocksHeld'
<1>1. PICK from \in 0..clock : ask' = [NoAsk EXCEPT !.pc = "filter", !.kind = "blocks", !.listed = ListSessions(from)]
  BY DEF Recall
<1> DEFINE listed == ListSessions(from)
<1>2. listed \subseteq sessions'
  BY DEF ListSessions, Recall
<1> HIDE DEF listed
<1>3. ask'.pc = "filter" /\ ask'.listed = listed
  BY <1>1 DEF NoAsk, listed
<1>4. IsFiniteSet(sessions') /\ \A s \in sessions' : Timely(s)
  <2>1. /\ sessions' \subseteq Session /\ nextId' \in Nat /\ IdsSound(sessions', nextId')
        /\ content' \subseteq Frames /\ clock' \in Nat
        /\ \A s \in sessions' : RowSound(s, content')
    BY DEF IInv, TypeOK, Sound
  <2>2. clock' <= MaxClock /\ \A f \in content' : Time[f] <= clock'
    BY DEF Clocked
  <2> QED
    BY <2>1, <2>2, FiniteRows, TimelyRow
<1>5. IsFiniteSet(listed) /\ \A s \in listed : Timely(s)
  BY <1>2, <1>4, FS_Subset
<1> QED
  BY <1>3, <1>5 DEF BlocksHeld, BlocksListed, BlocksReconcile, Answering

LEMMA FilterBlocks ==
  ASSUME ReadsInv, BlocksHeld, FilterSessions, ask.kind = "blocks"
  PROVE  BlocksHeld'
<1>1. ask.pc = "filter" /\ DOMAIN ask = Fields
  BY AskFields DEF FilterSessions, ReadsInv, Held, AskShape
<1>2. PICK blind \in BOOLEAN :
        LET kept == IF blind THEN ask.listed ELSE {s \in ask.listed : VisibleSession(s)}
            next == [ask EXCEPT !.listed = kept, !.blind = blind]
        IN  ask' = [next EXCEPT !.pc = "answered", !.blocks = Blocks(kept),
                                !.missing = SumOver(kept, [s \in kept |-> Missing(s)])]
  BY DEF FilterSessions
<1> DEFINE kept == IF blind THEN ask.listed ELSE {s \in ask.listed : VisibleSession(s)}
<1>3. PICK S : S = kept
  OBVIOUS
<1>4. PICK b, m : b = Blocks(S) /\ m = SumOver(S, [s \in S |-> Missing(s)])
  OBVIOUS
<1>5. ask' = [[ask EXCEPT !.listed = S, !.blind = blind] EXCEPT !.pc = "answered", !.blocks = b, !.missing = m]
  BY <1>2, <1>3, <1>4
<1>6. ask'.pc = "answered" /\ ask'.listed = S /\ ask'.blocks = b /\ ask'.missing = m
  BY <1>1, <1>5 DEF Fields
<1>7. S \subseteq ask.listed
  BY <1>3
<1>8. IsFiniteSet(S) /\ \A s \in S : Timely(s)
  BY <1>1, <1>7, FS_Subset DEF BlocksHeld, BlocksListed
<1>9. LET sum == SumOver(S, [s \in S |-> s.active + 1])
      IN  Total(LastBlock, b) <= sum + m /\ (m = 0 => Total(LastBlock, b) = sum)
  BY <1>4, <1>8, BlocksAddUp
<1>10. BlocksReconcile'
  BY <1>6, <1>9 DEF BlocksReconcile
<1> QED
  BY <1>6, <1>10 DEF BlocksHeld, BlocksListed

(* Nothing is said of other requests.                                      *)
LEMMA OtherKinds ==
  ASSUME ask'.kind # "blocks" \/ ask'.pc \notin {"filter", "answered"}
  PROVE  BlocksHeld'
BY DEF BlocksHeld, BlocksListed, BlocksReconcile, Answering

LEMMA SameRequest ==
  ASSUME BlocksHeld, ask' = ask
  PROVE  BlocksHeld'
BY DEF BlocksHeld, BlocksListed, BlocksReconcile, Answering

LEMMA BlocksStep ==
  ASSUME ReadsInv, IInv', Clocked', BlocksHeld, ReadsNext
  PROVE  BlocksHeld'
<1>0. /\ DOMAIN ask = Fields
      /\ ask.pc = "embed" => ask.kind = "semantic"
      /\ ask.pc = "summaries" => ask.kind \in {"sessions", "inspect"}
  BY AskFields DEF ReadsInv, Held, AskShape
<1>1. CASE FindKeyword \/ FindSemantic \/ ExecuteSemanticQuery
  <2>1. \A kind \in FindKinds : Rows(kind).kind # "blocks"
    BY DEF Rows, NoAsk, FindKinds
  <2>2. CASE FindKeyword
    BY <2>1, <2>2, OtherKinds DEF FindKeyword, FindKinds
  <2>3. CASE FindSemantic
    BY <2>3, OtherKinds DEF FindSemantic, NoAsk
  <2>4. CASE ExecuteSemanticQuery
    <3>1. ask.kind = "semantic"
      BY <1>0, <2>4 DEF ExecuteSemanticQuery
    <3>2. \/ ask' = Rows("degraded")
          \/ \E items : ask' = [ask EXCEPT !.pc = "filter", !.rows = items]
      BY <2>4 DEF ExecuteSemanticQuery
    <3>3. CASE ask' = Rows("degraded")
      BY <2>1, <3>3, OtherKinds DEF FindKinds
    <3>4. CASE \E items : ask' = [ask EXCEPT !.pc = "filter", !.rows = items]
      <4>1. ask'.kind = ask.kind
        BY <1>0, <3>4 DEF Fields
      <4> QED
        BY <3>1, <4>1, OtherKinds
    <3> QED
      BY <3>2, <3>3, <3>4
  <2> QED
    BY <1>1, <2>2, <2>3, <2>4
<1>2. CASE ApplySuppressionFilter
  <2>1. ask.kind \in {"find", "semantic", "degraded"}
    BY <1>2 DEF ApplySuppressionFilter
  <2>2. \/ \E rows : ask' = [ask EXCEPT !.pc = "answered", !.rows = rows]
        \/ ask' = [ask EXCEPT !.pc = "answered", !.blind = TRUE]
    BY <1>2 DEF ApplySuppressionFilter
  <2>3. ask'.kind = ask.kind
    BY <1>0, <2>2 DEF Fields
  <2> QED
    BY <2>1, <2>3, OtherKinds
<1>3. CASE \E kind \in {"sessions", "blocks"} : Recall(kind)
  <2>1. CASE Recall("sessions")
    BY <2>1, OtherKinds DEF Recall, NoAsk
  <2>2. CASE Recall("blocks")
    BY <2>2, RecallBlocks
  <2> QED
    BY <1>3, <2>1, <2>2
<1>4. CASE FilterSessions
  <2>1. CASE ask.kind = "blocks"
    BY <1>4, <2>1, FilterBlocks
  <2>2. CASE ask.kind = "sessions"
    <3>1. PICK blind \in BOOLEAN :
            LET kept == IF blind THEN ask.listed ELSE {s \in ask.listed : VisibleSession(s)}
                next == [ask EXCEPT !.listed = kept, !.blind = blind]
            IN  ask' = [next EXCEPT !.pc = "summaries", !.left = {s.id : s \in kept},
                                    !.rows = UNION {Elements(s.evidence) : s \in kept}]
      BY <1>4, <2>2 DEF FilterSessions
    <3> DEFINE kept == IF blind THEN ask.listed ELSE {s \in ask.listed : VisibleSession(s)}
    <3>2. PICK S, ids, rows : S = kept /\ ids = {s.id : s \in S} /\ rows = UNION {Elements(s.evidence) : s \in S}
      OBVIOUS
    <3>3. ask' = [[ask EXCEPT !.listed = S, !.blind = blind] EXCEPT !.pc = "summaries", !.left = ids, !.rows = rows]
      BY <3>1, <3>2
    <3>4. ask'.pc = "summaries"
      BY <1>0, <3>3 DEF Fields
    <3> QED
      BY <3>4, OtherKinds
  <2> QED
    BY <1>4, <2>1, <2>2 DEF FilterSessions
<1>5. CASE EnsureSummary \/ SummaryWritten \/ AllSummarised
  <2>1. ask.kind # "blocks"
    BY <1>0, <1>5 DEF EnsureSummary, SummaryWritten, AllSummarised
  <2>2. \/ ask' = ask
        \/ \E left : ask' = [ask EXCEPT !.left = left]
        \/ \E left, text : ask' = [ask EXCEPT !.left = left, !.text = text]
        \/ ask' = [ask EXCEPT !.pc = "answered"]
    BY <1>5 DEF EnsureSummary, SummaryWritten, AllSummarised
  <2>3. ask'.kind = ask.kind
    BY <1>0, <2>2 DEF Fields
  <2> QED
    BY <2>1, <2>3, OtherKinds
<1>6. CASE InspectFrame
  BY <1>6, OtherKinds DEF InspectFrame, NoAsk
<1>7. CASE InspectSession
  <2> DEFINE shown(rows) == [NoAsk EXCEPT !.kind = "inspect", !.rows = rows]
  <2>1. \/ \E rows, text : ask' = [shown(rows) EXCEPT !.pc = "answered", !.text = text]
        \/ \E rows, left : ask' = [shown(rows) EXCEPT !.pc = "summaries", !.left = left]
    BY <1>7 DEF InspectSession
  <2>2. ask'.kind = "inspect"
    BY <2>1 DEF NoAsk
  <2> QED
    BY <2>2, OtherKinds
<1>8. CASE Unreadable \/ Answered \/ RestartReading
  <2>1. ask' = NoAsk \/ ask' = [NoAsk EXCEPT !.pc = "answered", !.kind = "none"]
    BY <1>8 DEF Unreadable, Answered, RestartReading
  <2>2. NoAsk.kind = "none" /\ [NoAsk EXCEPT !.pc = "answered", !.kind = "none"].kind = "none"
    BY DEF NoAsk
  <2>3. ask'.kind = "none"
    BY <2>1, <2>2
  <2> QED
    BY <2>3, OtherKinds
<1>9. CASE ask' = ask
  BY <1>9, SameRequest
<1> QED
  BY <1>1, <1>2, <1>3, <1>4, <1>5, <1>6, <1>7, <1>8, <1>9 DEF ReadsNext, ReadStep

(* What recall reports per block adds up to the active time of the         *)
(* sessions it listed and a second for each, whatever the length of a      *)
(* block, the threshold and the times of capture; evidence deleted between *)
(* the listing and the rows makes it at most a second per frame more       *)
(* (RecallService.recallByTimeBlock, bucketSessionActiveSeconds).          *)
THEOREM BlocksTheorem == ReadsSpec => []BlocksReconcile
<1>1. ReadsInit => BlocksHeld
  BY DEF ReadsInit, NoAsk, BlocksHeld, BlocksListed, BlocksReconcile, Answering
<1>2. ReadsInv /\ (IInv /\ Clocked)' /\ BlocksHeld /\ [ReadsNext]_readVars => BlocksHeld'
  <2>1. CASE ReadsNext
    BY <2>1, BlocksStep
  <2>2. CASE UNCHANGED readVars
    BY <2>2, SameRequest DEF readVars
  <2> QED
    BY <2>1, <2>2
<1>3. BlocksHeld => BlocksReconcile
  BY DEF BlocksHeld
<1>4. ReadsSpec => []ReadsInv
  BY ReadsInitially, ReadsStep, PTL DEF ReadsSpec
<1> QED
  BY <1>1, <1>2, <1>3, <1>4, ClockedReads, PTL DEF ReadsSpec
================================================================================
