-------------------------------- MODULE Reads --------------------------------
(***************************************************************************)
(* What find, recall and inspect answer from the derived layer while it is *)
(* being written, deleted and reconciled (services/work-activity/find,     *)
(* recall, inspect, summary/worker.ts).  A read is a sequence of awaits:   *)
(* the rows, then the privacy state they are filtered by, then summaries,  *)
(* one model call each.  As in DerivedData, a step runs from one real      *)
(* await to the next.                                                      *)
(***************************************************************************)
EXTENDS DerivedData

CONSTANTS
  Matching,     \* frames whose text contains the query of find
  FindLimit,    \* limit of a find request
  PageSize,     \* SQL_PAGE_SIZE
  ScanLimit,    \* SQL_HARD_SCAN_LIMIT
  Bucket,       \* the length of a time block, in ticks
  MaxReads      \* bound on requests

ASSUME ReadAssumption ==
  /\ Matching \subseteq Frames /\ MaxReads \in Nat
  /\ {FindLimit, PageSize, ScanLimit, Bucket} \subseteq Nat \ {0}

VARIABLES
  ask,         \* the request being answered, see Ask
  reads,
  witnessed,   \* ghost: frames that were shown at some instant of the request
  released     \* ghost: frames it has read whose tombstone was resolved meanwhile
readVars == <<vars, ask, reads, witnessed, released>>

(* rows: what find or inspect has read; listed: the session rows recall    *)
(* has listed, left: the ids of those still to be summarised; text: the    *)
(* frames summaries told of; blocks: seconds per bucket; truncated: the    *)
(* scan gave up; blind: the privacy state could not be read.               *)
NoAsk == [pc |-> "idle", kind |-> "none", rows |-> {}, listed |-> {}, left |-> {}, text |-> {},
          blocks |-> <<>>, missing |-> 0, truncated |-> FALSE, blind |-> FALSE]

ReadsInit == Init /\ ask = NoAsk /\ reads = 0 /\ witnessed = {} /\ released = {}

SE == INSTANCE SequencesExt

-----------------------------------------------------------------------------
(* find by keyword: collectKeywordMatches pages through the rows, newest   *)
(* first, by a cursor of timestamp and frame id.                           *)

FirstPage == [time |-> MaxClock, id |-> 0]

(* Mutant: rows of the cursor's timestamp are not returned again.          *)
BeforeTimeOnly(f, cursor) ==
  Time[f] < cursor.time \/ (cursor.id = 0 /\ Time[f] = cursor.time)

Before(f, cursor) ==
  \/ Time[f] < cursor.time
  \/ Time[f] = cursor.time /\ (cursor.id = 0 \/ f < cursor.id)

FetchPage(cursor) ==
  LET older == {f \in content : Before(f, cursor)}
  IN  {f \in older : Cardinality({g \in older : g > f}) < PageSize}

FirstScan == [cursor |-> FirstPage, matched |-> {}, scanned |-> 0, truncated |-> FALSE, stop |-> FALSE]

(* One page, from the newest row on, up to the row that makes the limit or *)
(* is one too many to look at.  A page that is not full is the last.       *)
ScanPage(scan) ==
  LET page       == FetchPage(scan.cursor)
      upTo(f)    == {g \in page : g >= f}
      limit(f)   == f \in Matching /\ Cardinality(scan.matched \cup (upTo(f) \cap Matching)) >= FindLimit
      tooMany(f) == scan.scanned + Cardinality(upTo(f)) >= ScanLimit
      ends       == {f \in page : limit(f) \/ tooMany(f)}
      read       == {f \in page : \A g \in ends : g <= f}
  IN  [cursor    |-> IF page = {} THEN scan.cursor ELSE [time |-> Time[First(page)], id |-> First(page)],
       matched   |-> scan.matched \cup (read \cap Matching),
       scanned   |-> scan.scanned + Cardinality(read),
       truncated |-> \E f \in read : tooMany(f) /\ ~limit(f),
       stop      |-> ends # {} \/ Cardinality(page) < PageSize]

(* The scan after k pages.  Each takes a row at least, or is the last.     *)
CollectKeywordMatches[k \in 0..N + 1] ==
  IF k = 0 THEN FirstScan
  ELSE LET scan == CollectKeywordMatches[k - 1] IN IF scan.stop THEN scan ELSE ScanPage(scan)

Scanned == CollectKeywordMatches[N + 1]

Rows(kind) ==
  [NoAsk EXCEPT !.pc = "filter", !.kind = kind, !.rows = Scanned.matched,
                !.truncated = Scanned.truncated]

NewRead == reads < MaxReads /\ ask.pc = "idle" /\ reads' = reads + 1

FindKeyword == NewRead /\ ask' = Rows("find") /\ UNCHANGED vars

-----------------------------------------------------------------------------
(* find by meaning: the query is embedded, vectors are asked for twice the *)
(* limit, and hits without a row are dropped.  What ranks highest is the   *)
(* provider's choice.                                                      *)

FindSemantic ==
  /\ NewRead
  /\ ask' = [NoAsk EXCEPT !.pc = "embed", !.kind = "semantic"]
  /\ UNCHANGED vars

Top(k, S) == {T \in SUBSET S : Cardinality(T) = IF Cardinality(S) < k THEN Cardinality(S) ELSE k}

(* A provider that fails makes it a keyword search, marked degraded.       *)
ExecuteSemanticQuery ==
  /\ ask.pc = "embed"
  /\ \/ /\ \E hits \in Top(2 * FindLimit, vectors) : \E items \in Top(FindLimit, hits \cap content) :
             ask' = [ask EXCEPT !.pc = "filter", !.rows = items]
        /\ UNCHANGED faults
     \/ ask' = Rows("degraded") /\ Fault
  /\ UNCHANGED <<source, privacy, derived, ckpt, run, del, call, ghosts, deletes, reads>>

(* The privacy state is read after the rows; if that fails, everything is  *)
(* shown.  Mutant: the ends of a hidden window are not part of it.         *)
ApplySuppressionFilterInside ==
  /\ ask.pc = "filter" /\ ask.kind \in {"find", "semantic", "degraded"}
  /\ ask' = [ask EXCEPT !.pc = "answered",
                        !.rows = {f \in @ : \A t \in tombstones : ~(t.from < Time[f] /\ Time[f] < t.to)}]
  /\ UNCHANGED <<vars, reads>>

ApplySuppressionFilter ==
  /\ ask.pc = "filter" /\ ask.kind \in {"find", "semantic", "degraded"}
  /\ \/ ask' = [ask EXCEPT !.pc = "answered", !.rows = {f \in @ : Visible(f)}] /\ UNCHANGED faults
     \/ ask' = [ask EXCEPT !.pc = "answered", !.blind = TRUE] /\ Fault
  /\ UNCHANGED <<source, privacy, derived, ckpt, run, del, call, ghosts, deletes, reads>>

-----------------------------------------------------------------------------
(* recall: flush, list the sessions, filter them, then summarise each or   *)
(* add up their time per block.                                            *)

(* A session belongs to the window it started in, whatever it goes on to.  *)
ListSessions(from) == {s \in FlushIdle(sessions) : StartedAt(s) >= from}

Recall(kind) ==
  /\ NewRead
  /\ sessions' = FlushIdle(sessions)
  /\ \E from \in 0..clock :
       ask' = [NoAsk EXCEPT !.pc = "filter", !.kind = kind, !.listed = ListSessions(from)]
  /\ UNCHANGED <<source, privacy, content, vectors, nextId, ckpt, run, del, call, ghosts, faults,
                 deletes>>

(* The blocks are counted from one.                                        *)
BucketOf(time) == time \div Bucket + 1

(* Of a session's evidence, what has a row, and what comes after it.       *)
Fetched(s, i) == s.evidence[i] \in content
Later(s, i)   == {j \in i + 1..Len(s.evidence) : Fetched(s, j)}
GapAfter(s, i) == Time[s.evidence[First(Later(s, i))]] - Time[s.evidence[i]]

(* Mutant: a gap that crosses into another bucket counts in neither.       *)
SliceWithin(s, i) ==
  IF Later(s, i) = {} THEN 1
  ELSE IF BucketOf(Time[s.evidence[i]]) # BucketOf(Time[s.evidence[First(Later(s, i))]]) THEN 0
       ELSE GapAfter(s, i)

(* bucketSessionActiveSeconds: a frame counts the gap to the next in its   *)
(* own bucket, the last one second.                                        *)
Slice(s, i) ==
  IF Later(s, i) = {} THEN 1
  ELSE IF GapAfter(s, i) > Idle THEN Idle ELSE GapAfter(s, i)

(* Evidence without a row counts one second where the session began.       *)
Seconds(s, i)  == IF Fetched(s, i) THEN Slice(s, i) ELSE 1
CountsIn(s, i) == BucketOf(IF Fetched(s, i) THEN Time[s.evidence[i]] ELSE StartedAt(s))

Total(n, f) == LET sum[k \in 0..n] == IF k = 0 THEN 0 ELSE sum[k - 1] + f[k] IN sum[n]

SumOver(S, f) ==
  Total(Cardinality(S), [k \in 1..Cardinality(S) |-> f[SE!SetToSeq(S)[k]]])

SessionSeconds(s, b) ==
  Total(Len(s.evidence),
        [i \in 1..Len(s.evidence) |-> IF CountsIn(s, i) = b THEN Seconds(s, i) ELSE 0])

Missing(s) ==
  Total(Len(s.evidence), [i \in 1..Len(s.evidence) |-> IF Fetched(s, i) THEN 0 ELSE 1])

LastBlock == BucketOf(MaxClock)

Blocks(S) == [b \in 1..LastBlock |-> SumOver(S, [s \in S |-> SessionSeconds(s, b)])]

(* Sessions in a hidden window are dropped; for blocks, the rows are read  *)
(* at once.                                                                *)
FilterSessions ==
  /\ ask.pc = "filter" /\ ask.kind \in {"sessions", "blocks"}
  /\ \E blind \in BOOLEAN :
       LET kept == IF blind THEN ask.listed ELSE {s \in ask.listed : VisibleSession(s)}
           next == [ask EXCEPT !.listed = kept, !.blind = blind]
       IN  /\ IF blind THEN Fault ELSE UNCHANGED faults
           /\ ask' = IF ask.kind = "sessions"
                     THEN [next EXCEPT !.pc = "summaries", !.left = {s.id : s \in kept},
                                       !.rows = UNION {Elements(s.evidence) : s \in kept}]
                     ELSE [next EXCEPT !.pc = "answered", !.blocks = Blocks(kept),
                                       !.missing = SumOver(kept, [s \in kept |-> Missing(s)])]
  /\ UNCHANGED <<source, privacy, derived, ckpt, run, del, call, ghosts, deletes, reads>>

(* ensureSummary for the next session: gone, ready, or still to be written *)
(* by a model.                                                             *)
NextSummary == CHOOSE id \in ask.left : \A other \in ask.left : id <= other

Row(id) == {s \in sessions : s.id = id}

EnsureSummary ==
  /\ ask.pc = "summaries" /\ ask.left # {} /\ call = NoCall
  /\ \/ /\ Row(NextSummary) = {}
        /\ ask' = [ask EXCEPT !.left = @ \ {NextSummary}]
        /\ UNCHANGED call
     \/ \E s \in Row(NextSummary) :
          IF s.summary.status = "ready"
          THEN /\ ask' = [ask EXCEPT !.left = @ \ {s.id}, !.text = @ \cup s.summary.text]
               /\ UNCHANGED call
          ELSE /\ call' = [id |-> s.id, text |-> Elements(s.evidence) \cap content]
               /\ UNCHANGED ask
  /\ UNCHANGED <<source, privacy, derived, ckpt, run, del, ghosts, faults, deletes, reads>>

(* What the model said is written to the row, if there still is one, and   *)
(* answered in any case.                                                   *)
SummaryWritten ==
  /\ ask.pc = "summaries" /\ call # NoCall /\ WriteSummary
  /\ ask' = [ask EXCEPT !.left = @ \ {call.id}, !.text = @ \cup call.text]
  /\ UNCHANGED reads

AllSummarised ==
  /\ ask.pc = "summaries" /\ ask.left = {}
  /\ ask' = [ask EXCEPT !.pc = "answered"]
  /\ UNCHANGED <<vars, reads>>

-----------------------------------------------------------------------------
(* inspect is not filtered.  Of a session, the row, its evidence and what  *)
(* the summary is made from are read without an await in between.          *)
InspectSession ==
  /\ NewRead /\ call = NoCall
  /\ \E s \in sessions :
       LET evidence == Elements(s.evidence) \cap content
           shown    == [NoAsk EXCEPT !.kind = "inspect", !.rows = evidence]
       IN  IF s.summary.status = "ready"
           THEN ask' = [shown EXCEPT !.pc = "answered", !.text = s.summary.text] /\ UNCHANGED call
           ELSE /\ ask' = [shown EXCEPT !.pc = "summaries", !.left = {s.id}]
                /\ call' = [id |-> s.id, text |-> evidence]
  /\ UNCHANGED <<source, privacy, derived, ckpt, run, del, ghosts, faults, deletes>>

(* Of a frame: the rows of the capture source and of the derived layer.    *)
InspectFrame ==
  /\ NewRead
  /\ \E f \in content \cup upstream :
       ask' = [NoAsk EXCEPT !.pc = "answered", !.kind = "frame", !.rows = {f}]
  /\ UNCHANGED vars

Answered == ask.pc = "answered" /\ ask' = NoAsk /\ UNCHANGED <<vars, reads>>

(* The derived database cannot be read: an empty answer, marked as an      *)
(* error.                                                                  *)
Unreadable ==
  /\ ask.pc \in {"embed", "filter", "summaries"} /\ Fault
  /\ ask' = [NoAsk EXCEPT !.pc = "answered", !.kind = "none"] /\ call' = NoCall
  /\ UNCHANGED <<source, privacy, derived, ckpt, run, del, ghosts, deletes, reads>>

(* A restart takes the request with it.                                    *)
RestartReading ==
  /\ Fault
  /\ NoRun /\ del' = NoDelete /\ call' = NoCall /\ ask' = NoAsk
  /\ UNCHANGED <<source, privacy, derived, ckpt, ghosts, deletes, reads>>

-----------------------------------------------------------------------------
(* What the request has read, a tombstone has hidden, and none hides now.  *)
Released ==
  {f \in ask.rows : ~Visible(f) /\ Visible(f)'} \cup
  UNION {Elements(s.evidence) : s \in {s \in ask.listed : ~VisibleSession(s) /\ VisibleSession(s)'}}

Witness ==
  IF ask'.pc = "idle" THEN witnessed' = {} /\ released' = {}
  ELSE /\ witnessed' = witnessed \cup Shown \cup Shown'
       /\ released' = released \cup Released

ReadStep ==
  \/ FindKeyword \/ FindSemantic \/ ExecuteSemanticQuery \/ ApplySuppressionFilter
  \/ \E kind \in {"sessions", "blocks"} : Recall(kind)
  \/ FilterSessions \/ EnsureSummary \/ SummaryWritten \/ AllSummarised
  \/ InspectSession \/ InspectFrame \/ Unreadable \/ Answered

(* The rest of the system; it is recall and inspect that ask for summaries.*)
Others == Tick \/ RunStep \/ Abort \/ RequestDelete \/ DeleteStep \/ Reconcile

ReadsNext ==
  /\ \/ ReadStep \/ RestartReading
     \/ Others /\ UNCHANGED <<ask, reads>>
  /\ Witness

ReadsSpec == ReadsInit /\ [][ReadsNext]_readVars

-----------------------------------------------------------------------------
Answering(kinds) == ask.pc = "answered" /\ ask.kind \in kinds

(* What find and recall answer was to be seen at some instant of the       *)
(* request: the rows and the ranges that hide them are read at different   *)
(* times, and a deletion, its tombstone or a late frame falls in between.  *)
(* Except for what a tombstone hid when it was read and no longer when it  *)
(* was filtered, frames a run already had in hand when they were deleted,  *)
(* and when the privacy state cannot be read (find-service.ts:340-345).    *)
AnswersWereVisible ==
  Answering({"find", "semantic", "degraded", "sessions"}) /\ ~ask.blind =>
    ask.rows \cup ask.text \subseteq witnessed \cup released \cup late

(* The scan behind find is the reference definition: the FindLimit newest  *)
(* rows that match, whatever the rows, the page size and equal timestamps  *)
(* when it begins; unless it says that it gave up.                         *)
FindsNewest ==
  ask.pc = "idle" /\ reads < MaxReads =>
    LET matches == content \cap Matching
        scan    == Scanned
    IN  scan.truncated \/
          scan.matched = {f \in matches : Cardinality({g \in matches : g > f}) < FindLimit}

(* The time recall reports per block adds up to the active time of the     *)
(* sessions listed and one second for each; evidence that is deleted while *)
(* it counts makes it at most a second per frame more.                     *)
BlocksReconcile ==
  Answering({"blocks"}) =>
    LET total == Total(LastBlock, ask.blocks)
        sum   == SumOver(ask.listed, [s \in ask.listed |-> s.active + 1])
    IN  /\ total <= sum + ask.missing
        /\ ask.missing = 0 => total = sum
=============================================================================
