------------------------------ MODULE Indexing ------------------------------
(***************************************************************************)
(* DefaultIndexingService.runOnce (services/retrieval/indexing-service.ts) *)
(* as the poller of bootstrap/create-app.ts drives it: one run at a time,  *)
(* each cut at the awaits where capture, privacy controls or a failure can *)
(* intervene.  A frame is its position in the (timestamp, id) order that   *)
(* compareRecords defines; what is extracted from it matters only as far   *)
(* as it is empty or not.                                                  *)
(*                                                                         *)
(* Line-delta deduplication and session aggregation, which also happen per *)
(* frame, have modules of their own in the plan.                           *)
(***************************************************************************)
EXTENDS Integers, FiniteSets

CONSTANTS
  N,               \* frames that may be captured: positions 1..N
  Time,            \* Time[f]: the tick a frame is captured at
  Empty,           \* frames whose extraction yields no text
  Settings,        \* the configurations a server may be started with
  MaxClock,        \* bound on time
  ProviderFails,   \* may embedding or the vector store fail?
  MaxFaults        \* bound on failed runs

Frames == 1..N

ASSUME FrameAssumption ==
  /\ N \in Nat /\ Empty \subseteq Frames
  /\ Time \in [Frames -> Nat]
  /\ \A f, g \in Frames : f < g => Time[f] < Time[g]
ASSUME SettingAssumption ==
  /\ Settings \subseteq [freshness : Nat \ {0}, batches : Nat \ {0}, page : Nat \ {0},
                         newestFirst : BOOLEAN, seeded : BOOLEAN]
  /\ \A s \in Settings : s.seeded => 1 \in Frames
ASSUME BoundAssumption ==
  MaxClock \in Nat /\ MaxFaults \in Nat /\ ProviderFails \in BOOLEAN

VARIABLES
  setting,           \* the configuration, fixed once the server is started
  clock, captured,   \* the capture source
  blocked,           \* frames that privacy-state.json blocks right now
  content, vectors,  \* frames with an extracted_content row; with a vector
  ckpt,              \* the checkpoint file: [at, backlog]; at = 0: no file
  pc,                \* where the run is
  todo,              \* fetched records Step 1 has not reached
  ready,             \* candidates: extracted, on their way to an embedding
  held,              \* records deferred by privacy
  released,          \* deferred records the last re-check found unblocked
  good, bad,         \* candidates with a vector; candidates that failed
  next,              \* backlogAfter
  waived,            \* ghost: frames the service means never to index
  dropped,           \* ghost: failed frames the backlog offset has passed
  faults
persistent == <<captured, blocked, content, vectors, ckpt, waived, dropped>>
run == <<pc, todo, ready, held, released, good, bad, next>>
vars == <<setting, clock, persistent, run, faults>>

Freshness   == setting.freshness    \* freshnessWindowMinutes, in ticks
Batches     == setting.batches      \* maxCatchUpBatches
PageSize    == setting.page         \* maxCatchUpRecords
NewestFirst == setting.newestFirst  \* the order in which the source pages a search
Seeded      == setting.seeded       \* start with frame 1 indexed, or no checkpoint

(* A backlog is only ever stored with an offset past its first page.       *)
NoBacklog == [from |-> 0, to |-> 0, off |-> 0]
Backlog   == [from : Int, to : Nat, off : Nat]

Larger(a, b)  == IF a > b THEN a ELSE b
Smaller(a, b) == IF a < b THEN a ELSE b
Newest(S)  == CHOOSE f \in S : \A g \in S : g <= f
First(S)   == CHOOSE f \in S : \A g \in S : f <= g
Oldest(k, S) == {f \in S : Cardinality({g \in S : g < f}) < k}

NoRun == /\ pc' = "idle" /\ next' = NoBacklog
         /\ todo' = {} /\ ready' = {} /\ held' = {} /\ released' = {}
         /\ good' = {} /\ bad' = {}

Init ==
  /\ setting \in Settings
  /\ LET start == IF Seeded THEN {1} ELSE {} IN
      /\ clock = (IF Seeded THEN Time[1] ELSE 0)
      /\ captured = start /\ content = start /\ vectors = start
      /\ ckpt = [at |-> (IF Seeded THEN 1 ELSE 0), backlog |-> NoBacklog]
      /\ blocked = {} /\ waived = {} /\ dropped = {} /\ faults = 0
      /\ pc = "idle" /\ next = NoBacklog
      /\ todo = {} /\ ready = {} /\ held = {} /\ released = {}
      /\ good = {} /\ bad = {}

-----------------------------------------------------------------------------
(* The surroundings: capture goes on, the user changes privacy settings.   *)

Tick == /\ clock < MaxClock
        /\ clock' = clock + 1
        /\ \E S \in SUBSET {f \in Frames : Time[f] = clock + 1} :
             captured' = captured \cup S
        /\ UNCHANGED <<setting, blocked, content, vectors, ckpt, waived, dropped, run, faults>>

(* pause, exclude-app and delete-range block frames; resume and            *)
(* remove-excluded-app may unblock them.                                   *)
ChangePrivacy ==
  /\ \E f \in Frames : blocked' = IF f \in blocked THEN blocked \ {f} ELSE blocked \cup {f}
  /\ UNCHANGED <<setting, clock, captured, content, vectors, ckpt, waived, dropped, run, faults>>

-----------------------------------------------------------------------------
(* fetchCandidateRecords.                                                  *)

Span == Freshness * Batches

Lag == clock - Time[ckpt.at]

NeedsBacklog == IF ckpt.at = 0 THEN TRUE ELSE Lag > Span

SearchStart ==
  IF ckpt.at = 0 THEN clock - Span ELSE Larger(Time[ckpt.at], clock - Span)

FetchWindow == Smaller(Larger(Lag, Freshness), Span)

InRange(b) == {f \in captured : b.from <= Time[f] /\ Time[f] <= b.to}

(* The 1-based row number of a frame in the source's answer to a search.   *)
Row(f, b) ==
  Cardinality({g \in InRange(b) : IF NewestFirst THEN f <= g ELSE g <= f})

Pages == Batches * PageSize

PageRows(b) == {f \in InRange(b) : b.off < Row(f, b) /\ Row(f, b) <= b.off + Pages}

(* Mutant: one run is taken to be enough to catch up.                      *)
BacklogAfterOneRun(b) == NoBacklog

(* Mutant: a short page does not end the catch-up.                         *)
BacklogAfterSticky(b) == [b EXCEPT !.off = @ + Cardinality(PageRows(b))]

(* Only a short page ends the catch-up.                                    *)
BacklogAfter(b) ==
  IF Cardinality(InRange(b)) - b.off < Pages
  THEN NoBacklog
  ELSE [b EXCEPT !.off = @ + Pages]

(* isEligibleBacklogRecord                                                 *)
Eligible(S, off) ==
  {f \in S : IF off = 0 \/ ckpt.at = 0 THEN f > ckpt.at ELSE f # ckpt.at}

StartRecent ==
  /\ pc = "idle"
  /\ ckpt.backlog = NoBacklog /\ ~NeedsBacklog
  /\ todo' = Oldest(PageSize,
               Eligible({f \in captured : clock - FetchWindow <= Time[f]}, 0))
  /\ pc' = "extract"
  /\ UNCHANGED <<setting, clock, persistent, ready, held, released, good, bad, next, faults>>

StartBacklog ==
  /\ pc = "idle"
  /\ ckpt.backlog # NoBacklog \/ NeedsBacklog
  /\ LET opening == ckpt.backlog = NoBacklog
         b == IF opening THEN [from |-> SearchStart, to |-> clock, off |-> 0]
                         ELSE ckpt.backlog
     IN  /\ todo' = Eligible(PageRows(b), b.off)
         /\ next' = BacklogAfter(b)
         /\ waived' = waived \cup
              (IF opening THEN {f \in captured : Time[f] < b.from} ELSE {})
  /\ pc' = "extract"
  /\ UNCHANGED <<setting, clock, captured, blocked, content, vectors, ckpt, dropped,
                 ready, held, released, good, bad, faults>>

-----------------------------------------------------------------------------
(* Step 1: extractAll takes the records in order and re-reads the privacy  *)
(* state for each.                                                         *)

Extract ==
  /\ pc = "extract" /\ todo # {}
  /\ LET f == First(todo)
     IN  /\ todo' = todo \ {f}
         /\ \/ /\ f \in blocked
               /\ held' = held \cup {f}
               /\ UNCHANGED <<ready, content>>
            \/ /\ f \notin blocked
               /\ ready' = ready \cup {f} /\ content' = content \cup {f}
               /\ UNCHANGED held
  /\ UNCHANGED <<setting, clock, captured, blocked, vectors, ckpt, waived, dropped,
                 pc, released, good, bad, next, faults>>

(* Failures of the embedding provider or the vector store count against    *)
(* MaxFaults.                                                              *)
MayFail(S) ==
  /\ S # {} => ProviderFails /\ faults < MaxFaults
  /\ faults' = IF S = {} THEN faults ELSE faults + 1

(* Step 2: every computeEmbedding settles before anything is stored.       *)
Embed ==
  /\ pc = "extract" /\ todo = {}
  /\ \E F \in SUBSET (ready \ Empty) : bad' = F /\ MayFail(F)
  /\ pc' = "upsert"
  /\ UNCHANGED <<setting, clock, persistent, todo, ready, held, released, good, next>>

(* Step 3: one batch, stored as a whole or not at all.                     *)
Upsert ==
  /\ pc = "upsert"
  /\ LET batch == ready \ (Empty \cup bad)
     IN  \/ /\ vectors' = vectors \cup batch /\ good' = batch
            /\ UNCHANGED <<bad, faults>>
         \/ /\ batch # {} /\ MayFail(batch)
            /\ bad' = bad \cup batch
            /\ UNCHANGED <<vectors, good>>
  /\ pc' = "recheck"
  /\ UNCHANGED <<setting, clock, captured, blocked, content, ckpt, waived, dropped,
                 todo, ready, held, released, next>>

(* The re-check loop reads the privacy state once per pass ...             *)
Recheck ==
  /\ pc = "recheck" /\ released = {}
  /\ released' = held \ blocked
  /\ held' = held \cap blocked
  /\ pc' = IF held \ blocked = {} THEN "finish" ELSE "recheck"
  /\ UNCHANGED <<setting, clock, persistent, todo, ready, good, bad, next, faults>>

(* ... and then processes what that pass released, one record at a time.   *)
ProcessRecord ==
  /\ pc = "recheck" /\ released # {}
  /\ LET f == First(released)
     IN  /\ released' = released \ {f}
         /\ ready' = ready \cup {f}
         /\ content' = content \cup {f}
         /\ \/ /\ f \in Empty
               /\ UNCHANGED <<vectors, good, bad, faults>>
            \/ /\ f \notin Empty
               /\ vectors' = vectors \cup {f} /\ good' = good \cup {f}
               /\ UNCHANGED <<bad, faults>>
            \/ /\ f \notin Empty
               /\ MayFail({f})
               /\ bad' = bad \cup {f}
               /\ UNCHANGED <<vectors, good>>
  /\ UNCHANGED <<setting, clock, captured, blocked, ckpt, waived, dropped, pc, todo, held, next>>

-----------------------------------------------------------------------------
(* The checkpoint.                                                         *)

(* Candidates below the earliest failure, and what is still blocked unless *)
(* something failed.                                                       *)
Reached == {f \in ready \ bad : \A g \in bad : f < g}
             \cup (IF bad = {} THEN held ELSE {})

(* A run that indexed nothing, failed and deferred nothing throws before   *)
(* it persists; a null checkpoint cannot carry a backlog.                  *)
Finish ==
  /\ pc = "finish"
  /\ LET latest == Newest({ckpt.at} \cup Reached)
         persists == latest # 0 /\ (bad = {} \/ good # {} \/ held # {})
     IN  /\ ckpt' = IF persists THEN [at |-> latest, backlog |-> next] ELSE ckpt
         /\ waived' = IF persists THEN waived \cup held ELSE waived
         /\ dropped' = IF persists
                       THEN dropped \cup {f \in bad : f <= ckpt.at \/ next # NoBacklog}
                       ELSE dropped
  /\ NoRun
  /\ UNCHANGED <<setting, clock, captured, blocked, content, vectors, faults>>

(* An exception, or the process dies and is started again: what the run    *)
(* had in memory is gone.                                                  *)
Abort ==
  /\ pc # "idle" /\ faults < MaxFaults
  /\ faults' = faults + 1
  /\ NoRun
  /\ UNCHANGED <<setting, clock, persistent>>

RunStep == \/ StartRecent \/ StartBacklog \/ Extract \/ Embed \/ Upsert
           \/ Recheck \/ ProcessRecord \/ Finish

Next == Tick \/ ChangePrivacy \/ RunStep \/ Abort

Spec == Init /\ [][Next]_vars

(* The poller's timer keeps starting runs and a run keeps moving; nothing  *)
(* is assumed of the user or of the capture source.                        *)
FairSpec == Spec /\ WF_vars(RunStep)

-----------------------------------------------------------------------------
TypeOK ==
  /\ setting \in Settings
  /\ clock \in Nat /\ faults \in 0..MaxFaults
  /\ captured \subseteq Frames /\ blocked \subseteq Frames
  /\ content \subseteq captured /\ vectors \subseteq captured
  /\ waived \subseteq captured /\ dropped \subseteq captured
  /\ ckpt \in [at : captured \cup {0}, backlog : Backlog]
  /\ pc \in {"idle", "extract", "upsert", "recheck", "finish"}
  /\ todo \subseteq captured /\ ready \subseteq captured /\ held \subseteq captured
  /\ released \subseteq captured /\ good \subseteq ready /\ bad \subseteq ready
  /\ next \in Backlog

Settled(f) == f \in vectors \cup Empty \cup waived

(* Rows of a stored backlog that later runs will still fetch.              *)
Pending(f) == /\ ckpt.backlog # NoBacklog
              /\ f \in InRange(ckpt.backlog)
              /\ ckpt.backlog.off < Row(f, ckpt.backlog)

(* "Frames that fail ... are retried on the next poll": the checkpoint     *)
(* never passes a frame that has text, was not blocked and has no vector,  *)
(* unless a page of the stored backlog still covers it.                    *)
NoFrameLeftBehind ==
  \A f \in captured : f <= ckpt.at => Settled(f) \/ Pending(f)

(* The same for every frame but those that failed in a backlog page the    *)
(* stored offset has already passed.                                       *)
OnlyTheOffsetDrops ==
  \A f \in captured : f <= ckpt.at => Settled(f) \/ Pending(f) \/ f \in dropped

(* Every captured frame is eventually indexed or waived, however the runs  *)
(* before it failed.                                                       *)
EveryFrameSettles ==
  \A f \in Frames : f \in captured ~> Settled(f) \/ f \in dropped

=============================================================================
