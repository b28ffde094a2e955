----------------------------- MODULE CaptureStore -----------------------------
(***************************************************************************)
(* The capture database (Screenpipe's db.sqlite) under everything that     *)
(* writes to it: the recorder, the maintenance sweep and reclaim           *)
(* (providers/screenpipe/maintenance-adapter.ts), the offline vacuum       *)
(* (services/maintenance/vacuum-init.ts), the retention pass               *)
(* (providers/screenpipe/trim-service.ts) and delete-range                 *)
(* (services/privacy/privacy-control-service.ts), read by getFrame         *)
(* (providers/screenpipe/frames-reader.ts).  They are different processes: *)
(* what one SQL transaction does is one step.                              *)
(*                                                                         *)
(* A frame is its id.  A page of the file holds one frame.                 *)
(***************************************************************************)
EXTENDS Integers, FiniteSets

CONSTANTS
  StoreRows,    \* how many frames may be recorded: ids 1..StoreRows
  TakenAt,      \* TakenAt[f]: the tick frame f is recorded at
  TreeKind,     \* TreeKind[f]: what its accessibility_tree_json is, see Trees
  Sweepers,     \* maintenance processes
  MinFrameAge,  \* minFrameAgeMs, in ticks
  SweepBatch,   \* batchSize
  Retention,    \* retentionDays, in ticks
  TrimBatch,    \* RETENTION_BATCH_SIZE
  Budget,       \* budgetBytes, in pages
  DeleteReach,  \* the reach of a delete-range request, in ticks
  DeleteBatch,  \* DELETE_BATCH_SIZE
  StoreClock,   \* bound on time
  StoreFaults   \* bound on failing transactions, dying processes and vacuums

Ids == 1..StoreRows

(* No tree; a list convertTreeJson takes; JSON it throws on.               *)
Trees == {"none", "list", "other"}

ASSUME StoreAssumption ==
  /\ StoreRows \in Nat /\ TakenAt \in [Ids -> Nat] /\ TreeKind \in [Ids -> Trees]
  /\ \A f, g \in Ids : f < g => TakenAt[f] <= TakenAt[g]
  /\ {MinFrameAge, Retention, Budget, DeleteReach, StoreClock, StoreFaults} \subseteq Nat
  /\ {SweepBatch, TrimBatch, DeleteBatch} \subseteq Nat \ {0}

VARIABLES
  tick,
  recorded,      \* ghost: frames ever recorded
  frames,        \* rows of the frames table
  json,          \* frames whose accessibility_tree_json is neither NULL nor ''
  copies,        \* copies[f]: how often f's tree is in the elements table
  ref,           \* ref[f]: elements_ref_frame_id; 0 for NULL
  pages,         \* the size of the file
  incremental,   \* auto_vacuum is INCREMENTAL
  recording,     \* the recorder runs
  sweep,         \* sweep[s]: [pc, todo, ref]
  trim,          \* the retention pass: [pc, ids]
  erase,         \* the delete-range request: [pc, from, to, ids, batch]
  handed,        \* frames whose deletion was handed to the cascade
  halved,        \* ghost: rows whose elements delete-range has deleted before them
  orphaned,      \* ghost: frames deleted by a process that failed before its cascade
  storeFaults
table == <<frames, json, copies, ref>>
storeGhosts == <<halved, orphaned>>
storeVars == <<tick, recorded, table, pages, incremental, recording, sweep, trim, erase, handed,
               storeGhosts, storeFaults>>

Oldest(k, S) == {f \in S : Cardinality({g \in S : g < f}) < k}
Lowest(S)    == CHOOSE f \in S : \A g \in S : f <= g
Present(S)   == S \cap frames

NoSweep == [pc |-> "idle", todo |-> {}, ref |-> [f \in Ids |-> 0]]
NoTrim  == [pc |-> "idle", ids |-> {}]
NoErase == [pc |-> "idle", from |-> 0, to |-> 0, ids |-> {}, batch |-> {}]

StoreInit ==
  /\ tick = 0 /\ recorded = {} /\ frames = {} /\ json = {} /\ copies = [f \in Ids |-> 0]
  /\ ref = [f \in Ids |-> 0] /\ pages = 0 /\ incremental = FALSE /\ recording = TRUE
  /\ sweep = [s \in Sweepers |-> NoSweep] /\ trim = NoTrim /\ erase = NoErase
  /\ handed = {} /\ halved = {} /\ orphaned = {} /\ storeFaults = 0

StoreFault == storeFaults < StoreFaults /\ storeFaults' = storeFaults + 1

-----------------------------------------------------------------------------
(* The recorder.                                                           *)

Record ==
  /\ tick < StoreClock /\ tick' = tick + 1
  /\ LET new == IF recording THEN {f \in Ids : TakenAt[f] = tick + 1} ELSE {}
     IN  /\ recorded' = recorded \cup new /\ frames' = frames \cup new
         /\ json' = json \cup {f \in new : TreeKind[f] # "none"}
         /\ pages' = IF Cardinality(frames') > pages THEN Cardinality(frames') ELSE pages
  /\ UNCHANGED <<copies, ref, incremental, recording, sweep, trim, erase, handed, storeGhosts,
                 storeFaults>>

(* Its worker normalises a frame, or points it at an earlier frame that    *)
(* looks the same (and whose rows may be the OCR's only).                  *)
Normalise ==
  /\ recording
  /\ \E f \in json :
       /\ copies[f] = 0 /\ ref[f] = 0
       /\ \/ copies' = [copies EXCEPT ![f] = 1] /\ UNCHANGED ref
          \/ \E g \in frames : g < f /\ ref' = [ref EXCEPT ![f] = g] /\ UNCHANGED copies
  /\ UNCHANGED <<tick, recorded, frames, json, pages, incremental, recording, sweep, trim, erase,
                 handed, storeGhosts, storeFaults>>

StopOrStart ==
  /\ StoreFault /\ recording' = ~recording
  /\ UNCHANGED <<tick, recorded, table, pages, incremental, sweep, trim, erase, handed, storeGhosts>>

-----------------------------------------------------------------------------
(* sweepOnce.                                                              *)

Owner(f, reference) == IF reference[f] = 0 THEN f ELSE reference[f]

HasElementsForFrame(f, reference) == copies[Owner(f, reference)] > 0

BeginSweep(s) ==
  /\ sweep[s].pc = "idle"
  /\ LET listed == Oldest(SweepBatch, {f \in json : TakenAt[f] < tick - MinFrameAge})
     IN  sweep' = [sweep EXCEPT ![s] =
           [pc |-> "check", todo |-> listed,
            ref |-> [f \in Ids |-> IF f \in listed THEN ref[f] ELSE 0]]]
  /\ UNCHANGED <<tick, recorded, table, pages, incremental, recording, trim, erase, handed,
                 storeGhosts, storeFaults>>

NextCandidate(s) == [sweep EXCEPT ![s].pc = "check", ![s].todo = @ \ {Lowest(@)}]

(* The reference is the one the candidate was listed with.                 *)
CheckCandidate(s) ==
  /\ sweep[s].pc = "check" /\ sweep[s].todo # {}
  /\ LET f == Lowest(sweep[s].todo)
     IN  sweep' = IF HasElementsForFrame(f, sweep[s].ref)
                  THEN [sweep EXCEPT ![s].pc = "null"]
                  ELSE IF TreeKind[f] = "list" THEN [sweep EXCEPT ![s].pc = "convert"]
                       ELSE NextCandidate(s)
  /\ UNCHANGED <<tick, recorded, table, pages, incremental, recording, trim, erase, handed,
                 storeGhosts, storeFaults>>

NullJson(s) ==
  /\ sweep[s].pc = "null"
  /\ json' = json \ {Lowest(sweep[s].todo)}
  /\ sweep' = NextCandidate(s)
  /\ UNCHANGED <<tick, recorded, frames, copies, ref, pages, incremental, recording, trim, erase, handed,
                 storeGhosts, storeFaults>>

(* Mutants: the check is not repeated inside the transaction; the frame    *)
(* keeps the reference it had.                                             *)
ConvertUnchecked(s) ==
  /\ sweep[s].pc = "convert"
  /\ LET f == Lowest(sweep[s].todo)
     IN  /\ json' = json \ {f}
         /\ copies' = [copies EXCEPT ![f] = @ + 1]
         /\ ref' = IF f \in frames THEN [ref EXCEPT ![f] = f] ELSE ref
  /\ sweep' = NextCandidate(s)
  /\ UNCHANGED <<tick, recorded, frames, pages, incremental, recording, trim, erase, handed, storeGhosts,
                 storeFaults>>
ConvertKeepingRef(s) ==
  /\ sweep[s].pc = "convert"
  /\ LET f == Lowest(sweep[s].todo)
     IN  /\ json' = json \ {f}
         /\ IF HasElementsForFrame(f, sweep[s].ref) THEN UNCHANGED copies
            ELSE copies' = [copies EXCEPT ![f] = @ + 1]
  /\ sweep' = NextCandidate(s)
  /\ UNCHANGED <<tick, recorded, frames, ref, pages, incremental, recording, trim, erase, handed,
                 storeGhosts, storeFaults>>

(* One transaction, which a locked database rolls back.  Rows are inserted *)
(* even if the frame itself is gone by now.                                *)
Convert(s) ==
  /\ sweep[s].pc = "convert"
  /\ LET f == Lowest(sweep[s].todo)
     IN  \/ /\ HasElementsForFrame(f, sweep[s].ref)
            /\ json' = json \ {f}
            /\ UNCHANGED <<copies, ref, storeFaults>>
         \/ /\ ~HasElementsForFrame(f, sweep[s].ref)
            /\ json' = json \ {f}
            /\ copies' = [copies EXCEPT ![f] = @ + 1]
            /\ ref' = IF f \in frames THEN [ref EXCEPT ![f] = f] ELSE ref
            /\ UNCHANGED storeFaults
         \/ StoreFault /\ UNCHANGED <<json, copies, ref>>
  /\ sweep' = NextCandidate(s)
  /\ UNCHANGED <<tick, recorded, frames, pages, incremental, recording, trim, erase, handed, storeGhosts>>

EndSweep(s) ==
  /\ sweep[s].pc = "check" /\ sweep[s].todo = {}
  /\ sweep' = [sweep EXCEPT ![s] = NoSweep]
  /\ UNCHANGED <<tick, recorded, table, pages, incremental, recording, trim, erase, handed,
                 storeGhosts, storeFaults>>

-----------------------------------------------------------------------------
(* Giving pages back: reclaimOnce from the free list, a page per step;     *)
(* runVacuumInit offline.                                                  *)

Reclaim ==
  /\ incremental /\ Cardinality(frames) < pages
  /\ pages' = pages - 1
  /\ UNCHANGED <<tick, recorded, table, incremental, recording, sweep, trim, erase, handed, storeGhosts,
                 storeFaults>>

(* Refused while the recorder runs, without room for a copy, or without    *)
(* the lock.                                                               *)
VacuumInit ==
  /\ ~recording
  /\ pages' = Cardinality(frames) /\ incremental' = TRUE
  /\ UNCHANGED <<tick, recorded, table, recording, sweep, trim, erase, handed, storeGhosts, storeFaults>>

-----------------------------------------------------------------------------
(* runRetentionIfOverBudget, one pass at a time.                           *)

BelowFloor == {f \in frames : TakenAt[f] < tick - Retention}

BeginTrim ==
  /\ trim.pc = "idle" /\ trim' = [NoTrim EXCEPT !.pc = "measure"]
  /\ UNCHANGED <<tick, recorded, table, pages, incremental, recording, sweep, erase, handed,
                 storeGhosts, storeFaults>>

(* The size of the file decides; then the ids are selected.                *)
MeasureAndSelect ==
  /\ trim.pc = "measure"
  /\ trim' = IF pages <= Budget \/ BelowFloor = {} THEN NoTrim
             ELSE [pc |-> "delete", ids |-> Oldest(TrimBatch, BelowFloor)]
  /\ UNCHANGED <<tick, recorded, table, pages, incremental, recording, sweep, erase, handed,
                 storeGhosts, storeFaults>>

DropRows(S) ==
  /\ frames' = frames \ S /\ json' = json \ S
  /\ copies' = [f \in Ids |-> IF f \in S THEN 0 ELSE copies[f]]

(* One transaction over the selected ids; RETURNING says which were there. *)
(* A failing one ends the pass.                                            *)
DeleteOldestBatch ==
  /\ trim.pc = "delete"
  /\ \/ /\ DropRows(trim.ids)
        /\ trim' = IF Present(trim.ids) = {} THEN NoTrim
                   ELSE [pc |-> "cascade", ids |-> Present(trim.ids)]
        /\ UNCHANGED storeFaults
     \/ StoreFault /\ trim' = NoTrim /\ UNCHANGED <<frames, json, copies>>
  /\ UNCHANGED <<tick, recorded, ref, pages, incremental, recording, sweep, erase, handed, halved, orphaned>>

(* cascadeByFrameIds or, when it fails, the tombstone; then the next batch.*)
CascadeTrim ==
  /\ trim.pc = "cascade"
  /\ handed' = handed \cup trim.ids
  /\ trim' = [NoTrim EXCEPT !.pc = "measure"]
  /\ UNCHANGED <<tick, recorded, table, pages, incremental, recording, sweep, erase, storeGhosts, storeFaults>>

-----------------------------------------------------------------------------
(* delete-range: batches by id, elements before frames, each statement its *)
(* own transaction.                                                        *)

BeginErase ==
  /\ erase.pc = "idle"
  /\ erase' = [NoErase EXCEPT !.pc = "select", !.to = tick,
                              !.from = IF tick > DeleteReach THEN tick - DeleteReach ELSE 0]
  /\ UNCHANGED <<tick, recorded, table, pages, incremental, recording, sweep, trim, handed,
                 storeGhosts, storeFaults>>

SelectIds ==
  /\ erase.pc = "select"
  /\ LET batch == Oldest(DeleteBatch,
                    {f \in frames : erase.from <= TakenAt[f] /\ TakenAt[f] <= erase.to})
     IN  erase' = IF batch = {} THEN [erase EXCEPT !.pc = "cascade"]
                  ELSE [erase EXCEPT !.pc = "elements", !.batch = batch]
  /\ UNCHANGED <<tick, recorded, table, pages, incremental, recording, sweep, trim, handed,
                 storeGhosts, storeFaults>>

DeleteElements ==
  /\ erase.pc = "elements"
  /\ copies' = [f \in Ids |-> IF f \in erase.batch THEN 0 ELSE copies[f]]
  /\ halved' = halved \cup erase.batch
  /\ erase' = [erase EXCEPT !.pc = "frames"]
  /\ UNCHANGED <<tick, recorded, frames, json, ref, pages, incremental, recording, sweep, trim, handed,
                 orphaned, storeFaults>>

(* Mutant: only the last batch is remembered for the cascade.              *)
DeleteFramesForgetting ==
  /\ erase.pc = "frames"
  /\ frames' = frames \ erase.batch /\ json' = json \ erase.batch
  /\ halved' = halved \ erase.batch
  /\ erase' = [erase EXCEPT !.ids = erase.batch, !.batch = {},
                            !.pc = IF Present(erase.batch) = {} THEN "cascade" ELSE "select"]
  /\ UNCHANGED <<tick, recorded, copies, ref, pages, incremental, recording, sweep, trim, handed,
                 orphaned, storeFaults>>

(* A batch that another writer has deleted meanwhile ends the loop.        *)
DeleteFrames ==
  /\ erase.pc = "frames"
  /\ frames' = frames \ erase.batch /\ json' = json \ erase.batch
  /\ halved' = halved \ erase.batch
  /\ erase' = [erase EXCEPT !.ids = @ \cup erase.batch, !.batch = {},
                            !.pc = IF Present(erase.batch) = {} THEN "cascade" ELSE "select"]
  /\ UNCHANGED <<tick, recorded, copies, ref, pages, incremental, recording, sweep, trim, handed,
                 orphaned, storeFaults>>

CascadeErase ==
  /\ erase.pc = "cascade"
  /\ handed' = handed \cup erase.ids
  /\ erase' = NoErase
  /\ UNCHANGED <<tick, recorded, table, pages, incremental, recording, sweep, trim, storeGhosts, storeFaults>>

(* A deleting process fails or dies between two statements; what it has    *)
(* deleted so far reaches no cascade.                                      *)
DeleterFails ==
  /\ StoreFault
  /\ \/ /\ trim.pc # "idle" /\ trim' = NoTrim /\ UNCHANGED erase
        /\ orphaned' = orphaned \cup (trim.ids \ frames)
     \/ /\ erase.pc # "idle" /\ erase' = NoErase /\ UNCHANGED trim
        /\ orphaned' = orphaned \cup (erase.ids \ frames)
  /\ UNCHANGED <<tick, recorded, table, pages, incremental, recording, sweep, handed, halved>>

-----------------------------------------------------------------------------
SweepStep == \E s \in Sweepers :
  BeginSweep(s) \/ CheckCandidate(s) \/ NullJson(s) \/ Convert(s) \/ EndSweep(s)
TrimStep  == BeginTrim \/ MeasureAndSelect \/ DeleteOldestBatch \/ CascadeTrim
EraseStep == BeginErase \/ SelectIds \/ DeleteElements \/ DeleteFrames \/ CascadeErase

StoreNext == \/ Record \/ Normalise \/ StopOrStart \/ SweepStep \/ Reclaim \/ VacuumInit
             \/ TrimStep \/ EraseStep \/ DeleterFails

StoreSpec == StoreInit /\ [][StoreNext]_storeVars

-----------------------------------------------------------------------------
(* getFrame finds a tree: the JSON, or rows to rebuild it from.            *)
Reconstructed(f) == copies[Owner(f, ref)] > 0

TreeReadable(f) == f \in json \/ Reconstructed(f)

(* Maintenance rewrites trees and never loses one: a recorded frame whose  *)
(* tree can no longer be read refers to a frame that was deleted, or is    *)
(* part of a deletion that stopped between its two statements; whatever    *)
(* the recorder's worker, another sweep or a deletion do in between.       *)
TreesSurviveSweeps ==
  \A f \in frames : TreeKind[f] # "none" /\ ~TreeReadable(f) =>
    Owner(f, ref) \notin frames \/ {f, Owner(f, ref)} \cap halved # {}

(* No tree is in the elements table twice, however a sweep and the worker  *)
(* race (sweep.test.ts:235, maintenance-adapter.ts:208-219); of one sweep  *)
(* at a time, since the check in the transaction goes by the reference the *)
(* frame was listed with, and another sweep may have replaced that one.    *)
NoTreeTwice == \A f \in Ids : copies[f] <= 1

(* The derived layer hears of exactly what was deleted: every deleted      *)
(* frame has been handed to a cascade or is about to be, unless the        *)
(* deleting process failed; and no frame that is still there has been.     *)
CascadeHearsOfDeletions ==
  /\ handed \cap frames = {}
  /\ recorded \ frames \subseteq handed \cup orphaned \cup trim.ids \cup erase.ids

===============================================================================
