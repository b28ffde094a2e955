------------------------------- MODULE Rebuild -------------------------------
(***************************************************************************)
(* rebuild-index (runRebuildIndex in src/index.ts) over the index that     *)
(* module Indexing describes: with the server stopped, the vectors and the *)
(* checkpoint are reset, and the whole history up to the start is worked   *)
(* off as one backlog, a forced runOnce per round.  The rebuild ends when  *)
(* no backlog is left, throws when a round had a failure, and may die at   *)
(* any await; the server started afterwards goes on from what it finds.    *)
(* That no server runs meanwhile is shown by module RuntimeRegistry.       *)
(***************************************************************************)
EXTENDS Indexing

CONSTANT MaxRebuilds   \* bound on how often rebuild-index is run

ASSUME RebuildAssumption == MaxRebuilds \in Nat

VARIABLES
  rebuild,    \* [pc, backlog]: the rebuild and the backlog it forces next
  rebuilds,
  halfReset,  \* ghost: a rebuild has emptied the vectors and not yet the checkpoint
  before,     \* ghost: what had been captured when the last rebuild started
  spared,     \* ghost: blocked records the last rebuild passed over
  rebuilt     \* ghost: what the last completed rebuild has answered for
rebuildVars == <<rebuild, rebuilds, halfReset, before, spared, rebuilt>>

NoRebuild == [pc |-> "off", backlog |-> NoBacklog]

RebuildInit ==
  /\ Init /\ rebuild = NoRebuild /\ rebuilds = 0 /\ halfReset = FALSE
  /\ before = {} /\ spared = {} /\ rebuilt = {}

(* The server, as long as no rebuild runs.                                 *)
Serve == rebuild.pc = "off" /\ (RunStep \/ Abort) /\ UNCHANGED rebuildVars

Surroundings == (Tick \/ ChangePrivacy) /\ UNCHANGED rebuildVars

StartRebuild ==
  /\ rebuild.pc = "off" /\ pc = "idle" /\ rebuilds < MaxRebuilds
  /\ rebuild' = [NoRebuild EXCEPT !.pc = "vectors"]
  /\ rebuilds' = rebuilds + 1
  /\ UNCHANGED <<vars, halfReset, before, spared, rebuilt>>

ResetVectors ==
  /\ rebuild.pc = "vectors"
  /\ vectors' = {} /\ halfReset' = TRUE /\ rebuilt' = {}
  /\ rebuild' = [rebuild EXCEPT !.pc = "checkpoint"]
  /\ UNCHANGED <<setting, clock, captured, blocked, content, ckpt, waived, dropped, run, faults,
                 rebuilds, before, spared>>

FullHistory == [from |-> 0, to |-> clock, off |-> 0]

(* Mutant: the checkpoint is kept.                                         *)
ResetCheckpointNot ==
  /\ rebuild.pc = "checkpoint"
  /\ rebuild' = [pc |-> "rounds", backlog |-> FullHistory]
  /\ halfReset' = FALSE /\ before' = captured /\ spared' = {}
  /\ UNCHANGED <<vars, rebuilds, rebuilt>>

ResetCheckpoint ==
  /\ rebuild.pc = "checkpoint"
  /\ ckpt' = [at |-> 0, backlog |-> NoBacklog]
  /\ rebuild' = [pc |-> "rounds", backlog |-> FullHistory]
  /\ halfReset' = FALSE /\ before' = captured /\ spared' = {}
  /\ UNCHANGED <<setting, clock, captured, blocked, content, vectors, waived, dropped, run, faults,
                 rebuilds, rebuilt>>

(* fetchCandidateRecords with the forced backlog.                          *)
StartRound ==
  /\ rebuild.pc = "rounds" /\ pc = "idle"
  /\ todo' = Eligible(PageRows(rebuild.backlog), rebuild.backlog.off)
  /\ next' = BacklogAfter(rebuild.backlog)
  /\ pc' = "extract"
  /\ UNCHANGED <<setting, clock, persistent, ready, held, released, good, bad, faults, rebuildVars>>

WorkRound ==
  /\ rebuild.pc = "rounds"
  /\ Extract \/ Embed \/ Upsert \/ Recheck \/ ProcessRecord
  /\ UNCHANGED rebuildVars

(* Mutant: failures of a round are not looked at.                          *)
RoundOutcomeBlind == IF ckpt'.backlog = NoBacklog THEN "complete" ELSE "rounds"

(* hadEmbeddingFailures throws; otherwise the backlog stored by the round  *)
(* is forced next, and an offset that did not move throws.                 *)
RoundOutcome ==
  IF bad # {} THEN "failed"
  ELSE IF ckpt'.backlog = NoBacklog THEN "complete"
  ELSE IF ckpt'.backlog.off <= rebuild.backlog.off THEN "failed" ELSE "rounds"

EndRound ==
  /\ rebuild.pc = "rounds"
  /\ Finish
  /\ spared' = spared \cup held
  /\ LET outcome == RoundOutcome
     IN  /\ rebuild' = IF outcome = "rounds" THEN [rebuild EXCEPT !.backlog = ckpt'.backlog]
                       ELSE NoRebuild
         /\ rebuilt' = IF outcome = "complete" THEN before ELSE rebuilt
  /\ UNCHANGED <<rebuilds, halfReset, before>>

(* An exception, or the process dies.                                      *)
RebuildFails ==
  /\ rebuild.pc # "off" /\ faults < MaxFaults
  /\ faults' = faults + 1
  /\ NoRun
  /\ rebuild' = NoRebuild
  /\ UNCHANGED <<setting, clock, persistent, rebuilds, halfReset, before, spared, rebuilt>>

RebuildStep == StartRebuild \/ ResetVectors \/ ResetCheckpoint \/ StartRound \/ WorkRound \/ EndRound

RebuildNext == Serve \/ Surroundings \/ RebuildStep \/ RebuildFails

RebuildSpec == RebuildInit /\ [][RebuildNext]_<<vars, rebuildVars>>

-----------------------------------------------------------------------------
(* A rebuild that reports success has put back a vector for every frame    *)
(* captured before it started, however many pages it took, unless the      *)
(* frame holds no text or was blocked; so also for frames that an earlier  *)
(* run had dropped (rebuild-index.test.ts:400).                            *)
RebuildRestores == rebuilt \subseteq vectors \cup Empty \cup spared

(* A rebuild that fails or dies leaves a checkpoint the server can go on   *)
(* from without skipping anything, except between the two resets: there    *)
(* the vectors are gone and the checkpoint still says they exist.          *)
InterruptedRebuildSkipsNothing == halfReset \/ OnlyTheOffsetDrops
===============================================================================
