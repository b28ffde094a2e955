------------------------------ MODULE LineDelta ------------------------------
(***************************************************************************)
(* The text that indexing keeps of a frame: the lines its context has not  *)
(* shown yet (work-activity/extraction/universal.ts, LineDeltaDeduplicator *)
(* and its transaction), on top of the rows, sessions and runs of          *)
(* DerivedData.  A run previews what it drops and commits, after the       *)
(* checkpoint is stored, what the frames behind the checkpoint have shown. *)
(*                                                                         *)
(* Applications may be excluded and included again here, so a run can meet *)
(* frames out of order: those it released at its end.                      *)
(***************************************************************************)
EXTENDS DerivedData

CONSTANTS
  Text,        \* Text[f]: the set of lines of f; {} is an empty extraction
  Excludable   \* contexts whose application may be excluded

Lines    == UNION {Text[f] : f \in Frames}
Contexts == {Context[f] : f \in Frames}

ASSUME TextAssumption == DOMAIN Text = Frames /\ Excludable \subseteq Contexts

VARIABLES
  rows,       \* rows[f]: the extracted_text of f, stored while f is in content
  seen,       \* activeContexts: [last, lines] of each active context
  work,       \* workingContexts of the run's transaction
  ops,        \* its operations: the frames processed, in order
  hydrated,   \* lineDeduplicationHydrated
  excluded,   \* contexts of excluded applications
  erased,     \* ghost: frames whose row was deleted
  irregular   \* ghost: frames released late, or stored by a run that did not accept them

ghostsOfText == <<erased, irregular>>
text == <<rows, seen, work, ops, hydrated, excluded, ghostsOfText>>
SameText == UNCHANGED text

Nothing == [c \in {} |-> [last |-> 0, lines |-> {}]]
NoTransaction == work' = Nothing /\ ops' = <<>>

LineInit ==
  /\ Init
  /\ rows = [f \in Frames |-> {}] /\ seen = Nothing /\ work = Nothing /\ ops = <<>>
  /\ hydrated = FALSE /\ excluded = {} /\ erased = {} /\ irregular = {}

-----------------------------------------------------------------------------
(* The deduplicator: a is a map of active contexts.                        *)

Without(a, C) == [c \in DOMAIN a \ C |-> a[c]]

PruneExpired(a, t) == Without(a, {c \in DOMAIN a : t - a[c].last > Idle})

(* The lines f's context has shown; none when the context is new, expired, *)
(* or ahead of f.                                                          *)
Known(a, f) ==
  LET p == PruneExpired(a, Time[f])
  IN  UNION {p[c].lines : c \in {c \in DOMAIN p : c = Context[f] /\ p[c].last <= Time[f]}}

ApplyLineDelta(a, f, lines) ==
  LET p == PruneExpired(a, Time[f])
  IN  [c \in DOMAIN p \cup {Context[f]} |->
         IF c = Context[f] THEN [last |-> Time[f], lines |-> Known(a, f) \cup lines] ELSE p[c]]

Delta(f) == Text[f] \ Known(work, f)

(* commit: an operation that is not accepted blocks the later ones of its  *)
(* context, unless it had no text.                                         *)
Replay(accepted, acc, f) ==
  CASE f \notin accepted /\ Text[f] # {} -> [acc EXCEPT !.blocked = @ \cup {Context[f]}]
    [] f \in accepted /\ Context[f] \notin acc.blocked ->
         [acc EXCEPT !.contexts = ApplyLineDelta(@, f, Text[f])]
    [] OTHER -> acc

Commit(accepted) ==
  LET after[i \in 0..Len(ops)] ==
        IF i = 0 THEN [contexts |-> seen, blocked |-> {}]
        ELSE Replay(accepted, after[i - 1], ops[i])
  IN after[Len(ops)].contexts

-----------------------------------------------------------------------------
(* The run.                                                                *)

Stale == {s.ctx : s \in {s \in sessions : s.open /\ EndedAt(s) < clock - Idle}}

(* Mutant: the row a session starts with is left out.                      *)
HydratableAfterStart ==
  {f \in content : f <= ckpt /\ \E s \in FlushIdle(sessions) :
     s.open /\ s.ctx = Context[f] /\ StartedAt(s) < Time[f]}

(* Rows behind the checkpoint, of sessions that are open after the flush.  *)
Hydratable ==
  {f \in content : f <= ckpt /\ \E s \in FlushIdle(sessions) :
     s.open /\ s.ctx = Context[f] /\ StartedAt(s) <= Time[f]}

Hydrate(a) ==
  LET after[f \in 0..N] ==
        IF f = 0 THEN a
        ELSE IF f \in Hydratable THEN ApplyLineDelta(after[f - 1], f, rows[f])
        ELSE after[f - 1]
  IN after[N]

StartLines ==
  /\ StartRun
  /\ LET kept == Without(seen, Stale)
     IN  seen' = IF hydrated THEN kept ELSE Hydrate(kept)
  /\ hydrated' = TRUE
  /\ work' = seen' /\ ops' = <<>>
  /\ UNCHANGED <<rows, excluded, ghostsOfText>>

Blocked(f) == Context[f] \in excluded

AdmitUnlessExcluded ==
  /\ pc = "extract" /\ hand = None /\ todo # {}
  /\ LET f == First(todo)
     IN  /\ todo' = todo \ {f}
         /\ IF Blocked(f)
            THEN held' = held \cup {f} /\ UNCHANGED hand
            ELSE hand' = f /\ UNCHANGED held
  /\ UNCHANGED <<source, privacy, derived, ckpt, pc, prepared, failed, del, call, ghosts,
                 faults, deletes, text>>

Process(f) ==
  /\ rows' = [rows EXCEPT ![f] = Delta(f)]
  /\ work' = ApplyLineDelta(work, f, Text[f])
  /\ ops' = Append(ops, f)
  /\ irregular' = irregular \cup ({f} \cap held)
  /\ UNCHANGED <<seen, hydrated, excluded, erased>>

StoreLines == Store /\ Process(hand)

Texts == {f \in prepared : rows[f] # {}}

EmbedLines == EmbedAndUpsertOf(Texts) /\ SameText

(* The re-check: a record no longer blocked is processed after all.        *)
Release ==
  /\ pc = "finish"
  /\ {f \in held : ~Blocked(f)} # {}
  /\ LET f == First({f \in held : ~Blocked(f)})
     IN  /\ held' = held \ {f} /\ prepared' = prepared \cup {f}
         /\ content' = content \cup {f}
         /\ HandleExtraction(f)
         /\ Process(f)
         /\ \/ Delta(f) = {} /\ UNCHANGED <<vectors, failed, faults>>
            \/ Delta(f) # {} /\ vectors' = vectors \cup {f} /\ UNCHANGED <<failed, faults>>
            \/ Delta(f) # {} /\ failed' = failed \cup {f} /\ Fault /\ UNCHANGED vectors
  /\ UNCHANGED <<source, privacy, ckpt, pc, todo, hand, del, call, ghosts, deletes>>

(* Mutant: every frame that did not fail is accepted.                      *)
AcceptedAll == prepared \ failed

(* Frames behind the first failure are durable.                            *)
Accepted == {f \in prepared \ failed : \A g \in failed : f < g}

FinishLines ==
  /\ \A f \in held : Blocked(f)
  /\ FinishOf(Texts)
  /\ IF Throws(Texts)
     THEN UNCHANGED seen /\ irregular' = irregular \cup prepared
     ELSE seen' = Commit(Accepted) /\ irregular' = irregular \cup (prepared \ Accepted)
  /\ NoTransaction
  /\ UNCHANGED <<rows, hydrated, excluded, erased>>

AbortLines ==
  /\ Abort
  /\ NoTransaction
  /\ irregular' = irregular \cup prepared
  /\ UNCHANGED <<rows, seen, hydrated, excluded, erased>>

RestartLines ==
  /\ Restart
  /\ NoTransaction
  /\ seen' = Nothing /\ hydrated' = FALSE
  /\ irregular' = irregular \cup prepared
  /\ UNCHANGED <<rows, excluded, erased>>

-----------------------------------------------------------------------------
(* The rest of the system.                                                 *)

Exclude ==
  /\ \E c \in Excludable : excluded' = IF c \in excluded THEN excluded \ {c} ELSE excluded \cup {c}
  /\ UNCHANGED <<vars, rows, seen, work, ops, hydrated, ghostsOfText>>

(* delete-range, trim, retention and reconciliation: the frames of some    *)
(* window go, in one step here (module DerivedData has the steps).  What   *)
(* the deduplicator has seen of them stays.                                *)
Cascade ==
  /\ deletes < MaxDeletes /\ deletes' = deletes + 1
  /\ \E t \in 0..clock : \E S \in {Within(0, t), Within(t, clock)} :
       /\ upstream' = upstream \ S
       /\ DeleteRows(S)
       /\ vectors' = vectors \ S
       /\ erased' = erased \cup (content \cap S)
  /\ UNCHANGED <<clock, privacy, nextId, ckpt, run, del, call, ghosts, faults,
                 rows, seen, work, ops, hydrated, excluded, irregular>>

LineRunStep ==
  StartLines \/ AdmitUnlessExcluded \/ StoreLines \/ EmbedLines \/ Release \/ FinishLines

OtherStep == (Tick \/ Flush) /\ SameText

LineNext == LineRunStep \/ AbortLines \/ RestartLines \/ Exclude \/ Cascade \/ OtherStep

LineSpec == LineInit /\ [][LineNext]_<<vars, text>>

-----------------------------------------------------------------------------
Durable == {f \in content : f <= ckpt}

(* Up to a tick, no Idle ticks pass without a frame of the context.        *)
NoPause(c, from, to) ==
  \A t \in from..to : t + Idle < to =>
    \E h \in content : Context[h] = c /\ t < Time[h] /\ Time[h] <= t + Idle

(* Frames of f's context that are no later than f, with no pause above the *)
(* threshold between them and f.                                           *)
Stretch(f) ==
  {g \in content : Context[g] = Context[f] /\ Time[g] <= Time[f]
                  /\ NoPause(Context[f], Time[g], Time[f])}

(* A line is left out of a stored frame only if it is stored with a frame  *)
(* of the same stretch of activity that is no later, whatever failed, was  *)
(* retried, released late or lost by a restart; only what a cascade        *)
(* deletes of the context can take it away.                                *)
LinesKept ==
  \A f \in content :
    (\A g \in erased : Context[g] # Context[f]) =>
      Text[f] \subseteq UNION {rows[g] : g \in Stretch(f)}

(* A session repeats no line (USE-R05: only newly appeared lines are       *)
(* emitted), across runs and restarts, but for frames released late and    *)
(* those a failed run has left.                                            *)
OncePerSession ==
  \A s \in sessions : Elements(s.evidence) \cap irregular = {} =>
    \A f, g \in Elements(s.evidence) : f # g => rows[f] \cap rows[g] = {}

(* extraction/universal.ts:469-474: when a session is closed the lines of  *)
(* its context are forgotten, so that the session that follows carries     *)
(* itself: what its frames showed is in rows of its own evidence, unless   *)
(* deletions, late releases or failed runs have to do with it.             *)
SessionStandsAlone ==
  \A s \in sessions : \A f \in Elements(s.evidence) \cap (Durable \ irregular) :
    (\A g \in erased : Context[g] # Context[f]) =>
      Text[f] \subseteq UNION {rows[g] : g \in Elements(s.evidence)}

=============================================================================
