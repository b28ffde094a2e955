--------------------------- MODULE IndexingProofs ---------------------------
(***************************************************************************)
(* The indexer skips no frame, for every number of frames, capture times,  *)
(* configuration and sequence of failures.  That the checkpoint passes     *)
(* only what is accounted for is inductive together with what a run has in *)
(* memory: which frames its fetch has left out (SkipsNothing), and what    *)
(* the offset it is about to store has left behind (Passed).  The same     *)
(* invariant, with what a rebuild still has to bring, shows that           *)
(* rebuild-index restores what it says.                                    *)
(***************************************************************************)
EXTENDS Rebuild, FiniteSetTheorems, WellFoundedInduction, TLAPS

InHand == todo \cup ready \cup held \cup released

Covered(f) == Settled(f) \/ f \in dropped

RangeOf(C, b) == {f \in C : b.from <= Time[f] /\ Time[f] <= b.to}

RowIn(C, newest, f, b) ==
  Cardinality({g \in RangeOf(C, b) : IF newest THEN f <= g ELSE g <= f})

(* Frames a backlog has still to bring, and those it has left behind, when *)
(* the source holds C.                                                     *)
Ahead(C, newest, f, b) == /\ b # NoBacklog
                          /\ f \in RangeOf(C, b)
                          /\ b.off < RowIn(C, newest, f, b)

Past(C, newest, f, b) == \/ Time[f] < b.from
                         \/ f \in RangeOf(C, b) /\ RowIn(C, newest, f, b) <= b.off

(* What a backlog's offset has passed is accounted for, or still in S.     *)
Passed(b, S) ==
  b # NoBacklog =>
    /\ b.from <= b.to /\ b.to <= clock /\ 0 < b.off
    /\ \A f \in captured :
         Past(captured, setting.newestFirst, f, b) => f \in S \/ Covered(f)

InTime == \A f \in captured : Time[f] <= clock

CheckpointIndexed == ckpt.at # 0 => Settled(ckpt.at)

StoredOffset == Passed(ckpt.backlog, {})

(* Below what a run has in hand, and below the checkpoint, nothing is left *)
(* out but what a later page will bring.                                   *)
SkipsNothing ==
  pc # "idle" =>
    /\ Passed(next, InHand)
    /\ \A f \in captured, g \in InHand \cup {ckpt.at} :
         f <= g => \/ f \in InHand \/ Covered(f)
                   \/ Ahead(captured, setting.newestFirst, f, next)

(* What each step of a run leaves for the next.                            *)
Progress ==
  /\ pc = "idle" => /\ next = NoBacklog /\ todo = {} /\ ready = {} /\ held = {}
                    /\ released = {} /\ good = {} /\ bad = {}
  /\ pc = "extract" => released = {} /\ good = {} /\ bad = {}
  /\ pc \in {"upsert", "recheck", "finish"} => todo = {}
  /\ pc \in {"upsert", "finish"} => released = {}
  /\ pc = "upsert" => good = {} /\ bad \subseteq ready
  /\ pc \in {"recheck", "finish"} => ready \subseteq bad \cup vectors \cup Empty

IInv == /\ TypeOK /\ Progress /\ InTime /\ CheckpointIndexed
        /\ StoredOffset /\ SkipsNothing
        /\ OnlyTheOffsetDrops

-----------------------------------------------------------------------------
LEMMA LeastExists ==
  ASSUME NEW S \in SUBSET Nat, S # {}
  PROVE  \E x \in S : \A y \in S : x <= y
<1>1. PICK x \in S : \A y \in S : <<y, x>> \notin OpToRel(<, Nat)
  BY NatLessThanWellFounded, WFMin
<1>2. \A y \in S : ~(y < x)
  BY <1>1 DEF OpToRel
<1> QED
  BY <1>2

LEMMA FrameNumbers == \A f \in Frames : f \in Nat /\ f > 0
  BY FrameAssumption DEF Frames

LEMMA FirstIn ==
  ASSUME NEW S \in SUBSET Frames, S # {}
  PROVE  First(S) \in S
<1>1. \E x \in S : \A y \in S : x <= y
  BY LeastExists DEF Frames
<1> QED
  BY <1>1 DEF First

LEMMA GreatestExists ==
  ASSUME NEW S \in SUBSET (Frames \cup {0}), S # {}
  PROVE  \E x \in S : \A y \in S : y <= x
<1> DEFINE T == {n \in Nat : \E x \in S : n = N - x}
<1>1. T \in SUBSET Nat /\ T # {}
  <2>1. PICK x \in S : TRUE
    OBVIOUS
  <2>2. N - x \in T
    BY FrameAssumption DEF Frames
  <2> QED
    BY <2>2
<1>2. PICK m \in T : \A n \in T : m <= n
  BY <1>1, LeastExists
<1>3. PICK x \in S : m = N - x
  OBVIOUS
<1>4. \A y \in S : y <= x
  <2> TAKE y \in S
  <2>1. N - y \in T
    BY FrameAssumption DEF Frames
  <2>2. m <= N - y
    <3> HIDE DEF T
    <3> QED BY <1>2, <2>1
  <2> QED
    BY <1>3, <2>2, FrameAssumption DEF Frames
<1> QED
  BY <1>4

LEMMA NewestIn ==
  ASSUME NEW S \in SUBSET (Frames \cup {0}), S # {}
  PROVE  Newest(S) \in S /\ \A x \in S : x <= Newest(S)
  BY GreatestExists DEF Newest

(* The configuration's numbers.                                            *)
LEMMA SettingType ==
  ASSUME setting \in Settings
  PROVE  /\ Freshness \in Nat \ {0} /\ Batches \in Nat \ {0} /\ PageSize \in Nat \ {0}
         /\ Span \in Nat /\ Pages \in Nat \ {0}
<1>1. /\ Freshness \in Nat \ {0} /\ Batches \in Nat \ {0} /\ PageSize \in Nat \ {0}
  BY SettingAssumption DEF Freshness, Batches, PageSize
<1>2. \A a, b \in Nat \ {0} : a * b \in Nat \ {0}
  OBVIOUS
<1> QED
  BY <1>1, <1>2 DEF Span, Pages

LEMMA FramesFinite == IsFiniteSet(Frames)
  BY FS_Interval, FrameAssumption DEF Frames

LEMMA Counts ==
  ASSUME NEW S \in SUBSET Frames, NEW T \in SUBSET S
  PROVE  /\ Cardinality(S) \in Nat /\ Cardinality(T) \in Nat
         /\ Cardinality(T) <= Cardinality(S)
  BY FramesFinite, FS_Subset, FS_CardinalityType

-----------------------------------------------------------------------------
(* Types.                                                                  *)
LEMMA NoBacklogType == NoBacklog \in Backlog
  BY DEF NoBacklog, Backlog

LEMMA TypeInit == Init => TypeOK
<1> SUFFICES ASSUME Init PROVE TypeOK
  OBVIOUS
<1>1. Seeded => 1 \in Frames
  BY SettingAssumption DEF Init, Seeded
<1>2. /\ setting \in Settings
      /\ clock \in Nat /\ faults \in 0..MaxFaults /\ captured \subseteq Frames
      /\ content \subseteq captured /\ vectors \subseteq captured
  BY <1>1, FrameAssumption, BoundAssumption DEF Init
<1>3. ckpt.at \in captured \cup {0} /\ ckpt \in [at : captured \cup {0}, backlog : Backlog]
  BY <1>1, NoBacklogType DEF Init
<1> QED
  BY <1>2, <1>3, NoBacklogType DEF Init, TypeOK

LEMMA StartType ==
  ASSUME TypeOK
  PROVE  SearchStart \in Int
<1>1. ckpt.at = 0 \/ Time[ckpt.at] \in Nat
  BY FrameAssumption DEF TypeOK
<1> QED
  BY <1>1, SettingType DEF TypeOK, SearchStart, Larger

LEMMA AfterType ==
  ASSUME TypeOK, NEW b \in Backlog
  PROVE  BacklogAfter(b) \in Backlog
  BY SettingType DEF TypeOK, BacklogAfter, Backlog, NoBacklog

LEMMA TypeStep == TypeOK /\ [Next]_vars => TypeOK'
<1> SUFFICES ASSUME TypeOK, [Next]_vars PROVE TypeOK'
  OBVIOUS
<1>1. CASE Tick
  BY <1>1 DEF TypeOK, Tick, run
<1>2. CASE ChangePrivacy
  BY <1>2 DEF TypeOK, ChangePrivacy, run
<1>3. CASE StartRecent
  BY <1>3 DEF TypeOK, StartRecent, persistent, Oldest, Eligible
<1>4. CASE StartBacklog
  <2> DEFINE b == IF ckpt.backlog = NoBacklog
                  THEN [from |-> SearchStart, to |-> clock, off |-> 0]
                  ELSE ckpt.backlog
  <2>1. b \in Backlog
    BY StartType DEF TypeOK, Backlog
  <2>2. next' = BacklogAfter(b) /\ todo' \subseteq PageRows(b)
    BY <1>4 DEF StartBacklog, Eligible
  <2>3. next' \in Backlog /\ todo' \subseteq captured
    BY <2>1, <2>2, AfterType DEF PageRows, InRange
  <2> QED
    BY <1>4, <2>3 DEF TypeOK, StartBacklog
<1>5. CASE Extract
  <2>1. First(todo) \in todo
    BY <1>5, FirstIn DEF Extract, TypeOK
  <2> QED
    BY <1>5, <2>1 DEF TypeOK, Extract
<1>6. CASE Embed
  BY <1>6, BoundAssumption DEF TypeOK, Embed, MayFail, persistent
<1>7. CASE Upsert
  BY <1>7, BoundAssumption DEF TypeOK, Upsert, MayFail
<1>8. CASE Recheck
  BY <1>8 DEF TypeOK, Recheck, persistent
<1>9. CASE ProcessRecord
  <2>1. First(released) \in released
    BY <1>9, FirstIn DEF ProcessRecord, TypeOK
  <2> QED
    BY <1>9, <2>1, BoundAssumption DEF TypeOK, ProcessRecord, MayFail
<1>10. CASE Finish
  <2>1. Newest({ckpt.at} \cup Reached) \in captured \cup {0}
    BY NewestIn DEF TypeOK, Reached
  <2> QED
    BY <1>10, <2>1, NoBacklogType DEF TypeOK, Finish, NoRun
<1>11. CASE Abort
  <2>1. faults' \in 0..MaxFaults
    BY <1>11, BoundAssumption DEF TypeOK, Abort
  <2> QED
    BY <1>11, <2>1, NoBacklogType DEF TypeOK, Abort, NoRun, persistent
<1>12. CASE UNCHANGED vars
  BY <1>12 DEF TypeOK, vars, persistent, run
<1> QED
  BY <1>1, <1>2, <1>3, <1>4, <1>5, <1>6, <1>7, <1>8, <1>9, <1>10, <1>11, <1>12
     DEF Next, RunStep

(* The type invariant of the indexer, for every configuration.             *)
THEOREM TypeCorrect == Spec => []TypeOK
<1> QED BY TypeInit, TypeStep, PTL DEF Spec

-----------------------------------------------------------------------------
(* What a run has in memory moves from step to step as the code has it.    *)
LEMMA ProgressStep == TypeOK /\ Progress /\ [Next]_vars => Progress'
<1> SUFFICES ASSUME TypeOK, Progress, [Next]_vars PROVE Progress'
  OBVIOUS
<1>1. CASE Tick \/ ChangePrivacy
  BY <1>1 DEF Progress, Tick, ChangePrivacy, run
<1>2. CASE StartRecent \/ StartBacklog
  BY <1>2 DEF Progress, StartRecent, StartBacklog, persistent
<1>3. CASE Extract
  BY <1>3 DEF Progress, Extract
<1>4. CASE Embed
  BY <1>4 DEF Progress, Embed, persistent
<1>5. CASE Upsert
  BY <1>5 DEF Progress, Upsert
<1>6. CASE Recheck
  BY <1>6 DEF Progress, Recheck, persistent
<1>7. CASE ProcessRecord
  BY <1>7 DEF Progress, ProcessRecord
<1>8. CASE Finish \/ Abort
  BY <1>8 DEF Progress, Finish, Abort, NoRun
<1>9. CASE UNCHANGED vars
  BY <1>9 DEF Progress, vars, persistent, run
<1> QED
  BY <1>1, <1>2, <1>3, <1>4, <1>5, <1>6, <1>7, <1>8, <1>9 DEF Next, RunStep

(* What is accounted for stays so.                                         *)
LEMMA CoveredStays ==
  ASSUME vectors \subseteq vectors', waived \subseteq waived', dropped \subseteq dropped'
  PROVE  \A f : /\ Settled(f) => Settled(f)'
                /\ Covered(f) => Covered(f)'
  BY DEF Covered, Settled

LEMMA PendingIsAhead ==
  \A f : Pending(f) <=> Ahead(captured, setting.newestFirst, f, ckpt.backlog)
  BY DEF Pending, Ahead, InRange, RangeOf, Row, RowIn, NewestFirst

(* A step that leaves the source and the checkpoint alone.                 *)
LEMMA Outside ==
  ASSUME InTime, CheckpointIndexed, StoredOffset, OnlyTheOffsetDrops,
         UNCHANGED <<setting, clock, captured, ckpt>>,
         vectors \subseteq vectors', waived \subseteq waived', dropped \subseteq dropped'
  PROVE  InTime' /\ CheckpointIndexed' /\ StoredOffset' /\ OnlyTheOffsetDrops'
<1>1. InTime'
  BY DEF InTime
<1>2. CheckpointIndexed'
  BY CoveredStays DEF CheckpointIndexed
<1>3. StoredOffset'
  BY CoveredStays DEF StoredOffset, Passed
<1>4. OnlyTheOffsetDrops'
  <2>1. \A f : Pending(f) => Pending(f)'
    BY DEF Pending, InRange, Row, NewestFirst
  <2> QED
    BY <2>1, CoveredStays DEF OnlyTheOffsetDrops
<1> QED
  BY <1>1, <1>2, <1>3, <1>4

(* A step that also leaves the same frames in hand.                        *)
LEMMA Inside ==
  ASSUME SkipsNothing, UNCHANGED <<setting, clock, captured, ckpt>>,
         vectors \subseteq vectors', waived \subseteq waived', dropped \subseteq dropped',
         pc' # "idle" => pc # "idle" /\ next' = next /\ InHand' = InHand
  PROVE  SkipsNothing'
<1> SUFFICES ASSUME pc' # "idle"
             PROVE  /\ Passed(next, InHand)'
                    /\ \A f \in captured', g \in InHand' \cup {ckpt'.at} :
                         f <= g => \/ f \in InHand' \/ Covered(f)'
                                   \/ Ahead(captured', setting'.newestFirst, f, next')
  BY DEF SkipsNothing
<1>1. Passed(next, InHand)'
  BY CoveredStays DEF SkipsNothing, Passed
<1> QED
  BY <1>1, CoveredStays DEF SkipsNothing

-----------------------------------------------------------------------------
(* Frames captured later come after everything there is.                   *)
LEMMA Order ==
  ASSUME TypeOK, InTime, NEW f \in Frames, NEW g \in captured \cup {0}, f <= g
  PROVE  Time[f] <= clock /\ g \in captured /\ Time[f] <= Time[g]
<1>1. f \in Nat /\ 0 < f /\ g \in captured /\ g \in Frames
  BY FrameAssumption DEF TypeOK, Frames
<1>2. Time[f] \in Nat /\ Time[g] \in Nat /\ clock \in Nat
  BY <1>1, FrameAssumption DEF TypeOK
<1>3. f = g \/ f < g
  BY <1>1, FrameAssumption DEF Frames
<1>4. Time[f] <= Time[g]
  BY <1>1, <1>2, <1>3, FrameAssumption
<1> QED
  BY <1>1, <1>2, <1>4 DEF InTime

LEMMA TickStep == IInv /\ Tick => InTime' /\ CheckpointIndexed' /\ StoredOffset'
                                  /\ SkipsNothing' /\ OnlyTheOffsetDrops'
<1> SUFFICES ASSUME IInv, Tick
             PROVE  /\ InTime' /\ CheckpointIndexed' /\ StoredOffset'
                    /\ SkipsNothing' /\ OnlyTheOffsetDrops'
  OBVIOUS
<1>1. /\ clock \in Nat /\ clock' = clock + 1
      /\ captured \subseteq captured' /\ captured' \subseteq Frames
      /\ \A f \in captured' \ captured : Time[f] = clock + 1
      /\ UNCHANGED <<setting, vectors, waived, dropped, ckpt, run>>
  BY DEF IInv, TypeOK, Tick
<1>2. ASSUME NEW f \in captured', NEW g \in captured \cup {0}, f <= g
      PROVE  f \in captured
  BY <1>1, <1>2, Order DEF IInv
<1>3. ASSUME NEW b \in Backlog, b.to <= clock
      PROVE  RangeOf(captured', b) = RangeOf(captured, b)
  <2>1. \A f \in captured' \ captured : ~(Time[f] <= b.to)
    BY <1>1, <1>3 DEF Backlog
  <2> QED
    BY <1>1, <2>1 DEF RangeOf
<1>4. ASSUME NEW b \in Backlog, b.to <= clock, NEW f
      PROVE  /\ Past(captured', setting.newestFirst, f, b)
                  <=> Past(captured, setting.newestFirst, f, b)
             /\ Ahead(captured', setting.newestFirst, f, b)
                  <=> Ahead(captured, setting.newestFirst, f, b)
  BY <1>3, <1>4 DEF Past, Ahead, RowIn
<1>5. ASSUME NEW b \in Backlog, NEW S, Passed(b, S)
      PROVE  b # NoBacklog =>
               /\ b.from <= b.to /\ b.to <= clock + 1 /\ 0 < b.off
               /\ \A f \in captured' :
                    Past(captured', setting.newestFirst, f, b) => f \in S \/ Covered(f)
  <2> SUFFICES ASSUME b # NoBacklog
               PROVE  /\ b.from <= b.to /\ b.to <= clock + 1 /\ 0 < b.off
                      /\ \A f \in captured' :
                           Past(captured', setting.newestFirst, f, b)
                             => f \in S \/ Covered(f)
    OBVIOUS
  <2>1. /\ b.from <= b.to /\ b.to <= clock /\ 0 < b.off
        /\ \A f \in captured : Past(captured, setting.newestFirst, f, b)
                                 => f \in S \/ Covered(f)
    BY <1>5 DEF Passed
  <2>2. b.to \in Nat /\ b.from \in Int
    BY DEF Backlog
  <2>3. ASSUME NEW f \in captured', Past(captured', setting.newestFirst, f, b)
        PROVE  f \in captured
    <3>1. CASE Time[f] < b.from
      <4>1. Time[f] # clock + 1
        BY <1>1, <2>1, <2>2, <3>1
      <4> QED
        BY <1>1, <4>1
    <3>2. CASE f \in RangeOf(captured', b)
      BY <1>3, <2>1, <3>2 DEF RangeOf
    <3> QED
      BY <2>3, <3>1, <3>2 DEF Past
  <2> QED
    BY <1>1, <1>4, <2>1, <2>2, <2>3
<1>6. \A f : /\ Covered(f) <=> Covered(f)'
             /\ Settled(f) <=> Settled(f)'
  BY <1>1 DEF Covered, Settled
<1>7. InTime'
  BY <1>1, FrameAssumption DEF InTime, IInv
<1>8. CheckpointIndexed'
  BY <1>1, <1>6 DEF CheckpointIndexed, IInv
<1>9. ckpt.backlog \in Backlog /\ next \in Backlog /\ ckpt.at \in captured \cup {0}
  BY DEF IInv, TypeOK
<1>10. StoredOffset'
  <2>1. Passed(ckpt.backlog, {})
    BY DEF IInv, StoredOffset
  <2> DEFINE b == ckpt.backlog
  <2>2. b # NoBacklog =>
          /\ b.from <= b.to /\ b.to <= clock + 1 /\ 0 < b.off
          /\ \A f \in captured' :
               Past(captured', setting.newestFirst, f, b) => f \in {} \/ Covered(f)
    BY <1>5, <1>9, <2>1
  <2> QED
    BY <1>1, <1>6, <2>2 DEF StoredOffset, Passed
<1>11. SkipsNothing'
  <2> SUFFICES ASSUME pc # "idle" PROVE SkipsNothing'
    BY <1>1 DEF SkipsNothing, run
  <2>1. InHand' = InHand /\ InHand \subseteq captured /\ next' = next
    BY <1>1 DEF InHand, run, IInv, TypeOK
  <2>2. Passed(next, InHand)'
    BY <1>1, <1>5, <1>6, <1>9, <2>1 DEF IInv, SkipsNothing, Passed
  <2>3. ASSUME NEW f \in captured', NEW g \in InHand \cup {ckpt.at}, f <= g
        PROVE  f \in InHand \/ Covered(f) \/ Ahead(captured', setting.newestFirst, f, next)
    <3>1. f \in captured
      BY <1>2, <1>9, <2>1, <2>3
    <3>2. CASE Ahead(captured, setting.newestFirst, f, next)
      <4>1. next # NoBacklog /\ next.to <= clock
        BY <3>2 DEF Ahead, IInv, SkipsNothing, Passed
      <4> QED
        BY <1>4, <1>9, <3>2, <4>1
    <3> QED
      BY <2>3, <3>1, <3>2 DEF IInv, SkipsNothing
  <2> QED
    BY <1>1, <1>6, <2>1, <2>2, <2>3 DEF SkipsNothing
<1>12. OnlyTheOffsetDrops'
  <2> SUFFICES ASSUME NEW f \in captured', f <= ckpt.at
               PROVE  (Settled(f) \/ Pending(f) \/ f \in dropped)'
    BY <1>1 DEF OnlyTheOffsetDrops
  <2>1. f \in captured
    BY <1>2, <1>9
  <2>2. CASE Ahead(captured, setting.newestFirst, f, ckpt.backlog)
    <3>1. ckpt.backlog.to <= clock
      BY <2>2 DEF Ahead, IInv, StoredOffset, Passed
    <3>2. Ahead(captured', setting.newestFirst, f, ckpt.backlog)
      BY <1>4, <1>9, <2>2, <3>1
    <3> QED
      BY <1>1, <3>2 DEF Pending, Ahead, InRange, RangeOf, Row, RowIn, NewestFirst
  <2> QED
    BY <1>1, <1>6, <2>1, <2>2, PendingIsAhead DEF IInv, OnlyTheOffsetDrops
<1> QED
  BY <1>7, <1>8, <1>10, <1>11, <1>12

-----------------------------------------------------------------------------
(* The checkpoint moves only over what the run has accounted for.          *)
LEMMA FinishStep == IInv /\ Finish => /\ CheckpointIndexed' /\ StoredOffset'
                                      /\ OnlyTheOffsetDrops' /\ InTime'
<1> SUFFICES ASSUME IInv, Finish
             PROVE  CheckpointIndexed' /\ StoredOffset' /\ OnlyTheOffsetDrops' /\ InTime'
  OBVIOUS
<1> DEFINE latest == Newest({ckpt.at} \cup Reached)
           persists == latest # 0 /\ (bad = {} \/ good # {} \/ held # {})
<1>1. /\ vectors' = vectors /\ waived \subseteq waived' /\ dropped \subseteq dropped'
      /\ UNCHANGED <<setting, clock, captured>>
  BY DEF Finish
<1>2. CASE ~persists
  <2>1. ckpt' = ckpt
    BY <1>2 DEF Finish
  <2> QED
    BY <1>1, <2>1, Outside DEF IInv
<1>3. CASE persists
  <2>1. /\ ckpt' = [at |-> latest, backlog |-> next]
        /\ waived' = waived \cup held
        /\ dropped' = dropped \cup {f \in bad : f <= ckpt.at \/ next # NoBacklog}
    BY <1>3 DEF Finish
  <2>2. latest \in {ckpt.at} \cup Reached
    <3>1. {ckpt.at} \cup Reached \in SUBSET (Frames \cup {0})
      BY DEF IInv, TypeOK, Reached
    <3> QED
      BY <3>1, NewestIn
  <2>3. /\ pc = "finish" /\ todo = {} /\ released = {}
        /\ ready \subseteq bad \cup vectors \cup Empty /\ InHand = ready \cup held
    BY DEF Finish, IInv, Progress, InHand
  <2>4. \A f \in held \cup (ready \ bad) : Settled(f)'
    BY <1>1, <2>1, <2>3 DEF Settled
  <2>5. \A f \in bad : f <= ckpt.at \/ next # NoBacklog => f \in dropped'
    BY <2>1
  <2>6. \A f : (Covered(f) => Covered(f)') /\ (Settled(f) => Settled(f)')
    BY <1>1, CoveredStays
  <2>7. CheckpointIndexed'
    <3>1. CASE latest = ckpt.at
      BY <1>3, <2>1, <2>6, <3>1 DEF CheckpointIndexed, IInv
    <3>2. CASE latest \in Reached
      BY <2>1, <2>4, <3>2 DEF CheckpointIndexed, Reached
    <3> QED
      BY <2>2, <3>1, <3>2
  <2>8. StoredOffset'
    <3>1. Passed(next, InHand)
      BY <2>3 DEF IInv, SkipsNothing
    <3>2. next # NoBacklog => \A f \in InHand : Covered(f)'
      BY <2>3, <2>4, <2>5 DEF Covered
    <3> QED
      BY <1>1, <2>1, <2>6, <3>1, <3>2 DEF StoredOffset, Passed
  <2>9. OnlyTheOffsetDrops'
    <3> SUFFICES ASSUME NEW f \in captured, f <= latest
                 PROVE  (Settled(f) \/ Pending(f) \/ f \in dropped)'
      BY <1>1, <2>1 DEF OnlyTheOffsetDrops
    <3>1. latest \in InHand \cup {ckpt.at}
      BY <2>2, <2>3 DEF Reached
    <3>2. f \in InHand \/ Covered(f) \/ Ahead(captured, setting.newestFirst, f, next)
      BY <2>3, <3>1 DEF IInv, SkipsNothing
    <3>3. CASE Covered(f)
      BY <2>6, <3>3 DEF Covered
    <3>4. CASE Ahead(captured, setting.newestFirst, f, next)
      BY <1>1, <2>1, <3>4
         DEF Pending, Ahead, InRange, RangeOf, Row, RowIn, NewestFirst
    <3>5. CASE f \in InHand /\ f \notin bad
      BY <2>3, <2>4, <3>5
    <3>6. CASE f \in bad
      <4>1. f <= ckpt.at \/ latest \in Reached
        BY <2>2
      <4>2. f \in Int
        BY <3>6, FrameAssumption DEF IInv, TypeOK, Frames
      <4>3. \A g \in Reached : g \in Int /\ ~(f <= g)
        BY <3>6, <4>2, FrameAssumption DEF Reached, IInv, TypeOK, Frames
      <4> QED
        BY <2>5, <3>6, <4>1, <4>3
    <3> QED
      BY <3>2, <3>3, <3>4, <3>5, <3>6
  <2>10. InTime'
    BY <1>1 DEF InTime, IInv
  <2> QED
    BY <2>7, <2>8, <2>9, <2>10
<1> QED
  BY <1>2, <1>3

-----------------------------------------------------------------------------
(* The recent window reaches back to the checkpoint, and a page of it      *)
(* leaves out only later frames.                                           *)
LEMMA RecentStep == IInv /\ StartRecent => SkipsNothing'
<1> SUFFICES ASSUME IInv, StartRecent PROVE SkipsNothing'
  OBVIOUS
<1> DEFINE W == {f \in captured : clock - FetchWindow <= Time[f]}
           E == {f \in W : f > ckpt.at}
<1>1. /\ ckpt.backlog = NoBacklog /\ next = NoBacklog
      /\ ckpt.at # 0 /\ ~(Lag > Span)
      /\ ready = {} /\ held = {} /\ released = {}
  BY DEF StartRecent, NeedsBacklog, IInv, Progress
<1>2. todo' = Oldest(PageSize, E)
  BY DEF StartRecent, Eligible
<1>3. /\ UNCHANGED <<setting, clock, captured, ckpt, vectors, waived, dropped>>
      /\ next' = NoBacklog /\ InHand' = todo'
  BY <1>1 DEF StartRecent, persistent, InHand
<1>4. ckpt.at \in captured /\ captured \subseteq Frames /\ clock \in Nat
  BY <1>1 DEF IInv, TypeOK
<1>5. clock - FetchWindow <= Time[ckpt.at]
  <2>1. Time[ckpt.at] \in Nat
    BY <1>4, FrameAssumption
  <2>2. FetchWindow >= Lag
    BY <1>1, <1>4, <2>1, SettingType DEF FetchWindow, Lag, Larger, Smaller, IInv, TypeOK
  <2>3. FetchWindow \in Int
    BY <1>4, <2>1, SettingType DEF FetchWindow, Lag, Larger, Smaller, IInv, TypeOK
  <2> QED
    BY <1>4, <2>1, <2>2, <2>3 DEF Lag
<1>6. ASSUME NEW f \in captured, NEW g \in Oldest(PageSize, E), f <= g, ckpt.at < f
      PROVE  f \in Oldest(PageSize, E)
  <2>1. f \in Nat /\ g \in captured /\ g \in Nat
    BY <1>4, FrameNumbers DEF Oldest
  <2>2. f \in E
    <3>1. Time[ckpt.at] \in Int /\ Time[f] \in Int /\ Time[ckpt.at] < Time[f]
      BY <1>4, <1>6, FrameAssumption
    <3>2. FetchWindow \in Int
      BY <1>4, <3>1, SettingType DEF FetchWindow, Lag, Larger, Smaller, IInv, TypeOK
    <3> QED
      BY <1>4, <1>5, <1>6, <3>1, <3>2
  <2> DEFINE A == {h \in E : h < f}
             B == {h \in E : h < g}
  <2>3. A \in SUBSET B /\ B \in SUBSET Frames
    <3>1. E \subseteq Frames
      BY <1>4
    <3>2. \A h \in E : h \in Nat /\ (h < f => h < g)
      BY <1>6, <2>1, <3>1, FrameNumbers
    <3> HIDE DEF E
    <3> QED
      BY <3>1, <3>2
  <2>4. Cardinality(A) \in Nat /\ Cardinality(B) \in Nat /\ Cardinality(A) <= Cardinality(B)
    BY <2>3, Counts
  <2>5. Cardinality(B) < PageSize
    BY DEF Oldest
  <2>6. PageSize \in Nat
    BY SettingType DEF IInv, TypeOK
  <2>7. Cardinality(A) < PageSize
    BY <2>4, <2>5, <2>6
  <2> QED
    BY <2>2, <2>7 DEF Oldest
<1>7. ASSUME NEW f \in captured, NEW g \in todo' \cup {ckpt.at}, f <= g
      PROVE  f \in todo' \/ Covered(f)
  <2>1. CASE f <= ckpt.at
    <3>1. ~Pending(f)
      BY <1>1 DEF Pending
    <3> QED
      BY <2>1, <3>1 DEF IInv, OnlyTheOffsetDrops, Covered
  <2>2. CASE ~(f <= ckpt.at)
    <3>1. ckpt.at < f /\ g \in todo'
      <4>1. f \in Int /\ ckpt.at \in Int
        <5>1. f \in Frames /\ ckpt.at \in Frames
          BY <1>4
        <5> QED
          BY <5>1, FrameNumbers
      <4>2. ckpt.at < f
        BY <2>2, <4>1
      <4>3. g # ckpt.at
        BY <1>7, <2>2
      <4> QED
        BY <1>7, <4>2, <4>3
    <3> QED
      BY <1>2, <1>6, <1>7, <3>1
  <2> QED
    BY <2>1, <2>2
<1>8. \A f : Covered(f) => Covered(f)'
  BY <1>3, CoveredStays
<1> QED
  BY <1>3, <1>7, <1>8 DEF SkipsNothing, Passed

(* A page of a backlog leaves out only what the offset has passed, what    *)
(* was captured after the backlog's end and what later pages will bring.   *)
LEMMA PageStep ==
  ASSUME TypeOK, InTime, CheckpointIndexed, StoredOffset, OnlyTheOffsetDrops,
         NEW b \in Backlog, b.from <= b.to, b.to <= clock,
         ckpt.backlog = NoBacklog \/ ckpt.backlog = b,
         UNCHANGED <<setting, clock, captured, ckpt, vectors, dropped>>,
         waived \subseteq waived', ready' = {}, held' = {}, released' = {},
         todo' = Eligible(PageRows(b), b.off), next' = BacklogAfter(b),
         \A f \in captured : Past(captured, setting.newestFirst, f, b) => Covered(f)'
  PROVE  SkipsNothing'
<1> DEFINE C == captured
           nf == setting.newestFirst
<1>2. InHand' = todo'
  BY DEF InHand
<1>3. /\ clock \in Nat /\ captured \subseteq Frames /\ ckpt.at \in captured \cup {0}
      /\ setting \in Settings /\ ckpt.backlog \in Backlog
  BY DEF TypeOK
<1>6. \A f : (Covered(f) => Covered(f)') /\ (Settled(f) => Settled(f)')
  BY CoveredStays
<1>7. ASSUME NEW f \in C, Past(C, nf, f, b)
      PROVE  Covered(f)'
  BY <1>7
<1>8. ASSUME NEW f \in C
      PROVE  RowIn(C, nf, f, b) = Row(f, b) /\ Row(f, b) \in Nat
             /\ Cardinality(InRange(b)) \in Nat /\ Row(f, b) <= Cardinality(InRange(b))
  <2> DEFINE R == {g \in InRange(b) : IF NewestFirst THEN f <= g ELSE g <= f}
  <2>1. InRange(b) \in SUBSET Frames /\ R \in SUBSET InRange(b)
    BY <1>3 DEF InRange
  <2>2. /\ Cardinality(InRange(b)) \in Nat /\ Cardinality(R) \in Nat
        /\ Cardinality(R) <= Cardinality(InRange(b))
    BY <2>1, Counts
  <2>3. Row(f, b) = Cardinality(R)
    BY DEF Row
  <2>4. RowIn(C, nf, f, b) = Row(f, b)
    BY DEF RowIn, Row, RangeOf, InRange, NewestFirst
  <2> QED
    BY <2>2, <2>3, <2>4
<1>9. InRange(b) = RangeOf(C, b)
  BY DEF InRange, RangeOf
<1>10. ASSUME NEW f \in PageRows(b), f \notin todo'
       PROVE  Covered(f)'
  <2>1. f \in C /\ f \in Frames /\ f > 0
    BY <1>3, FrameNumbers DEF PageRows, InRange
  <2>2. CASE b.off = 0 \/ ckpt.at = 0
    <3>1. ~(f > ckpt.at)
      BY <1>10, <2>2 DEF Eligible
    <3>2. ckpt.at # 0 /\ f <= ckpt.at
      <4>1. ckpt.at = 0 \/ ckpt.at \in Frames
        BY <1>3
      <4>2. ckpt.at \in Nat /\ f \in Nat
        BY <2>1, <4>1, FrameNumbers
      <4> QED
        BY <2>1, <3>1, <4>2
    <3>3. ~Pending(f)
      BY <2>2, <3>2, <1>3 DEF Pending, StoredOffset, Passed, Backlog
    <3> QED
      BY <1>6, <2>1, <3>2, <3>3 DEF OnlyTheOffsetDrops, Covered
  <2>3. CASE ~(b.off = 0 \/ ckpt.at = 0)
    <3>1. f = ckpt.at
      BY <1>10, <2>3 DEF Eligible
    <3> QED
      BY <1>6, <2>3, <3>1 DEF CheckpointIndexed, Covered
  <2> QED
    BY <2>2, <2>3
<1>11. Pages \in Nat \ {0} /\ b.off \in Nat /\ b.to \in Nat /\ b.from \in Int
  BY <1>3, SettingType DEF Backlog
<1>12. /\ Cardinality(InRange(b)) - b.off < Pages => next' = NoBacklog
       /\ ~(Cardinality(InRange(b)) - b.off < Pages) =>
             next' = [b EXCEPT !.off = @ + Pages]
  BY DEF BacklogAfter
<1>13. ASSUME ~(Cardinality(InRange(b)) - b.off < Pages)
       PROVE  /\ next'.from = b.from /\ next'.to = b.to /\ next'.off = b.off + Pages
              /\ next' # NoBacklog
              /\ RangeOf(C, next') = RangeOf(C, b)
              /\ \A f : RowIn(C, nf, f, next') = RowIn(C, nf, f, b)
  <2>1. next' = [b EXCEPT !.off = @ + Pages]
    BY <1>12, <1>13
  <2>2. next'.from = b.from /\ next'.to = b.to /\ next'.off = b.off + Pages
    BY <2>1 DEF Backlog
  <2>3. next' # NoBacklog
    BY <1>11, <2>2 DEF NoBacklog
  <2>4. RangeOf(C, next') = RangeOf(C, b)
    BY <2>2 DEF RangeOf
  <2> QED
    BY <2>2, <2>3, <2>4 DEF RowIn
<1>14. ASSUME NEW f \in C, f \in RangeOf(C, b), b.off < Row(f, b)
       PROVE  f \in todo' \/ Covered(f)' \/ Ahead(C, nf, f, next')
  <2>1. CASE Row(f, b) <= b.off + Pages
    <3>1. f \in PageRows(b)
      BY <1>9, <1>14, <2>1 DEF PageRows
    <3> QED
      BY <1>10, <3>1
  <2>2. CASE ~(Row(f, b) <= b.off + Pages)
    <3>1. ~(Cardinality(InRange(b)) - b.off < Pages) /\ b.off + Pages < Row(f, b)
      BY <1>8, <1>11, <2>2
    <3> QED
      BY <1>8, <1>13, <1>14, <3>1 DEF Ahead
  <2> QED
    BY <2>1, <2>2
<1>15. ASSUME NEW f \in C, Time[f] <= b.to
       PROVE  f \in todo' \/ Covered(f)' \/ Ahead(C, nf, f, next')
  <2>1. Time[f] \in Nat
    BY <1>3, FrameAssumption
  <2>2. CASE Time[f] < b.from
    BY <1>7, <2>2 DEF Past
  <2>3. CASE f \in RangeOf(C, b) /\ RowIn(C, nf, f, b) <= b.off
    BY <1>7, <2>3 DEF Past
  <2>4. CASE f \in RangeOf(C, b) /\ b.off < Row(f, b)
    BY <1>14, <2>4
  <2>5. f \in RangeOf(C, b) \/ Time[f] < b.from
    BY <1>11, <1>15, <2>1 DEF RangeOf
  <2>6. RowIn(C, nf, f, b) <= b.off \/ b.off < Row(f, b)
    BY <1>8, <1>11
  <2> QED
    BY <2>2, <2>3, <2>4, <2>5, <2>6
<1>16. ASSUME NEW f \in C, f <= ckpt.at
       PROVE  f \in todo' \/ Covered(f)' \/ Ahead(C, nf, f, next')
  <2>1. CASE Pending(f)
    <3>1. f \in InRange(b) /\ b.off < Row(f, b)
      BY <2>1 DEF Pending
    <3> QED
      BY <1>9, <1>14, <3>1
  <2>2. CASE ~Pending(f)
    BY <1>6, <1>16, <2>2 DEF OnlyTheOffsetDrops, Covered
  <2> QED
    BY <2>1, <2>2
<1>17. ASSUME NEW f \in C, NEW g \in todo' \cup {ckpt.at}, f <= g
       PROVE  f \in todo' \/ Covered(f)' \/ Ahead(C, nf, f, next')
  <2>1. CASE g \in todo'
    <3>1. g \in C /\ Time[g] <= b.to
      BY <2>1 DEF Eligible, PageRows, InRange
    <3>2. Time[f] <= Time[g]
      BY <1>3, <1>17, <3>1, Order
    <3>3. Time[f] \in Nat /\ Time[g] \in Nat
      BY <1>3, <3>1, FrameAssumption
    <3>4. Time[f] <= b.to
      BY <1>11, <3>1, <3>2, <3>3
    <3> QED
      BY <1>15, <3>4
  <2>2. CASE g = ckpt.at
    BY <1>16, <1>17, <2>2
  <2> QED
    BY <2>1, <2>2
<1>18. ASSUME next' # NoBacklog
       PROVE  /\ next'.from <= next'.to /\ next'.to <= clock /\ 0 < next'.off
              /\ \A f \in C : Past(C, nf, f, next') => f \in todo' \/ Covered(f)'
  <2>1. ~(Cardinality(InRange(b)) - b.off < Pages)
    BY <1>12, <1>18
  <2>2. next'.from <= next'.to /\ next'.to <= clock /\ 0 < next'.off
    BY <1>11, <1>13, <2>1
  <2>3. ASSUME NEW f \in C, Past(C, nf, f, next')
        PROVE  f \in todo' \/ Covered(f)'
    <3>1. CASE Past(C, nf, f, b)
      BY <1>7, <3>1
    <3>2. CASE ~Past(C, nf, f, b)
      <4>1. /\ f \in RangeOf(C, b) /\ ~(RowIn(C, nf, f, b) <= b.off)
            /\ RowIn(C, nf, f, b) <= b.off + Pages
        BY <1>13, <2>1, <2>3, <3>2 DEF Past
      <4>2. b.off < Row(f, b) /\ Row(f, b) <= b.off + Pages
        BY <1>8, <1>11, <4>1
      <4>3. f \in PageRows(b)
        BY <1>9, <4>1, <4>2 DEF PageRows
      <4> QED
        BY <1>10, <4>3
    <3> QED
      BY <3>1, <3>2
  <2> QED
    BY <2>2, <2>3
<1> QED
  BY <1>2, <1>17, <1>18 DEF SkipsNothing, Passed

(* The page a run of the server takes: what an opened backlog does not     *)
(* reach back to is waived.                                                *)
LEMMA BacklogStep == IInv /\ StartBacklog => SkipsNothing'
<1> SUFFICES ASSUME IInv, StartBacklog PROVE SkipsNothing'
  OBVIOUS
<1> DEFINE opening == ckpt.backlog = NoBacklog
           b == IF opening THEN [from |-> SearchStart, to |-> clock, off |-> 0]
                ELSE ckpt.backlog
           C == captured
           nf == setting.newestFirst
<1>1. /\ todo' = Eligible(PageRows(b), b.off)
      /\ next' = BacklogAfter(b)
      /\ waived' = waived \cup (IF opening THEN {f \in captured : Time[f] < b.from} ELSE {})
      /\ UNCHANGED <<setting, clock, captured, ckpt, vectors, dropped>>
      /\ ready' = {} /\ held' = {} /\ released' = {}
  BY DEF StartBacklog, IInv, Progress
<1>2. InHand' = todo'
  BY <1>1 DEF InHand
<1>3. /\ clock \in Nat /\ captured \subseteq Frames /\ ckpt.at \in captured \cup {0}
      /\ setting \in Settings /\ ckpt.backlog \in Backlog
  BY DEF IInv, TypeOK
<1>4. b \in Backlog
  BY <1>3, StartType DEF IInv, Backlog
<1>5. b.from <= b.to /\ b.to <= clock
  <2>1. CASE opening
    <3>1. ckpt.at # 0 => Time[ckpt.at] \in Nat /\ Time[ckpt.at] <= clock
      BY <1>3, FrameAssumption DEF IInv, InTime
    <3>2. SearchStart <= clock
      BY <1>3, <3>1, SettingType DEF SearchStart, Larger
    <3> QED
      BY <1>3, <2>1, <3>2
  <2>2. CASE ~opening
    BY <2>2 DEF IInv, StoredOffset, Passed
  <2> QED
    BY <2>1, <2>2
<1>6. \A f : (Covered(f) => Covered(f)') /\ (Settled(f) => Settled(f)')
  BY <1>1, CoveredStays
<1>7. ASSUME NEW f \in C, Past(C, nf, f, b)
      PROVE  Covered(f)'
  <2>1. CASE opening
    <3>1. Time[f] < b.from
      <4> SUFFICES ASSUME f \in RangeOf(C, b), RowIn(C, nf, f, b) <= b.off PROVE FALSE
        BY <1>7 DEF Past
      <4> DEFINE R == {g \in RangeOf(C, b) : IF nf THEN f <= g ELSE g <= f}
      <4>1. f \in R
        <5>1. f \in Frames
          BY <1>3
        <5>2. f \in Nat
          BY <5>1, FrameNumbers
        <5> QED
          BY <5>2
      <4>2. R \in SUBSET Frames
        BY <1>3 DEF RangeOf
      <4>3. Cardinality(R) \in Nat /\ Cardinality(R) # 0
        BY <4>1, <4>2, FramesFinite, FS_Subset, FS_CardinalityType, FS_EmptySet
      <4>4. b.off = 0 /\ Cardinality(R) = RowIn(C, nf, f, b)
        BY <2>1 DEF RowIn
      <4> QED
        BY <4>3, <4>4
    <3> QED
      BY <1>1, <2>1, <3>1 DEF Covered, Settled
  <2>2. CASE ~opening
    BY <1>6, <1>7, <2>2 DEF IInv, StoredOffset, Passed
  <2> QED
    BY <2>1, <2>2
<1>8. ckpt.backlog = NoBacklog \/ ckpt.backlog = b
  OBVIOUS
<1> HIDE DEF b
<1> QED
  BY <1>1, <1>4, <1>5, <1>7, <1>8, PageStep DEF IInv

-----------------------------------------------------------------------------
LEMMA IInvInit == Init => IInv
<1> SUFFICES ASSUME Init PROVE IInv
  OBVIOUS
<1>1. TypeOK
  BY TypeInit
<1>2. Progress /\ SkipsNothing
  BY DEF Init, Progress, SkipsNothing
<1>3. CheckpointIndexed /\ StoredOffset
  BY DEF Init, CheckpointIndexed, Settled, StoredOffset, Passed
<1>4. InTime
  BY <1>1, FrameAssumption DEF Init, InTime, TypeOK
<1>5. OnlyTheOffsetDrops
  BY DEF Init, OnlyTheOffsetDrops, Settled
<1> QED
  BY <1>1, <1>2, <1>3, <1>4, <1>5 DEF IInv

LEMMA IInvStep == IInv /\ [Next]_vars => IInv'
<1> SUFFICES ASSUME IInv, [Next]_vars PROVE IInv'
  OBVIOUS
<1>1. TypeOK' /\ Progress'
  BY TypeStep, ProgressStep DEF IInv
<1>2. ASSUME UNCHANGED <<setting, clock, captured, ckpt>>,
             vectors \subseteq vectors', waived \subseteq waived', dropped \subseteq dropped',
             SkipsNothing'
      PROVE  IInv'
  BY <1>1, <1>2, Outside DEF IInv
<1>3. CASE Tick
  BY <1>1, <1>3, TickStep DEF IInv
<1>4. CASE ChangePrivacy
  <2>1. InHand' = InHand
    BY <1>4 DEF ChangePrivacy, run, InHand
  <2> QED
    BY <1>2, <1>4, <2>1, Inside DEF ChangePrivacy, run, IInv
<1>5. CASE StartRecent
  BY <1>2, <1>5, RecentStep DEF StartRecent, persistent
<1>6. CASE StartBacklog
  BY <1>2, <1>6, BacklogStep DEF StartBacklog
<1>7. CASE Extract
  <2>1. First(todo) \in todo
    BY <1>7, FirstIn DEF Extract, IInv, TypeOK
  <2>2. InHand' = InHand
    BY <1>7, <2>1 DEF Extract, InHand
  <2> QED
    BY <1>2, <1>7, <2>2, Inside DEF Extract, IInv
<1>8. CASE Embed
  <2>1. InHand' = InHand
    BY <1>8 DEF Embed, InHand
  <2> QED
    BY <1>2, <1>8, <2>1, Inside DEF Embed, persistent, IInv
<1>9. CASE Upsert
  <2>1. InHand' = InHand
    BY <1>9 DEF Upsert, InHand
  <2> QED
    BY <1>2, <1>9, <2>1, Inside DEF Upsert, IInv
<1>10. CASE Recheck
  <2>1. InHand' = InHand
    BY <1>10 DEF Recheck, InHand
  <2> QED
    BY <1>2, <1>10, <2>1, Inside DEF Recheck, persistent, IInv
<1>11. CASE ProcessRecord
  <2>1. First(released) \in released
    BY <1>11, FirstIn DEF ProcessRecord, IInv, TypeOK
  <2>2. InHand' = InHand
    BY <1>11, <2>1 DEF ProcessRecord, InHand
  <2> QED
    BY <1>2, <1>11, <2>2, Inside DEF ProcessRecord, IInv
<1>12. CASE Finish
  <2>1. SkipsNothing'
    BY <1>12 DEF Finish, NoRun, SkipsNothing
  <2> QED
    BY <1>1, <1>12, <2>1, FinishStep DEF IInv
<1>13. CASE Abort
  <2>1. SkipsNothing'
    BY <1>13 DEF Abort, NoRun, SkipsNothing
  <2> QED
    BY <1>2, <1>13, <2>1 DEF Abort, persistent
<1>14. CASE UNCHANGED vars
  <2>1. InHand' = InHand
    BY <1>14 DEF vars, run, InHand
  <2> QED
    BY <1>2, <1>14, <2>1, Inside DEF vars, persistent, run, IInv
<1> QED
  BY <1>3, <1>4, <1>5, <1>6, <1>7, <1>8, <1>9, <1>10, <1>11, <1>12, <1>13, <1>14
     DEF Next, RunStep

(* No frame is skipped: whatever fails, dies or is blocked, and however    *)
(* the source orders its pages, everything at or below the checkpoint is   *)
(* indexed, waived or still ahead in the stored backlog, but for frames    *)
(* that failed in a page whose offset was stored.                          *)
THEOREM NothingSkipped == Spec => []OnlyTheOffsetDrops
<1>1. IInv => OnlyTheOffsetDrops
  BY DEF IInv
<1> QED
  BY <1>1, IInvInit, IInvStep, PTL DEF Spec

(* While embedding and storing do not fail, crashes, restarts, privacy and *)
(* capture alone make the indexer leave no frame behind.                   *)
THEOREM OnlyFailuresDrop ==
  ASSUME ~ProviderFails
  PROVE  Spec => []NoFrameLeftBehind
<1> DEFINE NoFailure == bad = {} /\ dropped = {}
<1>1. Init => NoFailure
  BY DEF Init
<1>2. TypeOK /\ NoFailure /\ [Next]_vars => NoFailure'
  <2> SUFFICES ASSUME TypeOK, NoFailure, [Next]_vars PROVE NoFailure'
    OBVIOUS
  <2>1. CASE Embed
    BY <2>1 DEF Embed, MayFail, persistent
  <2>2. CASE Upsert
    BY <2>2 DEF Upsert, MayFail
  <2>3. CASE ProcessRecord
    BY <2>3 DEF ProcessRecord, MayFail
  <2>4. CASE Finish \/ Abort
    BY <2>4 DEF Finish, Abort, NoRun, persistent
  <2>5. CASE Tick \/ ChangePrivacy
    BY <2>5 DEF Tick, ChangePrivacy, run
  <2>6. CASE StartRecent \/ StartBacklog \/ Extract \/ Recheck
    BY <2>6 DEF StartRecent, StartBacklog, Extract, Recheck, persistent
  <2>7. CASE UNCHANGED vars
    BY <2>7 DEF vars, persistent, run
  <2> QED
    BY <2>1, <2>2, <2>3, <2>4, <2>5, <2>6, <2>7 DEF Next, RunStep
<1>3. OnlyTheOffsetDrops /\ NoFailure => NoFrameLeftBehind
  BY DEF OnlyTheOffsetDrops, NoFrameLeftBehind
<1> QED
  BY <1>1, <1>2, <1>3, TypeCorrect, NothingSkipped, PTL DEF Spec

-----------------------------------------------------------------------------
(* rebuild-index over the index.  Between its two resets nothing is        *)
(* accounted for; from the second on a round is a page like any other, of  *)
(* a backlog that reaches from the first frame to the last one captured    *)
(* before it (Forced): what its offset has passed is restored, and what it *)
(* has not is in hand or ahead.                                            *)
Accounted == CheckpointIndexed /\ StoredOffset /\ SkipsNothing /\ OnlyTheOffsetDrops

Sound == TypeOK /\ Progress /\ InTime

Phases ==
  /\ rebuild.pc \in {"off", "vectors", "checkpoint", "rounds"}
  /\ rebuild.pc \in {"vectors", "checkpoint"} => pc = "idle"
  /\ rebuild.pc = "checkpoint" => halfReset
  /\ rebuild.pc = "rounds" => ~halfReset

Restored == vectors \cup Empty \cup spared

(* Frames of the rebuild that neither page nor later pages bring.          *)
Brought(b) ==
  /\ next = NoBacklog \/ next = [b EXCEPT !.off = @ + Pages]
  /\ \A f \in before : f \in Restored \cup InHand \/ Ahead(captured, setting.newestFirst, f, next)
  /\ next # NoBacklog => InHand # {} \/ ckpt.at # 0

Forcing(b) ==
  /\ b \in Backlog /\ b.from = 0 /\ b.to <= clock
  /\ \/ ckpt.at = 0 /\ ckpt.backlog = NoBacklog /\ b.off = 0
     \/ ckpt.at # 0 /\ ckpt.backlog = b /\ 0 < b.off
  /\ before = RangeOf(captured, b)
  /\ ckpt.at # 0 => ckpt.at \in Restored
  /\ \A f \in before : RowIn(captured, setting.newestFirst, f, b) <= b.off => f \in Restored
  /\ pc # "idle" => Brought(b)

Forced == rebuild.pc = "rounds" => Forcing(rebuild.backlog)

Promise == /\ rebuild.pc \in {"checkpoint", "rounds"} => rebuilt = {}
           /\ RebuildRestores

RInv == /\ Sound /\ Phases /\ Forced /\ Promise
        /\ halfReset \/ Accounted

-----------------------------------------------------------------------------
LEMMA InTimeStep == TypeOK /\ InTime /\ [Next]_vars => InTime'
<1> SUFFICES ASSUME TypeOK, InTime, [Next]_vars PROVE InTime'
  OBVIOUS
<1>1. CASE Tick
  <2>1. /\ clock \in Nat /\ clock' = clock + 1 /\ captured \subseteq Frames
        /\ \A f \in captured' : f \in captured \/ Time[f] = clock + 1
    BY <1>1 DEF Tick, TypeOK
  <2>2. \A f \in captured : Time[f] \in Nat
    BY <2>1, FrameAssumption
  <2> QED
    BY <2>1, <2>2 DEF InTime
<1>2. CASE UNCHANGED <<clock, captured>>
  BY <1>2 DEF InTime
<1> QED
  BY <1>1, <1>2 DEF Next, RunStep, ChangePrivacy, StartRecent, StartBacklog, Extract, Embed,
                    Upsert, Recheck, ProcessRecord, Finish, Abort, vars, persistent

LEMMA SoundStep == Sound /\ [Next]_vars => Sound'
  BY TypeStep, ProgressStep, InTimeStep DEF Sound

LEMMA AccountedStep == Sound /\ Accounted /\ [Next]_vars => Accounted'
  BY IInvStep DEF Sound, Accounted, IInv

(* The server's steps and what happens around it only add vectors, and     *)
(* change nothing a row depends on.                                        *)
LEMMA Growing ==
  ASSUME [Next]_vars
  PROVE  vectors \subseteq vectors' /\ setting' = setting
  BY DEF Next, RunStep, Tick, ChangePrivacy, StartRecent, StartBacklog, Extract, Embed,
         Upsert, Recheck, ProcessRecord, Finish, Abort, vars, persistent, run

(* A step that leaves checkpoint and run alone, and after which the rounds *)
(* still have the same frames to bring.                                    *)
LEMMA ForcedKept ==
  ASSUME Sound, Forced, rebuild' = rebuild, spared' = spared, before' = before,
         vectors \subseteq vectors', UNCHANGED <<setting, ckpt>>, clock' >= clock, clock' \in Nat,
         rebuild.pc = "rounds" =>
           /\ RangeOf(captured', rebuild.backlog) = RangeOf(captured, rebuild.backlog)
           /\ pc' # "idle" => /\ pc # "idle" /\ next' = next /\ InHand' = InHand
  PROVE  Forced'
<1> SUFFICES ASSUME rebuild.pc = "rounds" PROVE Forcing(rebuild.backlog)'
  BY DEF Forced
<1> DEFINE b == rebuild.backlog
<1>1. Forcing(b)
  BY DEF Forced
<1>2. Restored \subseteq Restored'
  BY DEF Restored
<1>3. \A f : RowIn(captured', setting.newestFirst, f, b) = RowIn(captured, setting.newestFirst, f, b)
  BY DEF RowIn
<1>4. b.to <= clock'
  BY <1>1 DEF Forcing, Backlog, Sound, TypeOK
<1>5. ASSUME pc # "idle", next' = next, InHand' = InHand PROVE Brought(b)'
  <2>1. Brought(b)
    BY <1>1, <1>5 DEF Forcing
  <2>2. Pages' = Pages
    BY DEF Pages, Batches, PageSize
  <2>3. ASSUME NEW f, Ahead(captured, setting.newestFirst, f, next)
        PROVE  Ahead(captured', setting.newestFirst, f, next)
    <3>1. next = [b EXCEPT !.off = @ + Pages]
      BY <2>1, <2>3 DEF Brought, Ahead
    <3>2. next.from = b.from /\ next.to = b.to
      BY <1>1, <3>1 DEF Forcing, Backlog
    <3>3. \A C : RangeOf(C, next) = RangeOf(C, b)
      BY <3>2 DEF RangeOf
    <3> QED
      BY <2>3, <3>3 DEF Ahead, RowIn
  <2> QED
    BY <1>2, <1>5, <2>1, <2>2, <2>3 DEF Brought
<1>6. pc' # "idle" => Brought(b)'
  BY <1>5
<1> HIDE DEF b
<1>7. b' = b
  BY DEF b
<1> QED
  BY <1>1, <1>2, <1>3, <1>4, <1>6, <1>7 DEF Forcing, b

LEMMA PromiseKept ==
  ASSUME Promise, UNCHANGED <<rebuild, rebuilt, spared>>, vectors \subseteq vectors'
  PROVE  Promise'
  BY DEF Promise, RebuildRestores

(* The server, and what happens around server and rebuild.                 *)
LEMMA AroundStep == RInv /\ (Serve \/ Surroundings) => RInv'
<1> SUFFICES ASSUME RInv, Serve \/ Surroundings PROVE RInv'
  OBVIOUS
<1>1. [Next]_vars /\ UNCHANGED rebuildVars
  BY DEF Serve, Surroundings, Next
<1>2. Sound' /\ (halfReset' \/ Accounted')
  BY <1>1, SoundStep, AccountedStep DEF RInv, rebuildVars
<1>3. Promise'
  BY <1>1, Growing, PromiseKept DEF RInv, rebuildVars
<1>4. CASE Serve
  BY <1>1, <1>2, <1>3, <1>4 DEF RInv, rebuildVars, Serve, Phases, Forced
<1>5. CASE Surroundings
  <2>1. UNCHANGED <<pc, ckpt, next, InHand>>
    BY <1>5 DEF Surroundings, Tick, ChangePrivacy, run, InHand
  <2>2. clock' >= clock /\ clock' \in Nat
    BY <1>5 DEF Surroundings, Tick, ChangePrivacy, RInv, Sound, TypeOK
  <2>3. rebuild.pc = "rounds" =>
          RangeOf(captured', rebuild.backlog) = RangeOf(captured, rebuild.backlog)
    <3> SUFFICES ASSUME rebuild.pc = "rounds"
                 PROVE  RangeOf(captured', rebuild.backlog) = RangeOf(captured, rebuild.backlog)
      OBVIOUS
    <3>1. rebuild.backlog.to \in Nat /\ rebuild.backlog.to <= clock /\ clock \in Nat
      BY DEF RInv, Forced, Forcing, Backlog, Sound, TypeOK
    <3>2. /\ captured \subseteq captured'
          /\ \A f \in captured' \ captured : Time[f] = clock + 1
      BY <1>5 DEF Surroundings, Tick, ChangePrivacy
    <3> QED
      BY <3>1, <3>2 DEF RangeOf
  <2>4. Forced'
    BY <1>1, <2>1, <2>2, <2>3, Growing, ForcedKept DEF RInv, rebuildVars
  <2> QED
    BY <1>1, <1>2, <1>3, <2>1, <2>4 DEF RInv, rebuildVars, Phases
<1> QED
  BY <1>4, <1>5

LEMMA WorkStep == RInv /\ WorkRound => RInv'
<1> SUFFICES ASSUME RInv, WorkRound PROVE RInv'
  OBVIOUS
<1>1. [Next]_vars /\ UNCHANGED rebuildVars /\ rebuild.pc = "rounds"
  BY DEF WorkRound, Next, RunStep
<1>2. Sound' /\ (halfReset' \/ Accounted')
  BY <1>1, SoundStep, AccountedStep DEF RInv, rebuildVars
<1>3. Promise' /\ Phases'
  BY <1>1, Growing, PromiseKept DEF RInv, rebuildVars, Phases
<1>4. UNCHANGED <<clock, captured, ckpt, next>> /\ pc # "idle"
  BY DEF WorkRound, Extract, Embed, Upsert, Recheck, ProcessRecord, persistent
<1>5. InHand' = InHand
  <2>1. todo # {} => First(todo) \in todo
    BY FirstIn DEF RInv, Sound, TypeOK
  <2>2. released # {} => First(released) \in released
    BY FirstIn DEF RInv, Sound, TypeOK
  <2> QED
    BY <2>1, <2>2 DEF WorkRound, Extract, Embed, Upsert, Recheck, ProcessRecord, InHand
<1>6. clock' >= clock /\ clock' \in Nat
  BY <1>4 DEF RInv, Sound, TypeOK
<1>7. Forced'
  BY <1>1, <1>4, <1>5, <1>6, Growing, ForcedKept DEF RInv, rebuildVars
<1> QED
  BY <1>2, <1>3, <1>7 DEF RInv

(* Resetting: the vectors first, the checkpoint then.                      *)
LEMMA ResetStep == RInv /\ (StartRebuild \/ ResetVectors \/ ResetCheckpoint \/ RebuildFails) => RInv'
<1> SUFFICES ASSUME RInv, StartRebuild \/ ResetVectors \/ ResetCheckpoint \/ RebuildFails
             PROVE  RInv'
  OBVIOUS
<1> USE DEF NoRebuild
<1>1. CASE StartRebuild
  <2>1. UNCHANGED vars /\ UNCHANGED <<halfReset, spared, rebuilt>>
        /\ rebuild' = [pc |-> "vectors", backlog |-> NoBacklog] /\ pc = "idle"
    BY <1>1 DEF StartRebuild
  <2>2. Sound' /\ (halfReset' \/ Accounted')
    BY <2>1, SoundStep, AccountedStep DEF RInv
  <2>3. Promise' /\ Phases' /\ Forced'
    BY <2>1 DEF RInv, Promise, RebuildRestores, Phases, Forced, vars, persistent, run
  <2> QED
    BY <2>2, <2>3 DEF RInv
<1>2. CASE ResetVectors
  <2>1. /\ vectors' = {} /\ halfReset' /\ rebuilt' = {} /\ pc = "idle"
        /\ rebuild'.pc = "checkpoint"
        /\ UNCHANGED <<setting, clock, captured, blocked, content, ckpt, waived, dropped, run, faults>>
    BY <1>2 DEF ResetVectors, RInv, Phases
  <2>2. Sound'
    BY <2>1 DEF RInv, Sound, TypeOK, Progress, InTime, run
  <2>3. Phases' /\ Forced' /\ Promise'
    BY <2>1 DEF Phases, Forced, Promise, RebuildRestores, run
  <2> QED
    BY <2>1, <2>2, <2>3 DEF RInv
<1>3. CASE ResetCheckpoint
  <2>1. /\ ckpt' = [at |-> 0, backlog |-> NoBacklog] /\ ~halfReset' /\ pc = "idle"
        /\ rebuild' = [pc |-> "rounds", backlog |-> FullHistory]
        /\ before' = captured /\ spared' = {} /\ rebuilt' = {}
        /\ UNCHANGED <<setting, clock, captured, blocked, content, vectors, waived, dropped, run, faults>>
    BY <1>3 DEF ResetCheckpoint, RInv, Phases, Promise
  <2>2. TypeOK'
    BY <2>1, NoBacklogType DEF RInv, Sound, TypeOK, run
  <2>3. Progress' /\ InTime'
    BY <2>1 DEF RInv, Sound, Progress, InTime, run
  <2>4. Accounted'
    <3>1. CheckpointIndexed' /\ StoredOffset' /\ SkipsNothing'
      BY <2>1 DEF CheckpointIndexed, StoredOffset, Passed, SkipsNothing, run
    <3>2. \A f \in captured : ~(f <= 0)
      <4>1. captured \subseteq Frames
        BY DEF RInv, Sound, TypeOK
      <4> QED
        BY <4>1, FrameNumbers
    <3>3. OnlyTheOffsetDrops'
      BY <2>1, <3>2 DEF OnlyTheOffsetDrops
    <3> QED
      BY <3>1, <3>3 DEF Accounted
  <2>5. Phases' /\ Promise'
    BY <2>1 DEF Phases, Promise, RebuildRestores
  <2>6. Forced'
    <3> DEFINE b == [from |-> 0, to |-> clock, off |-> 0]
    <3>1. /\ b \in Backlog /\ b.from = 0 /\ b.to = clock /\ b.off = 0
          /\ captured \subseteq Frames /\ clock \in Nat
      BY DEF Backlog, RInv, Sound, TypeOK
    <3> HIDE DEF b
    <3>2. RangeOf(captured, b) = captured
      BY <3>1, FrameAssumption DEF RangeOf, RInv, Sound, InTime
    <3>3. ASSUME NEW f \in captured
          PROVE  ~(RowIn(captured, setting.newestFirst, f, b) <= 0)
      <4> DEFINE R == {g \in RangeOf(captured, b) : IF setting.newestFirst THEN f <= g ELSE g <= f}
      <4>1. f \in R /\ R \in SUBSET Frames
        <5>1. f \in Nat
          BY <3>1, FrameNumbers
        <5>2. f \in RangeOf(captured, b)
          BY <3>2
        <5>3. f \in R
          BY <5>1, <5>2
        <5> QED
          BY <3>1, <3>2, <5>3
      <4>2. Cardinality(R) \in Nat /\ Cardinality(R) # 0
        BY <4>1, FramesFinite, FS_Subset, FS_CardinalityType, FS_EmptySet
      <4> QED
        BY <4>2 DEF RowIn
    <3>4. rebuild'.backlog = b
      BY <2>1 DEF FullHistory, b
    <3> QED
      BY <2>1, <3>1, <3>2, <3>3, <3>4 DEF Forced, Forcing, run
  <2> QED
    BY <2>2, <2>3, <2>4, <2>5, <2>6 DEF RInv, Sound
<1>4. CASE RebuildFails
  <2>1. /\ faults < MaxFaults /\ faults' = faults + 1 /\ NoRun
        /\ rebuild' = [pc |-> "off", backlog |-> NoBacklog]
        /\ UNCHANGED <<setting, clock, persistent, halfReset, before, spared, rebuilt>>
    BY <1>4 DEF RebuildFails
  <2>2. faults' \in 0..MaxFaults
    BY <2>1, BoundAssumption DEF RInv, Sound, TypeOK
  <2>3. TypeOK'
    BY <2>1, <2>2, NoBacklogType DEF RInv, Sound, TypeOK, NoRun, persistent
  <2>4. Progress' /\ SkipsNothing'
    BY <2>1 DEF Progress, SkipsNothing, NoRun
  <2>5. InTime'
    BY <2>1 DEF RInv, Sound, InTime, persistent
  <2>6. Accounted => Accounted'
    BY <2>1, <2>4, <2>5, Outside DEF RInv, Sound, Accounted, persistent
  <2>7. Phases' /\ Forced' /\ Promise'
    BY <2>1 DEF Phases, Forced, Promise, RebuildRestores, RInv, persistent
  <2> QED
    BY <2>1, <2>3, <2>4, <2>5, <2>6, <2>7 DEF RInv, Sound
<1> QED
  BY <1>1, <1>2, <1>3, <1>4

(* The round's page.                                                       *)
LEMMA RoundStep == RInv /\ StartRound => RInv'
<1> SUFFICES ASSUME RInv, StartRound PROVE RInv'
  OBVIOUS
<1> DEFINE b == rebuild.backlog
           C == captured
           nf == setting.newestFirst
<1>1. /\ rebuild.pc = "rounds" /\ pc = "idle" /\ ~halfReset
      /\ todo' = Eligible(PageRows(b), b.off)
      /\ next' = BacklogAfter(b) /\ pc' = "extract"
      /\ UNCHANGED <<setting, clock, persistent, ready, held, released, good, bad, faults, rebuildVars>>
  BY DEF StartRound, RInv, Phases
<1>2. Forcing(b) /\ Accounted /\ TypeOK /\ Progress /\ InTime
  BY <1>1 DEF RInv, Forced, Sound
<1>3. /\ b \in Backlog /\ b.from = 0 /\ b.to <= clock /\ b.to \in Nat /\ b.off \in Nat
      /\ C \subseteq Frames /\ setting \in Settings /\ before = RangeOf(C, b)
      /\ ready = {} /\ held = {} /\ released = {} /\ ckpt.at \in C \cup {0}
  BY <1>1, <1>2 DEF Forcing, Backlog, TypeOK, Progress
<1> HIDE DEF b
<1>4. TypeOK' /\ Progress' /\ InTime'
  <2>1. next' \in Backlog
    BY <1>1, <1>2, <1>3, AfterType
  <2>2. todo' \subseteq captured
    BY <1>1 DEF Eligible, PageRows, InRange
  <2>3. TypeOK'
    BY <1>1, <1>2, <1>3, <2>1, <2>2 DEF TypeOK, persistent
  <2> QED
    BY <1>1, <1>2, <1>3, <2>3 DEF Progress, InTime, persistent
<1>5. InRange(b) = before
  BY <1>3 DEF InRange, RangeOf
<1>6. ASSUME NEW f \in before
      PROVE  /\ RowIn(C, nf, f, b) = Row(f, b) /\ Row(f, b) \in Nat
             /\ Row(f, b) <= Cardinality(before) /\ Cardinality(before) \in Nat
             /\ f \in C /\ f \in Nat /\ f > 0
  <2> DEFINE R == {g \in InRange(b) : IF NewestFirst THEN f <= g ELSE g <= f}
  <2>1. before \in SUBSET Frames /\ R \in SUBSET before
    BY <1>3, <1>5 DEF RangeOf
  <2>2. /\ Cardinality(before) \in Nat /\ Cardinality(R) \in Nat
        /\ Cardinality(R) <= Cardinality(before)
    BY <2>1, Counts
  <2>3. Row(f, b) = Cardinality(R) /\ RowIn(C, nf, f, b) = Row(f, b)
    BY DEF Row, RowIn, RangeOf, InRange, NewestFirst
  <2>4. f \in C /\ f \in Frames
    BY <1>3 DEF RangeOf
  <2> QED
    BY <2>2, <2>3, <2>4, FrameNumbers
<1>7. \A f \in C : ~(Time[f] < b.from)
  BY <1>3, FrameAssumption
<1>8. UNCHANGED <<setting, captured, clock, ckpt, vectors, waived, dropped, spared, before>>
  BY <1>1 DEF persistent, rebuildVars
<1>9. Pages \in Nat \ {0}
  BY <1>3, SettingType
<1>10. Restored' = Restored /\ InHand' = todo'
  BY <1>1, <1>3, <1>8 DEF Restored, InHand
<1>11. ASSUME NEW f \in before, b.off < Row(f, b), Row(f, b) <= b.off + Pages
       PROVE  f \in todo' \/ f \in Restored
  <2>1. f \in PageRows(b)
    BY <1>5, <1>11 DEF PageRows
  <2>2. CASE b.off = 0 \/ ckpt.at = 0
    <3>1. ckpt.at = 0
      BY <1>2, <2>2, <1>3 DEF Forcing
    <3> QED
      BY <1>1, <1>6, <2>1, <3>1 DEF Eligible
  <2>3. CASE ~(b.off = 0 \/ ckpt.at = 0)
    <3>1. ckpt.at \in Restored
      BY <1>2, <2>3 DEF Forcing
    <3> QED
      BY <1>1, <2>1, <2>3, <3>1 DEF Eligible
  <2> QED
    BY <2>2, <2>3
<1>12. Brought(b)'
  <2>1. /\ Cardinality(before) - b.off < Pages => next' = NoBacklog
        /\ ~(Cardinality(before) - b.off < Pages) =>
              /\ next' = [b EXCEPT !.off = @ + Pages]
              /\ next'.from = b.from /\ next'.to = b.to /\ next'.off = b.off + Pages
              /\ next' # NoBacklog
    BY <1>1, <1>3, <1>5, <1>9 DEF BacklogAfter, Backlog, NoBacklog
  <2>2. ASSUME NEW f \in before
        PROVE  f \in Restored \cup todo' \/ Ahead(C, nf, f, next')
    <3>1. CASE Row(f, b) <= b.off
      BY <1>2, <1>6, <3>1 DEF Forcing
    <3>2. CASE b.off < Row(f, b) /\ Row(f, b) <= b.off + Pages
      BY <1>11, <3>2
    <3>3. CASE b.off + Pages < Row(f, b)
      <4>1. ~(Cardinality(before) - b.off < Pages)
        BY <1>3, <1>6, <1>9, <3>3
      <4>2. RangeOf(C, next') = before /\ next' # NoBacklog /\ next'.off = b.off + Pages
        BY <1>3, <2>1, <4>1 DEF RangeOf
      <4>3. RowIn(C, nf, f, next') = Row(f, b)
        BY <1>3, <1>6, <4>2 DEF RowIn
      <4> QED
        BY <3>3, <4>2, <4>3 DEF Ahead
    <3> QED
      BY <1>3, <1>6, <1>9, <3>1, <3>2, <3>3
  <2>3. ASSUME next' # NoBacklog, ckpt.at = 0 PROVE todo' # {}
    <3>1. b.off = 0 /\ ~(Cardinality(before) < Pages) /\ before \in SUBSET Frames
      BY <1>2, <1>3, <2>1, <2>3, FS_CardinalityType, FramesFinite, FS_Subset DEF Forcing, RangeOf
    <3>2. before # {}
      BY <1>9, <3>1, FS_EmptySet
    <3>3. PICK f \in before : \A g \in before : IF nf THEN g <= f ELSE f <= g
      <4>1. before \in SUBSET Nat
        BY <3>1, FrameNumbers
      <4>2. \E f \in before : \A g \in before : f <= g
        BY <3>2, <4>1, LeastExists
      <4>3. \E f \in before : \A g \in before : g <= f
        BY <3>1, <3>2, GreatestExists
      <4> QED
        BY <4>2, <4>3
    <3>4. {g \in InRange(b) : IF NewestFirst THEN f <= g ELSE g <= f} = {f}
      <4>1. \A g \in before : g \in Nat
        BY <3>1, FrameNumbers
      <4>2. \A g \in before : (IF nf THEN f <= g ELSE g <= f) <=> g = f
        BY <3>3, <4>1
      <4> QED
        BY <1>5, <4>2 DEF NewestFirst
    <3>5. Row(f, b) = 1
      BY <3>4, FS_Singleton DEF Row
    <3>6. f \in PageRows(b)
      BY <1>5, <1>9, <3>1, <3>5 DEF PageRows
    <3> QED
      BY <1>1, <1>6, <2>3, <3>6 DEF Eligible
  <2> QED
    <3>1. Pages' = Pages
      BY <1>8 DEF Pages, Batches, PageSize
    <3>2. b' = b
      BY <1>1 DEF b, rebuildVars
    <3>3. (next = NoBacklog \/ next = [b EXCEPT !.off = @ + Pages])'
      BY <2>1, <3>1, <3>2
    <3> QED
      BY <1>8, <1>10, <2>2, <2>3, <3>3 DEF Brought
<1>13. Forced'
  <2>1. b' = b /\ rebuild'.pc = "rounds"
    BY <1>1 DEF b, rebuildVars
  <2>2. Forcing(b)'
    BY <1>2, <1>8, <1>10, <1>12, <2>1 DEF Forcing
  <2> QED
    BY <2>2, <2>1 DEF Forced, b
<1>14. Accounted'
  <2>1. ASSUME NEW f \in captured, Past(captured, setting.newestFirst, f, b)
        PROVE  Covered(f)'
    <3>1. f \in RangeOf(C, b) /\ RowIn(C, nf, f, b) <= b.off
      BY <1>7, <2>1 DEF Past
    <3>2. CASE ckpt.at = 0
      <4>1. b.off = 0 /\ RowIn(C, nf, f, b) = Row(f, b)
        BY <1>2, <1>3, <1>6, <3>1, <3>2 DEF Forcing
      <4> DEFINE R == {g \in InRange(b) : IF NewestFirst THEN f <= g ELSE g <= f}
      <4>2. f \in R /\ R \in SUBSET Frames
        BY <1>3, <1>5, <1>6, <3>1 DEF RangeOf
      <4>3. Cardinality(R) \in Nat /\ Cardinality(R) # 0
        BY <4>2, FramesFinite, FS_Subset, FS_CardinalityType, FS_EmptySet
      <4>4. Cardinality(R) = Row(f, b)
        BY DEF Row
      <4> QED
        BY <3>1, <4>1, <4>3, <4>4
    <3>3. CASE ckpt.at # 0
      <4>1. ckpt.backlog = b /\ b # NoBacklog
        BY <1>2, <3>3 DEF Forcing, NoBacklog
      <4>2. Covered(f)
        BY <1>2, <2>1, <4>1 DEF Accounted, StoredOffset, Passed
      <4> QED
        BY <1>8, <4>2 DEF Covered, Settled
    <3> QED
      BY <3>2, <3>3
  <2>2. ckpt.backlog = NoBacklog \/ ckpt.backlog = b
    BY <1>2 DEF Forcing
  <2>3. ready' = {} /\ held' = {} /\ released' = {}
    BY <1>1, <1>3
  <2>4. SkipsNothing'
    BY <1>1, <1>2, <1>3, <1>8, <2>1, <2>2, <2>3, PageStep DEF Accounted
  <2> QED
    BY <1>2, <1>8, <2>4, Outside DEF Accounted
<1> QED
  BY <1>1, <1>4, <1>8, <1>13, <1>14 DEF RInv, Sound, Phases, Promise, RebuildRestores, rebuildVars

(* A round ends the rebuild, or the next one goes on behind it.            *)
LEMMA EndStep == RInv /\ EndRound => RInv'
<1> SUFFICES ASSUME RInv, EndRound PROVE RInv'
  OBVIOUS
<1> DEFINE b == rebuild.backlog
           latest == Newest({ckpt.at} \cup Reached)
           persists == latest # 0 /\ (bad = {} \/ good # {} \/ held # {})
<1>1. /\ Finish /\ rebuild.pc = "rounds" /\ ~halfReset /\ pc = "finish"
      /\ spared' = spared \cup held
      /\ UNCHANGED <<rebuilds, halfReset, before>>
      /\ UNCHANGED <<setting, clock, captured, blocked, content, vectors, faults>>
      /\ pc' = "idle"
  BY DEF EndRound, Finish, RInv, Phases, NoRun
<1>2. [Next]_vars
  BY <1>1 DEF Next, RunStep
<1>3. Sound' /\ Accounted'
  BY <1>1, <1>2, SoundStep, AccountedStep DEF RInv
<1>4. /\ Forcing(b) /\ Brought(b) /\ todo = {} /\ released = {}
      /\ ready \subseteq bad \cup vectors \cup Empty /\ InHand = ready \cup held
      /\ held \subseteq Frames /\ ready \subseteq Frames /\ ckpt.at \in Frames \cup {0}
      /\ rebuilt = {}
  BY <1>1 DEF RInv, Forced, Forcing, Sound, TypeOK, Progress, InHand, Promise
<1>5. /\ persists => ckpt' = [at |-> latest, backlog |-> next]
      /\ ~persists => ckpt' = ckpt
  BY <1>1 DEF Finish
<1>6. Reached \subseteq Frames
  BY <1>4 DEF Reached
<1>7. latest \in {ckpt.at} \cup Reached /\ \A g \in {ckpt.at} \cup Reached : g <= latest
  <2>1. {ckpt.at} \cup Reached \in SUBSET (Frames \cup {0})
    BY <1>4, <1>6
  <2> QED
    BY <2>1, NewestIn
<1>8. Restored \subseteq Restored' /\ (bad = {} => ready \cup held \subseteq Restored')
  BY <1>1, <1>4 DEF Restored
<1>9. bad = {} => Reached = ready \cup held
  BY DEF Reached
<1>10. ASSUME bad = {}, ~persists PROVE next = NoBacklog
  <2>1. latest = 0
    BY <1>10
  <2>2. ckpt.at = 0 /\ Reached = {}
    <3>1. \A g \in Reached : g \in Nat /\ g > 0 /\ g <= 0
      BY <1>6, <1>7, <2>1, FrameNumbers
    <3>2. Reached = {}
      BY <3>1
    <3> HIDE DEF latest
    <3> QED
      BY <1>7, <2>1, <3>2
  <2> QED
    BY <1>4, <1>9, <1>10, <2>2 DEF Brought
<1>11. CASE bad = {} /\ ckpt'.backlog = NoBacklog
  <2>1. rebuild'.pc = "off" /\ rebuilt' = before
    BY <1>1, <1>11 DEF EndRound, RoundOutcome, NoRebuild
  <2>2. next = NoBacklog
    BY <1>5, <1>10, <1>11
  <2>3. before \subseteq Restored'
    BY <1>1, <1>4, <1>8, <1>11, <2>2 DEF Brought, Ahead
  <2> QED
    BY <1>1, <1>3, <2>1, <2>3 DEF RInv, Phases, Forced, Promise, RebuildRestores, Restored
<1>12. CASE bad = {} /\ ckpt'.backlog # NoBacklog /\ ~(ckpt'.backlog.off <= b.off)
  <2>1. rebuild'.pc = "rounds" /\ rebuild'.backlog = ckpt'.backlog /\ rebuilt' = {}
    <3>1. RoundOutcome = "rounds"
      BY <1>12 DEF RoundOutcome
    <3>2. rebuild' = [rebuild EXCEPT !.backlog = ckpt'.backlog] /\ rebuilt' = rebuilt
      BY <1>1, <3>1 DEF EndRound
    <3> QED
      BY <1>1, <1>4, <3>2 DEF RInv
  <2>2. persists
    <3> SUFFICES ASSUME ~persists PROVE FALSE
      OBVIOUS
    <3>1. ckpt.backlog = b /\ b.off \in Nat
      BY <1>4, <1>5, <1>12 DEF Forcing, Backlog
    <3> QED
      BY <1>5, <1>12, <3>1
  <2>3. /\ ckpt'.at = latest /\ latest # 0 /\ ckpt'.backlog = next
        /\ next = [b EXCEPT !.off = @ + Pages]
    BY <1>4, <1>5, <1>12, <2>2 DEF Brought
  <2>4. Pages \in Nat \ {0}
    BY SettingType DEF RInv, Sound, TypeOK
  <2>5. /\ next \in Backlog /\ next.from = b.from /\ next.to = b.to /\ 0 < next.off
    BY <1>4, <2>3, <2>4 DEF Forcing, Backlog
  <2>6. before = RangeOf(captured, next)
    BY <1>4, <2>5 DEF Forcing, RangeOf
  <2>7. latest \in Restored'
    BY <1>4, <1>7, <1>8, <1>9, <1>12, <2>3 DEF Forcing
  <2>8. ASSUME NEW f \in before, RowIn(captured, setting.newestFirst, f, next) <= next.off
        PROVE  f \in Restored'
    <3>1. ~Ahead(captured, setting.newestFirst, f, next)
      <4> DEFINE R == {g \in RangeOf(captured, next) : IF setting.newestFirst THEN f <= g ELSE g <= f}
      <4>1. R \in SUBSET Frames
        BY DEF RangeOf, RInv, Sound, TypeOK
      <4>2. Cardinality(R) \in Nat
        BY <4>1, FramesFinite, FS_Subset, FS_CardinalityType
      <4> QED
        BY <2>5, <2>8, <4>2 DEF Ahead, RowIn, Backlog
    <3> QED
      BY <1>4, <1>8, <1>12, <3>1 DEF Brought
  <2>9. Forced'
    <3>1. PICK n : n = next
      OBVIOUS
    <3>2. Forcing(n)'
      BY <1>1, <1>4, <2>3, <2>5, <2>6, <2>7, <2>8, <3>1 DEF Forcing
    <3> QED
      BY <2>1, <2>3, <3>1, <3>2 DEF Forced
  <2> QED
    BY <1>1, <1>3, <2>1, <2>9 DEF RInv, Phases, Promise, RebuildRestores
<1>13. CASE bad # {} \/ (ckpt'.backlog # NoBacklog /\ ckpt'.backlog.off <= b.off)
  <2>1. rebuild'.pc = "off" /\ rebuilt' = rebuilt
    BY <1>1, <1>13 DEF EndRound, RoundOutcome, NoRebuild
  <2> QED
    BY <1>1, <1>3, <1>4, <2>1 DEF RInv, Phases, Forced, Promise, RebuildRestores
<1> QED
  BY <1>11, <1>12, <1>13

-----------------------------------------------------------------------------
LEMMA RebuildInductive == RInv /\ [RebuildNext]_<<vars, rebuildVars>> => RInv'
<1>1. CASE UNCHANGED <<vars, rebuildVars>>
  <2> SUFFICES ASSUME RInv PROVE RInv'
    OBVIOUS
  <2>1. Sound' /\ (halfReset' \/ Accounted')
    BY <1>1, SoundStep, AccountedStep DEF RInv, rebuildVars
  <2>2. clock' >= clock /\ clock' \in Nat
    BY <1>1 DEF RInv, Sound, TypeOK, vars
  <2>3. UNCHANGED InHand
    BY <1>1 DEF vars, run, InHand
  <2>4. UNCHANGED <<setting, captured, vectors, ckpt, pc, next, rebuild, halfReset, before, spared, rebuilt>>
    BY <1>1 DEF vars, persistent, run, rebuildVars
  <2>5. Forced' /\ Promise'
    BY <2>2, <2>3, <2>4, ForcedKept, PromiseKept DEF RInv
  <2> QED
    BY <2>1, <2>4, <2>5 DEF RInv, Phases
<1> QED
  BY <1>1, AroundStep, WorkStep, ResetStep, RoundStep, EndStep DEF RebuildNext, RebuildStep

LEMMA RebuildInvariant == RebuildSpec => []RInv
<1>1. RebuildInit => RInv
  BY IInvInit DEF RebuildInit, RInv, IInv, Sound, Accounted, Phases, Forced, Promise,
                  RebuildRestores, NoRebuild
<1> QED
  BY <1>1, RebuildInductive, PTL DEF RebuildSpec

(* A rebuild that reports success has put back a vector for every frame    *)
(* captured before it started, unless the frame holds no text or was       *)
(* blocked: for any history, page size and order of the source, whatever   *)
(* the server had dropped before (runRebuildIndex of index.ts).            *)
THEOREM RebuildTheorem == RebuildSpec => []RebuildRestores
  BY RebuildInvariant, PTL DEF RInv, Promise

(* A rebuild that fails or dies anywhere but between its two resets leaves *)
(* a checkpoint from which the server skips nothing (runRebuildIndex of    *)
(* index.ts).                                                              *)
THEOREM InterruptedTheorem == RebuildSpec => []InterruptedRebuildSkipsNothing
  BY RebuildInvariant, PTL DEF RInv, Accounted, InterruptedRebuildSkipsNothing
=============================================================================
