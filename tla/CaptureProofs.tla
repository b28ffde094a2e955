----------------------------- MODULE CaptureProofs -----------------------------
(***************************************************************************)
(* The capture database and the search over it, for any number of frames,  *)
(* sweepers and failures and any batches, and for windows and pages of any *)
(* size.                                                                   *)
(*                                                                         *)
(* A tree is in its JSON, or safe: in the table, or with something it      *)
(* refers to being deleted.  A safe tree stays safe (SafeStays), and a     *)
(* sweep takes JSON away only from what it found in the table by a copy of *)
(* the reference that is out of date at most by a conversion (FoundIsSafe).*)
(* The hand-over of deletions to the cascade (Heard) and the single rows   *)
(* of each tree (RowsOnce) are proved on top; the latter while sweeps do   *)
(* not overlap, which the code does not see to.  The search keeps an       *)
(* account (ReadAs) of how far back in time the pages have come.           *)
(*                                                                         *)
(* The text of a frame, on trees of any size: secureDepth and the blocked  *)
(* records are recursive functions, so what they stay true of is proved    *)
(* from the row or the level before (FromZero).                            *)
(***************************************************************************)
EXTENDS CaptureStore, CaptureSearch, Extraction, FiniteSetTheorems, WellFoundedInduction, TLAPS

Sweep == [pc : {"idle", "check", "null", "convert"}, todo : SUBSET Ids, ref : [Ids -> Ids \cup {0}]]

StoreTyped ==
  /\ tick \in Nat /\ recorded \subseteq Ids /\ \A f \in recorded : TakenAt[f] <= tick
  /\ frames \subseteq recorded /\ json \subseteq frames
  /\ copies \in [Ids -> Nat] /\ ref \in [Ids -> Ids \cup {0}]
  /\ sweep \in [Sweepers -> Sweep]
  /\ \A s \in Sweepers : /\ sweep[s].todo \subseteq recorded
                         /\ sweep[s].pc \in {"null", "convert"} => sweep[s].todo # {}

(* A frame that has not been recorded has no rows and is nobody's          *)
(* reference; one that refers elsewhere has no rows; one that refers to    *)
(* itself was converted.                                                   *)
RefsSound ==
  \A f \in Ids :
    /\ ref[f] # 0 => f \in recorded /\ ref[f] \in recorded
    /\ copies[f] > 0 => f \in recorded
    /\ f \in frames /\ ref[f] \notin {0, f} => copies[f] = 0
    /\ f \in frames /\ ref[f] = f => copies[f] > 0 \/ f \in halved

(* A sweep's copy of a reference is out of date only if the frame has been *)
(* converted since.                                                        *)
CopiesOfRefs ==
  \A s \in Sweepers : \A f \in Ids :
    LET r == sweep[s].ref[f]
    IN  r # 0 => f \in recorded /\ r \in recorded /\ (f \in frames => ref[f] \in {r, f})

(* The tree is in the table, or what it refers to is being deleted.        *)
Safe(f) == Reconstructed(f) \/ Owner(f, ref) \notin frames \/ {f, Owner(f, ref)} \cap halved # {}

Candidate(s) == Lowest(sweep[s].todo)

TreesKept ==
  /\ \A f \in frames : TreeKind[f] # "none" /\ f \notin json => Safe(f)
  /\ \A s \in Sweepers : sweep[s].pc = "null" /\ Candidate(s) \in frames => Safe(Candidate(s))

StoreInv == StoreTyped /\ RefsSound /\ CopiesOfRefs /\ TreesKept

(* Deletions and their hand-over.                                          *)
Heard ==
  /\ handed \subseteq recorded /\ trim.ids \subseteq recorded
  /\ erase.ids \subseteq recorded /\ erase.batch \subseteq recorded
  /\ (handed \cup erase.ids) \cap frames = {}
  /\ trim.pc = "cascade" => trim.ids \cap frames = {}
  /\ DOMAIN erase = DOMAIN NoErase
  /\ erase.pc = "idle" => erase.ids = {}
  /\ recorded \ frames \subseteq
       handed \cup orphaned \cup erase.ids \cup (IF trim.pc = "cascade" THEN trim.ids ELSE {})

(* No two sweeps at once.                                                  *)
SweepsApart == \A s, t \in Sweepers : sweep[s].pc # "idle" /\ sweep[t].pc # "idle" => s = t

(* With one sweep at a time, what it listed with a reference elsewhere     *)
(* still has no rows.                                                      *)
RowsOnce ==
  /\ NoTreeTwice
  /\ \A s \in Sweepers : \A f \in sweep[s].todo :
       sweep[s].ref[f] \notin {0, f} => copies[f] = 0 /\ ref[f] # 0
  /\ \A s \in Sweepers : sweep[s].pc = "idle" => sweep[s].todo = {}

-----------------------------------------------------------------------------
LEMMA IdNumbers == Ids \subseteq Nat /\ 0 \notin Ids /\ TakenAt \in [Ids -> Nat]
<1>1. StoreRows \in Nat
  BY StoreAssumption
<1>2. Ids \subseteq Nat /\ 0 \notin Ids
  BY <1>1 DEF Ids
<1> QED
  BY <1>2, StoreAssumption

LEMMA LowestIsIn ==
  ASSUME NEW S \in SUBSET Ids, S # {}
  PROVE  Lowest(S) \in S
<1>1. S \subseteq Nat
  BY IdNumbers
<1>2. PICK x \in S : \A y \in S : <<y, x>> \notin OpToRel(<, Nat)
  BY <1>1, NatLessThanWellFounded, WFMin
<1>3. \A y \in S : ~(y < x)
  BY <1>1, <1>2 DEF OpToRel
<1>4. \A y \in S : x <= y
  BY <1>1, <1>3
<1> QED
  BY <1>4 DEF Lowest

LEMMA CandidateIsIn ==
  ASSUME StoreTyped, NEW s \in Sweepers, sweep[s].todo # {}
  PROVE  Candidate(s) \in sweep[s].todo /\ Candidate(s) \in recorded /\ Candidate(s) \in Ids
<1>1. sweep[s].todo \subseteq recorded /\ recorded \subseteq Ids
  BY DEF StoreTyped
<1> QED
  BY <1>1, LowestIsIn DEF Candidate

LEMMA NextCandidateIs ==
  ASSUME StoreTyped, NEW s \in Sweepers
  PROVE  /\ NextCandidate(s) \in [Sweepers -> Sweep]
         /\ NextCandidate(s)[s].pc = "check"
         /\ NextCandidate(s)[s].todo = sweep[s].todo \ {Candidate(s)}
         /\ NextCandidate(s)[s].ref = sweep[s].ref
         /\ \A t \in Sweepers \ {s} : NextCandidate(s)[t] = sweep[t]
<1>1. PICK r : r = [sweep[s] EXCEPT !.pc = "check", !.todo = @ \ {Candidate(s)}]
  OBVIOUS
<1>2. sweep \in [Sweepers -> Sweep] /\ sweep[s] \in Sweep
  BY DEF StoreTyped
<1>3. /\ r \in Sweep /\ r.pc = "check" /\ r.todo = sweep[s].todo \ {Candidate(s)}
      /\ r.ref = sweep[s].ref
  BY <1>1, <1>2 DEF Sweep
<1>4. NextCandidate(s) = [sweep EXCEPT ![s] = r]
  BY <1>1, <1>2 DEF NextCandidate, Candidate
<1> QED
  BY <1>2, <1>3, <1>4

LEMMA OldestIsPart ==
  ASSUME NEW k, NEW S
  PROVE  Oldest(k, S) \subseteq S
BY DEF Oldest

-----------------------------------------------------------------------------
(* What holds of every step about references, rows and frames.             *)
Gentle ==
  /\ \A f \in frames \cap frames' :
       \/ ref'[f] = ref[f]
       \/ f \in json /\ copies[f] = 0 /\ ref[f] = 0
       \/ ref'[f] = f /\ copies'[f] > 0
  /\ \A f \in Ids : copies[f] > 0 => copies'[f] > 0 \/ f \in halved' \/ f \notin frames'
  /\ frames' \cap recorded \subseteq frames
  /\ \A f \in halved : f \in halved' \/ f \notin frames'

(* A tree that is safe stays safe.                                         *)
LEMMA SafeStays ==
  ASSUME StoreTyped, RefsSound, Gentle, NEW f \in frames \cap frames', Safe(f)
  PROVE  Safe(f)'
<1>0. /\ f \in Ids /\ f \in frames /\ f \in frames' /\ f \in recorded
      /\ frames \subseteq recorded /\ recorded \subseteq Ids /\ 0 \notin Ids
      /\ copies \in [Ids -> Nat] /\ ref \in [Ids -> Ids \cup {0}]
  BY IdNumbers DEF StoreTyped
<1>1. Owner(f, ref) \in recorded
  BY <1>0 DEF Owner, RefsSound
<1>2. CASE f \in halved
  <2>1. f \in halved'
    BY <1>0, <1>2 DEF Gentle
  <2> QED
    BY <2>1 DEF Safe
<1>3. CASE f \notin halved /\ ref'[f] = ref[f]
  <2>1. Owner(f, ref)' = Owner(f, ref)
    BY <1>3 DEF Owner
  <2>2. CASE Owner(f, ref) \notin frames
    <3>1. Owner(f, ref) \notin frames'
      BY <1>1, <2>2 DEF Gentle
    <3> QED
      BY <2>1, <3>1 DEF Safe
  <2>3. CASE Owner(f, ref) \in halved
    <3>1. Owner(f, ref) \in halved' \/ Owner(f, ref) \notin frames'
      BY <2>3 DEF Gentle
    <3> QED
      BY <2>1, <3>1 DEF Safe
  <2>4. CASE copies[Owner(f, ref)] > 0
    <3>1. \/ copies'[Owner(f, ref)] > 0 \/ Owner(f, ref) \in halved' \/ Owner(f, ref) \notin frames'
      BY <1>0, <1>1, <2>4 DEF Gentle
    <3> QED
      BY <2>1, <3>1 DEF Safe, Reconstructed
  <2> QED
    BY <1>3, <2>2, <2>3, <2>4 DEF Safe, Reconstructed
<1>4. CASE f \notin halved /\ f \in json /\ copies[f] = 0 /\ ref[f] = 0
  BY <1>0, <1>4 DEF Safe, Reconstructed, Owner
<1>5. CASE ref'[f] = f /\ copies'[f] > 0
  BY <1>0, <1>5 DEF Safe, Reconstructed, Owner
<1> QED
  BY <1>0, <1>2, <1>3, <1>4, <1>5 DEF Gentle

(* What a sweep finds in the table with its copy of the reference, is      *)
(* there or being deleted.                                                 *)
LEMMA FoundIsSafe ==
  ASSUME StoreTyped, RefsSound, CopiesOfRefs, NEW s \in Sweepers, NEW f \in frames,
         HasElementsForFrame(f, sweep[s].ref)
  PROVE  Safe(f)
<1>0. /\ f \in Ids /\ copies \in [Ids -> Nat] /\ ref \in [Ids -> Ids \cup {0}] /\ 0 \notin Ids
      /\ sweep[s].ref[f] \in Ids \cup {0}
  BY IdNumbers DEF StoreTyped, Sweep
<1>1. CASE sweep[s].ref[f] = 0
  <2>1. copies[f] > 0
    BY <1>1 DEF HasElementsForFrame, Owner
  <2>2. ref[f] \in {0, f}
    BY <1>0, <2>1 DEF RefsSound
  <2> QED
    BY <2>1, <2>2 DEF Safe, Reconstructed, Owner
<1>2. CASE sweep[s].ref[f] # 0
  <2>1. copies[sweep[s].ref[f]] > 0
    BY <1>2 DEF HasElementsForFrame, Owner
  <2>2. ref[f] \in {sweep[s].ref[f], f}
    BY <1>0, <1>2 DEF CopiesOfRefs
  <2>3. CASE ref[f] = sweep[s].ref[f]
    BY <1>2, <2>1, <2>3 DEF Safe, Reconstructed, Owner
  <2>4. CASE ref[f] = f
    BY <1>0, <2>4 DEF Safe, Reconstructed, Owner, RefsSound
  <2> QED
    BY <2>2, <2>3, <2>4
<1> QED
  BY <1>1, <1>2

LEMMA TreesKeptBy ==
  ASSUME StoreTyped, RefsSound, Gentle,
         \A f \in frames' : TreeKind[f] # "none" /\ f \notin json' => (f \in frames /\ Safe(f)) \/ Safe(f)',
         \A s \in Sweepers : sweep'[s].pc = "null" /\ Candidate(s)' \in frames' =>
           Candidate(s)' \in frames /\ Safe(Candidate(s)')
  PROVE  TreesKept'
<1>1. \A f \in frames \cap frames' : Safe(f) => Safe(f)'
  BY SafeStays
<1>2. ASSUME NEW f \in frames', TreeKind[f] # "none", f \notin json'
      PROVE  Safe(f)'
  BY <1>1, <1>2
<1>3. ASSUME NEW s \in Sweepers, sweep'[s].pc = "null", Candidate(s)' \in frames'
      PROVE  Safe(Candidate(s))'
  <2>1. PICK c : c = Candidate(s)'
    OBVIOUS
  <2>2. c \in frames \cap frames' /\ Safe(c)
    BY <1>3, <2>1
  <2>3. Safe(c)'
    BY <1>1, <2>2
  <2> QED
    BY <2>1, <2>3 DEF Safe, Reconstructed, Owner
<1> QED
  BY <1>2, <1>3 DEF TreesKept

-----------------------------------------------------------------------------
LEMMA StoreStarts == StoreInit => StoreInv
<1> SUFFICES ASSUME StoreInit PROVE StoreInv
  OBVIOUS
<1> USE DEF StoreInit
<1>1. NoSweep \in Sweep /\ NoSweep.todo = {} /\ NoSweep.pc = "idle"
      /\ \A f \in Ids : NoSweep.ref[f] = 0
  BY DEF NoSweep, Sweep
<1>2. \A s \in Sweepers : sweep[s] = NoSweep
  OBVIOUS
<1>3. StoreTyped
  BY <1>1 DEF StoreTyped
<1>4. RefsSound
  BY DEF RefsSound
<1>5. CopiesOfRefs
  BY <1>1, <1>2 DEF CopiesOfRefs
<1>6. TreesKept
  BY <1>1, <1>2 DEF TreesKept
<1> QED
  BY <1>3, <1>4, <1>5, <1>6 DEF StoreInv

(* The steps that leave rows, references and sweeps alone.                 *)
LEMMA StoreUntouched ==
  ASSUME StoreInv, UNCHANGED <<tick, recorded, table, sweep, halved>>
  PROVE  StoreInv'
<1>1. StoreTyped'
  BY DEF StoreInv, StoreTyped, table
<1>2. RefsSound' /\ CopiesOfRefs'
  BY DEF StoreInv, RefsSound, CopiesOfRefs, table
<1>3. TreesKept'
  BY DEF StoreInv, TreesKept, Safe, Reconstructed, Owner, Candidate, table
<1> QED
  BY <1>1, <1>2, <1>3 DEF StoreInv

LEMMA RecordKeeps ==
  ASSUME StoreInv, Record
  PROVE  StoreInv'
<1>0. StoreTyped /\ RefsSound /\ CopiesOfRefs /\ TreesKept
  BY DEF StoreInv
<1>1. PICK new : /\ new \subseteq Ids /\ \A f \in new : TakenAt[f] = tick + 1
                 /\ recorded' = recorded \cup new /\ frames' = frames \cup new
                 /\ json' = json \cup {f \in new : TreeKind[f] # "none"}
                 /\ tick' = tick + 1
  <2>1. PICK new : new = IF recording THEN {f \in Ids : TakenAt[f] = tick + 1} ELSE {}
    OBVIOUS
  <2>2. new \subseteq Ids /\ \A f \in new : TakenAt[f] = tick + 1
    BY <2>1
  <2>3. /\ recorded' = recorded \cup new /\ frames' = frames \cup new
        /\ json' = json \cup {f \in new : TreeKind[f] # "none"}
        /\ tick' = tick + 1
    BY <2>1 DEF Record
  <2> QED
    BY <2>2, <2>3
<1>2. UNCHANGED <<copies, ref, sweep, halved>>
  BY DEF Record, storeGhosts
<1>3. new \cap recorded = {}
  BY <1>0, <1>1 DEF StoreTyped
<1>4. StoreTyped'
  <2>1. tick' \in Nat /\ \A f \in recorded' : TakenAt[f] <= tick'
    BY <1>0, <1>1, IdNumbers DEF StoreTyped
  <2> QED
    BY <1>0, <1>1, <1>2, <2>1 DEF StoreTyped
<1>5. RefsSound'
  <2>1. \A f \in new : f \in Ids /\ ref[f] = 0 /\ f # 0
    BY <1>0, <1>1, <1>3, IdNumbers DEF RefsSound
  <2> QED
    BY <1>0, <1>1, <1>2, <1>3, <2>1 DEF RefsSound
<1>6. CopiesOfRefs'
  BY <1>0, <1>1, <1>2, <1>3 DEF CopiesOfRefs
<1>7. Gentle
  BY <1>0, <1>1, <1>2, <1>3 DEF Gentle
<1>8. \A s \in Sweepers : Candidate(s)' = Candidate(s) /\ sweep'[s] = sweep[s]
  BY <1>2 DEF Candidate
<1>9. \A s \in Sweepers : sweep[s].pc = "null" => Candidate(s) \in recorded
  BY <1>0, CandidateIsIn DEF StoreTyped
<1>10. TreesKept'
  BY <1>0, <1>1, <1>3, <1>7, <1>8, <1>9, TreesKeptBy DEF TreesKept
<1> QED
  BY <1>4, <1>5, <1>6, <1>10 DEF StoreInv

LEMMA NormaliseKeeps ==
  ASSUME StoreInv, Normalise
  PROVE  StoreInv'
<1>0. StoreTyped /\ RefsSound /\ CopiesOfRefs /\ TreesKept
  BY DEF StoreInv
<1>1. PICK f \in json :
        /\ copies[f] = 0 /\ ref[f] = 0
        /\ \/ copies' = [copies EXCEPT ![f] = 1] /\ ref' = ref
           \/ \E g \in frames : g < f /\ ref' = [ref EXCEPT ![f] = g] /\ copies' = copies
  BY DEF Normalise
<1>2. UNCHANGED <<tick, recorded, frames, json, sweep, halved>>
  BY DEF Normalise, storeGhosts
<1>3. /\ f \in Ids /\ f \in frames /\ f \in recorded
      /\ \A g \in frames : g \in Ids /\ g \in recorded /\ g # 0 /\ g \in Nat
  BY <1>0, <1>1, IdNumbers DEF StoreTyped
<1>4. StoreTyped'
  BY <1>0, <1>1, <1>2, <1>3 DEF StoreTyped
<1>5. /\ \A g \in Ids \ {f} : copies'[g] = copies[g] /\ ref'[g] = ref[g]
      /\ \/ copies'[f] = 1 /\ ref'[f] = 0
         \/ copies'[f] = 0 /\ ref'[f] \in frames /\ ref'[f] # f
  BY <1>0, <1>1, <1>3 DEF StoreTyped
<1>6. RefsSound'
  BY <1>0, <1>2, <1>3, <1>5 DEF RefsSound
<1>7. \A s \in Sweepers : sweep[s].ref[f] = 0
  <2>1. \A s \in Sweepers : sweep[s].ref[f] = 0 \/ sweep[s].ref[f] \in Ids
    BY <1>0, <1>3 DEF StoreTyped, Sweep
  <2> QED
    BY <1>0, <1>1, <1>3, <2>1, IdNumbers DEF CopiesOfRefs
<1>8. CopiesOfRefs'
  BY <1>0, <1>2, <1>5, <1>7 DEF CopiesOfRefs
<1>9. Gentle
  BY <1>0, <1>1, <1>2, <1>3, <1>5 DEF Gentle, StoreTyped
<1>10. \A s \in Sweepers : Candidate(s)' = Candidate(s) /\ sweep'[s] = sweep[s]
  BY <1>2 DEF Candidate
<1>11. TreesKept'
  BY <1>0, <1>2, <1>9, <1>10, TreesKeptBy DEF TreesKept
<1> QED
  BY <1>4, <1>6, <1>8, <1>11 DEF StoreInv

(* A deletion in one transaction or in two.                                *)
LEMMA DeletionKeeps ==
  ASSUME StoreInv,
         DeleteOldestBatch \/ DeleteElements \/ DeleteFrames
  PROVE  StoreInv'
<1>0. StoreTyped /\ RefsSound /\ CopiesOfRefs /\ TreesKept
  BY DEF StoreInv
<1>1. UNCHANGED <<tick, recorded, ref, sweep>>
  BY DEF DeleteOldestBatch, DeleteElements, DeleteFrames
<1>2. /\ frames' \subseteq frames /\ json' = json \cap frames'
      /\ copies' \in [Ids -> Nat]
      /\ \A f \in Ids : \/ copies'[f] = copies[f]
                        \/ copies'[f] = 0 /\ (f \in halved' \/ f \notin frames')
      /\ \A f \in halved : f \in halved' \/ f \notin frames'
  <2>1. CASE DeleteOldestBatch
    BY <1>0, <2>1 DEF DeleteOldestBatch, DropRows, StoreTyped
  <2>2. CASE DeleteElements
    BY <1>0, <2>2 DEF DeleteElements, StoreTyped
  <2>3. CASE DeleteFrames
    BY <1>0, <2>3 DEF DeleteFrames, StoreTyped
  <2> QED
    BY <2>1, <2>2, <2>3
<1>3. StoreTyped'
  BY <1>0, <1>1, <1>2 DEF StoreTyped
<1>4. RefsSound'
  BY <1>0, <1>1, <1>2 DEF RefsSound, StoreTyped
<1>5. CopiesOfRefs'
  BY <1>0, <1>1, <1>2 DEF CopiesOfRefs
<1>6. Gentle
  BY <1>0, <1>1, <1>2 DEF Gentle, StoreTyped
<1>7. \A s \in Sweepers : Candidate(s)' = Candidate(s) /\ sweep'[s] = sweep[s]
  BY <1>1 DEF Candidate
<1>8. TreesKept'
  BY <1>0, <1>2, <1>6, <1>7, TreesKeptBy DEF TreesKept
<1> QED
  BY <1>3, <1>4, <1>5, <1>8 DEF StoreInv

-----------------------------------------------------------------------------
(* The steps in which a sweep lists, judges and ends touch no row.         *)
LEMMA JudgingKeeps ==
  ASSUME StoreInv, UNCHANGED <<tick, recorded, table, halved>>,
         NEW s \in Sweepers, NEW r \in Sweep, sweep' = [sweep EXCEPT ![s] = r],
         r.todo \subseteq recorded, r.pc # "convert" \/ r.todo # {},
         r.pc = "null" => /\ r.todo # {}
                          /\ Lowest(r.todo) \in frames => Safe(Lowest(r.todo)),
         \A f \in Ids : r.ref[f] # 0 =>
           f \in recorded /\ r.ref[f] \in recorded /\ (f \in frames => ref[f] \in {r.ref[f], f})
  PROVE  StoreInv'
<1>0. StoreTyped /\ RefsSound /\ CopiesOfRefs /\ TreesKept
  BY DEF StoreInv
<1>1. sweep \in [Sweepers -> Sweep]
  BY <1>0 DEF StoreTyped
<1>2. sweep'[s] = r /\ \A t \in Sweepers \ {s} : sweep'[t] = sweep[t]
  BY <1>1
<1>3. UNCHANGED <<frames, json, copies, ref>>
  BY DEF table
<1>4. StoreTyped'
  BY <1>0, <1>1, <1>2, <1>3 DEF StoreTyped
<1>5. RefsSound'
  BY <1>0, <1>3 DEF RefsSound
<1>6. CopiesOfRefs'
  BY <1>0, <1>2, <1>3 DEF CopiesOfRefs
<1>7. Gentle
  BY <1>0, <1>3 DEF Gentle, StoreTyped
<1>8. /\ Candidate(s)' = Lowest(r.todo)
      /\ \A t \in Sweepers \ {s} : Candidate(t)' = Candidate(t)
  BY <1>2 DEF Candidate
<1>9. ASSUME NEW t \in Sweepers, sweep'[t].pc = "null", Candidate(t)' \in frames'
      PROVE  Candidate(t)' \in frames /\ Safe(Candidate(t)')
  <2>1. CASE t = s
    <3>1. Candidate(t)' = Lowest(r.todo) /\ r.pc = "null"
      BY <1>2, <1>8, <1>9, <2>1
    <3> QED
      BY <1>3, <1>9, <3>1
  <2>2. CASE t # s
    <3>1. Candidate(t)' = Candidate(t) /\ sweep[t].pc = "null"
      BY <1>2, <1>8, <1>9, <2>2
    <3> QED
      BY <1>0, <1>3, <1>9, <3>1 DEF TreesKept
  <2> QED
    BY <2>1, <2>2
<1>10. \A f \in frames' : TreeKind[f] # "none" /\ f \notin json' => f \in frames /\ Safe(f)
  BY <1>0, <1>3 DEF TreesKept
<1>11. TreesKept'
  BY <1>0, <1>7, <1>9, <1>10, TreesKeptBy
<1> QED
  BY <1>4, <1>5, <1>6, <1>11 DEF StoreInv

LEMMA BeginSweepKeeps ==
  ASSUME StoreInv, NEW s \in Sweepers, BeginSweep(s)
  PROVE  StoreInv'
<1>0. StoreTyped /\ RefsSound
  BY DEF StoreInv
<1>1. PICK listed : listed = Oldest(SweepBatch, {f \in json : TakenAt[f] < tick - MinFrameAge})
  OBVIOUS
<1>2. listed \subseteq recorded /\ listed \subseteq Ids
  BY <1>0, <1>1, OldestIsPart DEF StoreTyped
<1>3. PICK r : r = [pc |-> "check", todo |-> listed,
                    ref |-> [f \in Ids |-> IF f \in listed THEN ref[f] ELSE 0]]
  OBVIOUS
<1>4. r \in Sweep /\ r.pc = "check" /\ r.todo = listed
  BY <1>0, <1>2, <1>3 DEF Sweep, StoreTyped
<1>5. \A f \in Ids : r.ref[f] # 0 => f \in listed /\ r.ref[f] = ref[f]
  BY <1>3
<1>6. \A f \in Ids : r.ref[f] # 0 =>
        f \in recorded /\ r.ref[f] \in recorded /\ (f \in frames => ref[f] \in {r.ref[f], f})
  BY <1>0, <1>2, <1>5 DEF RefsSound
<1>7. sweep' = [sweep EXCEPT ![s] = r] /\ UNCHANGED <<tick, recorded, table, halved>>
  BY <1>1, <1>3 DEF BeginSweep, storeGhosts
<1> QED
  BY <1>2, <1>4, <1>6, <1>7, JudgingKeeps

LEMMA EndSweepKeeps ==
  ASSUME StoreInv, NEW s \in Sweepers, EndSweep(s)
  PROVE  StoreInv'
<1>1. NoSweep \in Sweep /\ NoSweep.todo = {} /\ NoSweep.pc = "idle"
      /\ \A f \in Ids : NoSweep.ref[f] = 0
  BY DEF NoSweep, Sweep
<1>2. sweep' = [sweep EXCEPT ![s] = NoSweep] /\ UNCHANGED <<tick, recorded, table, halved>>
  BY DEF EndSweep, storeGhosts
<1> QED
  BY <1>1, <1>2, JudgingKeeps

LEMMA CheckCandidateKeeps ==
  ASSUME StoreInv, NEW s \in Sweepers, CheckCandidate(s)
  PROVE  StoreInv'
<1>0. StoreTyped /\ RefsSound /\ CopiesOfRefs
  BY DEF StoreInv
<1>1. /\ sweep[s].todo # {} /\ UNCHANGED <<tick, recorded, table, halved>>
      /\ sweep \in [Sweepers -> Sweep] /\ sweep[s] \in Sweep /\ sweep[s].todo \subseteq recorded
  BY <1>0 DEF CheckCandidate, storeGhosts, StoreTyped
<1>2. \A f \in Ids : sweep[s].ref[f] # 0 =>
        /\ f \in recorded /\ sweep[s].ref[f] \in recorded
        /\ f \in frames => ref[f] \in {sweep[s].ref[f], f}
  BY <1>0 DEF CopiesOfRefs
<1>3. CASE HasElementsForFrame(Candidate(s), sweep[s].ref)
  <2>1. PICK r : r = [sweep[s] EXCEPT !.pc = "null"]
    OBVIOUS
  <2>2. r \in Sweep /\ r.pc = "null" /\ r.todo = sweep[s].todo /\ r.ref = sweep[s].ref
    BY <1>1, <2>1 DEF Sweep
  <2>3. sweep' = [sweep EXCEPT ![s] = r]
    BY <1>1, <1>3, <2>1 DEF CheckCandidate, Candidate
  <2>4. Lowest(r.todo) \in frames => Safe(Lowest(r.todo))
    BY <1>0, <1>3, <2>2, FoundIsSafe DEF Candidate
  <2> QED
    BY <1>1, <1>2, <2>2, <2>3, <2>4, JudgingKeeps
<1>4. CASE ~HasElementsForFrame(Candidate(s), sweep[s].ref) /\ TreeKind[Candidate(s)] = "list"
  <2>1. PICK r : r = [sweep[s] EXCEPT !.pc = "convert"]
    OBVIOUS
  <2>2. r \in Sweep /\ r.pc = "convert" /\ r.todo = sweep[s].todo /\ r.ref = sweep[s].ref
    BY <1>1, <2>1 DEF Sweep
  <2>3. sweep' = [sweep EXCEPT ![s] = r]
    BY <1>1, <1>4, <2>1 DEF CheckCandidate, Candidate
  <2> QED
    BY <1>1, <1>2, <2>2, <2>3, JudgingKeeps
<1>5. CASE ~HasElementsForFrame(Candidate(s), sweep[s].ref) /\ TreeKind[Candidate(s)] # "list"
  <2>1. sweep' = NextCandidate(s)
    BY <1>5 DEF CheckCandidate, Candidate
  <2>2. PICK r : r = sweep'[s]
    OBVIOUS
  <2>3. /\ r \in Sweep /\ r.pc = "check" /\ r.todo \subseteq sweep[s].todo /\ r.ref = sweep[s].ref
        /\ sweep' = [sweep EXCEPT ![s] = r]
    BY <1>0, <1>1, <2>1, <2>2, NextCandidateIs
  <2> QED
    BY <1>1, <1>2, <2>3, JudgingKeeps
<1> QED
  BY <1>3, <1>4, <1>5

(* Nulling or converting a tree.                                           *)
LEMMA RewritingKeeps ==
  ASSUME StoreInv, NEW s \in Sweepers, NullJson(s) \/ Convert(s)
  PROVE  StoreInv'
<1>0. StoreTyped /\ RefsSound /\ CopiesOfRefs /\ TreesKept
  BY DEF StoreInv
<1>1. /\ sweep' = NextCandidate(s) /\ UNCHANGED <<tick, recorded, frames, halved>>
      /\ sweep[s].pc \in {"null", "convert"}
  BY DEF NullJson, Convert, storeGhosts
<1>2. PICK f : f = Candidate(s)
  OBVIOUS
<1>3. f \in Ids /\ f \in recorded /\ f # 0 /\ f \in Nat
  BY <1>0, <1>1, <1>2, CandidateIsIn, IdNumbers DEF StoreTyped
<1>4. \/ /\ json' = json \ {f} /\ copies' = copies /\ ref' = ref
         /\ f \in frames => Safe(f)
      \/ /\ json' = json \ {f} /\ copies' = [copies EXCEPT ![f] = @ + 1]
         /\ ref' = IF f \in frames THEN [ref EXCEPT ![f] = f] ELSE ref
      \/ json' = json /\ copies' = copies /\ ref' = ref
  <2>1. CASE NullJson(s)
    BY <1>0, <1>2, <2>1 DEF NullJson, TreesKept, Candidate
  <2>2. CASE Convert(s)
    <3>1. CASE HasElementsForFrame(f, sweep[s].ref)
      <4>1. f \in frames => Safe(f)
        BY <1>0, <3>1, FoundIsSafe
      <4> QED
        BY <1>2, <2>2, <3>1, <4>1 DEF Convert, Candidate
    <3>2. CASE ~HasElementsForFrame(f, sweep[s].ref)
      BY <1>2, <2>2, <3>2 DEF Convert, Candidate
    <3> QED
      BY <3>1, <3>2
  <2> QED
    BY <2>1, <2>2
<1>5. /\ json' \subseteq json /\ json \ json' \subseteq {f}
      /\ copies' \in [Ids -> Nat] /\ ref' \in [Ids -> Ids \cup {0}]
      /\ \A g \in Ids \ {f} : copies'[g] = copies[g] /\ ref'[g] = ref[g]
      /\ \/ copies'[f] = copies[f] /\ ref'[f] = ref[f] /\ (f \in frames /\ f \notin json' => f \notin json \/ Safe(f))
         \/ copies'[f] > 0 /\ ref'[f] = (IF f \in frames THEN f ELSE ref[f])
  <2>1. copies \in [Ids -> Nat] /\ ref \in [Ids -> Ids \cup {0}] /\ copies[f] \in Nat
    BY <1>0, <1>3 DEF StoreTyped
  <2> QED
    BY <1>3, <1>4, <2>1
<1>6. /\ sweep' \in [Sweepers -> Sweep] /\ sweep'[s].pc = "check"
      /\ sweep'[s].todo \subseteq sweep[s].todo
      /\ \A t \in Sweepers : sweep'[t].ref = sweep[t].ref
      /\ \A t \in Sweepers \ {s} : sweep'[t] = sweep[t] /\ Candidate(t)' = Candidate(t)
  BY <1>0, <1>1, NextCandidateIs DEF Candidate
<1>7. StoreTyped'
  BY <1>0, <1>1, <1>5, <1>6 DEF StoreTyped
<1>8. RefsSound'
  BY <1>0, <1>1, <1>3, <1>5 DEF RefsSound, StoreTyped
<1>9. CopiesOfRefs'
  BY <1>0, <1>1, <1>3, <1>5, <1>6 DEF CopiesOfRefs
<1>10. Gentle
  BY <1>0, <1>1, <1>3, <1>5 DEF Gentle, StoreTyped
<1>11. ASSUME NEW g \in frames', TreeKind[g] # "none", g \notin json'
       PROVE  (g \in frames /\ Safe(g)) \/ Safe(g)'
  <2>1. g \in frames /\ g \in Ids
    BY <1>0, <1>1 DEF StoreTyped
  <2>2. CASE g \notin json
    BY <1>0, <1>11, <2>1, <2>2 DEF TreesKept
  <2>3. CASE g \in json
    <3>1. g = f
      BY <1>5, <1>11, <2>3
    <3>2. CASE copies'[f] > 0 /\ ref'[f] = f
      BY <1>3, <3>1, <3>2 DEF Safe, Reconstructed, Owner
    <3> QED
      BY <1>5, <1>11, <2>1, <2>3, <3>1, <3>2
  <2> QED
    BY <2>2, <2>3
<1>12. TreesKept'
  BY <1>0, <1>1, <1>6, <1>10, <1>11, TreesKeptBy DEF TreesKept
<1> QED
  BY <1>7, <1>8, <1>9, <1>12 DEF StoreInv

LEMMA StoreInvStep == StoreInv /\ [StoreNext]_storeVars => StoreInv'
<1> SUFFICES ASSUME StoreInv, [StoreNext]_storeVars PROVE StoreInv'
  OBVIOUS
<1>1. CASE Record \/ Normalise
  BY <1>1, RecordKeeps, NormaliseKeeps
<1>2. CASE StopOrStart \/ Reclaim \/ VacuumInit
  BY <1>2, StoreUntouched DEF StopOrStart, Reclaim, VacuumInit, storeGhosts
<1>3. CASE SweepStep
  BY <1>3, BeginSweepKeeps, CheckCandidateKeeps, RewritingKeeps, EndSweepKeeps DEF SweepStep
<1>4. CASE BeginTrim \/ MeasureAndSelect \/ CascadeTrim
  BY <1>4, StoreUntouched DEF BeginTrim, MeasureAndSelect, CascadeTrim, storeGhosts
<1>5. CASE BeginErase \/ SelectIds \/ CascadeErase
  BY <1>5, StoreUntouched DEF BeginErase, SelectIds, CascadeErase, storeGhosts
<1>6. CASE DeleteOldestBatch \/ DeleteElements \/ DeleteFrames
  BY <1>6, DeletionKeeps
<1>7. CASE DeleterFails \/ UNCHANGED storeVars
  BY <1>7, StoreUntouched DEF DeleterFails, storeVars, storeGhosts
<1> QED
  BY <1>1, <1>2, <1>3, <1>4, <1>5, <1>6, <1>7 DEF StoreNext, TrimStep, EraseStep

THEOREM StoreInvariant == StoreSpec => []StoreInv
BY StoreStarts, StoreInvStep, PTL DEF StoreSpec

(* Maintenance never loses a tree, for any number of sweeps at once: a     *)
(* recorded frame whose tree cannot be read refers to a deleted frame or   *)
(* is part of a deletion that stopped half way.                            *)
THEOREM TreesTheorem == StoreSpec => []TreesSurviveSweeps
<1>1. StoreInv => TreesSurviveSweeps
  BY DEF StoreInv, TreesKept, Safe, TreesSurviveSweeps, TreeReadable
<1> QED
  BY <1>1, StoreInvariant, PTL

-----------------------------------------------------------------------------
LEMMA HeardStarts == StoreInit => Heard
BY DEF StoreInit, Heard, NoTrim, NoErase


LEMMA HeardStep == StoreInv /\ Heard /\ [StoreNext]_storeVars => Heard'
<1> SUFFICES ASSUME StoreTyped, Heard, [StoreNext]_storeVars PROVE Heard'
  BY DEF StoreInv
<1>0. frames \subseteq recorded
  BY DEF StoreTyped
<1>1. CASE Normalise \/ StopOrStart \/ SweepStep \/ Reclaim \/ VacuumInit \/ UNCHANGED storeVars
  <2>1. UNCHANGED <<recorded, frames, handed, orphaned, trim, erase>>
    BY <1>1 DEF Normalise, StopOrStart, SweepStep, BeginSweep, CheckCandidate, NullJson, Convert,
                EndSweep, Reclaim, VacuumInit, storeVars, storeGhosts, table
  <2> QED
    BY <2>1 DEF Heard
<1>2. CASE Record
  <2>1. PICK new : new = IF recording THEN {f \in Ids : TakenAt[f] = tick + 1} ELSE {}
    OBVIOUS
  <2>2. recorded' = recorded \cup new /\ frames' = frames \cup new
    BY <1>2, <2>1 DEF Record
  <2>3. new \cap recorded = {}
    BY <2>1 DEF StoreTyped
  <2>4. UNCHANGED <<handed, orphaned, trim, erase>>
    BY <1>2 DEF Record, storeGhosts
  <2> QED
    BY <2>2, <2>3, <2>4 DEF Heard
<1>3. CASE BeginTrim \/ MeasureAndSelect
  <2>1. UNCHANGED <<recorded, frames, handed, orphaned, erase>>
    BY <1>3 DEF BeginTrim, MeasureAndSelect, storeGhosts, table
  <2>2. trim.pc # "cascade" /\ trim'.pc # "cascade"
    BY <1>3 DEF BeginTrim, MeasureAndSelect, NoTrim
  <2>3. trim'.ids \subseteq recorded
    <3>1. CASE trim' = NoTrim \/ trim' = [NoTrim EXCEPT !.pc = "measure"]
      BY <3>1 DEF NoTrim
    <3>2. CASE trim' = [pc |-> "delete", ids |-> Oldest(TrimBatch, BelowFloor)]
      BY <1>0, <3>2, OldestIsPart DEF BelowFloor
    <3> QED
      BY <1>3, <3>1, <3>2 DEF BeginTrim, MeasureAndSelect
  <2> QED
    BY <2>1, <2>2, <2>3 DEF Heard
<1>4. CASE DeleteOldestBatch
  <2>1. UNCHANGED <<recorded, handed, orphaned, erase>> /\ trim.pc = "delete"
    BY <1>4 DEF DeleteOldestBatch
  <2>2. CASE trim' = NoTrim /\ frames' = frames
    BY <2>1, <2>2 DEF Heard, NoTrim
  <2>3. CASE frames' = frames \ trim.ids /\ Present(trim.ids) = {} /\ trim' = NoTrim
    <3>1. frames' = frames
      BY <2>3 DEF Present
    <3> QED
      BY <2>1, <2>3, <3>1 DEF Heard, NoTrim
  <2>4. CASE frames' = frames \ trim.ids /\ trim' = [pc |-> "cascade", ids |-> Present(trim.ids)]
    <3>1. trim'.pc = "cascade" /\ trim'.ids = trim.ids \cap frames
      BY <2>4 DEF Present
    <3> QED
      BY <1>0, <2>1, <2>4, <3>1 DEF Heard
  <2> QED
    BY <1>4, <2>2, <2>3, <2>4 DEF DeleteOldestBatch, DropRows
<1>5. CASE CascadeTrim
  <2>1. /\ UNCHANGED <<recorded, frames, orphaned, erase>> /\ trim.pc = "cascade"
        /\ handed' = handed \cup trim.ids /\ trim'.pc = "measure" /\ trim'.ids = {}
    BY <1>5 DEF CascadeTrim, storeGhosts, table, NoTrim
  <2> QED
    BY <2>1 DEF Heard
<1>6. CASE BeginErase
  <2>1. /\ UNCHANGED <<recorded, frames, handed, orphaned, trim>>
        /\ erase'.ids = {} /\ erase'.batch = {} /\ DOMAIN erase' = DOMAIN NoErase
    BY <1>6 DEF BeginErase, storeGhosts, table, NoErase
  <2>2. erase.ids = {}
    BY <1>6 DEF BeginErase, Heard
  <2> QED
    BY <2>1, <2>2 DEF Heard
<1>7. CASE SelectIds
  <2>1. UNCHANGED <<recorded, frames, handed, orphaned, trim>>
    BY <1>7 DEF SelectIds, storeGhosts, table
  <2>2. PICK batch : batch = Oldest(DeleteBatch,
                       {f \in frames : erase.from <= TakenAt[f] /\ TakenAt[f] <= erase.to})
    OBVIOUS
  <2>3. batch \subseteq recorded
    BY <1>0, <2>2, OldestIsPart
  <2>4. erase' = IF batch = {} THEN [erase EXCEPT !.pc = "cascade"]
                 ELSE [erase EXCEPT !.pc = "elements", !.batch = batch]
    BY <1>7, <2>2 DEF SelectIds
  <2>5. /\ erase'.ids = erase.ids /\ (erase'.batch = erase.batch \/ erase'.batch = batch)
        /\ DOMAIN erase' = DOMAIN NoErase /\ erase'.pc # "idle"
    BY <2>4 DEF Heard, NoErase
  <2> QED
    BY <2>1, <2>3, <2>5 DEF Heard
<1>8. CASE DeleteElements
  <2>1. /\ UNCHANGED <<recorded, frames, handed, orphaned, trim>>
        /\ erase'.ids = erase.ids /\ erase'.batch = erase.batch
        /\ DOMAIN erase' = DOMAIN NoErase /\ erase'.pc # "idle"
    BY <1>8 DEF DeleteElements, Heard, NoErase
  <2> QED
    BY <2>1 DEF Heard
<1>9. CASE DeleteFrames
  <2>1. /\ UNCHANGED <<recorded, handed, orphaned, trim>> /\ frames' = frames \ erase.batch
        /\ erase'.ids = erase.ids \cup erase.batch /\ erase'.batch = {}
        /\ DOMAIN erase' = DOMAIN NoErase /\ erase'.pc # "idle"
    BY <1>9 DEF DeleteFrames, Heard, NoErase
  <2> QED
    BY <2>1 DEF Heard
<1>10. CASE CascadeErase
  <2>1. /\ UNCHANGED <<recorded, frames, orphaned, trim>>
        /\ handed' = handed \cup erase.ids /\ erase'.ids = {} /\ erase'.batch = {}
        /\ DOMAIN erase' = DOMAIN NoErase
    BY <1>10 DEF CascadeErase, storeGhosts, table, NoErase
  <2> QED
    BY <2>1 DEF Heard
<1>11. CASE DeleterFails
  <2>1. UNCHANGED <<recorded, frames, handed>>
    BY <1>11 DEF DeleterFails, table
  <2>2. \/ trim'.pc = "idle" /\ trim'.ids = {} /\ erase' = erase
           /\ orphaned' = orphaned \cup (trim.ids \ frames)
        \/ erase'.ids = {} /\ erase'.batch = {} /\ DOMAIN erase' = DOMAIN NoErase /\ trim' = trim
           /\ orphaned' = orphaned \cup (erase.ids \ frames)
    BY <1>11 DEF DeleterFails, NoTrim, NoErase
  <2> QED
    BY <2>1, <2>2 DEF Heard
<1> QED
  BY <1>1, <1>2, <1>3, <1>4, <1>5, <1>6, <1>7, <1>8, <1>9, <1>10, <1>11
     DEF StoreNext, TrimStep, EraseStep

(* The derived layer hears of exactly what was deleted, however the two    *)
(* deletions overlap: every deleted frame has been handed to a cascade, is *)
(* about to be, or its deleter failed; and no frame still there has been.  *)
THEOREM CascadeTheorem == StoreSpec => []CascadeHearsOfDeletions
<1>1. Heard => CascadeHearsOfDeletions
  BY DEF Heard, CascadeHearsOfDeletions
<1>2. StoreSpec => []Heard
  BY HeardStarts, HeardStep, StoreInvariant, PTL DEF StoreSpec
<1> QED
  BY <1>1, <1>2, PTL

-----------------------------------------------------------------------------
LEMMA RowsOnceStarts == StoreInit => RowsOnce
BY DEF StoreInit, RowsOnce, NoTreeTwice, NoSweep

(* The steps that add no row and no reference.                             *)
LEMMA NoRowAdded ==
  ASSUME StoreTyped, RowsOnce, copies' \in [Ids -> Nat],
         \A f \in Ids : copies'[f] <= copies[f], ref' = ref, sweep' = sweep
  PROVE  RowsOnce'
<1>1. /\ copies \in [Ids -> Nat]
      /\ \A f \in Ids : copies[f] = 0 => copies'[f] = 0
  BY DEF StoreTyped
<1>2. \A s \in Sweepers : sweep[s].todo \subseteq Ids
  BY DEF StoreTyped
<1> QED
  BY <1>1, <1>2 DEF RowsOnce, NoTreeTwice

LEMMA RowsOnceStep ==
  StoreInv /\ RowsOnce /\ SweepsApart /\ SweepsApart' /\ [StoreNext]_storeVars => RowsOnce'
<1> SUFFICES ASSUME StoreTyped, RefsSound, RowsOnce, SweepsApart, SweepsApart', [StoreNext]_storeVars
             PROVE  RowsOnce'
  BY DEF StoreInv
<1>0. /\ copies \in [Ids -> Nat] /\ ref \in [Ids -> Ids \cup {0}]
      /\ json \subseteq frames /\ frames \subseteq Ids
      /\ sweep \in [Sweepers -> Sweep]
      /\ \A s \in Sweepers : sweep[s].todo \subseteq Ids
  BY DEF StoreTyped
<1>1. CASE Record \/ StopOrStart \/ Reclaim \/ VacuumInit \/ BeginTrim \/ MeasureAndSelect
           \/ CascadeTrim \/ BeginErase \/ SelectIds \/ CascadeErase \/ DeleterFails
           \/ UNCHANGED storeVars
  <2>1. UNCHANGED <<copies, ref, sweep>>
    BY <1>1 DEF Record, StopOrStart, Reclaim, VacuumInit, BeginTrim, MeasureAndSelect, CascadeTrim,
                BeginErase, SelectIds, CascadeErase, DeleterFails, storeVars, table
  <2> QED
    BY <2>1 DEF RowsOnce, NoTreeTwice
<1>2. CASE DeleteOldestBatch \/ DeleteElements \/ DeleteFrames
  <2>1. ref' = ref /\ sweep' = sweep
    BY <1>2 DEF DeleteOldestBatch, DeleteElements, DeleteFrames
  <2>2. copies' = copies \/ \E S : copies' = [f \in Ids |-> IF f \in S THEN 0 ELSE copies[f]]
    BY <1>2 DEF DeleteOldestBatch, DeleteElements, DeleteFrames, DropRows
  <2>3. copies' \in [Ids -> Nat] /\ \A f \in Ids : copies'[f] <= copies[f]
    BY <1>0, <2>2
  <2> QED
    BY <2>1, <2>3, NoRowAdded
<1>3. CASE Normalise
  <2>1. PICK f \in json :
          /\ copies[f] = 0 /\ ref[f] = 0
          /\ \/ copies' = [copies EXCEPT ![f] = 1] /\ ref' = ref
             \/ \E g \in frames : g < f /\ ref' = [ref EXCEPT ![f] = g] /\ copies' = copies
    BY <1>3 DEF Normalise
  <2>2. sweep' = sweep
    BY <1>3 DEF Normalise
  <2>3. \A g \in Ids \ {f} : copies'[g] = copies[g] /\ ref'[g] = ref[g]
    BY <1>0, <2>1
  <2>4. copies'[f] <= 1
    BY <1>0, <2>1
  <2>5. \A s \in Sweepers : f \in sweep[s].todo => sweep[s].ref[f] \in {0, f}
    BY <2>1 DEF RowsOnce
  <2> QED
    BY <1>0, <2>2, <2>3, <2>4, <2>5 DEF RowsOnce, NoTreeTwice
<1>4. ASSUME NEW s \in Sweepers, BeginSweep(s)
      PROVE  RowsOnce'
  <2>1. PICK listed : listed = Oldest(SweepBatch, {f \in json : TakenAt[f] < tick - MinFrameAge})
    OBVIOUS
  <2>2. listed \subseteq frames
    BY <1>0, <2>1, OldestIsPart
  <2>3. /\ sweep'[s].pc = "check" /\ sweep'[s].todo = listed
        /\ sweep'[s].ref = [f \in Ids |-> IF f \in listed THEN ref[f] ELSE 0]
        /\ \A t \in Sweepers \ {s} : sweep'[t] = sweep[t]
        /\ copies' = copies /\ ref' = ref
    BY <1>0, <1>4, <2>1 DEF BeginSweep, table
  <2>4. \A f \in listed : f \in Ids /\ sweep'[s].ref[f] = ref[f]
    BY <1>0, <2>2, <2>3
  <2>5. \A f \in listed : ref[f] \notin {0, f} => copies[f] = 0 /\ ref[f] # 0
    BY <1>0, <2>2 DEF RefsSound
  <2> QED
    BY <2>3, <2>4, <2>5 DEF RowsOnce, NoTreeTwice
<1>5. ASSUME NEW s \in Sweepers, CheckCandidate(s) \/ NullJson(s) \/ EndSweep(s)
      PROVE  RowsOnce'
  <2>1. copies' = copies /\ ref' = ref
    BY <1>5 DEF CheckCandidate, NullJson, EndSweep, table
  <2>2. /\ \A t \in Sweepers \ {s} : sweep'[t] = sweep[t]
        /\ \/ /\ sweep'[s].todo \subseteq sweep[s].todo /\ sweep'[s].ref = sweep[s].ref
              /\ sweep'[s].pc # "idle"
           \/ sweep'[s].todo = {}
    <3>1. CASE sweep' = NextCandidate(s)
      BY <3>1, NextCandidateIs
    <3>2. CASE sweep' = [sweep EXCEPT ![s].pc = "null"] \/ sweep' = [sweep EXCEPT ![s].pc = "convert"]
      BY <1>0, <3>2 DEF Sweep
    <3>3. CASE sweep' = [sweep EXCEPT ![s] = NoSweep]
      BY <1>0, <3>3 DEF NoSweep
    <3> QED
      BY <1>5, <3>1, <3>2, <3>3 DEF CheckCandidate, NullJson, EndSweep
  <2> QED
    BY <2>1, <2>2 DEF RowsOnce, NoTreeTwice
<1>6. ASSUME NEW s \in Sweepers, Convert(s)
      PROVE  RowsOnce'
  <2>1. PICK f : f = Candidate(s)
    OBVIOUS
  <2>2. f \in sweep[s].todo /\ f \in Ids /\ sweep[s].pc = "convert" /\ f # 0
    BY <1>6, <2>1, CandidateIsIn, IdNumbers DEF Convert, StoreTyped
  <2>3. /\ sweep'[s].todo = sweep[s].todo \ {f} /\ sweep'[s].ref = sweep[s].ref
        /\ sweep'[s].pc = "check"
        /\ \A t \in Sweepers \ {s} : sweep'[t] = sweep[t]
    BY <1>6, <2>1, NextCandidateIs DEF Convert
  <2>4. \A t \in Sweepers \ {s} : sweep[t].pc = "idle" /\ sweep[t].todo = {}
    BY <2>2 DEF SweepsApart, RowsOnce
  <2>5. \/ copies' = copies /\ ref' = ref
        \/ /\ ~HasElementsForFrame(f, sweep[s].ref)
           /\ copies' = [copies EXCEPT ![f] = @ + 1]
           /\ ref' = IF f \in frames THEN [ref EXCEPT ![f] = f] ELSE ref
    BY <1>6, <2>1 DEF Convert, Candidate
  <2>6. \A g \in Ids \ {f} : copies'[g] = copies[g] /\ ref'[g] = ref[g]
    BY <1>0, <2>5
  <2>7. copies'[f] <= 1
    <3>1. CASE copies' = copies
      BY <2>2, <3>1 DEF RowsOnce, NoTreeTwice
    <3>2. CASE ~HasElementsForFrame(f, sweep[s].ref) /\ copies' = [copies EXCEPT ![f] = @ + 1]
      <4>1. sweep[s].ref[f] \in Ids \cup {0}
        BY <1>0, <2>2 DEF Sweep
      <4>2. copies[f] = 0
        <5>1. CASE sweep[s].ref[f] \in {0, f}
          BY <1>0, <2>2, <3>2, <5>1 DEF HasElementsForFrame, Owner
        <5>2. CASE sweep[s].ref[f] \notin {0, f}
          BY <2>2, <5>2 DEF RowsOnce
        <5> QED
          BY <5>1, <5>2
      <4> QED
        BY <1>0, <2>2, <3>2, <4>2
    <3> QED
      BY <2>5, <3>1, <3>2
  <2> QED
    BY <1>0, <2>2, <2>3, <2>4, <2>6, <2>7 DEF RowsOnce, NoTreeTwice
<1> QED
  BY <1>1, <1>2, <1>3, <1>4, <1>5, <1>6 DEF StoreNext, SweepStep, TrimStep, EraseStep

(* As long as no two sweeps overlap, no tree is stored twice, however the  *)
(* sweep and the recorder's worker race.                                   *)
THEOREM OnceTheorem == StoreSpec /\ []SweepsApart => []NoTreeTwice
<1>1. RowsOnce => NoTreeTwice
  BY DEF RowsOnce
<1>2. StoreSpec /\ []SweepsApart => []RowsOnce
  BY RowsOnceStarts, RowsOnceStep, StoreInvariant, PTL DEF StoreSpec
<1> QED
  BY <1>1, <1>2, PTL

-----------------------------------------------------------------------------
(* The search: how far the window is read, and what its frames were        *)
(* returned as.                                                            *)
Age(f) == Span - f + 1

Window == {f \in Positions : Age(f) \in walk.off + 1 .. walk.off + PageLimit}

ReadAs(V) ==
  \A f \in Positions : IF walk.pc = "done" \/ Age(f) <= walk.off THEN returned[f] \in V
                       ELSE returned[f] = {}

BothRead ==
  Uniform(Kinds) /\ ~thinned /\ walk.pc # "failed" =>
    /\ walk.pc = "ocr" => ax = (IF axFailed THEN {} ELSE Window)
    /\ ReadAs({{"ax"}, {"ocr"}})

OneRead(k) ==
  Uniform({k}) /\ ~thinned /\ queryFaults = 0 =>
    /\ walk.pc # "failed"
    /\ walk.pc = "ocr" => ~axFailed /\ ax = (IF k = "ax" THEN Window ELSE {})
    /\ ReadAs({{k}})

SearchTyped ==
  /\ walk \in [pc : {"idle", "ax", "ocr", "more", "done", "failed"}, bounded : BOOLEAN,
               off : Nat, batch : Nat]
  /\ walk.pc = "idle" => walk.off = 0
  /\ queryFaults \in Nat
  /\ there \subseteq Positions /\ ax \subseteq Positions
  /\ ~thinned => there = Positions
  /\ \A f \in Positions : returned[f] \subseteq Kinds

SearchInv == SearchTyped /\ BothRead /\ \A k \in Kinds : OneRead(k)

LEMMA SearchNumbers == Span \in Nat /\ PageLimit \in Nat /\ PageLimit > 0 /\ MaxBatches \in Nat
  /\ Positions \subseteq Nat /\ \A f \in Positions : Age(f) \in Nat /\ Age(f) > 0 /\ Age(f) <= Span
<1>1. Span \in Nat /\ PageLimit \in Nat \ {0} /\ MaxBatches \in Nat
  BY SearchAssumption
<1> QED
  BY <1>1 DEF Positions, Age

(* In a uniform window that nobody thins a page holds the next PageLimit   *)
(* frames.                                                                 *)
LEMMA UniformPage ==
  ASSUME SearchTyped, ~thinned, NEW kinds, Uniform(kinds), NEW k
  PROVE  SearchPage(k) = IF k \in kinds THEN Window ELSE {}
<1>1. there = Positions /\ \A f \in Positions : inSource[f].has = kinds /\ inSource[f].usable = kinds
  BY DEF SearchTyped, Uniform
<1>2. ASSUME NEW f \in Positions, k \in kinds
      PROVE  RowNumber(f, k) = Age(f)
  <2>1. {g \in there : k \in inSource[g].has /\ f <= g} = f .. Span
    BY <1>1, <1>2, SearchNumbers DEF Positions
  <2>2. Cardinality(f .. Span) = Span - f + 1
    BY <1>2, SearchNumbers, FS_Interval DEF Positions
  <2> QED
    BY <2>1, <2>2 DEF RowNumber, Age
<1> QED
  BY <1>1, <1>2 DEF SearchPage, Page, Window

(* A page is full, or it is the last.                                      *)
LEMMA WindowSize ==
  ASSUME walk.off \in Nat
  PROVE  IF Span - walk.off < PageLimit
         THEN Cardinality(Window) < PageLimit /\ \A f \in Positions : Age(f) > walk.off => f \in Window
         ELSE Cardinality(Window) = PageLimit
<1>0. Span \in Nat /\ PageLimit \in Nat /\ PageLimit > 0
  BY SearchNumbers
<1>1. CASE Span - walk.off < PageLimit
  <2>1. Window = 1 .. (Span - walk.off)
    BY <1>0, <1>1 DEF Window, Positions, Age
  <2>2. Cardinality(1 .. (Span - walk.off)) = IF 1 > Span - walk.off THEN 0 ELSE Span - walk.off - 1 + 1
    <3>1. PICK last : last = Span - walk.off
      OBVIOUS
    <3>2. last \in Int /\ 1 \in Int
      BY <1>0, <3>1
    <3>3. Cardinality(1 .. last) = IF 1 > last THEN 0 ELSE last - 1 + 1
      BY <3>2, FS_Interval
    <3> QED
      BY <3>1, <3>3
  <2>3. \A f \in Positions : Age(f) > walk.off => f \in Window
    BY <1>0, <1>1, <2>1 DEF Positions, Age
  <2> QED
    BY <1>0, <1>1, <2>1, <2>2, <2>3
<1>2. CASE ~(Span - walk.off < PageLimit)
  <2>1. Window = (Span - walk.off - PageLimit + 1) .. (Span - walk.off)
    BY <1>0, <1>2 DEF Window, Positions, Age
  <2>2. Cardinality((Span - walk.off - PageLimit + 1) .. (Span - walk.off)) = PageLimit
    <3>1. PICK first : first = Span - walk.off - PageLimit + 1
      OBVIOUS
    <3>2. PICK last : last = Span - walk.off
      OBVIOUS
    <3>3. first \in Int /\ last \in Int /\ last - first + 1 = PageLimit /\ ~(first > last)
      BY <1>0, <1>2, <3>1, <3>2
    <3>4. Cardinality(first .. last) = IF first > last THEN 0 ELSE last - first + 1
      BY <3>3, FS_Interval
    <3> QED
      BY <3>1, <3>2, <3>3, <3>4
  <2> QED
    BY <1>2, <2>1, <2>2
<1> QED
  BY <1>1, <1>2

(* The call moves on: to the end, or past the page.                        *)
LEMMA AdvanceMoves ==
  ASSUME SearchTyped, NEW ocr, Cardinality(ax \cup ocr) \in Nat, walk' = Advance(ocr)
  PROVE  /\ walk' \in [pc : {"idle", "ax", "ocr", "more", "done", "failed"}, bounded : BOOLEAN,
                       off : Nat, batch : Nat]
         /\ IF Cardinality(ax \cup ocr) < PageLimit
            THEN walk'.pc = "done"
            ELSE walk'.pc \in {"ax", "more"} /\ walk'.off = walk.off + Cardinality(ax \cup ocr)
<1>0. walk \in [pc : {"idle", "ax", "ocr", "more", "done", "failed"}, bounded : BOOLEAN,
               off : Nat, batch : Nat]
  BY DEF SearchTyped
<1>1. PICK n : n = Cardinality(ax \cup ocr)
  OBVIOUS
<1>2. PICK b : b = IF walk.bounded THEN walk.batch + 1 ELSE 0
  OBVIOUS
<1>3. PICK moved : moved = [pc |-> "ax", bounded |-> walk.bounded, off |-> walk.off + n, batch |-> b]
  OBVIOUS
<1>4. moved = [walk EXCEPT !.pc = "ax", !.off = @ + n, !.batch = IF walk.bounded THEN @ + 1 ELSE 0]
  <2>1. PICK next : next = [walk EXCEPT !.pc = "ax", !.off = @ + n,
                                       !.batch = IF walk.bounded THEN @ + 1 ELSE 0]
    OBVIOUS
  <2>2. /\ DOMAIN next = {"pc", "bounded", "off", "batch"}
        /\ next.pc = "ax" /\ next.bounded = walk.bounded /\ next.off = walk.off + n /\ next.batch = b
    BY <1>0, <1>2, <2>1
  <2>3. next = [pc |-> next.pc, bounded |-> next.bounded, off |-> next.off, batch |-> next.batch]
    <3>1. next \in [pc : {next.pc}, bounded : {next.bounded}, off : {next.off}, batch : {next.batch}]
      BY <1>0, <2>1, <2>2
    <3> QED
      BY <3>1
  <2>4. next = moved
    BY <1>3, <2>2, <2>3
  <2> QED
    BY <2>1, <2>4
<1>5. walk' = IF n < PageLimit THEN [walk EXCEPT !.pc = "done"]
              ELSE IF walk.bounded /\ moved.batch = MaxBatches THEN [moved EXCEPT !.pc = "more"]
              ELSE moved
  BY <1>1, <1>4 DEF Advance
<1>6. n \in Nat /\ b \in Nat
  BY <1>0, <1>1, <1>2
<1>7. /\ walk.off + n \in Nat /\ walk.bounded \in BOOLEAN
      /\ moved \in [pc : {"idle", "ax", "ocr", "more", "done", "failed"}, bounded : BOOLEAN,
                    off : Nat, batch : Nat]
      /\ moved.pc = "ax" /\ moved.off = walk.off + n
  BY <1>0, <1>3, <1>6
<1>8. CASE n < PageLimit
  <2>1. walk' = [walk EXCEPT !.pc = "done"]
    BY <1>5, <1>8
  <2> QED
    BY <1>0, <1>1, <1>8, <2>1
<1>9. CASE ~(n < PageLimit)
  <2>1. walk' = [moved EXCEPT !.pc = "more"] \/ walk' = moved
    BY <1>5, <1>9
  <2>2. /\ walk' \in [pc : {"idle", "ax", "ocr", "more", "done", "failed"}, bounded : BOOLEAN,
                      off : Nat, batch : Nat]
        /\ walk'.pc \in {"ax", "more"} /\ walk'.off = walk.off + n
    BY <1>7, <2>1
  <2> QED
    BY <1>1, <1>9, <2>2
<1> QED
  BY <1>8, <1>9

(* Reading the whole next page keeps the account of what was read.         *)
LEMMA PageRead ==
  ASSUME SearchTyped, walk.pc = "ocr", NEW V, ReadAs(V), NEW ocr, ax \cup ocr = Window,
         \A f \in Window : MergeByFrameId(ocr)[f] \in V,
         walk' = Advance(ocr),
         returned' = [f \in Positions |-> returned[f] \cup MergeByFrameId(ocr)[f]]
  PROVE  ReadAs(V)'
<1>0. /\ walk.off \in Nat /\ PageLimit \in Nat /\ Span \in Nat
      /\ \A f \in Positions : Age(f) \in Nat
  BY SearchNumbers DEF SearchTyped
<1>1. Cardinality(Window) \in Nat
  <2>1. Cardinality(Window) < PageLimit => Cardinality(Window) \in Nat
    <3>1. Window \subseteq 1 .. Span
      BY DEF Window, Positions
    <3>2. IsFiniteSet(1 .. Span)
      BY <1>0, FS_Interval
    <3> QED
      BY <3>1, <3>2, FS_Subset, FS_CardinalityType
  <2> QED
    BY <1>0, <2>1, WindowSize
<1>2. \A f \in Positions \ Window : MergeByFrameId(ocr)[f] = {}
  BY DEF MergeByFrameId
<1>3. \A f \in Window : f \in Positions /\ Age(f) > walk.off /\ Age(f) <= walk.off + PageLimit
  BY <1>0 DEF Window
<1>4. \A f \in Positions : /\ f \in Window => returned'[f] \in V
                           /\ f \notin Window => returned'[f] = returned[f]
  <2>1. ASSUME NEW f \in Window
        PROVE  returned'[f] \in V
    <3>1. f \in Positions /\ ~(Age(f) <= walk.off) /\ walk.pc # "done"
      BY <1>0, <1>3
    <3>2. returned[f] = {}
      BY <3>1 DEF ReadAs
    <3>3. returned'[f] = MergeByFrameId(ocr)[f]
      BY <3>1, <3>2
    <3> QED
      BY <3>3
  <2>2. ASSUME NEW f \in Positions \ Window
        PROVE  returned'[f] = returned[f]
    BY <1>2
  <2> QED
    BY <2>1, <2>2
<1>5. CASE Span - walk.off < PageLimit
  <2>1. walk'.pc = "done"
    BY <1>0, <1>1, <1>5, WindowSize, AdvanceMoves
  <2>2. \A f \in Positions : returned'[f] \in V
    <3>1. ASSUME NEW f \in Positions, Age(f) <= walk.off, f \notin Window
          PROVE  returned'[f] \in V
      BY <1>4, <3>1 DEF ReadAs
    <3>2. \A f \in Positions : Age(f) > walk.off => f \in Window
      BY <1>0, <1>5, WindowSize
    <3>3. \A f \in Positions : Age(f) > walk.off \/ Age(f) <= walk.off
      BY <1>0
    <3> QED
      BY <1>4, <3>1, <3>2, <3>3
  <2> QED
    BY <2>1, <2>2 DEF ReadAs
<1>6. CASE ~(Span - walk.off < PageLimit)
  <2>1. walk'.pc # "done" /\ walk'.off = walk.off + PageLimit
    BY <1>0, <1>1, <1>6, WindowSize, AdvanceMoves
  <2>2. \A f \in Positions : f \in Window <=> Age(f) > walk.off /\ Age(f) <= walk.off + PageLimit
    BY <1>0 DEF Window
  <2>3. ASSUME NEW f \in Positions
        PROVE  IF Age(f) <= walk.off + PageLimit THEN returned'[f] \in V ELSE returned'[f] = {}
    <3>1. CASE f \in Window
      BY <1>4, <2>2, <3>1
    <3>2. CASE f \notin Window /\ Age(f) <= walk.off
      <4>1. Age(f) <= walk.off + PageLimit
        BY <1>0, <3>2
      <4>2. returned'[f] \in V
        BY <1>4, <3>2 DEF ReadAs
      <4> QED
        BY <4>1, <4>2
    <3>3. CASE f \notin Window /\ ~(Age(f) <= walk.off)
      <4>1. ~(Age(f) <= walk.off + PageLimit)
        BY <1>0, <2>2, <3>3
      <4>2. returned'[f] = {}
        BY <1>4, <3>3 DEF ReadAs
      <4> QED
        BY <4>1, <4>2
    <3> QED
      BY <3>1, <3>2, <3>3
  <2> QED
    BY <2>1, <2>3 DEF ReadAs, Age
<1> QED
  BY <1>5, <1>6

LEMMA SearchStarts == SearchInit => SearchInv
<1> SUFFICES ASSUME SearchInit PROVE SearchInv
  OBVIOUS
<1>1. walk = NoCallYet /\ there = Positions /\ queryFaults = 0 /\ ax = {} /\ returned = [f \in Positions |-> {}]
  BY DEF SearchInit
<1>2. walk.pc = "idle" /\ walk.off = 0
  BY <1>1 DEF NoCallYet
<1>3. SearchTyped
  BY <1>1 DEF SearchTyped, NoCallYet
<1>4. \A V : ReadAs(V)
  <2>1. \A f \in Positions : ~(Age(f) <= 0)
    BY SearchNumbers
  <2> QED
    BY <1>1, <1>2, <2>1 DEF ReadAs
<1> QED
  BY <1>2, <1>3, <1>4 DEF SearchInv, BothRead, OneRead

(* A step that answers no page keeps the account.                          *)
LEMMA AccountStays ==
  ASSUME SearchTyped, UNCHANGED <<inSource, returned>>,
         walk'.off = walk.off, walk.pc # "done", walk'.pc # "done", NEW V, ReadAs(V)
  PROVE  ReadAs(V)'
BY DEF ReadAs, Age

LEMMA MergedAs ==
  ASSUME NEW ocr, ax \cup ocr = Window
  PROVE  /\ \A f \in Window : MergeByFrameId(ocr)[f] \in {{"ax"}, {"ocr"}}
         /\ ocr = {} => \A f \in Window : MergeByFrameId(ocr)[f] = {"ax"}
         /\ ax = {} => \A f \in Window : MergeByFrameId(ocr)[f] = {"ocr"}
<1>1. Window \subseteq Positions
  BY DEF Window
<1> QED
  BY <1>1 DEF MergeByFrameId

LEMMA QueryAxReads ==
  ASSUME SearchInv, QueryAx
  PROVE  SearchInv'
<1>0. SearchTyped /\ BothRead /\ \A k \in Kinds : OneRead(k)
  BY DEF SearchInv
<1>1. /\ UNCHANGED <<inSource, there, returned, thinned>> /\ walk.pc = "ax"
      /\ walk' = [walk EXCEPT !.pc = "ocr"]
  BY DEF QueryAx
<1>2. /\ walk' \in [pc : {"idle", "ax", "ocr", "more", "done", "failed"}, bounded : BOOLEAN,
                    off : Nat, batch : Nat]
      /\ walk'.pc = "ocr" /\ walk'.off = walk.off
  BY <1>0, <1>1 DEF SearchTyped
<1>3. \/ ax' = SearchPage("ax") /\ axFailed' = FALSE /\ queryFaults' = queryFaults
      \/ ax' = {} /\ axFailed' = TRUE /\ queryFaults' = queryFaults + 1
  BY DEF QueryAx, QueryFault
<1>4. SearchTyped'
  <2>1. ax' \subseteq Positions
    BY <1>0, <1>3 DEF SearchTyped, SearchPage, Page
  <2> QED
    BY <1>0, <1>1, <1>2, <1>3, <2>1 DEF SearchTyped
<1>5. Window' = Window
  BY <1>2 DEF Window, Age
<1>6. \A kinds : Uniform(kinds)' <=> Uniform(kinds)
  BY <1>1 DEF Uniform
<1>7. \A V : ReadAs(V) => ReadAs(V)'
  BY <1>0, <1>1, <1>2, AccountStays
<1>8. BothRead'
  <2> SUFFICES ASSUME Uniform(Kinds), ~thinned
               PROVE  ax' = (IF axFailed' THEN {} ELSE Window) /\ ReadAs({{"ax"}, {"ocr"}})'
    BY <1>1, <1>2, <1>5, <1>6 DEF BothRead
  <2>1. SearchPage("ax") = Window
    BY <1>0, UniformPage DEF Kinds
  <2>2. ReadAs({{"ax"}, {"ocr"}})
    BY <1>0, <1>1 DEF BothRead
  <2> QED
    BY <1>3, <1>7, <2>1, <2>2
<1>9. ASSUME NEW k \in Kinds PROVE OneRead(k)'
  <2> SUFFICES ASSUME Uniform({k}), ~thinned, queryFaults' = 0
               PROVE  ~axFailed' /\ ax' = (IF k = "ax" THEN Window ELSE {}) /\ ReadAs({{k}})'
    BY <1>1, <1>2, <1>5, <1>6 DEF OneRead
  <2>1. SearchPage("ax") = IF "ax" \in {k} THEN Window ELSE {}
    BY <1>0, UniformPage
  <2>2. queryFaults = 0 /\ ax' = SearchPage("ax") /\ axFailed' = FALSE
    BY <1>0, <1>3 DEF SearchTyped
  <2>3. ReadAs({{k}})
    BY <1>0, <2>2 DEF OneRead
  <2> QED
    BY <1>7, <2>1, <2>2, <2>3
<1> QED
  BY <1>4, <1>8, <1>9 DEF SearchInv

LEMMA QueryOcrReads ==
  ASSUME SearchInv, QueryOcr
  PROVE  SearchInv'
<1>0. SearchTyped /\ BothRead /\ \A k \in Kinds : OneRead(k)
  BY DEF SearchInv
<1>1. UNCHANGED <<inSource, there, thinned>> /\ walk.pc = "ocr" /\ ax' = {}
  BY DEF QueryOcr
<1>2. \/ /\ queryFaults' = queryFaults
         /\ returned' = [f \in Positions |-> returned[f] \cup MergeByFrameId(SearchPage("ocr"))[f]]
         /\ walk' = Advance(SearchPage("ocr"))
      \/ /\ ~axFailed /\ queryFaults' = queryFaults + 1
         /\ returned' = [f \in Positions |-> returned[f] \cup MergeByFrameId({})[f]]
         /\ walk' = Advance({})
      \/ /\ queryFaults' = queryFaults + 1 /\ returned' = returned
         /\ walk' = [walk EXCEPT !.pc = "failed"]
  BY DEF QueryOcr, QueryFault
<1>3. \A kinds : Uniform(kinds)' <=> Uniform(kinds)
  BY <1>1 DEF Uniform
<1>4. CASE queryFaults' = queryFaults + 1 /\ returned' = returned /\ walk' = [walk EXCEPT !.pc = "failed"]
  <2>1. /\ walk' \in [pc : {"idle", "ax", "ocr", "more", "done", "failed"}, bounded : BOOLEAN,
                      off : Nat, batch : Nat]
        /\ walk'.pc = "failed"
    BY <1>0, <1>4 DEF SearchTyped
  <2>2. SearchTyped'
    BY <1>0, <1>1, <1>4, <2>1 DEF SearchTyped
  <2>3. queryFaults' # 0
    BY <1>0, <1>4 DEF SearchTyped
  <2> QED
    BY <2>1, <2>2, <2>3 DEF SearchInv, BothRead, OneRead
<1>5. ASSUME NEW ocr,
             (ocr = SearchPage("ocr") /\ queryFaults' = queryFaults)
               \/ (ocr = {} /\ ~axFailed /\ queryFaults' = queryFaults + 1),
             returned' = [f \in Positions |-> returned[f] \cup MergeByFrameId(ocr)[f]],
             walk' = Advance(ocr)
      PROVE  SearchInv'
  <2>1. walk.off \in Nat /\ queryFaults \in Nat
    BY <1>0 DEF SearchTyped
  <2>2. walk' \in [pc : {"idle", "ax", "ocr", "more", "done", "failed"}, bounded : BOOLEAN,
                   off : Nat, batch : Nat]
        /\ walk'.pc \in {"done", "ax", "more"}
    <3>1. ax \cup ocr \subseteq 1 .. Span
      BY <1>0, <1>5 DEF SearchTyped, SearchPage, Page, Positions
    <3>2. IsFiniteSet(1 .. Span)
      BY SearchNumbers, FS_Interval
    <3>3. Cardinality(ax \cup ocr) \in Nat
      BY <3>1, <3>2, FS_Subset, FS_CardinalityType
    <3> QED
      BY <1>0, <1>5, <3>3, AdvanceMoves
  <2>3. SearchTyped'
    <3>1. \A f \in Positions : MergeByFrameId(ocr)[f] \subseteq Kinds
      BY DEF MergeByFrameId, Kinds
    <3>2. \A f \in Positions : returned'[f] \subseteq Kinds
      BY <1>0, <1>5, <3>1 DEF SearchTyped
    <3>3. queryFaults' \in Nat
      BY <1>5, <2>1
    <3> QED
      BY <1>0, <1>1, <2>2, <3>2, <3>3 DEF SearchTyped
  <2>4. BothRead'
    <3> SUFFICES ASSUME Uniform(Kinds), ~thinned PROVE ReadAs({{"ax"}, {"ocr"}})'
      BY <1>1, <1>3, <2>2 DEF BothRead
    <3>1. ReadAs({{"ax"}, {"ocr"}}) /\ ax = (IF axFailed THEN {} ELSE Window)
      BY <1>0, <1>1 DEF BothRead
    <3>2. SearchPage("ocr") = Window
      BY <1>0, UniformPage DEF Kinds
    <3>3. ax \cup ocr = Window
      BY <1>5, <3>1, <3>2
    <3> QED
      BY <1>0, <1>1, <1>5, <3>1, <3>3, MergedAs, PageRead
  <2>5. ASSUME NEW k \in Kinds PROVE OneRead(k)'
    <3> SUFFICES ASSUME Uniform({k}), ~thinned, queryFaults' = 0 PROVE ReadAs({{k}})'
      BY <1>1, <1>3, <2>2 DEF OneRead
    <3>1. queryFaults = 0 /\ ocr = SearchPage("ocr")
      BY <1>5, <2>1
    <3>2. ReadAs({{k}}) /\ ax = (IF k = "ax" THEN Window ELSE {})
      BY <1>0, <1>1, <3>1 DEF OneRead
    <3>3. ocr = IF "ocr" \in {k} THEN Window ELSE {}
      BY <1>0, <3>1, UniformPage
    <3>4. ax \cup ocr = Window /\ \A f \in Window : MergeByFrameId(ocr)[f] = {k}
      <4>1. CASE k = "ax"
        BY <3>2, <3>3, <4>1, MergedAs
      <4>2. CASE k = "ocr"
        BY <3>2, <3>3, <4>2, MergedAs
      <4> QED
        BY <4>1, <4>2 DEF Kinds
    <3> QED
      BY <1>0, <1>1, <1>5, <3>2, <3>4, PageRead
  <2> QED
    BY <2>3, <2>4, <2>5 DEF SearchInv
<1> QED
  BY <1>2, <1>4, <1>5

LEMMA SearchInvStep == SearchInv /\ [SearchNext]_searchVars => SearchInv'
<1> SUFFICES ASSUME SearchInv, [SearchNext]_searchVars PROVE SearchInv'
  OBVIOUS
<1>0. SearchTyped /\ BothRead /\ \A k \in Kinds : OneRead(k)
  BY DEF SearchInv
<1>1. CASE Begin \/ Continue
  <2>1. UNCHANGED <<inSource, there, ax, axFailed, returned, thinned, queryFaults>>
    BY <1>1 DEF Begin, Continue
  <2>2. /\ walk' \in [pc : {"idle", "ax", "ocr", "more", "done", "failed"}, bounded : BOOLEAN,
                      off : Nat, batch : Nat]
        /\ walk'.pc = "ax" /\ walk'.off = walk.off /\ walk.pc \in {"idle", "more"}
    <3>1. CASE Begin
      BY <1>0, <3>1 DEF Begin, SearchTyped, NoCallYet
    <3>2. CASE Continue
      BY <1>0, <3>2 DEF Continue, SearchTyped
    <3> QED
      BY <1>1, <3>1, <3>2
  <2>3. SearchTyped'
    BY <1>0, <2>1, <2>2 DEF SearchTyped
  <2>4. \A V : ReadAs(V) => ReadAs(V)'
    BY <1>0, <2>1, <2>2, AccountStays
  <2>5. \A kinds : Uniform(kinds)' <=> Uniform(kinds)
    BY <2>1 DEF Uniform
  <2>6. BothRead'
    BY <1>0, <2>1, <2>2, <2>4, <2>5 DEF BothRead
  <2>7. \A k \in Kinds : OneRead(k)'
    BY <1>0, <2>1, <2>2, <2>4, <2>5 DEF OneRead
  <2> QED
    BY <2>3, <2>6, <2>7 DEF SearchInv
<1>2. CASE QueryAx \/ QueryOcr
  BY <1>2, QueryAxReads, QueryOcrReads
<1>3. CASE Vanish
  <2>1. thinned' /\ UNCHANGED <<walk, returned, queryFaults>>
    BY <1>3 DEF Vanish
  <2>2. SearchTyped'
    BY <1>0, <1>3, <2>1 DEF SearchTyped, Vanish
  <2> QED
    BY <2>1, <2>2 DEF SearchInv, BothRead, OneRead
<1>4. CASE UNCHANGED searchVars
  BY <1>0, <1>4 DEF searchVars, SearchInv, SearchTyped, BothRead, OneRead, Uniform, Window, ReadAs, Age
<1> QED
  BY <1>1, <1>2, <1>3, <1>4 DEF SearchNext

(* One offset for two queries reads a uniform window completely and each   *)
(* frame of it once, for windows and pages of any size: with rows of both  *)
(* kinds as long as one query of each page answers, with rows of one kind  *)
(* as long as no query fails.                                              *)
THEOREM WindowTheorem == SearchSpec => []UniformWindowReadOnce
<1>1. SearchInv => UniformWindowReadOnce
  <2> SUFFICES ASSUME SearchInv, walk.pc = "done", ~thinned
               PROVE  /\ Uniform(Kinds) => \A f \in Positions : Cardinality(returned[f]) = 1
                      /\ \A k \in Kinds : Uniform({k}) /\ queryFaults = 0 =>
                           \A f \in Positions : returned[f] = {k}
    BY DEF UniformWindowReadOnce
  <2>1. ASSUME Uniform(Kinds), NEW f \in Positions
        PROVE  Cardinality(returned[f]) = 1
    <3>1. returned[f] \in {{"ax"}, {"ocr"}}
      BY <2>1 DEF SearchInv, BothRead, ReadAs
    <3>2. Cardinality({"ax"}) = 1 /\ Cardinality({"ocr"}) = 1
      BY FS_Singleton
    <3> QED
      BY <3>1, <3>2
  <2>2. ASSUME NEW k \in Kinds, Uniform({k}), queryFaults = 0, NEW f \in Positions
        PROVE  returned[f] = {k}
    BY <2>2 DEF SearchInv, OneRead, ReadAs
  <2> QED
    BY <2>1, <2>2
<1> QED
  BY <1>1, SearchStarts, SearchInvStep, PTL DEF SearchSpec

-----------------------------------------------------------------------------
(* The text of a frame.                                                    *)

(* A row that may be seen, and a frame of such rows.                       *)
Nodes == {[depth |-> d, role |-> kind.role, shown |-> kind.shown, words |-> kind.words]
            : d \in Depths, kind \in NodeKinds}

Seen == /\ rows \in Seq(Nodes) /\ Len(rows) <= MaxRows
        /\ form \in {"flat", "nested", "records", "unlinked", "broken", "none"}
        /\ form \in {"broken", "none"} => rows = <<>>
        /\ form # "flat" => \A i \in DOMAIN rows : rows[i].depth # NoDepth

LEMMA LeastNumber ==
  ASSUME NEW S \in SUBSET Nat, S # {}
  PROVE  \E x \in S : \A y \in S : x <= y
<1>1. PICK x \in S : \A y \in S : <<y, x>> \notin OpToRel(<, Nat)
  BY NatLessThanWellFounded, WFMin
<1>2. \A y \in S : ~(y < x)
  BY <1>1 DEF OpToRel
<1> QED
  BY <1>2

(* A set of numbers with 0, and with the next after each, has them all.    *)
LEMMA FromZero ==
  ASSUME NEW n \in Nat, NEW S, 0 \in S, \A k \in 0..n - 1 : k \in S => k + 1 \in S
  PROVE  \A k \in 0..n : k \in S
<1> DEFINE left == (0..n) \ S
<1> SUFFICES ASSUME left # {} PROVE FALSE
  OBVIOUS
<1>1. left \in SUBSET Nat
  OBVIOUS
<1>2. PICK k \in left : \A m \in left : k <= m
  <2> HIDE DEF left
  <2> QED
    BY <1>1, LeastNumber
<1>3. k \in 0..n /\ k # 0 /\ k \notin S
  OBVIOUS
<1>4. k - 1 \in 0..n - 1 /\ k - 1 \in 0..n /\ (k - 1) + 1 = k
  BY <1>3
<1>5. k - 1 \notin left
  <2>1. k \in Nat /\ k - 1 \in Nat
    BY <1>3, <1>4
  <2> HIDE DEF left
  <2> QED
    BY <1>2, <2>1
<1> QED
  BY <1>3, <1>4, <1>5

(* What is defined step by step from 0 to n exists.                        *)
Defines(n, D, start, step) ==
  \E f \in [0..n -> D] : f[0] = start /\ \A k \in 1..n : f[k] = step[k][f[k - 1]]

LEMMA Recursion ==
  ASSUME NEW n \in Nat, NEW D, NEW start \in D, NEW step \in [1..n -> [D -> D]]
  PROVE  Defines(n, D, start, step)
<1> DEFINE Runs(m, f) == f[0] = start /\ \A k \in 1..m : f[k] = step[k][f[k - 1]]
           done == {m \in 0..n : \E f \in [0..m -> D] : Runs(m, f)}
<1>1. 0 \in done
  <2>1. [k \in 0..0 |-> start] \in [0..0 -> D] /\ Runs(0, [k \in 0..0 |-> start])
    OBVIOUS
  <2> HIDE DEF Runs
  <2> QED
    BY <2>1
<1>2. ASSUME NEW m \in 0..n - 1, m \in done PROVE m + 1 \in done
  <2>1. PICK f \in [0..m -> D] : Runs(m, f)
    BY <1>2
  <2>2. m \in Nat /\ m + 1 \in 1..n /\ m + 1 \in 0..n /\ m \in 0..m
    OBVIOUS
  <2> DEFINE g == [k \in 0..m + 1 |-> IF k = m + 1 THEN step[m + 1][f[m]] ELSE f[k]]
  <2>3. f[m] \in D
    BY <2>2
  <2>4. step[m + 1][f[m]] \in D
    BY <2>2, <2>3
  <2>5. g \in [0..m + 1 -> D]
    <3>1. ASSUME NEW k \in 0..m + 1 PROVE (IF k = m + 1 THEN step[m + 1][f[m]] ELSE f[k]) \in D
      <4>1. k # m + 1 => k \in 0..m
        BY <2>2
      <4> QED
        BY <2>4, <4>1
    <3> QED
      BY <3>1
  <2>6. ASSUME NEW k \in 1..m + 1 PROVE g[k] = step[k][g[k - 1]]
    <3>1. CASE k = m + 1
      <4>1. k - 1 = m /\ k \in 0..m + 1 /\ m \in 0..m + 1 /\ m # m + 1
        BY <2>2, <3>1
      <4>2. g[k] = step[m + 1][f[m]] /\ g[k - 1] = f[m]
        BY <3>1, <4>1
      <4> HIDE DEF g
      <4> QED
        BY <3>1, <4>2
    <3>2. CASE k # m + 1
      <4>1. k \in 1..m /\ k \in 0..m + 1 /\ k - 1 \in 0..m + 1 /\ k - 1 # m + 1
        BY <2>2, <3>2
      <4>2. g[k] = f[k] /\ g[k - 1] = f[k - 1]
        BY <3>2, <4>1
      <4>3. f[k] = step[k][f[k - 1]]
        BY <2>1, <4>1
      <4> HIDE DEF g
      <4> QED
        BY <4>2, <4>3
    <3> QED
      BY <3>1, <3>2
  <2>7. g[0] = start
    <3>1. 0 \in 0..m + 1 /\ 0 # m + 1
      BY <2>2
    <3> QED
      BY <2>1, <3>1
  <2>8. Runs(m + 1, g)
    <3> HIDE DEF g
    <3> QED
      BY <2>6, <2>7
  <2> HIDE DEF Runs, g
  <2> QED
    BY <2>2, <2>5, <2>8
<1>3. n \in done
  <2>1. n \in 0..n
    OBVIOUS
  <2> HIDE DEF done
  <2> QED
    BY <1>1, <1>2, <2>1, FromZero
<1> QED
  BY <1>3 DEF Defines

LEMMA Greatest ==
  ASSUME NEW n \in Nat, NEW S \in SUBSET (0..n), S # {}
  PROVE  Max(S) \in S /\ \A y \in S : y <= Max(S)
<1> DEFINE distances == {m \in Nat : \E x \in S : m = n - x}
<1>1. \A x \in S : n - x \in distances
  OBVIOUS
<1>2. PICK m \in distances : \A k \in distances : m <= k
  <2>1. distances # {}
    BY <1>1
  <2>2. distances \in SUBSET Nat
    OBVIOUS
  <2> HIDE DEF distances
  <2> QED
    BY <2>1, <2>2, LeastNumber
<1>3. PICK x \in S : m = n - x
  OBVIOUS
<1>4. \A y \in S : m <= n - y
  <2> HIDE DEF distances
  <2> QED
    BY <1>1, <1>2
<1>5. \A y \in S : x >= y
  BY <1>3, <1>4
<1>6. Max(S) \in S /\ \A y \in S : Max(S) >= y
  BY <1>5 DEF Max
<1> QED
  BY <1>6

-----------------------------------------------------------------------------
(* The rows seen so far.                                                   *)
LEMMA RowsSeen ==
  ASSUME Seen
  PROVE  /\ Len(rows) \in Nat /\ MaxRows \in Nat /\ Len(rows) <= MaxRows
         /\ All = 1..Len(rows) /\ Scraped \notin All /\ TitleLine \notin All
         /\ \A i \in All : rows[i].depth \in Nat /\ NormalDepth(i) \in Nat
<1>1. All = 1..Len(rows) /\ Len(rows) \in Nat /\ MaxRows \in Nat
  BY TreeAssumption DEF Seen, All
<1>2. ASSUME NEW i \in All PROVE rows[i].depth \in Nat
  <2>1. rows[i] \in Nodes
    BY <1>1 DEF Seen, All
  <2> QED
    BY <2>1, TreeAssumption DEF Nodes
<1>3. Scraped \notin All /\ TitleLine \notin All
  BY <1>1 DEF Seen, Scraped, TitleLine
<1> QED
  BY <1>1, <1>2, <1>3 DEF Seen, NormalDepth

NextDepth(before, i) ==
  IF before # NoDepth /\ (rows[i].depth = NoDepth \/ rows[i].depth > before) THEN before
  ELSE IF Secure(i) THEN CutDepth(i) ELSE NoDepth

LEMMA SecureDepthFunction ==
  ASSUME Seen
  PROVE  SecureDepth = [i \in 0..Len(rows) |-> IF i = 0 THEN NoDepth ELSE NextDepth(SecureDepth[i - 1], i)]
<1> DEFINE step == [i \in 1..Len(rows) |-> [d \in Nat |-> NextDepth(d, i)]]
<1>1. All = 1..Len(rows) /\ Len(rows) \in Nat /\ NoDepth \in Nat
  BY RowsSeen DEF NoDepth
<1>2. ASSUME NEW i \in 1..Len(rows), NEW d \in Nat PROVE NextDepth(d, i) \in Nat
  BY <1>1, RowsSeen DEF NextDepth, CutDepth
<1>3. step \in [1..Len(rows) -> [Nat -> Nat]]
  BY <1>2
<1>4. PICK f \in [0..Len(rows) -> Nat] :
        f[0] = NoDepth /\ \A i \in 1..Len(rows) : f[i] = step[i][f[i - 1]]
  <2>1. Defines(Len(rows), Nat, NoDepth, step)
    <3> HIDE DEF step
    <3> QED
      BY <1>1, <1>3, Recursion
  <2> HIDE DEF step
  <2> QED
    BY <2>1 DEF Defines
<1>5. ASSUME NEW i \in 0..Len(rows)
      PROVE  f[i] = IF i = 0 THEN NoDepth ELSE NextDepth(f[i - 1], i)
  <2>1. CASE i = 0
    BY <1>4, <2>1
  <2>2. CASE i # 0
    <3>1. i \in 1..Len(rows) /\ i - 1 \in 0..Len(rows)
      BY <1>1, <2>2
    <3>2. f[i - 1] \in Nat
      BY <3>1
    <3> QED
      BY <1>4, <2>2, <3>1, <3>2
  <2> QED
    BY <2>1, <2>2
<1>6. f = [i \in 0..Len(rows) |-> IF i = 0 THEN NoDepth ELSE NextDepth(f[i - 1], i)]
  BY <1>5
<1>7. SecureDepth = CHOOSE g : g = [i \in 0..Len(rows) |-> IF i = 0 THEN NoDepth ELSE NextDepth(g[i - 1], i)]
  BY DEF SecureDepth, NextDepth
<1> QED
  BY <1>6, <1>7

(* Every row at or under a secure one is cut.                              *)
LEMMA SecureIsCut ==
  ASSUME Seen, NEW j \in All, Secure(j), rows[j].depth # NoDepth, NEW i \in All, j <= i,
         \A k \in (j + 1)..i : rows[k].depth = NoDepth \/ rows[k].depth > rows[j].depth
  PROVE  SecureDepth[i] # NoDepth
<1> DEFINE after == SecureDepth
           cut == {k \in 0..i : after[k] \in Nat /\ (k >= j => after[k] # NoDepth /\ after[k] <= rows[j].depth)}
<1>1. All = 1..Len(rows) /\ Len(rows) \in Nat /\ i \in Nat /\ j \in Nat /\ j # 0 /\ i <= Len(rows)
  BY RowsSeen
<1>2. \A k \in 0..Len(rows) : after[k] = IF k = 0 THEN NoDepth ELSE NextDepth(after[k - 1], k)
  BY SecureDepthFunction
<1> HIDE DEF after
<1>3. 0 \in cut
  BY <1>1, <1>2 DEF NoDepth
<1>4. ASSUME NEW k \in 0..i - 1, k \in cut PROVE k + 1 \in cut
  <2>1. /\ k + 1 \in 1..Len(rows) /\ k + 1 \in 0..Len(rows) /\ (k + 1) - 1 = k /\ k + 1 # 0 /\ k + 1 \in 0..i
        /\ k \in Int
    BY <1>1
  <2>2. after[k + 1] = NextDepth(after[k], k + 1)
    BY <1>2, <2>1
  <2>3. rows[k + 1].depth \in Nat /\ rows[j].depth \in Nat /\ CutDepth(k + 1) \in Nat
        /\ (rows[k + 1].depth # NoDepth => CutDepth(k + 1) = rows[k + 1].depth)
    BY <1>1, <2>1, RowsSeen DEF CutDepth
  <2>4. NoDepth \in Nat
    BY DEF NoDepth
  <2>5. after[k + 1] \in Nat
    BY <1>4, <2>2, <2>3, <2>4 DEF NextDepth
  <2>6. CASE k + 1 < j
    BY <1>1, <2>1, <2>5, <2>6
  <2>7. CASE k + 1 = j
    BY <1>4, <2>1, <2>2, <2>3, <2>5, <2>7 DEF NextDepth
  <2>8. CASE k >= j
    <3>1. k + 1 \in (j + 1)..i
      BY <1>1, <2>1, <2>8
    <3>2. after[k] \in Nat /\ after[k] # NoDepth /\ after[k] <= rows[j].depth
      BY <1>4, <2>8
    <3>3. after[k + 1] = after[k]
      BY <2>2, <2>3, <3>1, <3>2 DEF NextDepth
    <3> QED
      BY <2>1, <3>2, <3>3
  <2> QED
    BY <1>1, <2>1, <2>6, <2>7, <2>8
<1>5. i \in cut
  <2>1. i \in 0..i
    BY <1>1
  <2> HIDE DEF cut
  <2> QED
    BY <1>1, <1>3, <1>4, <2>1, FromZero
<1> QED
  BY <1>1, <1>5 DEF after

-----------------------------------------------------------------------------
(* Records: what hangs from a secure one is found level by level.          *)
Reach(ids) == ids \cup Children(ids)

Blocking == CHOOSE f : f = [n \in 0..Len(rows) |-> IF n = 0 THEN {i \in All : Secure(i)} ELSE Reach(f[n - 1])]

LEMMA BlockingFunction ==
  ASSUME Seen
  PROVE  /\ Blocking[0] = {i \in All : Secure(i)}
         /\ \A n \in 1..Len(rows) : Blocking[n] = Reach(Blocking[n - 1])
<1> DEFINE start == {i \in All : Secure(i)}
           step == [n \in 1..Len(rows) |-> [ids \in SUBSET All |-> Reach(ids)]]
<1>1. Len(rows) \in Nat
  BY RowsSeen
<1>2. start \in SUBSET All /\ \A ids \in SUBSET All : Reach(ids) \in SUBSET All
  BY DEF Reach, Children
<1>3. step \in [1..Len(rows) -> [SUBSET All -> SUBSET All]]
  BY <1>2
<1>4. PICK f \in [0..Len(rows) -> SUBSET All] :
        f[0] = start /\ \A n \in 1..Len(rows) : f[n] = step[n][f[n - 1]]
  <2>1. Defines(Len(rows), SUBSET All, start, step)
    <3> HIDE DEF step, start
    <3> QED
      BY <1>1, <1>2, <1>3, Recursion
  <2> HIDE DEF step, start
  <2> QED
    BY <2>1 DEF Defines
<1>5. ASSUME NEW n \in 0..Len(rows)
      PROVE  f[n] = IF n = 0 THEN {i \in All : Secure(i)} ELSE Reach(f[n - 1])
  <2>1. CASE n = 0
    BY <1>4, <2>1
  <2>2. CASE n # 0
    <3>1. n \in 1..Len(rows) /\ n - 1 \in 0..Len(rows)
      BY <1>1, <2>2
    <3>2. f[n - 1] \in SUBSET All
      BY <3>1
    <3> QED
      BY <1>4, <2>2, <3>1, <3>2
  <2> QED
    BY <2>1, <2>2
<1>6. f = [n \in 0..Len(rows) |-> IF n = 0 THEN {i \in All : Secure(i)} ELSE Reach(f[n - 1])]
  BY <1>5
<1>7. Blocking = [n \in 0..Len(rows) |-> IF n = 0 THEN {i \in All : Secure(i)} ELSE Reach(Blocking[n - 1])]
  BY <1>6 DEF Blocking
<1>8. 0 \in 0..Len(rows) /\ \A n \in 1..Len(rows) : n \in 0..Len(rows) /\ n # 0
  BY <1>1
<1> QED
  BY <1>7, <1>8

(* The row above i, and what is above it.                                  *)
LEMMA RowAbove ==
  ASSUME Seen, NEW among \in SUBSET All, NEW i \in among, Lineage(among, i) # {i}
  PROVE  \E p \in among : /\ p < i /\ NormalDepth(p) = NormalDepth(i) - 1
                          /\ Lineage(among, i) = {i} \cup Lineage(among, p)
<1> DEFINE below(level) == Stack(among, i, level)
           p == Max(below(NormalDepth(i) - 1))
           hangs(k, j) == /\ j < k /\ NormalDepth(j) < NormalDepth(k)
                          /\ j = Max(Stack(among, k, NormalDepth(j)))
                          /\ \A level \in NormalDepth(j)..(NormalDepth(k) - 1) : OnStack(among, k, level)
<1>1. /\ All = 1..Len(rows) /\ Len(rows) \in Nat
      /\ \A k \in among : k \in All /\ k \in Nat /\ NormalDepth(k) \in Nat
  BY RowsSeen
<1>2. \A k : Lineage(among, k) = {k} \cup {j \in among : hangs(k, j)}
  BY DEF Lineage
<1>3. PICK a \in among : hangs(i, a)
  BY <1>2
<1>4. ASSUME NEW level \in Nat, below(level) # {}
      PROVE  /\ Max(below(level)) \in below(level)
             /\ \A k \in below(level) : k <= Max(below(level))
  <2>1. below(level) \in SUBSET (0..Len(rows))
    <3>1. below(level) \subseteq among
      BY Zenon DEF Stack
    <3>2. among \subseteq 0..Len(rows)
      BY <1>1
    <3> QED
      BY <3>1, <3>2
  <2> QED
    BY <1>1, <1>4, <2>1, Greatest
<1>5. NormalDepth(i) - 1 \in Nat /\ NormalDepth(i) - 1 \in NormalDepth(a)..(NormalDepth(i) - 1)
  BY <1>1, <1>3
<1>6. below(NormalDepth(i) - 1) # {} /\ NormalDepth(p) = NormalDepth(i) - 1
  BY <1>3, <1>5 DEF OnStack
<1>7. p \in below(NormalDepth(i) - 1) /\ \A k \in below(NormalDepth(i) - 1) : k <= p
  BY <1>4, <1>5, <1>6
<1>8. p \in among /\ p < i
  BY <1>7 DEF Stack
<1> HIDE DEF p
<1>9. ASSUME NEW level \in Nat, level < NormalDepth(p) PROVE Stack(among, p, level) = below(level)
  <2>1. ASSUME NEW k \in among, k < i, NormalDepth(k) <= level PROVE k < p
    <3>1. k \in below(NormalDepth(i) - 1)
      <4>1. NormalDepth(k) <= NormalDepth(i) - 1
        BY <1>1, <1>6, <1>9, <2>1
      <4> QED
        BY <2>1, <4>1 DEF Stack
    <3>2. k # p
      BY <1>1, <1>9, <2>1
    <3> QED
      BY <1>1, <1>7, <1>8, <3>1, <3>2
  <2>2. \A k \in among : k < p => k < i
    BY <1>1, <1>8
  <2> QED
    BY <2>1, <2>2 DEF Stack
<1>10. ASSUME NEW j \in among, j # p PROVE hangs(i, j) <=> hangs(p, j)
  <2>1. ASSUME NEW level \in Nat, level < NormalDepth(p)
        PROVE  OnStack(among, i, level) <=> OnStack(among, p, level)
    BY <1>9, <2>1 DEF OnStack
  <2>2. ASSUME hangs(i, j) PROVE hangs(p, j)
    <3>1. NormalDepth(j) \in Nat /\ NormalDepth(j) <= NormalDepth(i) - 1
      BY <1>1, <2>2
    <3>2. NormalDepth(j) # NormalDepth(p)
      BY <1>6, <1>10, <2>2 DEF p
    <3>3. NormalDepth(j) < NormalDepth(p)
      BY <1>1, <1>6, <1>8, <3>1, <3>2
    <3>4. j = Max(Stack(among, p, NormalDepth(j)))
      BY <1>9, <2>2, <3>1, <3>3
    <3>5. j < p
      <4>1. j \in below(NormalDepth(j))
        <5>1. j \in among /\ j < i /\ NormalDepth(j) <= NormalDepth(j)
          BY <2>2, <3>1
        <5> QED
          BY <5>1 DEF Stack
      <4>2. j \in Stack(among, p, NormalDepth(j))
        BY <1>9, <3>1, <3>3, <4>1
      <4> QED
        BY <4>2 DEF Stack
    <3>6. ASSUME NEW level \in NormalDepth(j)..(NormalDepth(p) - 1) PROVE OnStack(among, p, level)
      <4>1. level \in Nat /\ level < NormalDepth(p) /\ level \in NormalDepth(j)..(NormalDepth(i) - 1)
        BY <1>1, <1>6, <1>8, <3>1
      <4> QED
        BY <2>1, <2>2, <4>1
    <3> QED
      BY <3>3, <3>4, <3>5, <3>6
  <2>3. ASSUME hangs(p, j) PROVE hangs(i, j)
    <3>1. NormalDepth(j) \in Nat /\ NormalDepth(j) < NormalDepth(p) /\ NormalDepth(j) < NormalDepth(i) /\ j < i
      BY <1>1, <1>6, <1>8, <2>3
    <3>2. j = Max(Stack(among, i, NormalDepth(j)))
      BY <1>9, <2>3, <3>1
    <3>3. ASSUME NEW level \in NormalDepth(j)..(NormalDepth(i) - 1) PROVE OnStack(among, i, level)
      <4>1. CASE level = NormalDepth(i) - 1
        BY <1>6, <4>1 DEF OnStack, p
      <4>2. CASE level # NormalDepth(i) - 1
        <5>1. level \in Nat /\ level < NormalDepth(p) /\ level \in NormalDepth(j)..(NormalDepth(p) - 1)
          BY <1>1, <1>6, <1>8, <3>1, <4>2
        <5> QED
          BY <2>1, <2>3, <5>1
      <4> QED
        BY <4>1, <4>2
    <3> QED
      BY <3>1, <3>2, <3>3
  <2> QED
    BY <2>2, <2>3
<1>11. hangs(i, p)
  <2>1. NormalDepth(p) < NormalDepth(i) /\ NormalDepth(p)..(NormalDepth(i) - 1) = {NormalDepth(i) - 1}
    BY <1>1, <1>6
  <2>2. p = Max(Stack(among, i, NormalDepth(p)))
    BY <1>6 DEF p
  <2>3. OnStack(among, i, NormalDepth(i) - 1)
    BY <1>6 DEF OnStack, p
  <2> QED
    BY <1>8, <2>1, <2>2, <2>3
<1>12. Lineage(among, i) = {i} \cup Lineage(among, p)
  <2> HIDE DEF hangs
  <2>1. \A j : j \in Lineage(among, i) <=> j = i \/ (j \in among /\ hangs(i, j))
    BY <1>2
  <2>2. \A j : j \in Lineage(among, p) <=> j = p \/ (j \in among /\ hangs(p, j))
    BY <1>2
  <2>3. \A j : j \in Lineage(among, i) <=> j = i \/ j \in Lineage(among, p)
    BY <1>8, <1>10, <1>11, <2>1, <2>2
  <2> QED
    BY <2>3
<1> QED
  BY <1>6, <1>8, <1>12

LEMMA SecureIsBlocked ==
  ASSUME Seen, NEW i \in All, NEW j \in Lineage(All, i), Secure(j)
  PROVE  i \in Blocking[Len(rows)]
<1> DEFINE found == {n \in 0..Len(rows) : /\ j \in Blocking[n]
                                          /\ \A k \in All : k <= n /\ j \in Lineage(All, k) => k \in Blocking[n]}
<1>1. All = 1..Len(rows) /\ Len(rows) \in Nat /\ j \in All
  BY RowsSeen DEF Lineage
<1>2. 0 \in found
  BY <1>1, BlockingFunction
<1>3. ASSUME NEW n \in 0..Len(rows) - 1, n \in found PROVE n + 1 \in found
  <2>1. n + 1 \in 1..Len(rows) /\ n + 1 \in 0..Len(rows) /\ (n + 1) - 1 = n /\ n \in Int
    BY <1>1
  <2>2. Blocking[n + 1] = Reach(Blocking[n])
    BY <2>1, BlockingFunction
  <2>3. ASSUME NEW k \in All, k <= n + 1, j \in Lineage(All, k) PROVE k \in Blocking[n + 1]
    <3>1. CASE k = j
      BY <1>3, <2>2, <3>1 DEF Reach
    <3>2. CASE k # j
      <4>1. PICK p \in All : /\ p < k /\ NormalDepth(p) = NormalDepth(k) - 1
                             /\ Lineage(All, k) = {k} \cup Lineage(All, p)
        BY <2>3, <3>2, RowAbove
      <4>2. p <= n /\ p # k
        BY <1>1, <2>1, <2>3, <4>1
      <4>3. p \in Blocking[n] /\ p \in Lineage(All, k)
        <5>1. p \in Lineage(All, p)
          BY DEF Lineage
        <5> QED
          BY <1>3, <2>3, <3>2, <4>1, <4>2, <5>1
      <4> QED
        BY <2>2, <4>1, <4>2, <4>3 DEF Reach, Children
    <3> QED
      BY <3>1, <3>2
  <2> QED
    BY <1>3, <2>1, <2>2, <2>3 DEF Reach
<1>4. Len(rows) \in found
  <2>1. Len(rows) \in 0..Len(rows)
    BY <1>1
  <2> HIDE DEF found
  <2> QED
    BY <1>1, <1>2, <1>3, <2>1, FromZero
<1> QED
  BY <1>1, <1>4

-----------------------------------------------------------------------------
(* What is told of a frame is rows of the stripped tree, or its title.     *)
LEMMA LinesOfTree ==
  ASSUME NEW tree, NEW l \in Lines(tree)
  PROVE  l.row = TitleLine \/ l.row \in tree.nodes
<1>1. \A d, i : Line(d, i).row = i
  BY DEF Line
<1>2. \A m \in TitleLines(tree) : m.row = TitleLine
  BY <1>1 DEF TitleLines
<1>3. Walked(tree) \subseteq tree.nodes
  BY DEF Walked
<1> QED
  BY <1>1, <1>2, <1>3 DEF Lines

LEMMA SecureStays ==
  ASSUME Seen
  PROVE  SecureStaysOut
<1> DEFINE said == {l.row : l \in Extract.lines}
<1> SUFFICES ASSUME NEW j \in All, Secure(j), rows[j].depth # NoDepth, NEW l \in Extract.lines
             PROVE  l.row # Scraped /\ (l.row = TitleLine \/ ~Under(l.row, j))
  <2>1. \A i \in said : \E l \in Extract.lines : i = l.row
    OBVIOUS
  <2> HIDE DEF said
  <2> QED
    BY <2>1 DEF SecureStaysOut, said
<1>1. /\ All = 1..Len(rows) /\ Len(rows) \in Nat /\ Scraped \notin All /\ Scraped # TitleLine
      /\ form \in {"flat", "nested", "records", "unlinked"}
  <2>1. form \notin {"broken", "none"}
    BY DEF Seen, All
  <2>2. Scraped # TitleLine
    BY TreeAssumption DEF Scraped, TitleLine
  <2> QED
    BY <2>1, <2>2, RowsSeen DEF Seen
<1>2. CASE form \in {"records", "unlinked"}
  <2>1. Extract.lines = {Line("body", i) : i \in {k \in StripRecords : Says(k)}}
    BY <1>2 DEF Extract, FromRecords
  <2>2. l.row \in StripRecords
    BY <2>1 DEF Line
  <2>3. StripRecords = All \ Blocking[IF form = "records" THEN Len(rows) ELSE 0]
    BY DEF StripRecords, Blocking, Reach
  <2>4. l.row \in All /\ l.row # Scraped
    BY <1>1, <2>2, <2>3
  <2>5. ASSUME Under(l.row, j) PROVE FALSE
    <3>1. CASE form = "records"
      <4>1. j \in Lineage(All, l.row)
        BY <2>5, <3>1 DEF Under
      <4> QED
        BY <2>2, <2>3, <2>4, <3>1, <4>1, SecureIsBlocked
    <3>2. CASE form = "unlinked"
      <4>1. l.row = j
        BY <2>5, <3>2 DEF Under
      <4> QED
        BY <2>2, <2>3, <2>4, <3>2, <4>1, BlockingFunction
    <3> QED
      BY <1>2, <3>1, <3>2
  <2> QED
    BY <2>4, <2>5
<1>3. CASE form \in {"flat", "nested"}
  <2>1. Extract = FromTree(Stripped)
    BY <1>3 DEF Extract, HasSecureRole
  <2>2. l \in Lines(Stripped)
    BY <2>1 DEF FromTree
  <2>3. CASE l.row = TitleLine
    BY <1>1, <2>3
  <2>4. CASE l.row \in Stripped.nodes
    <3>1. CASE form = "flat"
      <4>1. l.row \in All /\ SecureDepth[l.row] = NoDepth
        BY <2>4, <3>1 DEF Stripped, Tree, PruneFlat
      <4>2. ASSUME Under(l.row, j) PROVE FALSE
        <5>1. j <= l.row /\ \A k \in (j + 1)..l.row : rows[k].depth = NoDepth \/ rows[k].depth > rows[j].depth
          BY <3>1, <4>2 DEF Under
        <5> QED
          BY <4>1, <5>1, SecureIsCut
      <4> QED
        BY <1>1, <4>1, <4>2
    <3>2. CASE form = "nested"
      <4>1. l.row \in All /\ \A k \in Tree(All).lineage[l.row] : ~Secure(k)
        BY <2>4, <3>2 DEF Stripped, Tree
      <4>2. Tree(All).lineage[l.row] = Lineage(All, l.row)
        BY <4>1 DEF Tree
      <4>3. ~Under(l.row, j)
        BY <3>2, <4>1, <4>2 DEF Under
      <4> QED
        BY <1>1, <4>1, <4>3
    <3> QED
      BY <1>3, <3>1, <3>2
  <2> QED
    BY <2>2, <2>3, <2>4, LinesOfTree
<1> QED
  BY <1>1, <1>2, <1>3

LEMMA SeenInit == FrameInit => Seen
<1> SUFFICES ASSUME FrameInit PROVE Seen
  OBVIOUS
<1> QED
  BY TreeAssumption DEF FrameInit, Seen

LEMMA SeenStep == Seen /\ [FrameNext]_frameVars => Seen'
<1> SUFFICES ASSUME Seen, [FrameNext]_frameVars PROVE Seen'
  OBVIOUS
<1>1. ASSUME NEW d \in Depths, NEW kind \in NodeKinds, SeeRow(d, kind) PROVE Seen'
  <2> DEFINE node == [depth |-> d, role |-> kind.role, shown |-> kind.shown, words |-> kind.words]
  <2>1. node \in Nodes
    BY DEF Nodes
  <2>2. rows' = Append(rows, node) /\ UNCHANGED form /\ Len(rows) < MaxRows /\ form \notin {"broken", "none"}
        /\ (form # "flat" => d # NoDepth)
    BY <1>1 DEF SeeRow
  <2>3. node.depth = d
    OBVIOUS
  <2> HIDE DEF node
  <2>4. rows' \in Seq(Nodes) /\ Len(rows') = Len(rows) + 1 /\ Len(rows) \in Nat
        /\ DOMAIN rows' = 1..Len(rows) + 1 /\ DOMAIN rows = 1..Len(rows)
        /\ \A i \in 1..Len(rows) : rows'[i] = rows[i]
        /\ rows'[Len(rows) + 1] = node
    BY <2>1, <2>2 DEF Seen
  <2>5. Len(rows') <= MaxRows
    BY <2>2, <2>4, TreeAssumption
  <2>6. form # "flat" => \A i \in DOMAIN rows' : rows'[i].depth # NoDepth
    <3>1. \A i \in DOMAIN rows' : i \in 1..Len(rows) \/ i = Len(rows) + 1
      BY <2>4
    <3> QED
      BY <2>2, <2>3, <2>4, <3>1 DEF Seen
  <2> QED
    BY <2>2, <2>4, <2>5, <2>6 DEF Seen, NoDepth
<1>2. CASE UNCHANGED frameVars
  BY <1>2 DEF frameVars, Seen, NoDepth
<1> QED
  BY <1>1, <1>2 DEF FrameNext

(* No words of a secure field or of what is below it are indexed, whatever *)
(* the tree and whichever way its rows arrive.                             *)
THEOREM SecureTheorem == FrameSpec => []SecureStaysOut
<1> QED
  BY SeenInit, SeenStep, SecureStays, PTL DEF FrameSpec

-----------------------------------------------------------------------------
(* When the depths form a tree, what is above i is the rows that nothing   *)
(* as shallow separates from it.                                           *)
Shaped ==
  \A i \in All : rows[i].depth # NoDepth
                 /\ rows[i].depth <= (IF i = 1 THEN 0 ELSE rows[i - 1].depth + 1)

Above(i, j) == j \in All /\ j <= i /\ \A k \in (j + 1)..i : rows[k].depth > rows[j].depth

LEMMA LevelsFilled ==
  ASSUME Seen, Shaped, NEW i \in All, NEW level \in Nat, level < rows[i].depth
  PROVE  \E m \in All : /\ m < i /\ rows[m].depth = level
                        /\ m = Max(Stack(All, i, level)) /\ Above(i, m)
                        /\ \A k \in Stack(All, i, level) : k <= m
<1> DEFINE below == Stack(All, i, level)
           m == Max(below)
<1>1. /\ All = 1..Len(rows) /\ Len(rows) \in Nat
      /\ \A k \in All : rows[k].depth \in Nat /\ NormalDepth(k) = rows[k].depth
  BY RowsSeen DEF NormalDepth, Shaped
<1>2. below = {k \in All : k < i /\ rows[k].depth <= level}
  BY <1>1 DEF Stack
<1> HIDE DEF below
<1>3. 1 \in below
  <2>1. 1 \in All
    BY <1>1
  <2>2. rows[1].depth = 0
    BY <1>1, <2>1 DEF Shaped
  <2>3. i # 1
    BY <1>1, <2>2
  <2> QED
    BY <1>1, <1>2, <2>1, <2>2, <2>3
<1>4. below \in SUBSET (0..Len(rows))
  BY <1>1, <1>2
<1>5. m \in below /\ \A k \in below : k <= m
  BY <1>1, <1>3, <1>4, Greatest
<1> HIDE DEF m
<1>6. m \in All /\ m < i /\ rows[m].depth <= level
  BY <1>2, <1>5
<1>7. ASSUME NEW k \in (m + 1)..i PROVE k \in All /\ rows[k].depth > level
  <2>1. k \in All /\ k > m /\ k <= i
    BY <1>1, <1>6
  <2>2. k \notin below
    BY <1>1, <1>5, <1>6, <2>1
  <2> QED
    BY <1>1, <1>2, <2>1, <2>2
<1>8. rows[m].depth >= level
  <2>1. m + 1 \in (m + 1)..i /\ m + 1 # 1 /\ (m + 1) - 1 = m
    BY <1>1, <1>6
  <2>2. m + 1 \in All /\ rows[m + 1].depth > level
    BY <1>7, <2>1
  <2>3. rows[m + 1].depth <= rows[m].depth + 1
    BY <2>1, <2>2 DEF Shaped
  <2> QED
    BY <1>1, <1>6, <2>2, <2>3
<1>9. rows[m].depth = level
  BY <1>1, <1>6, <1>8
<1>10. Above(i, m)
  BY <1>1, <1>6, <1>7, <1>9 DEF Above
<1> QED
  BY <1>5, <1>6, <1>9, <1>10 DEF m, below

(* A set of rows with all above i in it gives i the same lineage.          *)
LEMMA LineageOf ==
  ASSUME Seen, Shaped, NEW i \in All, NEW K \in SUBSET All, \A j \in All : Above(i, j) => j \in K
  PROVE  Lineage(K, i) = {j \in All : Above(i, j)}
<1>1. /\ All = 1..Len(rows) /\ Len(rows) \in Nat
      /\ \A k \in All : rows[k].depth \in Nat /\ NormalDepth(k) = rows[k].depth
  BY RowsSeen DEF NormalDepth, Shaped
<1>2. ASSUME NEW level \in Nat, level < rows[i].depth
      PROVE  \E m \in K : /\ m < i /\ rows[m].depth = level /\ Above(i, m)
                          /\ m = Max(Stack(K, i, level)) /\ m \in Stack(K, i, level)
                          /\ \A k \in Stack(All, i, level) : k <= m
  <2>1. PICK m \in All : /\ m < i /\ rows[m].depth = level
                         /\ m = Max(Stack(All, i, level)) /\ Above(i, m)
                         /\ \A k \in Stack(All, i, level) : k <= m
    BY <1>2, LevelsFilled
  <2>2. m \in K
    BY <2>1
  <2>3. m \in Stack(K, i, level)
    BY <1>1, <2>1, <2>2 DEF Stack
  <2>4. Stack(K, i, level) \in SUBSET (0..Len(rows)) /\ Stack(K, i, level) \subseteq Stack(All, i, level)
    <3>1. Stack(K, i, level) \subseteq Stack(All, i, level) /\ Stack(K, i, level) \subseteq All
      BY Zenon DEF Stack
    <3>2. All \subseteq 0..Len(rows)
      BY <1>1
    <3> QED
      BY <3>1, <3>2
  <2>5. /\ Max(Stack(K, i, level)) \in Stack(K, i, level)
        /\ \A k \in Stack(K, i, level) : k <= Max(Stack(K, i, level))
    BY <1>1, <2>3, <2>4, Greatest
  <2>6. Max(Stack(K, i, level)) <= m /\ m <= Max(Stack(K, i, level))
    BY <2>1, <2>3, <2>4, <2>5
  <2>7. m = Max(Stack(K, i, level))
    <3>1. m \in Int /\ Max(Stack(K, i, level)) \in Int
      BY <1>1, <2>4, <2>5
    <3> QED
      BY <2>6, <3>1
  <2> QED
    BY <2>1, <2>2, <2>3, <2>7
<1>3. ASSUME NEW j \in Lineage(K, i) PROVE j \in All /\ Above(i, j)
  <2>1. CASE j = i
    BY <1>1, <2>1 DEF Above
  <2>2. CASE j # i
    <3>1. j \in K /\ NormalDepth(j) < NormalDepth(i) /\ j = Max(Stack(K, i, NormalDepth(j)))
      BY <2>2 DEF Lineage
    <3>2. rows[j].depth \in Nat /\ rows[j].depth < rows[i].depth /\ j = Max(Stack(K, i, rows[j].depth))
      BY <1>1, <3>1
    <3> QED
      BY <1>2, <3>1, <3>2
  <2> QED
    BY <2>1, <2>2
<1>4. ASSUME NEW j \in All, Above(i, j) PROVE j \in Lineage(K, i)
  <2>1. CASE j = i
    BY <2>1 DEF Lineage
  <2>2. CASE j # i
    <3>1. j \in K /\ j < i /\ rows[j].depth < rows[i].depth
      <4>1. j < i /\ i \in (j + 1)..i
        BY <1>1, <1>4, <2>2 DEF Above
      <4> QED
        BY <1>1, <1>4, <4>1 DEF Above
    <3>2. PICK m \in K : /\ m < i /\ rows[m].depth = rows[j].depth /\ Above(i, m)
                         /\ m = Max(Stack(K, i, rows[j].depth))
                         /\ \A k \in Stack(All, i, rows[j].depth) : k <= m
      BY <1>1, <1>2, <3>1
    <3>3. j \in Stack(All, i, rows[j].depth)
      BY <1>1, <3>1 DEF Stack
    <3>4. m = j
      <4>1. j <= m
        BY <3>2, <3>3
      <4>2. ASSUME j < m PROVE FALSE
        <5>1. m \in (j + 1)..i
          BY <1>1, <3>2, <4>2
        <5>2. rows[m].depth > rows[j].depth
          BY <1>4, <5>1 DEF Above
        <5> QED
          BY <1>1, <3>2, <5>2
      <4> QED
        BY <1>1, <4>1, <4>2
    <3>5. ASSUME NEW level \in NormalDepth(j)..(NormalDepth(i) - 1) PROVE OnStack(K, i, level)
      <4>1. level \in Nat /\ level < rows[i].depth
        BY <1>1
      <4>2. PICK n \in K : rows[n].depth = level /\ n = Max(Stack(K, i, level)) /\ n \in Stack(K, i, level)
        BY <1>2, <4>1
      <4> QED
        BY <1>1, <4>2 DEF OnStack
    <3>6. NormalDepth(j) < NormalDepth(i) /\ j = Max(Stack(K, i, NormalDepth(j)))
      BY <1>1, <3>1, <3>2, <3>4
    <3> QED
      BY <3>1, <3>5, <3>6 DEF Lineage
  <2> QED
    BY <2>1, <2>2
<1>5. Lineage(K, i) \subseteq All
  BY DEF Lineage
<1> QED
  BY <1>3, <1>4, <1>5

(* A row is cut only under a secure one.                                   *)
LEMMA CutIsSecure ==
  ASSUME Seen, Shaped, NEW i \in All, SecureDepth[i] # NoDepth
  PROVE  \E j \in All : Secure(j) /\ Above(i, j)
<1> DEFINE after == SecureDepth
           due(k) == \E j \in All : Secure(j) /\ Above(k, j) /\ rows[j].depth = after[k]
           found == {k \in 0..Len(rows) : after[k] # NoDepth => due(k)}
<1>1. /\ All = 1..Len(rows) /\ Len(rows) \in Nat
      /\ \A k \in All : rows[k].depth \in Nat /\ CutDepth(k) = rows[k].depth /\ rows[k].depth # NoDepth
  BY RowsSeen DEF CutDepth, Shaped
<1>2. \A k \in 0..Len(rows) : after[k] = IF k = 0 THEN NoDepth ELSE NextDepth(after[k - 1], k)
  BY SecureDepthFunction
<1> HIDE DEF after
<1>3. 0 \in found
  BY <1>1, <1>2
<1>4. ASSUME NEW k \in 0..Len(rows) - 1, k \in found PROVE k + 1 \in found
  <2>1. k + 1 \in All /\ k + 1 \in 0..Len(rows) /\ (k + 1) - 1 = k /\ k + 1 # 0 /\ k \in Int
    BY <1>1
  <2>2. after[k + 1] = NextDepth(after[k], k + 1)
    BY <1>2, <2>1
  <2>3. CASE after[k] # NoDepth /\ rows[k + 1].depth > after[k]
    <3>1. after[k + 1] = after[k]
      BY <2>2, <2>3 DEF NextDepth
    <3>2. PICK j \in All : Secure(j) /\ Above(k, j) /\ rows[j].depth = after[k]
      BY <1>4, <2>3
    <3>3. ASSUME NEW l \in (j + 1)..(k + 1) PROVE rows[l].depth > rows[j].depth
      <4>1. l = k + 1 \/ l \in (j + 1)..k
        BY <1>1, <2>1
      <4> QED
        BY <2>3, <3>2, <4>1 DEF Above
    <3>4. Above(k + 1, j)
      BY <1>1, <2>1, <3>2, <3>3 DEF Above
    <3>5. due(k + 1)
      BY <3>1, <3>2, <3>4
    <3> QED
      BY <2>1, <3>5
  <2>4. CASE ~(after[k] # NoDepth /\ rows[k + 1].depth > after[k])
    <3>1. after[k + 1] = IF Secure(k + 1) THEN rows[k + 1].depth ELSE NoDepth
      BY <1>1, <2>1, <2>2, <2>4 DEF NextDepth
    <3>2. Above(k + 1, k + 1)
      BY <1>1, <2>1 DEF Above
    <3>3. after[k + 1] # NoDepth => due(k + 1)
      BY <2>1, <3>1, <3>2
    <3> QED
      BY <2>1, <3>3
  <2> QED
    BY <2>3, <2>4
<1>5. i \in found
  <2>1. \A k \in 0..Len(rows) : k \in found
    <3> HIDE DEF found
    <3> QED
      BY <1>1, <1>3, <1>4, FromZero
  <2>2. i \in 0..Len(rows)
    BY <1>1
  <2> QED
    BY <2>1, <2>2
<1> QED
  BY <1>5 DEF after

LEMMA AboveAbove ==
  ASSUME Seen, NEW i \in All, NEW j \in All, NEW k \in All, Above(i, j), Above(j, k)
  PROVE  Above(i, k)
<1>1. /\ All = 1..Len(rows) /\ \A l \in All : rows[l].depth \in Nat
  BY RowsSeen
<1>2. ASSUME NEW l \in (k + 1)..i PROVE rows[l].depth > rows[k].depth
  <2>1. l \in All
    BY <1>1
  <2>2. CASE l <= j
    <3>1. l \in (k + 1)..j
      BY <1>1, <2>2
    <3> QED
      BY <3>1 DEF Above
  <2>3. CASE l > j
    <3>1. l \in (j + 1)..i
      BY <1>1, <2>1, <2>3
    <3>2. rows[l].depth > rows[j].depth
      BY <3>1 DEF Above
    <3>3. j = k \/ rows[j].depth > rows[k].depth
      <4>1. k # j => j \in (k + 1)..j
        BY <1>1 DEF Above
      <4> QED
        BY <4>1 DEF Above
    <3> QED
      BY <1>1, <2>1, <3>2, <3>3
  <2> QED
    BY <1>1, <2>1, <2>2, <2>3
<1> QED
  BY <1>1, <1>2 DEF Above

(* A row with nothing secure above it is in the stripped tree, in its      *)
(* place.                                                                  *)
LEMMA KeptInPlace ==
  ASSUME Seen, Shaped, form \in {"flat", "nested"}, NEW i \in All, \A j \in Lineage(All, i) : ~Secure(j)
  PROVE  i \in Stripped.nodes /\ Stripped.lineage[i] = Lineage(All, i)
<1>1. \A k \in All : Lineage(All, k) = {j \in All : Above(k, j)}
  BY LineageOf
<1>2. CASE form = "nested"
  BY <1>2 DEF Stripped, Tree
<1>3. CASE form = "flat"
  <2>1. ASSUME NEW j \in All, Above(i, j) PROVE j \in PruneFlat
    <3>1. SUFFICES ASSUME SecureDepth[j] # NoDepth PROVE FALSE
      BY DEF PruneFlat
    <3>2. PICK k \in All : Secure(k) /\ Above(j, k)
      BY <3>1, CutIsSecure
    <3>3. Above(i, k)
      BY <2>1, <3>2, AboveAbove
    <3> QED
      BY <1>1, <3>2, <3>3
  <2>2. PruneFlat \in SUBSET All
    BY DEF PruneFlat
  <2>3. Lineage(PruneFlat, i) = Lineage(All, i)
    BY <1>1, <2>1, <2>2, LineageOf
  <2>4. i \in PruneFlat
    <3>1. Above(i, i)
      BY RowsSeen DEF Above
    <3> QED
      BY <2>1, <3>1
  <2> QED
    BY <1>3, <2>3, <2>4 DEF Stripped, Tree
<1> QED
  BY <1>2, <1>3

LEMMA NothingLost ==
  ASSUME Seen
  PROVE  NothingElseLost
<1> SUFFICES ASSUME form \in {"flat", "nested"}, Shaped, NEW i \in All,
                    Says(i), \A j \in Lineage(All, i) : rows[j].shown /\ ~Secure(j),
                    \/ rows[i].role \in WindowRoles \cup Fallback
                    \/ \E j \in Lineage(All, i) : rows[j].role \in NavRoles \cup ActionRoles \cup BodyRoles
             PROVE  Cardinality({l \in Extract.lines : l.row = i}) = 1
  BY DEF NothingElseLost, Shaped
<1> DEFINE tree == Stripped
           line == Line(LineDomain(tree, i), i)
           lines == TitleLines(tree) \cup
                    {l \in {Line(LineDomain(tree, k), k) : k \in {k \in Walked(tree) : Says(k)}} : l.domain # "none"}
<1>1. i \in tree.nodes /\ tree.lineage[i] = Lineage(All, i)
  BY KeptInPlace
<1>2. i \in Walked(tree)
  BY <1>1 DEF Walked
<1>3. LineDomain(tree, i) # "none"
  <2>1. (\E j \in Lineage(All, i) : rows[j].role \in NavRoles \cup ActionRoles \cup BodyRoles)
          => Domain(tree, i) # "none"
    BY <1>1 DEF Domain
  <2> QED
    BY <2>1 DEF LineDomain
<1>4. \A d, k : Line(d, k).row = k /\ Line(d, k).domain = d
  BY DEF Line
<1>5. line \in lines
  BY <1>2, <1>3, <1>4
<1>6. Lines(tree) = lines
  BY <1>5 DEF Lines
<1>7. Extract.lines = lines
  BY <1>5, <1>6 DEF Extract, FromTree
<1>8. {l \in lines : l.row = i} = {line}
  <2>1. \A l \in TitleLines(tree) : l.row # i
    BY <1>4, RowsSeen DEF TitleLines
  <2> QED
    BY <1>4, <1>5, <2>1
<1> QED
  BY <1>7, <1>8, FS_Singleton

(* Cutting secure fields and rebuilding the tree costs no other line: what *)
(* is visible and placed is indexed in exactly one line.                   *)
THEOREM NothingLostTheorem == FrameSpec => []NothingElseLost
<1> QED
  BY SeenInit, SeenStep, NothingLost, PTL DEF FrameSpec

-----------------------------------------------------------------------------
(* A frame of one row less, operator by operator.                          *)
LEMMA SoonerRows ==
  ASSUME Seen, Len(rows) > 1
  PROVE  /\ Sooner!All = 1..Len(rows) - 1
         /\ \A i \in Sooner!All : /\ i \in All /\ Sooner!NormalDepth(i) = NormalDepth(i)
                                  /\ (Sooner!Secure(i) <=> Secure(i)) /\ (Sooner!Says(i) <=> Says(i))
                                  /\ (Sooner!Noise(i) <=> Noise(i))
                                  /\ SubSeq(rows, 1, Len(rows) - 1)[i] = rows[i]
<1> DEFINE before == SubSeq(rows, 1, Len(rows) - 1)
<1>1. Len(rows) \in Nat /\ DOMAIN before = 1..Len(rows) - 1
      /\ \A i \in 1..Len(rows) - 1 : before[i] = rows[i] /\ i \in All
  <2>1. Len(rows) \in Nat /\ rows \in Seq(Nodes) /\ All = 1..Len(rows)
    BY RowsSeen DEF Seen
  <2>2. before \in Seq(Nodes) /\ Len(before) = Len(rows) - 1
    BY <2>1
  <2>3. \A i \in 1..Len(rows) - 1 : before[i] = rows[i]
    BY <2>1
  <2> QED
    BY <2>1, <2>2, <2>3
<1>2. Sooner!All = DOMAIN before
  BY DEF Sooner!All
<1> HIDE DEF before
<1>3. ASSUME NEW i \in 1..Len(rows) - 1
      PROVE /\ Sooner!NormalDepth(i) = NormalDepth(i)
                                  /\ (Sooner!Secure(i) <=> Secure(i)) /\ (Sooner!Says(i) <=> Says(i))
                                  /\ (Sooner!Noise(i) <=> Noise(i))
  <2>1. before[i] = rows[i]
    BY <1>1
  <2> QED
    BY <2>1 DEF before, NormalDepth, Secure, Says, Noise, Sooner!NormalDepth, Sooner!Secure, Sooner!Says, Sooner!Noise, NoDepth, Sooner!NoDepth
<1> QED
  BY <1>1, <1>2, <1>3 DEF before

LEMMA SoonerConstants ==
  /\ \A p, t : Sooner!Key(p, t) = Key(p, t)
  /\ \A d, i : Sooner!Line(d, i) = Line(d, i)
  /\ Sooner!TitleLine = TitleLine /\ Sooner!NoDepth = NoDepth
  /\ Sooner!WindowRoles = WindowRoles /\ Sooner!NavRoles = NavRoles /\ Sooner!ActionRoles = ActionRoles
  /\ Sooner!BodyRoles = BodyRoles /\ Sooner!Fallback = Fallback
  /\ (Sooner!IsCoarse <=> IsCoarse)
<1>1. \A p, t : Sooner!Key(p, t) = Key(p, t)
  BY DEF Key, Sooner!Key
<1>2. \A d, i : Sooner!Line(d, i) = Line(d, i)
  BY DEF Line, Sooner!Line
<1>3. Sooner!TitleLine = TitleLine /\ Sooner!NoDepth = NoDepth
  BY DEF TitleLine, Sooner!TitleLine, NoDepth, Sooner!NoDepth
<1>4. /\ Sooner!WindowRoles = WindowRoles /\ Sooner!NavRoles = NavRoles /\ Sooner!ActionRoles = ActionRoles
      /\ Sooner!BodyRoles = BodyRoles /\ Sooner!Fallback = Fallback
  BY DEF WindowRoles, NavRoles, ActionRoles, BodyRoles, Fallback, Sooner!WindowRoles, Sooner!NavRoles,
         Sooner!ActionRoles, Sooner!BodyRoles, Sooner!Fallback
<1>5. Sooner!IsCoarse <=> IsCoarse
  BY DEF IsCoarse, Coarse, Sooner!IsCoarse, Sooner!Coarse
<1> QED
  BY <1>1, <1>2, <1>3, <1>4, <1>5

LEMMA SoonerCardinality == \A S : Sooner!Cardinality(S) = Cardinality(S)
BY DEF Cardinality, Sooner!Cardinality

LEMMA SoonerTitle == Sooner!NormalizeTitle(title) = NormalizeTitle(title)
BY ZenonT(30) DEF NormalizeTitle, Chopped, Shifted, NotDot, Sooner!NormalizeTitle, Sooner!Chopped, Sooner!Shifted,
       Sooner!NotDot

LEMMA SoonerLineage ==
  ASSUME Seen, Len(rows) > 1, NEW among \in SUBSET All, NEW i \in Sooner!All
  PROVE  Sooner!Lineage(among \ {Len(rows)}, i) = Lineage(among, i)
<1> DEFINE last == Len(rows)
           earlier == among \ {last}
<1>1. /\ Sooner!All = 1..last - 1 /\ All = 1..last /\ last \in Nat /\ i \in Nat /\ i < last
      /\ earlier \subseteq Sooner!All
      /\ \A j \in Sooner!All : j \in All /\ Sooner!NormalDepth(j) = NormalDepth(j)
  BY SoonerRows, RowsSeen
<1> HIDE DEF last
<1>2. \A level : Sooner!Stack(earlier, i, level) = Stack(among, i, level)
  <2>1. \A j \in among : j < i => j \in earlier
    BY <1>1
  <2>2. \A j \in earlier : Sooner!NormalDepth(j) = NormalDepth(j) /\ j \in among
    BY <1>1
  <2> HIDE DEF earlier
  <2> QED
    BY <2>1, <2>2, Zenon DEF Stack, Sooner!Stack
<1>3. \A level : Sooner!OnStack(earlier, i, level) <=> OnStack(among, i, level)
  <2>1. ASSUME NEW level, Stack(among, i, level) # {}
        PROVE  Sooner!NormalDepth(Max(Stack(among, i, level))) = NormalDepth(Max(Stack(among, i, level)))
    <3>1. Stack(among, i, level) \subseteq earlier
      BY <1>1 DEF Stack
    <3>2. Stack(among, i, level) \in SUBSET (0..last)
      <4>1. earlier \subseteq 0..last
        BY <1>1
      <4> QED
        BY <3>1, <4>1
    <3>3. Max(Stack(among, i, level)) \in Stack(among, i, level)
      BY <1>1, <2>1, <3>2, Greatest
    <3> QED
      BY <1>1, <3>1, <3>3
  <2>2. \A S : Sooner!Max(S) = Max(S)
    BY DEF Max, Sooner!Max
  <2> HIDE DEF earlier
  <2> QED
    BY <1>2, <2>1, <2>2, Zenon DEF OnStack, Sooner!OnStack
<1>4. \A S : Sooner!Max(S) = Max(S)
  BY DEF Max, Sooner!Max
<1>5. ASSUME NEW j \in earlier
      PROVE  j \in Sooner!Lineage(earlier, i) <=> j \in Lineage(among, i)
  <2>1. Sooner!NormalDepth(j) = NormalDepth(j) /\ Sooner!NormalDepth(i) = NormalDepth(i) /\ j \in among
    BY <1>1
  <2> HIDE DEF earlier
  <2> QED
    BY <1>2, <1>3, <1>4, <2>1, Zenon DEF Lineage, Sooner!Lineage
<1>6. \A j \in among : j < i => j \in earlier
  BY <1>1
<1>7. Sooner!Lineage(earlier, i) \subseteq earlier \cup {i} /\ i \in Sooner!Lineage(earlier, i)
  BY Zenon DEF Sooner!Lineage
<1>8. Lineage(among, i) \subseteq earlier \cup {i} /\ i \in Lineage(among, i)
  BY <1>6, Zenon DEF Lineage
<1> HIDE DEF earlier
<1>9. Sooner!Lineage(earlier, i) = Lineage(among, i)
  <2>1. ASSUME NEW j PROVE j \in Sooner!Lineage(earlier, i) <=> j \in Lineage(among, i)
    <3>1. CASE j \in earlier
      BY <1>5, <3>1
    <3>2. CASE j \notin earlier
      BY <1>7, <1>8, <3>2
    <3> QED
      BY <3>1, <3>2
  <2> QED
    BY <2>1
<1> QED
  BY <1>9 DEF earlier, last


LEMMA SoonerDepths ==
  ASSUME Seen, Len(rows) > 1, NEW i \in Sooner!All
  PROVE  Sooner!SecureDepth[i] = SecureDepth[i]
<1> DEFINE last == Len(rows)
           f == [k \in 0..last - 1 |-> SecureDepth[k]]
           Deeper(d, k) == IF d # Sooner!NoDepth /\ (SubSeq(rows, 1, Len(rows) - 1)[k].depth = Sooner!NoDepth
                                                   \/ SubSeq(rows, 1, Len(rows) - 1)[k].depth > d) THEN d
                         ELSE IF Sooner!Secure(k) THEN Sooner!CutDepth(k) ELSE Sooner!NoDepth
           before == SubSeq(rows, 1, Len(rows) - 1)
<1>1. /\ Sooner!All = 1..last - 1 /\ last \in Nat /\ Len(before) = last - 1
      /\ \A k \in 1..last - 1 : before[k] = rows[k] /\ (Sooner!Secure(k) <=> Secure(k))
  <2>1. rows \in Seq(Nodes) /\ Len(rows) \in Nat
    BY RowsSeen DEF Seen
  <2>2. Len(before) = last - 1
    BY <2>1
  <2> QED
    BY <2>1, <2>2, SoonerRows
<1>2. \A k \in 1..last - 1 : \A d : Deeper(d, k) = NextDepth(d, k)
  BY <1>1, SoonerConstants DEF NextDepth, CutDepth, Sooner!CutDepth
<1>3. \A k \in 0..last - 1 : SecureDepth[k] = IF k = 0 THEN NoDepth ELSE NextDepth(SecureDepth[k - 1], k)
  <2>1. \A k \in 0..last - 1 : k \in 0..Len(rows)
    BY <1>1
  <2>2. \A k \in 0..Len(rows) : SecureDepth[k] = IF k = 0 THEN NoDepth ELSE NextDepth(SecureDepth[k - 1], k)
    BY SecureDepthFunction
  <2> QED
    BY <2>1, <2>2
<1>4. Sooner!SecureDepth = CHOOSE g : g = [k \in 0..Len(before) |-> IF k = 0 THEN Sooner!NoDepth ELSE Deeper(g[k - 1], k)]
  BY DEF Sooner!SecureDepth
<1> HIDE DEF Deeper, before
<1>5. ASSUME NEW k \in 0..last - 1 PROVE f[k] = IF k = 0 THEN Sooner!NoDepth ELSE Deeper(f[k - 1], k)
  <2>1. k # 0 => k - 1 \in 0..last - 1 /\ k \in 1..last - 1
    BY <1>1
  <2> QED
    BY <1>2, <1>3, <2>1, SoonerConstants
<1>6. f = [k \in 0..Len(before) |-> IF k = 0 THEN Sooner!NoDepth ELSE Deeper(f[k - 1], k)]
  <2>1. f = [k \in 0..last - 1 |-> f[k]]
    OBVIOUS
  <2> HIDE DEF f
  <2> QED
    BY <1>1, <1>5, <2>1
<1> DEFINE g == Sooner!SecureDepth
<1>7. g = [k \in 0..Len(before) |-> IF k = 0 THEN Sooner!NoDepth ELSE Deeper(g[k - 1], k)]
  <2> HIDE DEF f, g
  <2>1. \E h : h = [k \in 0..Len(before) |-> IF k = 0 THEN Sooner!NoDepth ELSE Deeper(h[k - 1], k)]
    BY <1>6
  <2> QED
    BY <1>4, <2>1 DEF g
<1> HIDE DEF g
<1>8. \A k \in 0..last - 1 : g[k] = IF k = 0 THEN NoDepth ELSE Deeper(g[k - 1], k)
  <2>1. last - 1 \in Nat /\ Len(before) = last - 1 /\ Sooner!NoDepth = NoDepth
    BY <1>1, SoonerConstants
  <2> HIDE DEF last
  <2> QED
    BY <1>7, <2>1
<1> DEFINE same == {k \in 0..last - 1 : g[k] = SecureDepth[k]}
<1>9. 0 \in same
  <2>1. 0 \in 0..last - 1
    BY <1>1
  <2>2. g[0] = NoDepth /\ SecureDepth[0] = NoDepth
    BY <1>3, <1>8, <2>1
  <2> HIDE DEF g
  <2> QED
    BY <2>1, <2>2
<1>10. ASSUME NEW k \in 0..(last - 1) - 1, k \in same PROVE k + 1 \in same
  <2>1. k + 1 \in 1..last - 1 /\ k + 1 \in 0..last - 1 /\ (k + 1) - 1 = k /\ k + 1 # 0
    BY <1>1
  <2>2. g[k] = SecureDepth[k]
    BY <1>10
  <2>3. g[k + 1] = Deeper(g[k], k + 1)
    BY <1>8, <2>1
  <2>4. SecureDepth[k + 1] = NextDepth(SecureDepth[k], k + 1)
    BY <1>3, <2>1
  <2>5. Deeper(g[k], k + 1) = NextDepth(g[k], k + 1)
    BY <1>2, <2>1
  <2> HIDE DEF g
  <2> QED
    BY <2>1, <2>2, <2>3, <2>4, <2>5
<1>11. \A k \in 0..last - 1 : k \in same
  <2>1. last - 1 \in Nat
    BY <1>1
  <2> HIDE DEF same
  <2> QED
    BY <1>9, <1>10, <2>1, FromZero
<1> QED
  BY <1>1, <1>11 DEF g

(* Every row is at or under a root.                                        *)
LEMMA HasRoot ==
  ASSUME Seen, NEW among \in SUBSET All, NEW i \in among
  PROVE  \E r \in among : r <= i /\ r \in Lineage(among, i) /\ Lineage(among, r) = {r}
<1> DEFINE rooted(k) == \E r \in among : r <= k /\ r \in Lineage(among, k) /\ Lineage(among, r) = {r}
           done == {m \in 0..Len(rows) : \A k \in among : k <= m => rooted(k)}
<1>1. Len(rows) \in Nat /\ among \subseteq 1..Len(rows)
  BY RowsSeen
<1>2. 0 \in done
  BY <1>1
<1>3. ASSUME NEW m \in 0..Len(rows) - 1, m \in done PROVE m + 1 \in done
  <2>1. ASSUME NEW k \in among, k <= m + 1 PROVE rooted(k)
    <3>1. CASE Lineage(among, k) = {k}
      BY <1>1, <3>1
    <3>2. CASE Lineage(among, k) # {k}
      <4>1. PICK p \in among : p < k /\ Lineage(among, k) = {k} \cup Lineage(among, p)
        BY <3>2, RowAbove
      <4>2. p <= m
        BY <1>1, <2>1, <4>1
      <4>3. PICK r \in among : r <= p /\ r \in Lineage(among, p) /\ Lineage(among, r) = {r}
        BY <1>3, <4>2
      <4>4. r <= k
        BY <1>1, <4>1, <4>3
      <4> QED
        BY <4>1, <4>3, <4>4
    <3> QED
      BY <3>1, <3>2
  <2>2. m + 1 \in 0..Len(rows)
    BY <1>1
  <2> HIDE DEF rooted
  <2> QED
    BY <2>1, <2>2
<1>4. Len(rows) \in done
  <2>1. Len(rows) \in 0..Len(rows)
    BY <1>1
  <2> HIDE DEF done
  <2> QED
    BY <1>1, <1>2, <1>3, <2>1, FromZero
<1>5. i <= Len(rows)
  BY <1>1
<1> QED
  BY <1>4, <1>5

-----------------------------------------------------------------------------
(* The frame starts with its window, named and shown.                      *)
Windowed ==
  /\ form \in {"flat", "nested"}
  /\ Len(rows) > 1 /\ rows[1].role = "AXWindow" /\ rows[1].depth = 0 /\ rows[1].shown /\ Says(1)

(* A set of not more than one has no other than the one known.             *)
LEMMA SingleRoot ==
  ASSUME NEW S, IsFiniteSet(S), NEW x \in S, ~(Cardinality(S) > 1)
  PROVE  S = {x}
<1> SUFFICES ASSUME NEW y \in S, y # x PROVE FALSE
  OBVIOUS
<1>1. {x, y} \in SUBSET S
  OBVIOUS
<1>2. Cardinality({x, y}) <= Cardinality(S)
  BY <1>1, FS_Subset
<1>3. {x, y} = {x} \cup {y} /\ IsFiniteSet({x}) /\ Cardinality({x}) = 1
  BY FS_Singleton
<1>4. Cardinality({x} \cup {y}) = Cardinality({x}) + 1
  BY <1>3, FS_AddElement
<1>5. Cardinality(S) \in Nat
  BY FS_CardinalityType
<1> QED
  BY <1>2, <1>3, <1>4, <1>5

LEMMA FirstIsRoot ==
  ASSUME Seen, NEW among \in SUBSET All, 1 \in among
  PROVE  Lineage(among, 1) = {1}
<1>1. \A j \in among : ~(j < 1)
  BY RowsSeen
<1> QED
  BY <1>1 DEF Lineage

(* A tree with one row more has the others in their places; if that row is  *)
(* its second root, all of them are under the window.                      *)
Continues(S, T, D) ==
  /\ \A i \in D : /\ S.lineage[i] = T.lineage[i] /\ i \in S.lineage[i]
                  /\ S.lineage[i] \subseteq D /\ IsFiniteSet(S.lineage[i])
  /\ 1 \in S.roots /\ 1 \in T.roots
  /\ S.wrapped = T.wrapped \/ \A i \in D : 1 \in S.lineage[i]
  /\ T.wrapped \in BOOLEAN /\ S.wrapped \in BOOLEAN
  /\ S.wrapped => T.wrapped

LEMMA SoonerTree ==
  ASSUME Seen, Windowed, NEW among \in SUBSET All, 1 \in among
  PROVE  Continues(Sooner!Tree(among \ {Len(rows)}), Tree(among), among \ {Len(rows)})
<1> DEFINE last == Len(rows)
           earlier == among \ {last}
           T == Tree(among)
           S == Sooner!Tree(earlier)
           rootsT == {i \in among : Lineage(among, i) = {i}}
           rootsS == {i \in earlier : Lineage(among, i) = {i}}
<1>1. /\ last \in Nat /\ last > 1 /\ All = 1..last /\ Sooner!All = 1..last - 1 /\ earlier \subseteq Sooner!All
      /\ 1 \in earlier
  <2>1. last \in Nat /\ last > 1 /\ All = 1..last /\ Sooner!All = 1..last - 1
    BY RowsSeen, SoonerRows DEF Windowed
  <2> HIDE DEF last
  <2>2. \A j \in 1..last : j # last => j \in 1..last - 1
    BY <2>1
  <2>3. 1 # last
    BY <2>1
  <2> QED
    BY <2>1, <2>2, <2>3
<1>2. \A i \in earlier : Sooner!Lineage(earlier, i) = Lineage(among, i)
  BY <1>1, SoonerLineage DEF Windowed
<1>3. \A i \in among : T.lineage[i] = Lineage(among, i)
  BY DEF Tree
<1>4. \A i \in earlier : S.lineage[i] = Lineage(among, i)
  BY <1>2 DEF Sooner!Tree
<1>5. T.roots = rootsT /\ T.wrapped = (Cardinality(rootsT) > 1)
  <2>1. {i \in among : [k \in among |-> Lineage(among, k)][i] = {i}} = rootsT
    OBVIOUS
  <2> QED
    BY <2>1 DEF Tree
<1>6. S.roots = rootsS /\ S.wrapped = (Cardinality(rootsS) > 1)
  <2>1. {i \in earlier : [k \in earlier |-> Sooner!Lineage(earlier, k)][i] = {i}} = rootsS
    BY <1>2
  <2> HIDE DEF earlier
  <2> QED
    BY <2>1, SoonerCardinality, Zenon DEF Sooner!Tree
<1> HIDE DEF T, S
<1>7. ASSUME NEW K \in SUBSET All PROVE IsFiniteSet(K)
  <2>1. IsFiniteSet(1..last)
    BY <1>1, FS_Interval
  <2> QED
    BY <1>1, <1>7, <2>1, FS_Subset
<1>8. ASSUME NEW i \in earlier
      PROVE  i \in Lineage(among, i) /\ Lineage(among, i) \subseteq earlier /\ IsFiniteSet(Lineage(among, i))
  <2>1. \A j \in among : j < i => j \in earlier
    BY <1>1
  <2>2. i \in Lineage(among, i) /\ Lineage(among, i) \subseteq earlier
    BY <2>1, Zenon DEF Lineage
  <2>3. earlier \subseteq All
    OBVIOUS
  <2> QED
    BY <1>7, <2>2, <2>3
<1>9. 1 \in rootsT /\ 1 \in rootsS
  BY <1>1, FirstIsRoot
<1>10. rootsS \subseteq rootsT /\ IsFiniteSet(rootsT) /\ IsFiniteSet(rootsS)
       /\ Cardinality(rootsS) <= Cardinality(rootsT)
       /\ Cardinality(rootsS) \in Nat /\ Cardinality(rootsT) \in Nat
  <2>1. rootsS \in SUBSET rootsT /\ rootsT \in SUBSET All /\ rootsS \in SUBSET All
    OBVIOUS
  <2>2. IsFiniteSet(rootsT) /\ IsFiniteSet(rootsS)
    BY <1>7, <2>1
  <2> HIDE DEF rootsT, rootsS
  <2> QED
    BY <2>1, <2>2, FS_Subset, FS_CardinalityType
<1>11. S.wrapped => T.wrapped
  <2>1. Cardinality(rootsS) > 1 => Cardinality(rootsT) > 1
    <3> HIDE DEF rootsT, rootsS
    <3> QED
      BY <1>10
  <2> HIDE DEF rootsT, rootsS
  <2> QED
    BY <1>5, <1>6, <2>1, Zenon
<1>12. ASSUME ~S.wrapped, NEW i \in earlier PROVE 1 \in S.lineage[i]
  <2>1. rootsS = {1}
    <3> HIDE DEF rootsS
    <3> QED
      BY <1>6, <1>9, <1>10, <1>12, SingleRoot
  <2>2. PICK r \in among : r <= i /\ r \in Lineage(among, i) /\ Lineage(among, r) = {r}
    BY HasRoot
  <2>3. r \in earlier
    BY <1>1, <2>2
  <2>4. r \in rootsS
    BY <2>2, <2>3
  <2> HIDE DEF rootsS
  <2> QED
    BY <1>4, <2>1, <2>2, <2>4
<1>13. S.wrapped = T.wrapped \/ \A i \in earlier : 1 \in S.lineage[i]
  <2>1. T.wrapped \in BOOLEAN /\ S.wrapped \in BOOLEAN
    BY <1>5, <1>6
  <2> QED
    BY <1>11, <1>12, <2>1
<1>14. T.wrapped \in BOOLEAN /\ S.wrapped \in BOOLEAN
  BY <1>5, <1>6
<1>15. \A i \in earlier : S.lineage[i] = T.lineage[i] /\ i \in S.lineage[i]
                          /\ S.lineage[i] \subseteq earlier /\ IsFiniteSet(S.lineage[i])
  BY <1>3, <1>4, <1>8
<1> QED
  BY <1>5, <1>6, <1>9, <1>11, <1>13, <1>14, <1>15 DEF T, S, Continues

LEMMA SoonerStripped ==
  ASSUME Seen, Windowed
  PROVE  \E D \in SUBSET Sooner!All :
           /\ Continues(Sooner!Stripped, Stripped, D)
           /\ Sooner!Stripped.nodes \subseteq D /\ 1 \in Sooner!Stripped.nodes
           /\ Sooner!Stripped.nodes = Stripped.nodes \ {Len(rows)} /\ Stripped.nodes \subseteq All
<1> DEFINE last == Len(rows)
<1>1. /\ last \in Nat /\ last > 1 /\ All = 1..last /\ Sooner!All = 1..last - 1
      /\ 1 \in All /\ 1 # last /\ ~Secure(1)
      /\ \A i \in Sooner!All : Sooner!Secure(i) <=> Secure(i)
  <2>1. Len(rows) \in Nat /\ Len(rows) > 1 /\ All = 1..Len(rows) /\ Sooner!All = 1..Len(rows) - 1 /\ ~Secure(1)
    BY RowsSeen, SoonerRows DEF Windowed, Secure
  <2>2. \A i \in Sooner!All : Sooner!Secure(i) <=> Secure(i)
    BY SoonerRows DEF Windowed
  <2>3. 1 \in 1..Len(rows) /\ 1 # Len(rows)
    BY <2>1
  <2> QED
    BY <2>1, <2>2, <2>3
<1>2. Sooner!All = All \ {last}
  <2> HIDE DEF last
  <2> QED
    BY <1>1
<1> HIDE DEF last
<1>3. CASE form = "flat"
  <2>1. 1 \in PruneFlat /\ PruneFlat \in SUBSET All
    <3>1. 0 \in 0..last /\ 1 \in 0..last /\ 1 # 0 /\ 1 - 1 = 0
      BY <1>1
    <3>2. SecureDepth[0] = NoDepth /\ SecureDepth[1] = NextDepth(SecureDepth[0], 1)
      BY <3>1, SecureDepthFunction DEF last
    <3> QED
      BY <1>1, <3>2 DEF PruneFlat, NextDepth
  <2>2. Sooner!PruneFlat = PruneFlat \ {last}
    <3>1. \A i \in Sooner!All : Sooner!SecureDepth[i] = SecureDepth[i]
      BY SoonerDepths DEF Windowed
    <3> QED
      BY <1>2, <3>1, SoonerConstants DEF PruneFlat, Sooner!PruneFlat
  <2>3. Stripped = Tree(PruneFlat) /\ Sooner!Stripped = Sooner!Tree(PruneFlat \ {last})
    BY <1>3, <2>2 DEF Stripped, Sooner!Stripped
  <2>4. Tree(PruneFlat).nodes = PruneFlat /\ Sooner!Tree(PruneFlat \ {last}).nodes = PruneFlat \ {last}
    BY DEF Tree, Sooner!Tree
  <2> HIDE DEF PruneFlat
  <2>5. PruneFlat \ {last} \in SUBSET Sooner!All /\ 1 \in PruneFlat \ {last}
    BY <1>1, <1>2, <2>1
  <2>6. Continues(Sooner!Tree(PruneFlat \ {last}), Tree(PruneFlat), PruneFlat \ {last})
    BY <2>1, SoonerTree DEF last
  <2> QED
    BY <2>1, <2>3, <2>4, <2>5, <2>6 DEF last
<1>4. CASE form = "nested"
  <2> DEFINE T == Tree(All)
             S == Sooner!Tree(All \ {last})
             keptT == {i \in All : \A j \in T.lineage[i] : ~Secure(j)}
             keptS == {i \in All \ {last} : \A j \in S.lineage[i] : ~Sooner!Secure(j)}
  <2>1. Continues(S, T, All \ {last})
    <3>1. All \in SUBSET All /\ 1 \in All
      BY <1>1
    <3> QED
      BY <3>1, SoonerTree DEF last
  <2>2. /\ Stripped.nodes = keptT /\ Stripped.lineage = T.lineage /\ Stripped.wrapped = T.wrapped
        /\ Stripped.roots = T.roots \cap keptT
    BY <1>4 DEF Stripped, Tree
  <2>3. /\ Sooner!Stripped.nodes = keptS /\ Sooner!Stripped.lineage = S.lineage
        /\ Sooner!Stripped.wrapped = S.wrapped /\ Sooner!Stripped.roots = S.roots \cap keptS
    BY <1>2, <1>4 DEF Sooner!Stripped, Sooner!Tree
  <2>4. T.lineage[1] = {1}
    <3>1. T.lineage[1] = Lineage(All, 1)
      BY <1>1 DEF Tree
    <3> HIDE DEF T
    <3> QED
      BY <1>1, <3>1, FirstIsRoot
  <2> HIDE DEF T, S
  <2>5. ASSUME NEW i \in All \ {last} PROVE i \in keptS <=> i \in keptT
    <3>1. S.lineage[i] = T.lineage[i] /\ S.lineage[i] \subseteq Sooner!All
      BY <1>2, <2>1 DEF Continues
    <3>2. \A j \in S.lineage[i] : Sooner!Secure(j) <=> Secure(j)
      BY <1>1, <3>1
    <3> QED
      BY <3>1, <3>2
  <2>6. 1 \in keptT /\ 1 \in All \ {last}
    BY <1>1, <2>4
  <2>7. keptS \subseteq All \ {last} /\ keptT \subseteq All /\ All \ {last} \in SUBSET Sooner!All
    BY <1>2
  <2> HIDE DEF keptT, keptS
  <2>8. keptS = keptT \ {last} /\ 1 \in keptS
    BY <2>5, <2>6, <2>7
  <2>9. Continues(Sooner!Stripped, Stripped, All \ {last})
    BY <2>1, <2>2, <2>3, <2>6, <2>8 DEF Continues
  <2> QED
    BY <2>2, <2>3, <2>7, <2>8, <2>9 DEF last
<1> QED
  BY <1>3, <1>4 DEF Windowed

(* The window hangs from nothing.                                          *)
LEMMA WindowAlone ==
  ASSUME Seen, Windowed
  PROVE  Stripped.lineage[1] = {1}
<1>1. 1 \in All /\ 1 \in Stripped.nodes
  <2>1. PICK D \in SUBSET Sooner!All : 1 \in Sooner!Stripped.nodes /\ Sooner!Stripped.nodes = Stripped.nodes \ {Len(rows)}
                                      /\ Stripped.nodes \subseteq All
    BY SoonerStripped
  <2> QED
    BY <2>1
<1>2. CASE form = "flat"
  <2>1. Stripped = Tree(PruneFlat)
    BY <1>2 DEF Stripped
  <2>2. 1 \in PruneFlat /\ PruneFlat \in SUBSET All
    BY <1>1, <2>1 DEF Tree, PruneFlat
  <2>3. Tree(PruneFlat).lineage[1] = Lineage(PruneFlat, 1)
    BY <2>2 DEF Tree
  <2> QED
    BY <2>1, <2>2, <2>3, FirstIsRoot
<1>3. CASE form = "nested"
  <2>1. Stripped.lineage = Tree(All).lineage
    BY <1>3 DEF Stripped, Tree
  <2>2. Tree(All).lineage[1] = Lineage(All, 1)
    BY <1>1 DEF Tree
  <2> QED
    BY <1>1, <2>1, <2>2, FirstIsRoot
<1> QED
  BY <1>2, <1>3 DEF Windowed

(* They are read into the same lines.                                      *)
SameLines(S, T) ==
  \A i \in S.nodes : /\ S.lineage[i] = T.lineage[i]
                     /\ Sooner!LineDomain(S, i) = LineDomain(T, i)
                     /\ i \in Sooner!Walked(S) <=> i \in Walked(T)

LEMMA SoonerTrees ==
  ASSUME Seen, Windowed
  PROVE  SameLines(Sooner!Stripped, Stripped)
<1> DEFINE T == Stripped
           S == Sooner!Stripped
           line(i) == S.lineage[i]
           in(i, roles) == {j \in line(i) : rows[j].role \in roles}
<1> HIDE DEF T, S
<1>0. PICK D \in SUBSET Sooner!All :
         /\ Continues(S, T, D) /\ S.nodes \subseteq D /\ 1 \in S.nodes
         /\ S.nodes = T.nodes \ {Len(rows)} /\ T.nodes \subseteq All
  BY SoonerStripped DEF T, S
<1>1. /\ S.nodes \subseteq D /\ S.nodes = T.nodes \ {Len(rows)} /\ D \in SUBSET Sooner!All
      /\ \A i \in D : /\ S.lineage[i] = T.lineage[i] /\ i \in S.lineage[i]
                      /\ S.lineage[i] \subseteq D /\ IsFiniteSet(S.lineage[i])
      /\ S.wrapped = T.wrapped \/ \A i \in D : 1 \in S.lineage[i]
      /\ T.wrapped \in BOOLEAN /\ S.wrapped \in BOOLEAN
      /\ S.wrapped => T.wrapped
  BY <1>0 DEF Continues
<1> DEFINE before == SubSeq(rows, 1, Len(rows) - 1)
<1>2. \A i \in D : i \in All /\ before[i] = rows[i]
  BY SoonerRows DEF Windowed
<1> HIDE DEF before
<1>3. \A S2 : Sooner!Max(S2) = Max(S2)
  BY DEF Max, Sooner!Max
<1>4. ASSUME NEW i \in D
      PROVE  /\ S.wrapped = T.wrapped => Sooner!LevelOf(S, i) = LevelOf(T, i)
             /\ S.wrapped # T.wrapped => LevelOf(T, i) = Sooner!LevelOf(S, i) + 1
             /\ LevelOf(T, i) \in Int /\ Sooner!LevelOf(S, i) \in Int
  <2>1. Cardinality(line(i)) \in Nat /\ T.lineage[i] = line(i)
    BY <1>1, FS_CardinalityType
  <2>2. Sooner!LevelOf(S, i) = Cardinality(line(i)) - 1 + (IF S.wrapped THEN 1 ELSE 0)
    BY SoonerCardinality DEF Sooner!LevelOf
  <2>3. LevelOf(T, i) = Cardinality(line(i)) - 1 + (IF T.wrapped THEN 1 ELSE 0)
    BY <2>1 DEF LevelOf
  <2> HIDE DEF line
  <2> DEFINE n == Cardinality(line(i))
  <2>4. (T.wrapped => LevelOf(T, i) = n) /\ (~T.wrapped => LevelOf(T, i) = n - 1)
    BY <2>1, <2>3
  <2>5. (S.wrapped => Sooner!LevelOf(S, i) = n) /\ (~S.wrapped => Sooner!LevelOf(S, i) = n - 1)
    BY <2>1, <2>2
  <2> HIDE DEF n
  <2>6. n \in Nat
    BY <2>1 DEF n
  <2>7. CASE S.wrapped = T.wrapped
    <3>1. Sooner!LevelOf(S, i) = LevelOf(T, i) /\ (LevelOf(T, i) = n \/ LevelOf(T, i) = n - 1)
      BY <1>1, <2>4, <2>5, <2>7, Zenon
    <3>2. n \in Int /\ n - 1 \in Int
      BY <2>6
    <3> QED
      BY <2>7, <3>1, <3>2, Zenon
  <2>8. CASE S.wrapped # T.wrapped
    <3>1. LevelOf(T, i) = n /\ Sooner!LevelOf(S, i) = n - 1
      BY <1>1, <2>4, <2>5, <2>8, Zenon
    <3>2. n \in Int /\ n - 1 \in Int /\ n = (n - 1) + 1
      BY <2>6
    <3> QED
      BY <2>8, <3>1, <3>2, Zenon
  <2> QED
    BY <2>7, <2>8
<1>5. ASSUME NEW i \in D, NEW roles
      PROVE  {j \in line(i) : before[j].role \in roles} = in(i, roles)
  BY <1>1, <1>2
<1>6. ASSUME NEW i \in D
      PROVE  Sooner!RelativeDepth(S, i) = RelativeDepth(T, i)
  <2> DEFINE windows == in(i, WindowRoles)
  <2>1. Sooner!RelativeDepth(S, i) = IF windows = {} THEN Sooner!LevelOf(S, i)
                                     ELSE Sooner!LevelOf(S, i) - Sooner!LevelOf(S, Max(windows))
    <3>1. {j \in S.lineage[i] : before[j].role \in WindowRoles} = windows
      BY <1>5
    <3> HIDE DEF windows
    <3> QED
      BY <1>3, <3>1, SoonerConstants DEF Sooner!RelativeDepth, before
  <2>2. RelativeDepth(T, i) = IF windows = {} THEN LevelOf(T, i) ELSE LevelOf(T, i) - LevelOf(T, Max(windows))
    BY <1>1 DEF RelativeDepth
  <2>3. CASE windows = {}
    <3>1. 1 \notin line(i)
      BY <2>3 DEF Windowed, WindowRoles
    <3>2. S.wrapped = T.wrapped
      BY <1>1, <3>1
    <3> QED
      BY <1>4, <2>1, <2>2, <2>3, <3>2
  <2>4. CASE windows # {}
    <3>1. windows \subseteq D
      BY <1>1
    <3>2. Max(windows) \in windows
      <4>1. windows \in SUBSET (0..Len(rows)) /\ Len(rows) \in Nat
        <5>1. D \subseteq 0..Len(rows) /\ Len(rows) \in Nat
          BY <1>2, RowsSeen
        <5> HIDE DEF windows
        <5> QED
          BY <3>1, <5>1
      <4> HIDE DEF windows
      <4> QED
        BY <2>4, <4>1, Greatest
    <3> HIDE DEF windows
    <3>3. Max(windows) \in D
      BY <3>1, <3>2
    <3> QED
      BY <1>4, <2>1, <2>2, <2>4, <3>3
  <2> QED
    BY <2>3, <2>4
<1>7. ASSUME NEW i \in D
      PROVE  Sooner!Domain(S, i) = Domain(T, i)
  <2> DEFINE takers == in(i, ActionRoles \cup NavRoles)
  <2>1. {j \in S.lineage[i] : before[j].role \in ActionRoles \cup NavRoles} = takers
    BY <1>5
  <2>2. (\E j \in S.lineage[i] : before[j].role \in BodyRoles) <=> (\E j \in T.lineage[i] : rows[j].role \in BodyRoles)
    BY <1>1, <1>2
  <2>3. {j \in T.lineage[i] : rows[j].role \in ActionRoles \cup NavRoles} = takers
    BY <1>1
  <2>4. takers # {} => before[Max(takers)] = rows[Max(takers)]
    <3> SUFFICES ASSUME takers # {} PROVE before[Max(takers)] = rows[Max(takers)]
      OBVIOUS
    <3>1. takers \subseteq D
      BY <1>1
    <3>2. Max(takers) \in takers
      <4>1. takers \in SUBSET (0..Len(rows)) /\ Len(rows) \in Nat
        <5>1. D \subseteq 0..Len(rows) /\ Len(rows) \in Nat
          BY <1>2, RowsSeen
        <5> HIDE DEF takers
        <5> QED
          BY <3>1, <5>1
      <4> HIDE DEF takers
      <4> QED
        BY <4>1, Greatest
    <3> HIDE DEF takers
    <3> QED
      BY <1>2, <3>1, <3>2
  <2> HIDE DEF takers
  <2> QED
    BY <1>3, <2>1, <2>2, <2>3, <2>4, SoonerConstants DEF Domain, Sooner!Domain, before
<1>8. ASSUME NEW i \in D
      PROVE  Sooner!LineDomain(S, i) = LineDomain(T, i)
  BY <1>2, <1>6, <1>7, SoonerConstants DEF LineDomain, Sooner!LineDomain, before
<1>9. ASSUME NEW i \in S.nodes
      PROVE  i \in Sooner!Walked(S) <=> i \in Walked(T)
  <2>1. i \in D /\ i \in T.nodes /\ S.lineage[i] = T.lineage[i]
    BY <1>1
  <2>2. \A j \in S.lineage[i] : before[j].shown = rows[j].shown
    BY <1>1, <1>2, <2>1
  <2> QED
    BY <2>1, <2>2, <1>9 DEF Walked, Sooner!Walked, before
<1> QED
  BY <1>1, <1>8, <1>9 DEF T, S, SameLines

(* The window itself is told of, and so its title is not added to the      *)
(* lines, nor its words taken for a lone body.                             *)
LEMMA LinesOfWindow ==
  ASSUME NEW tree, 1 \in tree.nodes, tree.lineage[1] = {1}, 1 \in tree.roots,
         rows[1].role = "AXWindow", rows[1].shown, Says(1)
  PROVE  /\ Line("window", 1) \in Lines(tree)
         /\ \A d, i : Line(d, i) \in Lines(tree) <=>
                        /\ i \in Walked(tree) /\ Says(i)
                        /\ d = LineDomain(tree, i) /\ d # "none"
         /\ \A l \in Lines(tree) : \E d, i : l = Line(d, i)
<1> DEFINE spoken == {i \in Walked(tree) : Says(i)}
           told == {l \in {Line(LineDomain(tree, i), i) : i \in spoken} : l.domain # "none"}
<1>1. \A d, i, e, j : /\ Line(d, i).domain = d
                      /\ Line(d, i) = Line(e, j) => d = e /\ i = j
  <2>1. \A d, i : Line(d, i).domain = d /\ Line(d, i).row = i
    BY DEF Line
  <2> QED
    BY <2>1
<1>2. TitleLines(tree) = {}
  BY DEF TitleLines, WindowRoles
<1>3. 1 \in spoken /\ LineDomain(tree, 1) = "window"
  <2>1. 1 \in spoken
    BY DEF Walked
  <2>2. rows[1].role \in WindowRoles
    BY DEF WindowRoles
  <2>3. LineDomain(tree, 1) = "window"
    BY <2>2 DEF LineDomain
  <2> HIDE DEF spoken
  <2> QED
    BY <2>1, <2>3
<1>4. Line("window", 1) \in told
  BY <1>1, <1>3
<1>5. Lines(tree) = told
  BY <1>2, <1>4 DEF Lines
<1>6. ASSUME NEW d, NEW i
      PROVE  Line(d, i) \in told <=> i \in spoken /\ d = LineDomain(tree, i) /\ d # "none"
  BY <1>1
<1> QED
  BY <1>4, <1>5, <1>6

LEMMA SoonerLinesOfWindow ==
  ASSUME NEW tree, 1 \in tree.nodes, tree.lineage[1] = {1}, 1 \in tree.roots,
         SubSeq(rows, 1, Len(rows) - 1)[1].role = "AXWindow", SubSeq(rows, 1, Len(rows) - 1)[1].shown, Sooner!Says(1)
  PROVE  /\ Sooner!Line("window", 1) \in Sooner!Lines(tree)
         /\ \A d, i : Sooner!Line(d, i) \in Sooner!Lines(tree) <=>
                        /\ i \in Sooner!Walked(tree) /\ Sooner!Says(i)
                        /\ d = Sooner!LineDomain(tree, i) /\ d # "none"
         /\ \A l \in Sooner!Lines(tree) : \E d, i : l = Sooner!Line(d, i)
<1> DEFINE spoken == {i \in Sooner!Walked(tree) : Sooner!Says(i)}
           told == {l \in {Sooner!Line(Sooner!LineDomain(tree, i), i) : i \in spoken} : l.domain # "none"}
<1>1. \A d, i, e, j : /\ Sooner!Line(d, i).domain = d
                      /\ Sooner!Line(d, i) = Sooner!Line(e, j) => d = e /\ i = j
  <2>1. \A d, i : Sooner!Line(d, i).domain = d /\ Sooner!Line(d, i).row = i
    BY DEF Sooner!Line
  <2> QED
    BY <2>1
<1>2. Sooner!TitleLines(tree) = {}
  BY DEF Sooner!TitleLines, Sooner!WindowRoles
<1>3. 1 \in spoken /\ Sooner!LineDomain(tree, 1) = "window"
  <2>1. 1 \in spoken
    BY DEF Sooner!Walked
  <2>2. SubSeq(rows, 1, Len(rows) - 1)[1].role \in Sooner!WindowRoles
    BY DEF Sooner!WindowRoles
  <2>3. Sooner!LineDomain(tree, 1) = "window"
    BY <2>2 DEF Sooner!LineDomain
  <2> HIDE DEF spoken
  <2> QED
    BY <2>1, <2>3
<1>4. Sooner!Line("window", 1) \in told
  BY <1>1, <1>3
<1>5. Sooner!Lines(tree) = told
  BY <1>2, <1>4 DEF Sooner!Lines
<1>6. ASSUME NEW d, NEW i
      PROVE  Sooner!Line(d, i) \in told <=> i \in spoken /\ d = Sooner!LineDomain(tree, i) /\ d # "none"
  BY <1>1
<1> QED
  BY <1>4, <1>5, <1>6

(* The lines of a windowed frame are those of the frame before its last    *)
(* row, and at most one of that row.                                       *)
LEMMA LinesContinue ==
  ASSUME Seen, Windowed
  PROVE  /\ Line("window", 1) \in Lines(Stripped) /\ Line("window", 1) \in Sooner!Lines(Sooner!Stripped)
         /\ \A d : \A i \in All \ {Len(rows)} :
              Line(d, i) \in Sooner!Lines(Sooner!Stripped) <=> Line(d, i) \in Lines(Stripped)
         /\ \A d, i : Line(d, i) \in Sooner!Lines(Sooner!Stripped) => i \in Sooner!Stripped.nodes
         /\ \A d, i : Line(d, i) \in Lines(Stripped) => i \in Stripped.nodes
<1> DEFINE S == Sooner!Stripped
           T == Stripped
<1> HIDE DEF S, T
<1>1. PICK D \in SUBSET Sooner!All :
        /\ Continues(S, T, D) /\ S.nodes \subseteq D /\ 1 \in S.nodes
        /\ S.nodes = T.nodes \ {Len(rows)} /\ T.nodes \subseteq All
  BY SoonerStripped DEF S, T
<1>2. SameLines(S, T)
  BY SoonerTrees DEF S, T
<1>3. 1 \in T.nodes /\ 1 \in S.roots /\ 1 \in T.roots
  BY <1>1 DEF Continues
<1>4. S.lineage[1] = {1} /\ T.lineage[1] = {1}
  BY <1>1, <1>2, WindowAlone DEF SameLines, S, T
<1>5. /\ rows[1].role = "AXWindow" /\ rows[1].shown /\ Says(1)
      /\ 1 \in Sooner!All /\ SubSeq(rows, 1, Len(rows) - 1)[1] = rows[1] /\ (Sooner!Says(1) <=> Says(1))
  BY <1>1, SoonerRows DEF Windowed
<1>6. /\ Line("window", 1) \in Lines(T)
      /\ \A d, i : Line(d, i) \in Lines(T) <=>
                     /\ i \in Walked(T) /\ Says(i)
                     /\ d = LineDomain(T, i) /\ d # "none"
  BY <1>3, <1>4, <1>5, LinesOfWindow
<1>7. /\ Sooner!Line("window", 1) \in Sooner!Lines(S)
      /\ \A d, i : Sooner!Line(d, i) \in Sooner!Lines(S) <=>
                     /\ i \in Sooner!Walked(S) /\ Sooner!Says(i)
                     /\ d = Sooner!LineDomain(S, i) /\ d # "none"
  BY <1>1, <1>3, <1>4, <1>5, SoonerLinesOfWindow
<1>8. \A d, i : Sooner!Line(d, i) = Line(d, i)
  BY SoonerConstants
<1>9. (\A i \in Walked(T) : i \in T.nodes) /\ (\A i \in Sooner!Walked(S) : i \in S.nodes)
  BY DEF Walked, Sooner!Walked
<1>10. \A i \in S.nodes : Sooner!Says(i) <=> Says(i)
  BY <1>1, SoonerRows DEF Windowed
<1>11. ASSUME NEW d, NEW i \in All \ {Len(rows)}
       PROVE  Line(d, i) \in Sooner!Lines(S) <=> Line(d, i) \in Lines(T)
  <2>1. CASE i \in S.nodes
    BY <1>2, <1>6, <1>7, <1>8, <1>10, <2>1 DEF SameLines
  <2>2. CASE i \notin S.nodes
    <3>1. i \notin T.nodes
      BY <1>1, <2>2
    <3> QED
      BY <1>6, <1>7, <1>8, <1>9, <2>2, <3>1
  <2> QED
    BY <2>1, <2>2
<1> QED
  BY <1>6, <1>7, <1>8, <1>9, <1>11 DEF S, T

(* A session is named by navigation and windows alone.                     *)
LEMMA KeyContinues ==
  ASSUME Seen, Windowed,
         \A l \in Lines(Stripped) \ Sooner!Lines(Sooner!Stripped) : l.domain \in {"body", "action"}
  PROVE  Sooner!ContextKey(Sooner!Stripped, Sooner!Lines(Sooner!Stripped))
           = ContextKey(Stripped, Lines(Stripped))
<1> DEFINE S == Sooner!Stripped
           T == Stripped
           before == Sooner!Lines(S)
           after == Lines(T)
<1>1. /\ \A d : \A i \in All \ {Len(rows)} : Line(d, i) \in before <=> Line(d, i) \in after
      /\ \A d, i : Line(d, i) \in before => i \in S.nodes
      /\ \A d, i : Line(d, i) \in after => i \in T.nodes
  BY LinesContinue
<1>2. /\ S.nodes = T.nodes \ {Len(rows)} /\ T.nodes \subseteq All /\ S.nodes \subseteq Sooner!All
  BY SoonerStripped
<1>3. \A i \in S.nodes : S.lineage[i] = T.lineage[i]
  BY SoonerTrees DEF SameLines
<1> HIDE DEF S, T, before, after
<1>4. ASSUME NEW d \in {"nav", "window"}, NEW i
      PROVE  Line(d, i) \in before <=> Line(d, i) \in after
  <2>1. Line(d, i) \in after => i # Len(rows) \/ Line(d, i) \in before
    <3>1. Line(d, i).domain = d /\ d \notin {"body", "action"}
      BY DEF Line
    <3> QED
      BY <3>1 DEF before, after, S, T
  <2> QED
    BY <1>1, <1>2, <2>1
<1>5. \A i \in S.nodes : /\ i \in All /\ i \in Sooner!All /\ (Sooner!Noise(i) <=> Noise(i))
                         /\ SubSeq(rows, 1, Len(rows) - 1)[i] = rows[i]
  BY <1>2, SoonerRows DEF Windowed
<1> DEFINE told(d) == {i \in All : Line(d, i) \in after /\ ~Noise(i)}
<1>6. ASSUME NEW d \in {"nav", "window"}
      PROVE  /\ {i \in Sooner!All : Sooner!Line(d, i) \in before /\ ~Sooner!Noise(i)} = told(d)
             /\ told(d) \subseteq S.nodes
  <2>1. \A i : Line(d, i) \in after => i \in S.nodes
    BY <1>1, <1>4
  <2> QED
    BY <1>4, <1>5, <2>1, SoonerConstants
<1>7. \A i, j \in S.nodes : Sooner!Earlier(S, i, j) <=> Earlier(T, i, j)
  <2>1. \A K : Sooner!Min(K) = Min(K)
    BY DEF Min, Sooner!Min
  <2> QED
    BY <1>3, <2>1 DEF Earlier, Sooner!Earlier
<1>8. \A i \in S.nodes : Sooner!Priority(i) = Priority(i)
  BY <1>5 DEF Priority, Sooner!Priority
<1>9. Sooner!Named(S, before) = Named(T, after)
  <2> DEFINE nav == told("nav")
             navS == {i \in Sooner!All : Sooner!Line("nav", i) \in before /\ ~Sooner!Noise(i)}
             score(i) == IF rows[i].role \in NavRoles \cup {"AXStaticText"} THEN Priority(i) ELSE 49
             scoreS(i) == IF SubSeq(rows, 1, Len(rows) - 1)[i].role \in Sooner!NavRoles \cup {"AXStaticText"}
                          THEN Sooner!Priority(i) ELSE 49
  <2>1. Named(T, after) = {i \in nav : \A j \in nav \ {i} :
                             score(i) > score(j) \/ (score(i) = score(j) /\ Earlier(T, i, j))}
    BY DEF Named
  <2>2. Sooner!Named(S, before) = {i \in navS : \A j \in navS \ {i} :
                                     scoreS(i) > scoreS(j) \/ (scoreS(i) = scoreS(j) /\ Sooner!Earlier(S, i, j))}
    BY DEF Sooner!Named
  <2>3. \A i \in S.nodes : scoreS(i) = score(i)
    BY <1>5, <1>8, SoonerConstants
  <2>4. navS = nav /\ nav \subseteq S.nodes
    BY <1>6
  <2> HIDE DEF nav, navS, score, scoreS
  <2> QED
    BY <1>7, <2>1, <2>2, <2>3, <2>4
<1>10. Sooner!FirstWindow(S, before) = FirstWindow(T, after)
  BY <1>4, <1>6, <1>7, SoonerConstants DEF FirstWindow, Sooner!FirstWindow
<1> QED
  BY <1>9, <1>10, SoonerConstants, SoonerTitle DEF ContextKey, Sooner!ContextKey, before, after, S, T

LEMMA BodyKeeps ==
  ASSUME Seen
  PROVE  BodyKeepsItsSession
<1> SUFFICES ASSUME Len(rows) > 1, rows[1].role = "AXWindow", rows[1].depth = 0, rows[1].shown, Says(1),
                    \A l \in Extract.lines \ Sooner!Extract.lines : l.domain \in {"body", "action"}
             PROVE  Extract.key = Sooner!Extract.key
  BY DEF BodyKeepsItsSession
<1>1. form \in {"flat", "nested", "records", "unlinked"}
  BY DEF Seen
<1>2. CASE form \in {"records", "unlinked"}
  BY <1>2, SoonerTitle, SoonerConstants DEF Extract, FromRecords, Sooner!Extract, Sooner!FromRecords
<1>3. CASE form \in {"flat", "nested"}
  <2>1. Windowed
    BY <1>3 DEF Windowed
  <2>2. Lines(Stripped) # {} /\ Sooner!Lines(Sooner!Stripped) # {}
    BY <2>1, LinesContinue
  <2>3. /\ Extract.lines = Lines(Stripped)
        /\ Extract.key = ContextKey(Stripped, Lines(Stripped))
    BY <1>3, <2>2 DEF Extract, FromTree
  <2>4. /\ Sooner!Extract.lines = Sooner!Lines(Sooner!Stripped)
        /\ Sooner!Extract.key = Sooner!ContextKey(Sooner!Stripped, Sooner!Lines(Sooner!Stripped))
    BY <1>3, <2>2 DEF Sooner!Extract, Sooner!FromTree
  <2> QED
    BY <2>1, <2>3, <2>4, KeyContinues
<1> QED
  BY <1>1, <1>2, <1>3

(* What is shown in the body or in a menu of a window, however much of it, *)
(* leaves a frame in its session.                                          *)
THEOREM BodyTheorem == FrameSpec => []BodyKeepsItsSession
<1> QED
  BY SeenInit, SeenStep, BodyKeeps, PTL DEF FrameSpec
=============================================================================
