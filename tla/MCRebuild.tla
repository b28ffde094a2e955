----------------------------- MODULE MCRebuild ------------------------------
(* Indexing, and a rebuild over it, on a few frames, one per tick; the last *)
(* one holds no text.                                                       *)
EXTENDS Rebuild

TickOf      == [f \in Frames |-> f]
LastIsEmpty == {N}

Set(fresh, batches, page, newest, seeded) ==
  [freshness |-> fresh, batches |-> batches, page |-> page,
   newestFirst |-> newest, seeded |-> seeded]

(* Keeping up, and recovering a gap in several runs from either end.  *)
KeepsUp    == Set(4, 1, 2, TRUE, TRUE)
CatchesUp  == {Set(3, 1, 1, TRUE, FALSE), Set(1, 3, 1, FALSE, FALSE)}

Varied == CatchesUp \cup {KeepsUp}

(* A second failure only where no gap is worked off.                        *)
SomeFaults == setting = KeepsUp \/ faults <= 1
=============================================================================
