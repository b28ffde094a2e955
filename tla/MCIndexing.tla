----------------------------- MODULE MCIndexing -----------------------------
(* Indexing on a few frames, one per tick; the last one holds no text. *)
EXTENDS Indexing

TickOf      == [f \in Frames |-> f]
LastIsEmpty == {N}

Set(fresh, batches, page, newest, seeded) ==
  [freshness |-> fresh, batches |-> batches, page |-> page,
   newestFirst |-> newest, seeded |-> seeded]

(* One frame per run, and recovering a gap in several runs from either end. *)
NoBatching == Set(1, 1, 1, TRUE, FALSE)
CatchesUp  == {Set(3, 1, 1, TRUE, FALSE), Set(1, 3, 1, FALSE, FALSE)}

Narrow == {NoBatching}
=============================================================================
