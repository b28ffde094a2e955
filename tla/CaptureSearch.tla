---------------------------- MODULE CaptureSearch ----------------------------
(***************************************************************************)
(* Reading the capture source page by page (HttpScreenpipeClient in        *)
(* providers/screenpipe/http-client.ts): every page is two queries, one    *)
(* for accessibility and one for OCR rows, merged by frame.  recent() and  *)
(* the catch-up of fetchCandidateRecords (retrieval/indexing-service.ts)   *)
(* advance one offset by the size of the merged page, and a short merged   *)
(* page ends them.  Each query is an await: frames may be deleted from the *)
(* source between two of them.                                             *)
(***************************************************************************)
EXTENDS Integers, FiniteSets

CONSTANTS
  Span,          \* frames in the window of the search: positions 1..Span in time
  Sources,       \* what the source may hold: functions from positions to rows
  PageLimit,     \* limit: rows of one kind in the answer to a query
  MaxBatches,    \* maxCatchUpBatches; recent() has no such bound
  SearchFaults   \* bound on failing queries

Kinds == {"ax", "ocr"}
Positions == 1..Span

(* The kinds of row a frame has, and those that carry text or a usable tree *)
SourceRow == [has : SUBSET Kinds, usable : SUBSET Kinds]

ASSUME SearchAssumption ==
  /\ Span \in Nat /\ {PageLimit, MaxBatches} \subseteq Nat \ {0} /\ SearchFaults \in Nat
  /\ Sources \subseteq [Positions -> SourceRow]
  /\ \A s \in Sources : \A f \in Positions : s[f].usable \subseteq s[f].has

VARIABLES
  inSource,      \* the rows of each frame
  there,         \* frames the source still has
  walk,          \* the call: [pc, bounded, off, batch]
  ax,            \* the answer to the page's accessibility query
  axFailed,
  returned,      \* returned[f]: the kinds f was returned as so far
  thinned,       \* ghost: a frame was deleted during the call
  queryFaults
searchVars == <<inSource, there, walk, ax, axFailed, returned, thinned, queryFaults>>

NoCallYet == [pc |-> "idle", bounded |-> FALSE, off |-> 0, batch |-> 0]

SearchInit ==
  /\ inSource \in Sources /\ there = Positions /\ walk = NoCallYet
  /\ ax = {} /\ axFailed = FALSE /\ returned = [f \in Positions |-> {}]
  /\ thinned = FALSE /\ queryFaults = 0

QueryFault == queryFaults < SearchFaults /\ queryFaults' = queryFaults + 1

-----------------------------------------------------------------------------
(* The source pages the rows of one kind, newest first (as the poller      *)
(* meets it); rows without text or a usable tree are dropped afterwards.   *)
RowNumber(f, k) == Cardinality({g \in there : k \in inSource[g].has /\ f <= g})

Page(k) ==
  {f \in there : k \in inSource[f].has /\ RowNumber(f, k) \in walk.off + 1 .. walk.off + PageLimit}

SearchPage(k) == {f \in Page(k) : k \in inSource[f].usable}

(* recent(minutes), and a catch-up of at most MaxBatches pages per run.    *)
Begin ==
  /\ walk.pc = "idle"
  /\ \E b \in BOOLEAN : walk' = [NoCallYet EXCEPT !.pc = "ax", !.bounded = b]
  /\ UNCHANGED <<inSource, there, ax, axFailed, returned, thinned, queryFaults>>

QueryAx ==
  /\ walk.pc = "ax"
  /\ \/ ax' = SearchPage("ax") /\ axFailed' = FALSE /\ UNCHANGED queryFaults
     \/ ax' = {} /\ axFailed' = TRUE /\ QueryFault
  /\ walk' = [walk EXCEPT !.pc = "ocr"]
  /\ UNCHANGED <<inSource, there, returned, thinned>>

(* mergeByFrameId: an accessibility row wins over an OCR row of its frame. *)
MergeByFrameId(ocr) ==
  [f \in Positions |-> IF f \in ax THEN {"ax"} ELSE IF f \in ocr THEN {"ocr"} ELSE {}]

(* Mutant: the rows of both queries are counted.                           *)
AdvanceByRows(ocr) ==
  LET size == Cardinality(ax) + Cardinality(ocr)
  IN  IF size < PageLimit THEN [walk EXCEPT !.pc = "done"]
      ELSE [walk EXCEPT !.pc = "ax", !.off = @ + size, !.batch = @ + 1]

Advance(ocr) ==
  LET size  == Cardinality(ax \cup ocr)
      moved == [walk EXCEPT !.pc = "ax", !.off = @ + size,
                            !.batch = IF walk.bounded THEN @ + 1 ELSE 0]
  IN  IF size < PageLimit THEN [walk EXCEPT !.pc = "done"]
      ELSE IF walk.bounded /\ moved.batch = MaxBatches THEN [moved EXCEPT !.pc = "more"]
      ELSE moved

(* A page fails only if both of its queries do.                            *)
QueryOcr ==
  /\ walk.pc = "ocr"
  /\ \/ /\ LET ocr == SearchPage("ocr")
           IN  /\ returned' = [f \in Positions |-> returned[f] \cup MergeByFrameId(ocr)[f]]
               /\ walk' = Advance(ocr)
        /\ UNCHANGED queryFaults
     \/ /\ QueryFault
        /\ ~axFailed
        /\ returned' = [f \in Positions |-> returned[f] \cup MergeByFrameId({})[f]]
        /\ walk' = Advance({})
     \/ /\ QueryFault
        /\ axFailed
        /\ walk' = [walk EXCEPT !.pc = "failed"]
        /\ UNCHANGED returned
  /\ ax' = {} /\ axFailed' = FALSE
  /\ UNCHANGED <<inSource, there, thinned>>

(* The next run goes on from the stored offset.                            *)
Continue ==
  /\ walk.pc = "more"
  /\ walk' = [walk EXCEPT !.pc = "ax", !.batch = 0]
  /\ UNCHANGED <<inSource, there, ax, axFailed, returned, thinned, queryFaults>>

(* Retention and delete-range take frames away.                            *)
Vanish ==
  /\ walk.pc \in {"ax", "ocr", "more"}
  /\ \E f \in there : there' = there \ {f}
  /\ thinned' = TRUE
  /\ UNCHANGED <<inSource, walk, ax, axFailed, returned, queryFaults>>

SearchNext == Begin \/ QueryAx \/ QueryOcr \/ Continue \/ Vanish

SearchSpec == SearchInit /\ [][SearchNext]_searchVars

-----------------------------------------------------------------------------
(* All frames have the same kinds of row, and every row is usable.         *)
Uniform(kinds) == \A f \in Positions : inSource[f] = [has |-> kinds, usable |-> kinds]

(* One offset for two queries reads a window completely, and each frame of *)
(* it once, when its frames all have rows of one kind and no query fails,  *)
(* or all have both and at most one query of each page fails; provided no  *)
(* frame is deleted meanwhile.  Every other window may lose frames.        *)
UniformWindowReadOnce ==
  walk.pc = "done" /\ ~thinned =>
    /\ Uniform(Kinds) => \A f \in Positions : Cardinality(returned[f]) = 1
    /\ \A k \in Kinds : Uniform({k}) /\ queryFaults = 0 =>
         \A f \in Positions : returned[f] = {k}
===============================================================================
