------------------------------ MODULE Extraction ------------------------------
(***************************************************************************)
(* A frame of which more and more is seen (FrameText).                     *)
(***************************************************************************)
EXTENDS FrameText

CONSTANTS
  Depths,    \* depths a row may give
  NodeKinds, \* what else a row may be: [role, shown, words]
  Titles     \* titles a window may have: a name between markers, or <<>>

ASSUME TreeAssumption == MaxRows \in Nat /\ Depths \subseteq Nat

frameVars == <<rows, title, form, scraped>>

-----------------------------------------------------------------------------
FrameInit ==
  /\ rows = <<>> /\ title \in Titles
  /\ form \in {"flat", "nested", "records", "unlinked", "broken", "none"} /\ scraped \in BOOLEAN

(* One more row is seen.  A nested tree has a depth for every node.         *)
SeeRow(d, kind) ==
  /\ Len(rows) < MaxRows
  /\ form \notin {"broken", "none"}
  /\ form # "flat" => d # NoDepth
  /\ rows' = Append(rows, [depth |-> d, role |-> kind.role, shown |-> kind.shown, words |-> kind.words])
  /\ UNCHANGED <<title, form, scraped>>

FrameNext == \E d \in Depths, kind \in NodeKinds : SeeRow(d, kind)

FrameSpec == FrameInit /\ [][FrameNext]_frameVars

-----------------------------------------------------------------------------
(* Whichever way the rows arrive, no words of a secure field that gives its   *)
(* depth or of anything below it are indexed, and a tree that has a secure    *)
(* field never falls back to the text scraped from the screen.  Unlinked     *)
(* records are the degraded mode: only the field itself can be told.       *)
Under(i, j) ==
  CASE form = "flat" ->
         j <= i /\ \A k \in (j + 1)..i : rows[k].depth = NoDepth \/ rows[k].depth > rows[j].depth
    [] form \in {"nested", "records"} -> j \in Lineage(All, i)
    [] OTHER -> i = j
SecureStaysOut ==
  LET secure == {j \in All : Secure(j) /\ rows[j].depth # NoDepth}
      said   == {l.row : l \in Extract.lines}
  IN secure # {} => \A i \in said : i # Scraped /\ \A j \in secure : i = TitleLine \/ ~Under(i, j)

(* Cutting secure fields costs nothing else: when the depths form a tree,     *)
(* all visible words in a domain or in the layout, outside secure subtrees,   *)
(* are indexed in exactly one line, flat or nested.                         *)
NothingElseLost ==
  (/\ form \in {"flat", "nested"}
   /\ \A i \in All : rows[i].depth # NoDepth
                  /\ rows[i].depth <= (IF i = 1 THEN 0 ELSE rows[i - 1].depth + 1)) =>
    \A i \in All :
      LET lineage == Lineage(All, i)
          seen    == Says(i) /\ \A j \in lineage : rows[j].shown /\ ~Secure(j)
          placed  == \/ rows[i].role \in WindowRoles \cup Fallback
                     \/ \E j \in lineage : rows[j].role \in NavRoles \cup ActionRoles \cup BodyRoles
      IN seen /\ placed => Cardinality({l \in Extract.lines : l.row = i}) = 1

(* What is shown in the body or in a menu of a window does not change the    *)
(* session its frames belong to: a row that adds neither navigation nor a    *)
(* window leaves the key of a frame that starts with its window, named and   *)
(* shown, alone.                                                           *)
Sooner == INSTANCE FrameText WITH rows <- SubSeq(rows, 1, Len(rows) - 1)
BodyKeepsItsSession ==
  (Len(rows) > 1 /\ rows[1].role = "AXWindow" /\ rows[1].depth = 0 /\ rows[1].shown /\ Says(1)) =>
    LET before == Sooner!Extract
        after  == Extract
    IN (\A l \in after.lines \ before.lines : l.domain \in {"body", "action"})
         => after.key = before.key
===============================================================================
