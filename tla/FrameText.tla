------------------------------- MODULE FrameText -------------------------------
(***************************************************************************)
(* What becomes of one frame's text (strip-secure-ax-subtrees.ts, work-    *)
(* activity/extraction, sessions/context-key.ts and extractRecord of       *)
(* indexing-service.ts): the subtrees of secure fields are cut from its    *)
(* accessibility tree, the tree is read into window, navigation, action    *)
(* and body lines, and title and navigation give the context key that      *)
(* sessions are grouped by.  The frame is the rows of its tree in preorder, *)
(* as Screenpipe lists them; a row stands for its own words by its number.  *)
(***************************************************************************)
EXTENDS Naturals, Sequences, FiniteSetsExt

CONSTANT MaxRows   \* bound on the rows of a frame

VARIABLES
  rows,      \* the tree, row by row: [depth, role, shown, words]
  title,     \* the window's title: its name between "modified" markers
  form,      \* how the rows arrive: as a "flat" or "nested" tree, as "records" that
             \* name their parent or are "unlinked"; or the tree is "broken" or "none"
  scraped    \* whether the record also has text of its own

NoDepth == 99               \* no finite number
Scraped == MaxRows + 1      \* the record's own text, as a line
TitleLine == 0              \* the window's title, as a line

-----------------------------------------------------------------------------
(* Cutting secure subtrees.                                                *)
Secure(i) == rows[i].role = "AXSecureTextField"
All == DOMAIN rows

CutDepth(i) == IF rows[i].depth = NoDepth THEN 0 ELSE rows[i].depth
(* Mutant: a row without depth ends the subtree.                           *)
SecureDepthUntilUnknown ==
  LET after[i \in 0..Len(rows)] ==
        IF i = 0 THEN NoDepth
        ELSE LET before == after[i - 1]
             IN IF before # NoDepth /\ rows[i].depth # NoDepth /\ rows[i].depth > before THEN before
                ELSE IF Secure(i) THEN CutDepth(i) ELSE NoDepth
  IN after
(* Mutant: siblings of a secure node are taken for its descendants.        *)
SecureDepthWithSiblings ==
  LET after[i \in 0..Len(rows)] ==
        IF i = 0 THEN NoDepth
        ELSE LET before == after[i - 1]
             IN IF before # NoDepth /\ (rows[i].depth = NoDepth \/ rows[i].depth >= before) THEN before
                ELSE IF Secure(i) THEN CutDepth(i) ELSE NoDepth
  IN after

(* secureDepth after each row of a flat tree, NoDepth when it is null.  A row *)
(* without depth cannot prove that it is outside the secure subtree.       *)
SecureDepth ==
  LET after[i \in 0..Len(rows)] ==
        IF i = 0 THEN NoDepth
        ELSE LET before == after[i - 1]
             IN IF before # NoDepth /\ (rows[i].depth = NoDepth \/ rows[i].depth > before) THEN before
                ELSE IF Secure(i) THEN CutDepth(i) ELSE NoDepth
  IN after
PruneFlat == {i \in All : SecureDepth[i] = NoDepth}

(* Rebuilding the nested tree of some rows.  stack[level] holds the last row  *)
(* as deep as that; a row's parent is one level up, and where that level was  *)
(* skipped the row is a root.                                              *)
NormalDepth(i) == IF rows[i].depth = NoDepth THEN 0 ELSE rows[i].depth
Stack(among, i, level) == {j \in among : j < i /\ NormalDepth(j) <= level}
OnStack(among, i, level) ==
  LET shallow == Stack(among, i, level)
  IN shallow # {} /\ NormalDepth(Max(shallow)) = level
Lineage(among, i) ==
  {i} \cup {j \in among :
    /\ j < i /\ NormalDepth(j) < NormalDepth(i)
    /\ j = Max(Stack(among, i, NormalDepth(j)))
    /\ \A level \in NormalDepth(j)..(NormalDepth(i) - 1) : OnStack(among, i, level)}

(* A tree: its rows, what each hangs from, itself included, and its roots.    *)
(* Several roots are put under an AXApplication.                           *)
Tree(among) ==
  LET lineage == [i \in among |-> Lineage(among, i)]
      roots   == {i \in among : lineage[i] = {i}}
  IN [nodes |-> among, lineage |-> lineage, roots |-> roots, wrapped |-> Cardinality(roots) > 1]

(* The tree the rules are given: a flat one is pruned and then rebuilt, a   *)
(* nested one loses the secure nodes with all that is under them.          *)
Stripped ==
  CASE form = "flat" -> Tree(PruneFlat)
    [] form = "nested" ->
         LET whole == Tree(All)
             kept  == {i \in All : \A j \in whole.lineage[i] : ~Secure(j)}
         IN [whole EXCEPT !.nodes = kept, !.roots = @ \cap kept]
    [] OTHER -> Tree({})

(* The same for records that come one per element: from the secure ones down  *)
(* along parentId or path, or just those when neither is given.            *)
Children(ids) == {i \in All : \E j \in ids \ {i} : j \in Lineage(All, i) /\ NormalDepth(j) = NormalDepth(i) - 1}
StripRecords ==
  LET blocked[n \in 0..Len(rows)] ==
        IF n = 0 THEN {i \in All : Secure(i)}
        ELSE LET ids == blocked[n - 1] IN ids \cup Children(ids)
  IN All \ blocked[IF form = "records" THEN Len(rows) ELSE 0]

-----------------------------------------------------------------------------
(* Reading the tree.                                                       *)
WindowRoles == {"AXWindow", "AXMainWindow", "AXDocument", "AXStandardWindow"}
NavRoles    == {"AXToolbar", "AXTabGroup", "AXTab", "AXRadioButton", "AXHeading", "AXBanner",
                "AXNavigationBar", "AXTitleBar"}
ActionRoles == {"AXMenu", "AXMenuItem", "AXMenuBar", "AXMenuBarItem", "AXPopUpButton", "AXSheet",
                "AXDialog", "AXAlert"}
BodyRoles   == {"AXTextArea", "AXWebArea", "AXScrollArea", "AXTextField", "AXTable", "AXList",
                "AXOutline"}
Fallback    == {"AXStaticText", "AXGroup", "AXSplitGroup"}

Says(i) == rows[i].words # "none"

(* A node is walked when it and everything above it is visible.             *)
Walked(tree) == {i \in tree.nodes : \A j \in tree.lineage[i] : rows[j].shown}
LevelOf(tree, i) == Cardinality(tree.lineage[i]) - 1 + (IF tree.wrapped THEN 1 ELSE 0)

(* Mutant: counted from the root.                                          *)
DepthFromRoot(tree, i) == LevelOf(tree, i)

(* Depth below the nearest window, from the root if there is none.          *)
RelativeDepth(tree, i) ==
  LET windows == {j \in tree.lineage[i] : rows[j].role \in WindowRoles}
  IN IF windows = {} THEN LevelOf(tree, i) ELSE LevelOf(tree, i) - LevelOf(tree, Max(windows))

(* Actions and navigation take over from whatever they are in; a body only   *)
(* begins where nothing else has.                                          *)
Domain(tree, i) ==
  LET takers == {j \in tree.lineage[i] : rows[j].role \in ActionRoles \cup NavRoles}
  IN CASE takers # {} -> IF rows[Max(takers)].role \in ActionRoles THEN "action" ELSE "nav"
       [] takers = {} /\ (\E j \in tree.lineage[i] : rows[j].role \in BodyRoles) -> "body"
       [] OTHER -> "none"

(* The domain a row's words end up in.  Outside every domain, static text up *)
(* to one level down names the place, layout is body, controls are left out. *)
LineDomain(tree, i) ==
  IF rows[i].role \in WindowRoles THEN "window"
  ELSE IF Domain(tree, i) # "none" THEN Domain(tree, i)
  ELSE IF rows[i].role = "AXStaticText" /\ RelativeDepth(tree, i) <= 1 THEN "nav"
  ELSE IF rows[i].role \in Fallback THEN "body"
  ELSE "none"

Line(domain, i) == [domain |-> domain, row |-> i]
TitleLines(tree) ==
  IF \/ title = <<>> \/ tree.wrapped \/ tree.roots = {}
     \/ \E r \in tree.roots : ~rows[r].shown \/ (rows[r].role \in WindowRoles /\ Says(r))
  THEN {} ELSE {Line("window", TitleLine)}

(* A lone node of no known kind is taken for body.                          *)
Lines(tree) ==
  LET spoken == {i \in Walked(tree) : Says(i)}
      lines  == TitleLines(tree) \cup
                {l \in {Line(LineDomain(tree, i), i) : i \in spoken} : l.domain # "none"}
  IN IF lines # {} \/ tree.wrapped \/ Cardinality(tree.nodes) # 1 THEN lines
     ELSE {Line("body", i) : i \in spoken}

-----------------------------------------------------------------------------
(* Titles and context keys.                                                *)
Coarse    == {"untitled", "app", "chat"}
IsCoarse  == title = <<>> \/ (Len(title) = 1 /\ title[1] \in Coarse)

Chopped(t, mark)  == IF t # <<>> /\ t[Len(t)] = mark THEN SubSeq(t, 1, Len(t) - 1) ELSE t
Shifted(t, mark)  == IF t # <<>> /\ t[1] = mark THEN Tail(t) ELSE t
NotDot(mark)      == mark # "dot"

(* MODIFIED_MARKERS, in their order.                                        *)
NormalizeTitle(t) ==
  Chopped(Chopped(Chopped(Chopped(Shifted(SelectSeq(t, NotDot),
    "star"), "star"), "modified"), "unsaved"), "edited")

Priority(i) ==
  LET of == [AXHeading |-> 100, AXNavigationBar |-> 95, AXBanner |-> 90, AXRadioButton |-> 85,
             AXTab |-> 85, AXTabGroup |-> 75, AXToolbar |-> 65, AXTitleBar |-> 60]
  IN IF rows[i].role \in DOMAIN of THEN of[rows[i].role] ELSE 50

Noise(i) == rows[i].words = "noise"

(* Preorder of the rebuilt tree: a row that skipped a level comes after the *)
(* root it was listed under.                                               *)
Earlier(tree, i, j) ==
  LET top(k) == Min(tree.lineage[k])
  IN top(i) < top(j) \/ (top(i) = top(j) /\ i < j)

(* The name a coarse title is completed with: the strongest candidate, the   *)
(* first of equals, and before other navigation lines.                     *)
Named(tree, lines) ==
  LET nav == {i \in All : Line("nav", i) \in lines /\ ~Noise(i)}
      score(i) == IF rows[i].role \in NavRoles \cup {"AXStaticText"} THEN Priority(i) ELSE 49
  IN {i \in nav : \A j \in nav \ {i} :
        score(i) > score(j) \/ (score(i) = score(j) /\ Earlier(tree, i, j))}

(* Without one, the first window line that is not as coarse.                *)
FirstWindow(tree, lines) ==
  LET windows == {i \in All : Line("window", i) \in lines /\ ~Noise(i)}
  IN IF Line("window", TitleLine) \in lines /\ title = <<"chat">> THEN {}
     ELSE {i \in windows : \A j \in windows \ {i} : Earlier(tree, i, j)}

(* deriveEnrichedWindowTitle and buildContextKey: the row a coarse title is  *)
(* completed with, or the normalised title.                                *)
Key(place, t) == [place |-> place, title |-> t]
ContextKey(tree, lines) ==
  LET named  == Named(tree, lines)
      places == IF named # {} THEN named ELSE FirstWindow(tree, lines)
  IN IF IsCoarse /\ places # {} THEN Key(CHOOSE i \in places : TRUE, <<>>)
     ELSE Key(0, NormalizeTitle(title))

-----------------------------------------------------------------------------
(* extractRecord.  A tree that gives no text lets the record's own text in,  *)
(* as the body of a tree of one node, unless the tree had a secure field.    *)
HasSecureRole == form \in {"flat", "nested"} /\ \E i \in All : Secure(i)
FromText ==
  [lines |-> {Line("body", Scraped)} \cup
             (IF title = <<>> THEN {} ELSE {Line("window", TitleLine)}),
   key   |-> Key(0, NormalizeTitle(title))]
FromTree(tree) == LET lines == Lines(tree) IN [lines |-> lines, key |-> ContextKey(tree, lines)]
FromRecords ==
  [lines |-> {Line("body", i) : i \in {j \in StripRecords : Says(j)}},
   key   |-> Key(0, NormalizeTitle(title))]
Extract ==
  IF form \in {"records", "unlinked"} THEN FromRecords
  ELSE LET result == FromTree(Stripped)
       IN IF result.lines = {} /\ scraped /\ ~HasSecureRole THEN FromText ELSE result
===============================================================================
