------------------------------- MODULE MCFrames -------------------------------
(* The way of a frame from the recorder's database to what is told of it, in  *)
(* four parts that share nothing: the database under those who rewrite and    *)
(* delete (CaptureStore); the search over it (CaptureSearch); the text and    *)
(* the context of one frame (Extraction), on every tree of a few rows; and    *)
(* the requests that read what became of it (Reads), on three frames, two of  *)
(* them in one tick.  part says which of the four a behaviour is about.       *)
EXTENDS CaptureStore, CaptureSearch, Extraction, Reads

VARIABLE part

TwoAtOnce     == <<1, 1, 2>>
OtherAndLists == <<"other", "list", "list">>

(* Windows of frames with rows of both kinds, of one kind, or of none to use. *)
Both  == [has |-> Kinds, usable |-> Kinds]
Ocr   == [has |-> {"ocr"}, usable |-> {"ocr"}]
Ax    == [has |-> {"ax"}, usable |-> {"ax"}]
Blank == [has |-> {"ax"}, usable |-> {}]
ManyKinds == [Positions -> {Both, Ocr, Blank}] \cup {[f \in Positions |-> Ax]}

TickOf == <<0, 0, 1>>
Mixed  == <<"editor", "mail", "editor">>

SomeDepths == {0, 1, 2, NoDepth}
SomeNodeKinds ==
  {[role |-> r, shown |-> TRUE, words |-> "own"] :
     r \in {"AXWindow", "AXStaticText", "AXGroup", "AXHeading", "AXSheet", "AXTextArea",
            "AXButton", "AXSecureTextField"}} \cup
  {[role |-> "AXTab", shown |-> TRUE, words |-> "noise"],
   [role |-> "AXGroup", shown |-> FALSE, words |-> "none"]}
SomeTitles == {<<"doc">>, <<"star", "doc", "edited">>, <<"untitled">>, <<"chat">>}

MCInit ==
  /\ StoreInit /\ SearchInit /\ FrameInit /\ ReadsInit
  /\ part \in {"store", "search", "text", "reads"}
  /\ part = "text" \/ (title = <<"doc">> /\ form = "none" /\ ~scraped)
  /\ part = "search" \/ inSource = [f \in Positions |-> Both]

MCNext ==
  \/ part = "store"  /\ StoreNext  /\ UNCHANGED <<part, searchVars, frameVars, readVars>>
  \/ part = "search" /\ SearchNext /\ UNCHANGED <<part, storeVars, frameVars, readVars>>
  \/ part = "text"   /\ FrameNext  /\ UNCHANGED <<part, storeVars, searchVars, readVars>>
  \/ part = "reads"  /\ ReadsNext  /\ UNCHANGED <<part, storeVars, searchVars, frameVars>>

MCSpec == MCInit /\ [][MCNext]_<<part, storeVars, searchVars, frameVars, readVars>>
================================================================================
