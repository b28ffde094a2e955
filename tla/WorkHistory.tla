----------------------------- MODULE WorkHistory -----------------------------
(***************************************************************************)
(* What the derived layer promises to those who read it: a history of      *)
(* sessions over the frames whose text is kept.  A session grows while it  *)
(* is open and is closed once; a context has one open session at a time;   *)
(* what is told of a session comes from its own frames; and forgetting a   *)
(* frame takes every session it is part of with it.  When sessions are     *)
(* closed, which session a frame extends and how a deletion proceeds is    *)
(* left open: module DerivedData says how.                                 *)
(***************************************************************************)
EXTENDS Naturals

CONSTANTS Frames, Context   \* Context[f]: the application and context of a frame

VARIABLES kept,     \* frames whose text is kept
          history,  \* the sessions: [id, ctx, frames, open, told]
          nextId    \* the id of the next one: an id is never used again
historyVars == <<kept, history, nextId>>

HistoryInit == kept = {} /\ history = {} /\ nextId = 1

NewSession(f) ==
  [id |-> nextId, ctx |-> Context[f], frames |-> {f}, open |-> TRUE, told |-> {}]

(* A frame extends the open session of its context, or begins the next one *)
(* and closes what was open.                                               *)
Record(f) ==
  /\ kept' = kept \cup {f}
  /\ \/ /\ UNCHANGED nextId
        /\ \E s \in history :
             /\ s.open /\ s.ctx = Context[f]
             /\ history' = (history \ {s}) \cup {[s EXCEPT !.frames = @ \cup {f}]}
     \/ /\ nextId' = nextId + 1
        /\ history' = {[s EXCEPT !.open = @ /\ s.ctx # Context[f]] : s \in history}
                        \cup {NewSession(f)}

Close ==
  /\ UNCHANGED <<kept, nextId>>
  /\ \E C \in SUBSET history : history' = {[s EXCEPT !.open = @ /\ s \notin C] : s \in history}

Forget ==
  /\ kept' \subseteq kept
  /\ UNCHANGED nextId
  /\ history' = {s \in history : s.frames \subseteq kept'}

Tell ==
  /\ UNCHANGED <<kept, nextId>>
  /\ \E s \in history : \E T \in SUBSET s.frames :
       history' = (history \ {s}) \cup {[s EXCEPT !.told = T]}

HistoryNext == Close \/ Forget \/ (\E f \in Frames : Record(f)) \/ Tell

HistorySpec == HistoryInit /\ [][HistoryNext]_historyVars
=============================================================================
