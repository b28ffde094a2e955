------------------------------ MODULE MCServices ------------------------------
(* The server processes: their registry with rebuild-index, the status they *)
(* report, and the calls one of them makes to embedding and language model. *)
(* The parts share no variables; `part` chooses one for a behaviour.  One   *)
(* process of the registry is not started.                                  *)
EXTENDS StatusReport, ModelCalls

CONSTANTS t1, t2, empty
VARIABLE part

MCText == <<t1, t2, t1, empty>>

MCInit == /\ part \in {"registry", "status", "embedding", "summaries"}
          /\ Init /\ CallsInit
          /\ IF part = "status" THEN StatusInit
             ELSE /\ recording = FALSE /\ database = "absent" /\ lastFrame = "none" /\ settled = {}
                  /\ request = [s \in Servers |-> NoRequest]
                  /\ report = [s \in Servers |-> NoReport]
                  /\ throughout = {} /\ changes = 0

Registry  == /\ part = "registry" /\ Next /\ UNCHANGED statusVars
             /\ \E p \in Procs : pc'[p] = "idle"
Status    == part = "status" /\ StatusNext /\ \A r \in Rebuilders : pc'[r] = "idle"
Embedding == part = "embedding" /\ (EmbeddingNext \/ RestartServer)
Summaries == part = "summaries" /\ (SummaryNext \/ RestartServer)

MCNext == /\ UNCHANGED part
          /\ \/ (Registry \/ Status) /\ UNCHANGED callVars
             \/ (Embedding \/ Summaries) /\ UNCHANGED <<vars, statusVars>>

MCSpec == MCInit /\ [][MCNext]_<<part, vars, statusVars, callVars>> /\ Fairness /\ CallsFairness
===============================================================================
