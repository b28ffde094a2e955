----------------------------- MODULE StatusReport -----------------------------
(***************************************************************************)
(* What internal-status says of the capture pipeline, asked of a running   *)
(* server: it looks at the capture database and at the runtime registry    *)
(* (bootstrap-status-service.ts, ingestion-observability-service.ts).      *)
(* Asking is not only reading: the registry is swept twice for other       *)
(* processes, and each sweep removes the markers of the dead, between the  *)
(* steps of servers that come and go.                                      *)
(*                                                                         *)
(* The capture process is not part of the repository's server and has no   *)
(* marker in its registry: index.ts registers servers only.                *)
(***************************************************************************)
EXTENDS RuntimeRegistry

CONSTANTS Asking,         \* the servers that are asked
          MaxChanges      \* bound on starts, stops and silences of the recorder

ASSUME StatusAssumption == Asking \subseteq Servers /\ MaxChanges \in Nat

VARIABLES recording,   \* the recorder runs
          database,    \* db.sqlite: "absent", "unreadable" or "readable"
          lastFrame,   \* the newest frame: "none", "recent" or "old"
          settled,     \* servers older than permissionsGracePeriodSeconds
          request,     \* per server: the internal-status call it is answering
          report,      \* per server: what it answered last
          throughout,  \* ghost: requests during all of which the recorder ran
          changes
statusVars == <<recording, database, lastFrame, settled, request, report, throughout, changes>>

(* `peers` is a ghost: the servers that were there from the first to the   *)
(* last step of the call.                                                  *)
NoRequest == [step |-> "none", last |-> "none", left |-> {}, live |-> {}, running |-> FALSE,
              peers |-> {}]
NoReport  == [capture |-> "none", peers |-> {}]

StatusInit ==
  /\ recording \in BOOLEAN /\ database \in {"absent", "unreadable", "readable"}
  /\ lastFrame \in IF database = "readable" THEN {"none", "recent", "old"} ELSE {"none"}
  /\ settled = {}
  /\ request = [s \in Servers |-> NoRequest]
  /\ report = [s \in Servers |-> NoReport]
  /\ throughout = {} /\ changes = 0

-----------------------------------------------------------------------------
(* The answer, section by section.                                         *)

(* computeCaptureState, and what precedes it: without a database, or with  *)
(* one sqlite3 cannot read, nothing is known.                              *)
CaptureState(readable, last, running, inGrace) ==
  CASE ~readable                               -> "unknown"
    [] readable /\ ~running                    -> "process-down"
    [] readable /\ running /\ last = "none"    -> IF inGrace THEN "unknown" ELSE "permissions-missing"
    [] readable /\ running /\ last = "old"     -> "idle"
    [] readable /\ running /\ last = "recent"  -> "ok"

-----------------------------------------------------------------------------
(* One call of internal-status.                                            *)

(* existsSync, then SELECT MAX(timestamp) FROM frames.                     *)
AskStatus(s) ==
  /\ pc[s] = "serving" /\ request[s].step = "none"
  /\ request' = [request EXCEPT ![s] =
       [NoRequest EXCEPT !.step = IF database = "readable" THEN "list1" ELSE "answer",
                         !.last = IF database = "readable" THEN lastFrame ELSE "unknown",
                         !.peers = {p \in Servers \ {s} : pc[p] \in Registered}]]
  /\ report' = [report EXCEPT ![s] = NoReport]
  /\ throughout' = IF recording THEN throughout \cup {s} ELSE throughout \ {s}
  /\ UNCHANGED <<vars, recording, database, lastFrame, settled, changes>>

(* hasActiveProcess and then getProcessStartedAt: readLiveRecords lists    *)
(* the directory and opens each file.                                      *)
ListRecords(s) ==
  /\ pc[s] = "serving" /\ request[s].step \in {"list1", "list2"}
  /\ request' = [request EXCEPT ![s].step = IF @ = "list1" THEN "open1" ELSE "open2",
                                ![s].left = markers, ![s].live = {}]
  /\ UNCHANGED <<vars, recording, database, lastFrame, settled, report, throughout, changes>>

(* Mutant: the file is removed before its owner is looked up.              *)
OpenRecordEager(s) ==
  /\ pc[s] = "serving" /\ request[s].step \in {"open1", "open2"}
  /\ \E m \in request[s].left :
       /\ request' = [request EXCEPT ![s].left = @ \ {m},
            ![s].live = IF m \in markers /\ Alive(m) THEN @ \cup {m} ELSE @]
       /\ markers' = markers \ {m}
  /\ UNCHANGED <<pc, lock, seen, todo, liveSeen, clobbered>>
  /\ UNCHANGED <<recording, database, lastFrame, settled, report, throughout, changes>>

(* A file that has gone is skipped; the file of a dead owner is removed.   *)
OpenRecord(s) ==
  /\ pc[s] = "serving" /\ request[s].step \in {"open1", "open2"}
  /\ \E m \in request[s].left :
       /\ request' = [request EXCEPT ![s].left = @ \ {m},
            ![s].live = IF m \in markers /\ Alive(m) THEN @ \cup {m} ELSE @]
       /\ markers' = IF Alive(m) THEN markers ELSE markers \ {m}
  /\ UNCHANGED <<pc, lock, seen, todo, liveSeen, clobbered>>
  /\ UNCHANGED <<recording, database, lastFrame, settled, report, throughout, changes>>

(* findActiveRuntimeProcesses leaves out the process that asks.            *)
Others(s) == request[s].live \ {s}

RecordsRead(s) ==
  /\ pc[s] = "serving" /\ request[s].step \in {"open1", "open2"} /\ request[s].left = {}
  /\ request' = [request EXCEPT
       ![s].step = IF @ = "open1" THEN "list2" ELSE "answer",
       ![s].running = IF request[s].step = "open1" THEN Others(s) # {} ELSE @]
  /\ UNCHANGED <<vars, recording, database, lastFrame, settled, report, throughout, changes>>

(* The age is that of the process registered last, of those the second     *)
(* sweep met; with none it counts as infinite.                             *)
Answer(s) ==
  /\ pc[s] = "serving" /\ request[s].step = "answer"
  /\ \E inGrace \in IF Others(s) = {} THEN {FALSE} ELSE {m \notin settled : m \in Others(s)} :
       report' = [report EXCEPT ![s] =
         [capture |-> CaptureState(request[s].last # "unknown", request[s].last,
                                   request[s].running, inGrace),
          peers   |-> {p \in request[s].peers : pc[p] \in Registered}]]
  /\ request' = [request EXCEPT ![s] = NoRequest]
  /\ UNCHANGED <<vars, recording, database, lastFrame, settled, throughout, changes>>

-----------------------------------------------------------------------------
(* Around it: the recorder starts, stops and writes, and time passes.      *)
RecorderChanges ==
  /\ changes < MaxChanges /\ changes' = changes + 1
  /\ \/ /\ recording' = ~recording
        /\ throughout' = IF recording THEN throughout \ {s \in Servers : request[s].step # "none"}
                         ELSE throughout
        /\ UNCHANGED <<database, lastFrame>>
     \/ /\ recording /\ database # "unreadable"
        /\ database' = "readable" /\ lastFrame' = "recent"
        /\ UNCHANGED <<recording, throughout>>
     \/ /\ lastFrame = "recent" /\ lastFrame' = "old"
        /\ UNCHANGED <<recording, database, throughout>>
  /\ UNCHANGED <<vars, settled, request, report>>

GraceEnds(s) ==
  /\ Alive(s) /\ s \notin settled /\ settled' = settled \cup {s}
  /\ UNCHANGED <<vars, recording, database, lastFrame, request, report, throughout, changes>>

StatusStep(s) == AskStatus(s) \/ ListRecords(s) \/ OpenRecord(s) \/ RecordsRead(s) \/ Answer(s)

StatusNext ==
  \/ \E s \in Asking : StatusStep(s)
  \/ \E s \in Servers : GraceEnds(s)
  \/ RecorderChanges
  \/ Next /\ UNCHANGED statusVars

StatusSpec == Init /\ StatusInit /\ [][StatusNext]_<<vars, statusVars>>

-----------------------------------------------------------------------------
(* A server that was registered from the first to the last step of a call  *)
(* is seen by it: "process-down" is not reported beside another server,    *)
(* whatever other sweeps, starts and crashes take out of the directory     *)
(* under the two sweeps of the call and before.                            *)
PeersAreSeen ==
  \A s \in Servers : report[s].capture = "process-down" => report[s].peers = {}

(* What docs/guide/troubleshooting.md:229-231 and the interface of the     *)
(* registry (ingestion-observability-service.ts:23-30) say of              *)
(* "process-down": the recorder is not running.  A request all of which    *)
(* fell in the time of a running recorder does not report it.              *)
DownMeansNotRecording ==
  \A s \in Servers : report[s].capture = "process-down" => s \notin throughout
=============================================================================
