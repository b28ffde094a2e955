-------------------------- MODULE OperationsProofs --------------------------
(***************************************************************************)
(* What is done around the server, for any number of operators, writers    *)
(* and starters at once: the commands of LocalStack, the edits of Settings *)
(* and the move of AppHome, one after the other.  In each the invariant    *)
(* says what an actor in the middle of a task may still count on: that     *)
(* nobody else is in the middle of one (Alone, OneAtATime, Kept), or that  *)
(* what another did meanwhile is on record (stale, overlapped, early).     *)
(*                                                                         *)
(* Last comes PrivacyControl: what users were told holds, for any number   *)
(* of requests at once, any clock and any applications, as long as no      *)
(* write replaced a state other than the one it was computed from.  The    *)
(* argument is about the state each writer is about to store: it keeps     *)
(* every promise too (Honours), or the file has been replaced since it was *)
(* computed.  What a request takes back is no promise from the call on     *)
(* (Taken), and nobody makes it again while the request is under way.      *)
(***************************************************************************)
EXTENDS LocalStack, Settings, AppHome, PrivacyControl, FiniteSetTheorems, TLAPS

-----------------------------------------------------------------------------
(* The operator's commands: what a job is doing follows from where its     *)
(* command is, and unless two commands have run at once there is only one. *)
RecSteps == {"none", "check", "spawn", "write", "stop", "poll", "clear", "ok", "failed"}
SvcSteps == {"none", "start", "legacy", "home", "install", "bootout", "bootstrap", "wait", "undo",
             "stop", "stop legacy", "ok", "failed"}
OpSteps  == {"idle", "recorder", "service", "recorder, then service", "build", "check", "signs",
             "service, then capture", "done", "record", "stop listeners", "tasks", "legacy", "home",
             "mode", "first run", "onboarding"}
RecJobs  == [pc : RecSteps, pid : Pids \cup {0}, how : {"none", "stopped already", "stopped", "forced"}]
SvcJobs  == [pc : SvcSteps, pid : {0}, how : {"none", "onboarded", "new"}]
OpStates == [name : Commands \cup {"none"}, pc : OpSteps, signs : BOOLEAN]

JobsTyped ==
  /\ op \in [Operators -> OpStates] /\ rec \in [Operators -> RecJobs] /\ svc \in [Operators -> SvcJobs]
  /\ overlapped \in BOOLEAN

OrderedOne(o) ==
  /\ ~Ended(rec[o]) => op[o].pc \in {"recorder", "recorder, then service", "tasks", "first run"}
  /\ ~Ended(svc[o]) => op[o].pc \in {"service", "service, then capture", "tasks", "onboarding"}
  /\ rec[o].pid # 0 => rec[o].pc \in {"write", "poll", "clear"}

Ordered == \A o \in Operators : OrderedOne(o)

Alone == ~overlapped =>
  \A o, q \in Operators : op[o].pc # "idle" /\ op[q].pc # "idle" => o = q

(* The supervisors: one that is dead is dead for good, and its Screenpipe  *)
(* has ended before it.                                                    *)
SupTyped ==
  /\ sup \in [Pids -> {"none", "starting", "watching", "final", "dead"}]
  /\ screen \in [Pids -> {"none", "up", "ending"}]
  /\ reused \subseteq Pids /\ crashed \subseteq Pids
  /\ pidFile \in Pids \cup {0}

Silent ==
  /\ \A p \in Pids : screen[p] # "none" => sup[p] = "watching" \/ p \in crashed
  /\ \A p \in reused : sup[p] = "dead"
  /\ pidFile # 0 => sup[pidFile] # "none"
  /\ \A o \in Operators :
       /\ rec[o].pc \in {"write", "poll"} => rec[o].pid # 0
       /\ rec[o].pid # 0 => sup[rec[o].pid] # "none"
       /\ rec[o].pc = "clear" /\ rec[o].how = "stopped" =>
            rec[o].pid # 0 /\ sup[rec[o].pid] = "dead"

Nobody == \A p \in Pids : ~SupervisorLives(p)

Findable == ~overlapped /\ ~loose /\ crashed = {} =>
  /\ \A o \in Operators :
       /\ rec[o].pc \in {"spawn", "clear"} => Nobody
       /\ rec[o].pc = "write" => \A p \in Pids : SupervisorLives(p) => p = rec[o].pid
       /\ rec[o].pc = "poll" => rec[o].pid = pidFile
  /\ (\A o \in Operators : rec[o].pc # "write") =>
       \A p \in Pids : SupervisorLives(p) => p = pidFile

(* The service.                                                            *)
SvcTyped ==
  /\ service \in [loaded : BOOLEAN, ready : BOOLEAN, plist : BOOLEAN]
  /\ legacy \in {"none", "plist", "loaded"} /\ home \in {"old", "moved", "new"}
  /\ {marker, onboarded, forgotten} \subseteq BOOLEAN

Replaced ==
  /\ service.loaded => legacy = "none"
  /\ \A o \in Operators :
       svc[o].pc \in {"home", "install", "bootout", "bootstrap", "wait"} => legacy = "none"

Whole == ~overlapped /\ ~loose =>
  /\ \A o \in Operators :
       /\ svc[o].pc = "bootout" => service.plist
       /\ svc[o].pc = "bootstrap" => ~service.loaded /\ service.plist
       /\ svc[o].pc = "wait" => service.loaded /\ service.plist
       /\ svc[o].pc = "undo" => service.plist
  /\ (\A o \in Operators : svc[o].pc \notin {"bootout", "bootstrap", "undo"}) =>
       service.loaded = service.plist

(* The signs of an onboarding.                                             *)
Signs ==
  /\ home = "new" => legacy = "none"
  /\ home = "new" /\ onboarded => marker \/ service.plist \/ forgotten
  /\ \A o \in Operators :
       /\ op[o].pc \in {"signs", "legacy", "home"} => op[o].name \in {"start", "setup"}
       /\ op[o].pc = "mode" => marker \/ home = "new"

StackInv == /\ JobsTyped /\ Ordered /\ Alone
            /\ SupTyped /\ Silent /\ Findable
            /\ SvcTyped /\ Replaced /\ Whole /\ Signs

(* How a step leaves the jobs of its operator.                             *)
RecIs(o, at, pid, how) ==
  /\ rec' \in [Operators -> RecJobs] /\ \A q \in Operators \ {o} : rec'[q] = rec[q]
  /\ rec'[o].pc = at /\ rec'[o].pid = pid /\ rec'[o].how = how

SvcIs(o, at, how) ==
  /\ svc' \in [Operators -> SvcJobs] /\ \A q \in Operators \ {o} : svc'[q] = svc[q]
  /\ svc'[o].pc = at /\ svc'[o].pid = 0 /\ svc'[o].how = how

OpIs(o, name, at, signs) ==
  /\ op' \in [Operators -> OpStates] /\ \A q \in Operators \ {o} : op'[q] = op[q]
  /\ op'[o].name = name /\ op'[o].pc = at /\ op'[o].signs = signs

LEMMA RecSets ==
  ASSUME JobsTyped, NEW o \in Operators, NEW at \in RecSteps
  PROVE  /\ \A pid \in Pids \cup {0}, how \in {"none", "stopped already", "stopped", "forced"} :
              rec' = [rec EXCEPT ![o] = [pc |-> at, pid |-> pid, how |-> how]] => RecIs(o, at, pid, how)
         /\ rec' = [rec EXCEPT ![o].pc = at] => RecIs(o, at, rec[o].pid, rec[o].how)
         /\ \A pid \in Pids :
              rec' = [rec EXCEPT ![o].pc = at, ![o].pid = pid] => RecIs(o, at, pid, rec[o].how)
         /\ \A how \in {"stopped", "forced"} :
              rec' = [rec EXCEPT ![o].pc = at, ![o].how = how] => RecIs(o, at, rec[o].pid, how)
<1>1. ASSUME NEW r \in RecJobs, rec' = [rec EXCEPT ![o] = r]
      PROVE  RecIs(o, r.pc, r.pid, r.how)
  BY <1>1 DEF JobsTyped, RecIs
<1>2. rec[o] \in RecJobs /\ rec = [q \in Operators |-> rec[q]]
  BY DEF JobsTyped
<1>5. rec[o].pid \in Pids \cup {0} /\ rec[o].how \in {"none", "stopped already", "stopped", "forced"}
  BY <1>2 DEF RecJobs
<1>6. ASSUME NEW pid \in Pids \cup {0}, NEW how \in {"none", "stopped already", "stopped", "forced"},
             rec' = [rec EXCEPT ![o] = [pc |-> at, pid |-> pid, how |-> how]]
      PROVE  RecIs(o, at, pid, how)
  <2>1. [pc |-> at, pid |-> pid, how |-> how] \in RecJobs
    BY DEF RecJobs
  <2> QED
    BY <1>1, <1>6, <2>1
<1>7. ASSUME rec' = [rec EXCEPT ![o].pc = at]
      PROVE  RecIs(o, at, rec[o].pid, rec[o].how)
  <2>1. PICK r : r = [rec[o] EXCEPT !.pc = at]
    OBVIOUS
  <2>2. r \in RecJobs /\ r.pc = at /\ r.pid = rec[o].pid /\ r.how = rec[o].how
    BY <1>2, <1>5, <1>7, <2>1 DEF RecJobs
  <2>3. rec' = [rec EXCEPT ![o] = r]
    BY <1>2, <1>7, <2>1
  <2> QED
    BY <1>1, <2>2, <2>3
<1>8. ASSUME NEW pid \in Pids, rec' = [rec EXCEPT ![o].pc = at, ![o].pid = pid]
      PROVE  RecIs(o, at, pid, rec[o].how)
  <2>1. PICK r : r = [rec[o] EXCEPT !.pc = at, !.pid = pid]
    OBVIOUS
  <2>2. r \in RecJobs /\ r.pc = at /\ r.pid = pid /\ r.how = rec[o].how
    BY <1>2, <1>5, <1>8, <2>1 DEF RecJobs
  <2>3. rec' = [rec EXCEPT ![o] = r]
    BY <1>2, <1>8, <2>1
  <2> QED
    BY <1>1, <2>2, <2>3
<1>9. ASSUME NEW how \in {"stopped", "forced"}, rec' = [rec EXCEPT ![o].pc = at, ![o].how = how]
      PROVE  RecIs(o, at, rec[o].pid, how)
  <2>1. PICK r : r = [rec[o] EXCEPT !.pc = at, !.how = how]
    OBVIOUS
  <2>2. r \in RecJobs /\ r.pc = at /\ r.pid = rec[o].pid /\ r.how = how
    BY <1>2, <1>5, <1>9, <2>1 DEF RecJobs
  <2>3. rec' = [rec EXCEPT ![o] = r]
    BY <1>2, <1>9, <2>1
  <2> QED
    BY <1>1, <2>2, <2>3
<1> QED
  BY <1>6, <1>7, <1>8, <1>9

LEMMA RecEndsAs ==
  ASSUME JobsTyped, NEW o \in Operators, NEW at \in RecSteps, RecEnds(o, at) \/ StartJob(rec, o, at)
  PROVE  RecIs(o, at, 0, "none")
<1>1. rec' = [rec EXCEPT ![o] = [pc |-> at, pid |-> 0, how |-> "none"]]
  BY DEF RecEnds, StartJob, NoJob
<1> QED
  BY <1>1, RecSets

LEMMA SvcSets ==
  ASSUME JobsTyped, NEW o \in Operators, NEW at \in SvcSteps
  PROVE  /\ svc' = [svc EXCEPT ![o].pc = at] => SvcIs(o, at, svc[o].how)
         /\ \A how \in {"onboarded", "new"} :
              svc' = [svc EXCEPT ![o].pc = at, ![o].how = how] => SvcIs(o, at, how)
         /\ SvcEnds(o, at) \/ StartJob(svc, o, at) => SvcIs(o, at, "none")
<1>1. SvcEnds(o, at) \/ StartJob(svc, o, at) =>
        svc' = [svc EXCEPT ![o] = [pc |-> at, pid |-> 0, how |-> "none"]]
  BY DEF SvcEnds, StartJob, NoJob
<1>2. svc' = [svc EXCEPT ![o] = [pc |-> at, pid |-> 0, how |-> "none"]] => SvcIs(o, at, "none")
  BY DEF JobsTyped, SvcIs, SvcJobs
<1>3. svc' = [svc EXCEPT ![o].pc = at] => SvcIs(o, at, svc[o].how)
  BY DEF JobsTyped, SvcIs, SvcJobs
<1>4. \A how \in {"onboarded", "new"} :
        svc' = [svc EXCEPT ![o].pc = at, ![o].how = how] => SvcIs(o, at, how)
  <2> SUFFICES ASSUME NEW how \in {"onboarded", "new"}, svc' = [svc EXCEPT ![o].pc = at, ![o].how = how]
               PROVE  SvcIs(o, at, how)
    OBVIOUS
  <2>1. PICK s : s = [svc[o] EXCEPT !.pc = at, !.how = how]
    OBVIOUS
  <2>2. s \in SvcJobs /\ s.pc = at /\ s.pid = 0 /\ s.how = how
    BY <2>1 DEF JobsTyped, SvcJobs
  <2>3. svc' = [svc EXCEPT ![o] = s]
    BY <2>1 DEF JobsTyped
  <2> QED
    BY ZenonT(30), <2>2, <2>3 DEF SvcIs, JobsTyped
<1> QED
  BY <1>1, <1>2, <1>3, <1>4

LEMMA OpSets ==
  ASSUME JobsTyped, NEW o \in Operators, NEW at \in OpSteps
  PROVE  /\ OpGoes(o, at) => OpIs(o, op[o].name, at, op[o].signs)
         /\ \A signs \in BOOLEAN :
              op' = [op EXCEPT ![o].pc = at, ![o].signs = signs] => OpIs(o, op[o].name, at, signs)
         /\ \A name \in Commands \cup {"none"} :
              op' = [op EXCEPT ![o] = [name |-> name, signs |-> FALSE, pc |-> at]] => OpIs(o, name, at, FALSE)
<1>1. op[o] \in OpStates /\ op = [q \in Operators |-> op[q]]
  BY DEF JobsTyped
<1>2. ASSUME NEW name \in Commands \cup {"none"}, NEW signs \in BOOLEAN,
             op' = [op EXCEPT ![o] = [name |-> name, signs |-> signs, pc |-> at]]
      PROVE  OpIs(o, name, at, signs)
  <2>1. [name |-> name, signs |-> signs, pc |-> at] \in OpStates
    BY DEF OpStates
  <2> QED
    BY <1>2, <2>1 DEF JobsTyped, OpIs
<1>3. ASSUME NEW r \in OpStates, op' = [op EXCEPT ![o] = r]
      PROVE  OpIs(o, r.name, r.pc, r.signs)
  BY <1>3 DEF JobsTyped, OpIs
<1>4. ASSUME OpGoes(o, at)
      PROVE  OpIs(o, op[o].name, at, op[o].signs)
  <2>1. PICK r : r = [op[o] EXCEPT !.pc = at]
    OBVIOUS
  <2>2. r \in OpStates /\ r.name = op[o].name /\ r.pc = at /\ r.signs = op[o].signs
    BY <1>1, <2>1 DEF OpStates
  <2> QED
    BY <1>1, <1>3, <1>4, <2>1, <2>2 DEF OpGoes
<1>5. ASSUME NEW signs \in BOOLEAN, op' = [op EXCEPT ![o].pc = at, ![o].signs = signs]
      PROVE  OpIs(o, op[o].name, at, signs)
  <2>1. PICK r : r = [op[o] EXCEPT !.pc = at, !.signs = signs]
    OBVIOUS
  <2>2. r \in OpStates /\ r.name = op[o].name /\ r.pc = at /\ r.signs = signs
    BY <1>1, <2>1 DEF OpStates
  <2>3. op' = [op EXCEPT ![o] = r]
    BY <1>1, <1>5, <2>1
  <2> QED
    BY <1>3, <2>2, <2>3
<1> QED
  BY <1>2, <1>4, <1>5

(* A step of a recorder job, and of a service job.                         *)
RecStep(o) ==
  \/ CheckRecorder(o) \/ SpawnRecorder(o) \/ WriteRecorderPid(o)
  \/ SignalRecorder(o) \/ RecorderGone(o) \/ ForceStop(o) \/ ClearRecorderPid(o)

SvcStep(o) ==
  \/ PreflightService(o) \/ UninstallLegacy(o) \/ ReadyHome(o) \/ InstallServicePlist(o)
  \/ BootoutRunning(o) \/ BootstrapService(o) \/ WaitForService(o) \/ UndoStart(o) \/ StopService(o)

SupStep(p) ==
  \/ SpawnScreenpipe(p) \/ ScreenpipeExits(p) \/ FinalMaintenanceDone(p)
  \/ SupervisorCrashes(p) \/ PidReused(p)

OpStep(o) ==
  \/ \E name \in Commands : Begin(o, name)
  \/ ThenService(o) \/ Build(o) \/ Capture(o) \/ StopRunningScreenpipe(o)
  \/ StartRecorder(o) \/ ResumeStack(o) \/ Finish(o)
  \/ ReadSigns(o) \/ RemoveLegacy(o) \/ MakeHomeReady(o) \/ SelectMode(o) \/ Onboard(o)

(* What a step of a recorder job does to it.                               *)
RecDone(o) ==
  /\ ~Ended(rec[o]) /\ UNCHANGED <<launchd, op, svc, overlapped, loose>>
  /\ \/ /\ rec[o].pc = "check" /\ UNCHANGED <<processes, pidFile, crashed>>
        /\ \/ RecIs(o, "failed", 0, "none")
           \/ ~IsProcessAlive(pidFile) /\ RecIs(o, "spawn", rec[o].pid, rec[o].how)
     \/ /\ rec[o].pc = "spawn" /\ UNCHANGED <<screen, reused, pidFile, crashed>>
        /\ \E p \in Pids : Spawned(p) /\ RecIs(o, "write", p, rec[o].how)
     \/ /\ rec[o].pc = "write" /\ UNCHANGED <<processes, crashed>>
        /\ pidFile' = rec[o].pid /\ RecIs(o, "ok", 0, "none")
     \/ /\ rec[o].pc = "stop" /\ UNCHANGED <<pidFile, crashed>>
        /\ \/ /\ IsProcessAlive(pidFile) /\ Terminate(pidFile)
              /\ RecIs(o, "poll", pidFile, "none")
           \/ /\ ~IsProcessAlive(pidFile) /\ UNCHANGED processes
              /\ RecIs(o, "clear", 0, "stopped already")
     \/ /\ rec[o].pc = "poll" /\ UNCHANGED pidFile
        /\ \/ /\ ~IsProcessAlive(rec[o].pid) /\ UNCHANGED <<processes, crashed>>
              /\ RecIs(o, "clear", rec[o].pid, "stopped")
           \/ /\ IsProcessAlive(rec[o].pid) /\ UNCHANGED screen
              /\ sup' = [sup EXCEPT ![rec[o].pid] = "dead"] /\ reused' = reused \ {rec[o].pid}
              /\ crashed' = crashed \cup {rec[o].pid}
              /\ RecIs(o, "clear", rec[o].pid, "forced")
     \/ /\ rec[o].pc = "clear" /\ UNCHANGED <<processes, crashed>>
        /\ pidFile' = 0 /\ RecIs(o, "ok", 0, "none")

LEMMA RecDoes ==
  ASSUME JobsTyped, SupTyped, NEW o \in Operators, RecStep(o)
  PROVE  RecDone(o)
<1> USE DEF RecDone, RecorderOnly, stackGhosts, Ended
<1>1. CASE CheckRecorder(o)
  BY <1>1, RecSets, RecEndsAs DEF CheckRecorder, RecGoes, RecSteps
<1>2. CASE SpawnRecorder(o)
  <2>1. PICK p \in Pids : Spawned(p) /\ rec' = [rec EXCEPT ![o].pc = "write", ![o].pid = p]
    BY <1>2 DEF SpawnRecorder
  <2>2. RecIs(o, "write", p, rec[o].how)
    BY <2>1, RecSets DEF RecSteps
  <2> QED
    BY <1>2, <2>1, <2>2 DEF SpawnRecorder
<1>3. CASE WriteRecorderPid(o)
  BY <1>3, RecEndsAs DEF WriteRecorderPid, RecSteps
<1>4. CASE SignalRecorder(o)
  <2>1. CASE IsProcessAlive(pidFile)
    <3>1. rec' = [rec EXCEPT ![o] = [pc |-> "poll", pid |-> pidFile, how |-> "none"]]
      BY <1>4, <2>1 DEF SignalRecorder
    <3>2. RecIs(o, "poll", pidFile, "none")
      BY <3>1, RecSets DEF RecSteps, SupTyped
    <3> QED
      BY <1>4, <2>1, <3>2 DEF SignalRecorder
  <2>2. CASE ~IsProcessAlive(pidFile)
    <3>1. rec' = [rec EXCEPT ![o] = [pc |-> "clear", pid |-> 0, how |-> "stopped already"]]
      BY <1>4, <2>2 DEF SignalRecorder, NoJob
    <3>2. RecIs(o, "clear", 0, "stopped already")
      BY <3>1, RecSets DEF RecSteps
    <3> QED
      BY <1>4, <2>2, <3>2 DEF SignalRecorder
  <2> QED
    BY <2>1, <2>2
<1>5. CASE RecorderGone(o)
  BY <1>5, RecSets DEF RecorderGone, RecSteps
<1>6. CASE ForceStop(o)
  BY <1>6, RecSets DEF ForceStop, RecSteps
<1>7. CASE ClearRecorderPid(o)
  BY <1>7, RecEndsAs DEF ClearRecorderPid, RecSteps
<1> QED
  BY <1>1, <1>2, <1>3, <1>4, <1>5, <1>6, <1>7 DEF RecStep

(* The same of a service job.                                              *)
SvcDone(o) ==
  /\ ~Ended(svc[o]) /\ UNCHANGED <<processes, pidFile, op, rec, overlapped, crashed, onboarded>>
  /\ \/ /\ svc[o].pc = "start" /\ UNCHANGED <<service, legacy, marker, home, forgotten, loose>>
        /\ \/ SvcIs(o, "failed", "none")
           \/ SvcIs(o, "legacy", "onboarded") \/ SvcIs(o, "legacy", "new")
     \/ /\ UNCHANGED <<service, marker, home, forgotten, loose>>
        /\ \/ svc[o].pc = "legacy" /\ legacy' = "none" /\ SvcIs(o, "home", svc[o].how)
           \/ svc[o].pc = "stop legacy" /\ legacy' = "none" /\ SvcIs(o, "ok", "none")
           \/ svc[o].pc \in {"legacy", "stop legacy"} /\ legacy' = legacy /\ SvcIs(o, "failed", "none")
     \/ /\ svc[o].pc = "home" /\ UNCHANGED <<service, legacy, forgotten, loose>>
        /\ \/ MovedHome /\ (marker => marker') /\ SvcIs(o, "install", svc[o].how)
           \/ UNCHANGED <<marker, home>> /\ SvcIs(o, "failed", "none")
     \/ /\ svc[o].pc = "install" /\ UNCHANGED <<legacy, marker, home, forgotten, loose>>
        /\ service' = [service EXCEPT !.plist = TRUE] /\ SvcIs(o, "bootout", svc[o].how)
     \/ /\ svc[o].pc = "bootout" /\ UNCHANGED <<legacy, marker, home, forgotten, loose>>
        /\ \/ service' = Unloaded /\ SvcIs(o, "bootstrap", svc[o].how)
           \/ service' = service /\ SvcIs(o, "undo", svc[o].how)
     \/ /\ svc[o].pc = "bootstrap" /\ UNCHANGED <<legacy, marker, home, forgotten, loose>>
        /\ \/ service' = [service EXCEPT !.loaded = TRUE] /\ SvcIs(o, "wait", svc[o].how)
           \/ service' = service /\ SvcIs(o, "undo", svc[o].how)
     \/ /\ svc[o].pc = "wait" /\ UNCHANGED <<service, legacy, marker, home, forgotten, loose>>
        /\ \/ SvcIs(o, "ok", "none") \/ SvcIs(o, "undo", svc[o].how)
           \/ ~service.loaded /\ SvcIs(o, "failed", "none")
     \/ /\ svc[o].pc = "undo" /\ UNCHANGED <<legacy, marker, home>> /\ Forgets
        /\ SvcIs(o, "failed", "none")
        /\ \/ service' = [Unloaded EXCEPT !.plist = FALSE] /\ loose' = loose
           \/ service' = [service EXCEPT !.plist = FALSE] /\ loose' = TRUE
     \/ /\ svc[o].pc = "stop" /\ UNCHANGED <<legacy, marker, home, loose>>
        /\ \/ /\ service' = [Unloaded EXCEPT !.plist = FALSE] /\ Forgets
              /\ SvcIs(o, "stop legacy", svc[o].how)
           \/ UNCHANGED <<service, forgotten>> /\ SvcIs(o, "failed", "none")

LEMMA SvcDoes ==
  ASSUME JobsTyped, NEW o \in Operators, SvcStep(o)
  PROVE  SvcDone(o)
<1> USE SvcSets DEF SvcDone, ServiceOnly, SvcGoes, Ended, SvcSteps
<1>1. CASE PreflightService(o)
  BY <1>1 DEF PreflightService, launchd
<1>2. CASE UninstallLegacy(o)
  BY <1>2 DEF UninstallLegacy
<1>3. CASE ReadyHome(o)
  BY <1>3 DEF ReadyHome
<1>4. CASE InstallServicePlist(o)
  BY <1>4 DEF InstallServicePlist
<1>5. CASE BootoutRunning(o)
  BY <1>5 DEF BootoutRunning
<1>6. CASE BootstrapService(o)
  BY <1>6 DEF BootstrapService
<1>7. CASE WaitForService(o)
  BY <1>7 DEF WaitForService, launchd
<1>8. CASE UndoStart(o)
  BY <1>8 DEF UndoStart
<1>9. CASE StopService(o)
  BY <1>9 DEF StopService
<1> QED
  BY <1>1, <1>2, <1>3, <1>4, <1>5, <1>6, <1>7, <1>8, <1>9 DEF SvcStep

(* And of a command.                                                       *)
OpGoesOn(o, at) == OpIs(o, op[o].name, at, op[o].signs)

Begun(o, name, at, r, s) ==
  /\ op[o].pc = "idle" /\ OpIs(o, name, at, FALSE)
  /\ at \in {"recorder", "service", "recorder, then service", "build", "check", "signs"}
  /\ at = "signs" => name \in {"start", "setup"}
  /\ RecIs(o, r, rec[o].pid, rec[o].how) /\ r \in {"none", "check", "stop"}
  /\ r # "none" => at \in {"recorder", "recorder, then service"}
  /\ SvcIs(o, s, svc[o].how) /\ s \in {"none", "start", "stop"}
  /\ s # "none" => at = "service"
  /\ overlapped' = (overlapped \/ \E other \in Operators : op[other].pc # "idle")
  /\ UNCHANGED <<processes, legacy, marker, home, onboarded, loose>>

JobsStarted(o) ==
  /\ UNCHANGED <<processes, legacy, marker, home, onboarded, loose>>
  /\ \/ /\ op[o].pc = "recorder, then service" /\ OpGoesOn(o, "service") /\ Ended(rec[o])
        /\ SvcIs(o, "stop", "none") /\ UNCHANGED rec
     \/ /\ op[o].pc = "build" /\ UNCHANGED rec
        /\ \/ OpGoesOn(o, "service, then capture") /\ SvcIs(o, "start", "none")
           \/ OpGoesOn(o, "done") /\ UNCHANGED svc
     \/ /\ op[o].pc = "check" /\ OpGoesOn(o, "tasks")
        /\ UNCHANGED svc \/ SvcIs(o, "start", "none")
        /\ UNCHANGED rec \/ RecIs(o, "check", 0, "none")
     \/ /\ op[o].pc = "mode" /\ UNCHANGED svc
        /\ \/ OpGoesOn(o, "check") /\ UNCHANGED rec
           \/ OpGoesOn(o, "first run") /\ (UNCHANGED rec \/ RecIs(o, "check", 0, "none"))
     \/ /\ op[o].pc = "first run" /\ Ended(rec[o]) /\ UNCHANGED rec
        /\ \/ OpGoesOn(o, "onboarding") /\ SvcIs(o, "start", "none")
           \/ OpGoesOn(o, "done") /\ UNCHANGED svc

Captured(o) ==
  /\ UNCHANGED <<legacy, marker, home, onboarded, svc>>
  /\ \/ /\ op[o].pc = "service, then capture" /\ Ended(svc[o])
        /\ \E at \in {"done", "record", "stop listeners"} : OpGoesOn(o, at)
        /\ UNCHANGED <<processes, rec, loose>>
     \/ /\ op[o].pc = "stop listeners" /\ UNCHANGED <<op, sup, rec, loose>>
        /\ screen' = [p \in Pids |-> IF screen[p] = "up" THEN "ending" ELSE screen[p]]
     \/ /\ op[o].pc = "stop listeners" /\ OpGoesOn(o, "record") /\ UNCHANGED <<rec, loose>>
        /\ screen' = [p \in Pids |-> "none"]
        /\ sup' = [p \in Pids |-> IF screen[p] = "ending" /\ sup[p] = "watching" THEN "final" ELSE sup[p]]
     \/ /\ op[o].pc = "record" /\ OpGoesOn(o, "done") /\ loose' = TRUE
        /\ \E p \in Pids : Spawned(p)
        /\ UNCHANGED <<screen, rec>>
     \/ /\ op[o].pc = "record" /\ OpGoesOn(o, "recorder") /\ RecIs(o, "check", 0, "none")
        /\ UNCHANGED <<processes, loose>>

SignsRead(o) ==
  /\ UNCHANGED <<processes, rec, svc, loose, onboarded>>
  /\ \/ /\ op[o].pc = "signs" /\ OpIs(o, op[o].name, "legacy", HasCompletedOnboarding)
        /\ UNCHANGED <<legacy, marker, home>>
     \/ /\ op[o].pc = "legacy" /\ UNCHANGED <<marker, home>>
        /\ \/ legacy' = "none" /\ OpGoesOn(o, "home")
           \/ UNCHANGED legacy /\ OpGoesOn(o, "done")
     \/ /\ op[o].pc = "home" /\ UNCHANGED legacy
        /\ \/ /\ MovedHome /\ marker' = (marker \/ TreatAsOnboarded(o))
              /\ OpGoesOn(o, IF op[o].name = "setup" THEN "done" ELSE "mode")
           \/ UNCHANGED <<marker, home>> /\ OpGoesOn(o, "done")

Finished(o) ==
  /\ UNCHANGED <<processes, legacy, home, loose>>
  /\ op[o].pc # "idle" /\ OpIs(o, "none", "idle", FALSE)
  /\ RecIs(o, "none", 0, "none") /\ SvcIs(o, "none", "none") /\ Ended(rec[o]) /\ Ended(svc[o])
  /\ (marker => marker') /\ (onboarded' => onboarded \/ marker')
  /\ {marker', onboarded'} \subseteq BOOLEAN

OpDone(o) ==
  /\ UNCHANGED <<pidFile, reused, crashed, service, forgotten>>
  /\ \/ \E name \in Commands, at \in OpSteps, r \in RecSteps, s \in SvcSteps : Begun(o, name, at, r, s)
     \/ /\ UNCHANGED overlapped
        /\ JobsStarted(o) \/ Captured(o) \/ SignsRead(o) \/ Finished(o)

LEMMA BeginDoes ==
  ASSUME JobsTyped, NEW o \in Operators, NEW name \in Commands, Begin(o, name)
  PROVE  OpDone(o)
<1>1. PICK at, r, s :
        /\ at = CASE name \in {"recorder:start", "recorder:stop"} -> "recorder"
                  [] name \in {"service:start", "service:stop"}   -> "service"
                  [] name = "down:all"                             -> "recorder, then service"
                  [] name \in {"up", "up --detach", "up --restart-capture --detach"} -> "build"
                  [] name = "resume"                               -> "check"
                  [] name \in {"start", "setup"}                    -> "signs"
        /\ r = CASE name = "recorder:start" -> "check"
                 [] name \in {"recorder:stop", "down:all"} -> "stop"
                 [] OTHER -> "none"
        /\ s = CASE name = "service:start" -> "start"
                 [] name = "service:stop"  -> "stop"
                 [] OTHER -> "none"
  OBVIOUS
<1>2. /\ op[o].pc = "idle" /\ op' = [op EXCEPT ![o] = [name |-> name, signs |-> FALSE, pc |-> at]]
      /\ rec' = [rec EXCEPT ![o].pc = r] /\ svc' = [svc EXCEPT ![o].pc = s]
      /\ overlapped' = (overlapped \/ \E other \in Operators : op[other].pc # "idle")
      /\ UNCHANGED <<processes, pidFile, launchd, crashed, loose>>
  BY <1>1 DEF Begin
<1>3. /\ at \in {"recorder", "service", "recorder, then service", "build", "check", "signs"}
      /\ at = "signs" => name \in {"start", "setup"}
      /\ r \in {"none", "check", "stop"} /\ (r # "none" => at \in {"recorder", "recorder, then service"})
      /\ s \in {"none", "start", "stop"} /\ (s # "none" => at = "service")
  BY <1>1, StackAssumption
<1>4. at \in OpSteps /\ r \in RecSteps /\ s \in SvcSteps
  BY <1>3 DEF OpSteps, RecSteps, SvcSteps
<1>5. OpIs(o, name, at, FALSE)
  BY <1>2, <1>4, OpSets
<1>6. RecIs(o, r, rec[o].pid, rec[o].how)
  BY <1>2, <1>4, RecSets
<1>7. SvcIs(o, s, svc[o].how)
  BY <1>2, <1>4, SvcSets
<1>8. Begun(o, name, at, r, s)
  BY <1>2, <1>3, <1>5, <1>6, <1>7 DEF Begun, launchd
<1>9. UNCHANGED <<pidFile, reused, crashed, service, forgotten>>
  BY <1>2 DEF processes, launchd
<1> QED
  BY <1>4, <1>8, <1>9 DEF OpDone

LEMMA OpDoes ==
  ASSUME JobsTyped, SvcTyped, NEW o \in Operators, OpStep(o)
  PROVE  OpDone(o)
<1> USE OpSets, RecEndsAs, SvcSets
    DEF OpDone, OpGoesOn, OpSteps, RecSteps, SvcSteps, OpOnly, processes, launchd, stackGhosts
<1>1. ASSUME NEW name \in Commands, Begin(o, name)
      PROVE  OpDone(o)
  BY <1>1, BeginDoes
<1>2. CASE ThenService(o) \/ Build(o)
  BY <1>2 DEF ThenService, Build, JobsStarted
<1>3. CASE ResumeStack(o)
  BY <1>3 DEF ResumeStack, JobsStarted
<1>4. CASE SelectMode(o) \/ Onboard(o)
  BY <1>4 DEF SelectMode, Onboard, JobsStarted
<1>5. CASE Capture(o)
  BY <1>5 DEF Capture, Captured
<1>6. CASE StopRunningScreenpipe(o)
  BY ZenonT(30), <1>6 DEF StopRunningScreenpipe, Captured
<1>7. CASE StartRecorder(o)
  BY ZenonT(30), <1>7 DEF StartRecorder, Captured
<1>8. CASE ReadSigns(o)
  <2>1. HasCompletedOnboarding \in BOOLEAN
    BY DEF HasCompletedOnboarding, SvcTyped
  <2> QED
    BY <1>8, <2>1 DEF ReadSigns, SignsRead
<1>9. CASE RemoveLegacy(o)
  BY <1>9 DEF RemoveLegacy, SignsRead
<1>10. CASE MakeHomeReady(o)
  BY <1>10 DEF MakeHomeReady, SignsRead
<1>11. CASE Finish(o)
  <2>1. /\ op' = [op EXCEPT ![o] = [name |-> "none", signs |-> FALSE, pc |-> "idle"]]
        /\ rec' = [rec EXCEPT ![o] = [pc |-> "none", pid |-> 0, how |-> "none"]]
        /\ svc' = [svc EXCEPT ![o] = [pc |-> "none", pid |-> 0, how |-> "none"]]
    BY <1>11 DEF Finish, NoCommand, NoJob
  <2>2. OpIs(o, "none", "idle", FALSE) /\ RecIs(o, "none", 0, "none") /\ SvcIs(o, "none", "none")
    BY <2>1, RecSets DEF StartJob, NoJob
  <2>3. \E complete \in BOOLEAN : marker' = (marker \/ complete) /\ onboarded' = (onboarded \/ complete)
    BY <1>11 DEF Finish
  <2>4. (marker => marker') /\ (onboarded' => onboarded \/ marker') /\ {marker', onboarded'} \subseteq BOOLEAN
    BY <2>3 DEF SvcTyped
  <2> QED
    BY <1>11, <2>2, <2>4 DEF Finish, Finished
<1> QED
  BY <1>1, <1>2, <1>3, <1>4, <1>5, <1>6, <1>7, <1>8, <1>9, <1>10, <1>11 DEF OpStep

LEMMA StepIs ==
  ASSUME StackNext
  PROVE  \/ \E p \in Pids : SupStep(p)
         \/ \E o \in Operators : RecStep(o) \/ SvcStep(o) \/ OpStep(o)
         \/ InstanceChanges
BY DEF StackNext, SupStep, RecStep, SvcStep, OpStep

LEMMA JobsInit == StackInit => JobsTyped /\ Ordered /\ Alone
<1> SUFFICES ASSUME StackInit PROVE JobsTyped /\ Ordered /\ Alone
  OBVIOUS
<1>1. \A o \in Operators : op[o] = NoCommand /\ rec[o] = NoJob /\ svc[o] = NoJob
  BY DEF StackInit
<1>2. NoCommand \in OpStates /\ NoJob \in RecJobs /\ NoJob \in SvcJobs
  BY DEF NoCommand, NoJob, OpStates, RecJobs, SvcJobs, OpSteps, RecSteps, SvcSteps
<1>3. JobsTyped
  BY <1>2 DEF StackInit, JobsTyped
<1>4. Ordered
  <2>1. NoJob.pc = "none" /\ NoJob.pid = 0
    BY DEF NoJob
  <2> QED
    BY <1>1, <2>1 DEF Ordered, OrderedOne, Ended
<1>5. Alone
  BY <1>1 DEF Alone, NoCommand
<1> QED
  BY <1>3, <1>4, <1>5

LEMMA JobsStep ==
  ASSUME JobsTyped, Ordered, Alone, SupTyped, SvcTyped, StackNext
  PROVE  JobsTyped' /\ Ordered' /\ Alone'
<1> USE DEF Ended
<1>1. ASSUME NEW p \in Pids, SupStep(p)
      PROVE  JobsTyped' /\ Ordered' /\ Alone'
  <2>1. UNCHANGED <<op, rec, svc, overlapped>>
    BY <1>1 DEF SupStep, SpawnScreenpipe, ScreenpipeExits, FinalMaintenanceDone, SupervisorCrashes,
                PidReused, jobs, stackGhosts
  <2> QED
    BY <2>1 DEF JobsTyped, Ordered, OrderedOne, Alone
<1>2. CASE InstanceChanges
  <2>1. UNCHANGED <<op, rec, svc, overlapped>>
    BY <1>2 DEF InstanceChanges, jobs, stackGhosts
  <2> QED
    BY <2>1 DEF JobsTyped, Ordered, OrderedOne, Alone
<1>3. ASSUME NEW o \in Operators, RecStep(o)
      PROVE  JobsTyped' /\ Ordered' /\ Alone'
  <2>1. RecDone(o)
    BY <1>3, RecDoes
  <2>2. /\ UNCHANGED <<op, svc, overlapped>> /\ ~Ended(rec[o])
        /\ rec' \in [Operators -> RecJobs] /\ \A q \in Operators \ {o} : rec'[q] = rec[q]
        /\ rec'[o].pid # 0 => rec'[o].pc \in {"write", "poll", "clear"} \/ rec'[o].pid = rec[o].pid
        /\ rec[o].pid = 0 \/ rec[o].pc # "check"
    BY <2>1 DEF RecDone, RecIs, Ordered, OrderedOne
  <2>3. rec'[o].pid # 0 => rec'[o].pc \in {"write", "poll", "clear"}
    BY <2>1 DEF RecDone, RecIs, Ordered, OrderedOne
  <2>4. JobsTyped'
    BY <2>2 DEF JobsTyped
  <2>5. \A q \in Operators : OrderedOne(q)'
    <3>1. ASSUME NEW q \in Operators, q # o PROVE OrderedOne(q)'
      BY <2>2, <3>1 DEF Ordered, OrderedOne
    <3>2. OrderedOne(o)'
      BY <2>2, <2>3 DEF Ordered, OrderedOne
    <3> QED
      BY <3>1, <3>2
  <2>6. Alone'
    BY <2>2 DEF Alone
  <2> QED
    BY <2>4, <2>5, <2>6 DEF Ordered
<1>4. ASSUME NEW o \in Operators, SvcStep(o)
      PROVE  JobsTyped' /\ Ordered' /\ Alone'
  <2>1. SvcDone(o)
    BY <1>4, SvcDoes
  <2>2. /\ UNCHANGED <<op, rec, overlapped>> /\ ~Ended(svc[o])
        /\ svc' \in [Operators -> SvcJobs] /\ \A q \in Operators \ {o} : svc'[q] = svc[q]
    BY <2>1 DEF SvcDone, SvcIs
  <2> QED
    BY <2>2 DEF JobsTyped, Ordered, OrderedOne, Alone
<1>5. ASSUME NEW o \in Operators, OpStep(o)
      PROVE  JobsTyped' /\ Ordered' /\ Alone'
  <2>1. OpDone(o)
    BY <1>5, OpDoes
  <2>2. CASE \E name \in Commands, at \in OpSteps, r \in RecSteps, s \in SvcSteps : Begun(o, name, at, r, s)
    <3>1. PICK name \in Commands, at \in OpSteps, r \in RecSteps, s \in SvcSteps : Begun(o, name, at, r, s)
      BY <2>2
    <3>2. JobsTyped'
      BY <3>1 DEF JobsTyped, Begun, OpIs, RecIs, SvcIs
    <3>3. rec[o].pid = 0
      BY <3>1 DEF Begun, Ordered, OrderedOne
    <3>4. Ordered'
      <4> SUFFICES ASSUME NEW q \in Operators PROVE OrderedOne(q)'
        BY DEF Ordered
      <4>1. CASE q = o
        BY <3>1, <3>3, <4>1 DEF OrderedOne, Begun, OpIs, RecIs, SvcIs
      <4>2. CASE q # o
        <5>1. op'[q] = op[q] /\ rec'[q] = rec[q] /\ svc'[q] = svc[q]
          BY <3>1, <4>2 DEF Begun, OpIs, RecIs, SvcIs
        <5> QED
          BY <5>1 DEF Ordered, OrderedOne
      <4> QED
        BY <4>1, <4>2
    <3>5. Alone'
      BY <3>1 DEF Alone, Begun, OpIs
    <3> QED
      BY <3>2, <3>4, <3>5
  <2>3. CASE JobsStarted(o) /\ UNCHANGED overlapped
    <3>1. JobsTyped'
      BY <2>3 DEF JobsTyped, JobsStarted, OpGoesOn, OpIs, RecIs, SvcIs
    <3>2. Ordered'
      <4> SUFFICES ASSUME NEW q \in Operators PROVE OrderedOne(q)'
        BY DEF Ordered
      <4>1. CASE q = o
        BY <2>3, <4>1 DEF Ordered, OrderedOne, JobsStarted, OpGoesOn, OpIs, RecIs, SvcIs
      <4>2. CASE q # o
        <5>1. op'[q] = op[q] /\ rec'[q] = rec[q] /\ svc'[q] = svc[q]
          BY <2>3, <4>2 DEF JobsStarted, OpGoesOn, OpIs, RecIs, SvcIs
        <5> QED
          BY <5>1 DEF Ordered, OrderedOne
      <4> QED
        BY <4>1, <4>2
    <3>3. Alone'
      BY <2>3 DEF Alone, JobsStarted, OpGoesOn, OpIs
    <3> QED
      BY <3>1, <3>2, <3>3
  <2>4. CASE Captured(o) /\ UNCHANGED overlapped
    <3>1. JobsTyped'
      BY <2>4 DEF JobsTyped, Captured, OpGoesOn, OpIs, RecIs
    <3>2. Ordered'
      <4> SUFFICES ASSUME NEW q \in Operators PROVE OrderedOne(q)'
        BY DEF Ordered
      <4>1. CASE q = o
        BY <2>4, <4>1 DEF Ordered, OrderedOne, Captured, OpGoesOn, OpIs, RecIs
      <4>2. CASE q # o
        <5>1. op'[q] = op[q] /\ rec'[q] = rec[q] /\ svc'[q] = svc[q]
          BY <2>4, <4>2 DEF Captured, OpGoesOn, OpIs, RecIs
        <5> QED
          BY <5>1 DEF Ordered, OrderedOne
      <4> QED
        BY <4>1, <4>2
    <3>3. Alone'
      BY <2>4 DEF Alone, Captured, OpGoesOn, OpIs
    <3> QED
      BY <3>1, <3>2, <3>3
  <2>5. CASE SignsRead(o) /\ UNCHANGED overlapped
    <3>1. JobsTyped'
      BY <2>5 DEF JobsTyped, SignsRead, OpGoesOn, OpIs
    <3>2. Ordered'
      BY <2>5 DEF Ordered, OrderedOne, SignsRead, OpGoesOn, OpIs
    <3>3. Alone'
      BY <2>5 DEF Alone, SignsRead, OpGoesOn, OpIs
    <3> QED
      BY <3>1, <3>2, <3>3
  <2>6. CASE Finished(o) /\ UNCHANGED overlapped
    <3>1. JobsTyped'
      BY <2>6 DEF JobsTyped, Finished, OpIs, RecIs, SvcIs
    <3>2. Ordered'
      <4> SUFFICES ASSUME NEW q \in Operators PROVE OrderedOne(q)'
        BY DEF Ordered
      <4>1. CASE q = o
        BY <2>6, <4>1 DEF OrderedOne, Finished, RecIs, SvcIs
      <4>2. CASE q # o
        <5>1. op'[q] = op[q] /\ rec'[q] = rec[q] /\ svc'[q] = svc[q]
          BY <2>6, <4>2 DEF Finished, OpIs, RecIs, SvcIs
        <5> QED
          BY <5>1 DEF Ordered, OrderedOne
      <4> QED
        BY <4>1, <4>2
    <3>3. Alone'
      BY <2>6 DEF Alone, Finished, OpIs
    <3> QED
      BY <3>1, <3>2, <3>3
  <2> QED
    BY <2>1, <2>2, <2>3, <2>4, <2>5, <2>6 DEF OpDone
<1> QED
  BY <1>1, <1>2, <1>3, <1>4, <1>5, StepIs

-----------------------------------------------------------------------------
(* What happens to the supervisors, whoever does it.                       *)
SupOnly == UNCHANGED <<pidFile, rec, overlapped, loose>>

SupDone ==
  \/ /\ UNCHANGED <<reused, crashed>> /\ SupOnly
     /\ \/ \E p \in Pids :
             \/ /\ sup[p] = "starting" /\ sup' = [sup EXCEPT ![p] = "watching"]
                /\ screen' = [screen EXCEPT ![p] = "up"]
             \/ sup[p] \in {"starting", "final"} /\ sup' = [sup EXCEPT ![p] = "dead"] /\ UNCHANGED screen
             \/ /\ screen' = [screen EXCEPT ![p] = "none"]
                /\ sup' = [sup EXCEPT ![p] = IF @ = "watching" THEN "final" ELSE @]
        \/ /\ UNCHANGED sup
           /\ screen' = [p \in Pids |-> IF screen[p] = "up" THEN "ending" ELSE screen[p]]
        \/ /\ screen' = [p \in Pids |-> "none"]
           /\ sup' = [p \in Pids |->
                IF screen[p] = "ending" /\ sup[p] = "watching" THEN "final" ELSE sup[p]]
  \/ /\ UNCHANGED <<screen, reused>> /\ SupOnly
     /\ \E p \in Pids : /\ SupervisorLives(p) /\ crashed' = crashed \cup {p}
                        /\ sup' = [sup EXCEPT ![p] = "dead"]
  \/ /\ UNCHANGED <<screen, sup, crashed>> /\ SupOnly
     /\ \E p \in Pids : sup[p] = "dead" /\ reused' = reused \cup {p}
  \/ /\ UNCHANGED <<screen, reused, crashed, pidFile, rec, overlapped>> /\ loose' = TRUE
     /\ \E p \in Pids : Spawned(p)

(* What happens to a recorder job besides its own steps: nothing, or it    *)
(* is begun or over.                                                       *)
RecBegun(o) ==
  /\ UNCHANGED <<processes, pidFile, crashed, loose>> /\ (overlapped => overlapped')
  /\ Ended(rec[o])
  /\ \A q \in Operators \ {o} : rec'[q] = rec[q]
  /\ rec'[o].pid = 0 /\ rec'[o].pc \in {"none", "check", "stop"}

LEMMA RecorderStep ==
  ASSUME JobsTyped, Ordered, SupTyped, SvcTyped, StackNext
  PROVE  \/ SupDone
         \/ \E o \in Operators : RecDone(o) \/ RecBegun(o)
         \/ UNCHANGED <<processes, pidFile, crashed, loose, rec, overlapped>>
         \/ UNCHANGED <<processes, pidFile, crashed, rec, overlapped>> /\ loose' = TRUE
<1> USE DEF SupDone, SupOnly, Ended, processes
<1>1. ASSUME NEW p \in Pids, SupStep(p)
      PROVE  SupDone
  BY <1>1 DEF SupStep, SpawnScreenpipe, ScreenpipeExits, FinalMaintenanceDone, SupervisorCrashes,
              PidReused, jobs, stackGhosts
<1>2. CASE InstanceChanges
  BY <1>2 DEF InstanceChanges, jobs, stackGhosts
<1>3. ASSUME NEW o \in Operators, SvcStep(o)
      PROVE  /\ UNCHANGED <<processes, pidFile, crashed, rec, overlapped>>
             /\ UNCHANGED loose \/ loose' = TRUE
  <2>1. SvcDone(o)
    BY <1>3, SvcDoes
  <2> QED
    BY <2>1 DEF SvcDone
<1>4. ASSUME NEW o \in Operators, OpStep(o)
      PROVE  \/ SupDone \/ RecBegun(o)
             \/ UNCHANGED <<processes, pidFile, crashed, loose, rec, overlapped>>
  <2>1. OpDone(o)
    BY <1>4, OpDoes
  <2>2. CASE \E name \in Commands, at \in OpSteps, r \in RecSteps, s \in SvcSteps : Begun(o, name, at, r, s)
    BY <2>1, <2>2 DEF OpDone, Begun, RecIs, RecBegun, Ordered, OrderedOne
  <2>3. CASE JobsStarted(o) /\ UNCHANGED overlapped
    BY <2>1, <2>3 DEF OpDone, JobsStarted, RecIs, RecBegun, Ordered, OrderedOne
  <2>4. CASE Captured(o) /\ UNCHANGED overlapped
    BY <2>1, <2>4 DEF OpDone, Captured, RecIs, RecBegun, Ordered, OrderedOne
  <2>5. CASE SignsRead(o) /\ UNCHANGED overlapped
    BY <2>1, <2>5 DEF OpDone, SignsRead
  <2>6. CASE Finished(o) /\ UNCHANGED overlapped
    BY <2>1, <2>6 DEF OpDone, Finished, RecIs, RecBegun
  <2> QED
    BY <2>1, <2>2, <2>3, <2>4, <2>5, <2>6 DEF OpDone
<1> QED
  BY <1>1, <1>2, <1>3, <1>4, StepIs, RecDoes

(* Of a step of a recorder job, the processes.                             *)
Ending(p) ==
  /\ sup' \in [Pids -> {"none", "starting", "watching", "final", "dead"}]
  /\ screen' \in [Pids -> {"none", "up", "ending"}]
  /\ \A q \in Pids : sup'[q] = sup[q] \/ (q = p /\ sup'[q] = "dead" /\ sup[q] \in {"starting", "final"})
  /\ \A q \in Pids : screen'[q] # "none" => screen[q] # "none"
  /\ reused' \subseteq reused /\ UNCHANGED crashed

Killed(p) ==
  /\ SupervisorLives(p) \/ p \in reused
  /\ UNCHANGED screen /\ sup' = [sup EXCEPT ![p] = "dead"] /\ reused' = reused \ {p}
  /\ crashed' = crashed \cup {p}

LEMMA Terminated ==
  ASSUME SupTyped, NEW p \in Pids \cup {0}, Terminate(p), UNCHANGED crashed
  PROVE  Ending(p)
BY DEF SupTyped, Terminate, Ending

LEMMA RecProcesses ==
  ASSUME JobsTyped, SupTyped, NEW o \in Operators, RecDone(o)
  PROVE  \/ UNCHANGED <<processes, crashed>>
         \/ (\E p \in Pids : Spawned(p)) /\ UNCHANGED <<screen, reused, crashed>>
         \/ Ending(pidFile)
         \/ rec[o].pid \in Pids /\ Killed(rec[o].pid)
<1>1. rec[o].pid \in Pids \cup {0} /\ pidFile \in Pids \cup {0}
  BY DEF JobsTyped, RecJobs, SupTyped
<1> QED
  BY <1>1, Terminated DEF RecDone, processes, Killed, IsProcessAlive

LEMMA SupTypedStep ==
  ASSUME JobsTyped, Ordered, SupTyped, SvcTyped, StackNext
  PROVE  SupTyped'
<1>1. CASE SupDone
  BY <1>1 DEF SupDone, SupOnly, SupTyped, Spawned
<1>2. ASSUME NEW o \in Operators, RecDone(o)
      PROVE  SupTyped'
  <2>1. \/ UNCHANGED <<processes, crashed>>
        \/ (\E p \in Pids : Spawned(p)) /\ UNCHANGED <<screen, reused, crashed>>
        \/ Ending(pidFile)
        \/ rec[o].pid \in Pids /\ Killed(rec[o].pid)
    BY <1>2, RecProcesses
  <2>2. pidFile' \in Pids \cup {0}
    <3>1. rec[o].pid \in Pids \cup {0}
      BY DEF JobsTyped, RecJobs
    <3>2. pidFile' \in {pidFile, 0, rec[o].pid}
      BY <1>2 DEF RecDone
    <3> QED
      BY <3>1, <3>2 DEF SupTyped
  <2>3. CASE UNCHANGED <<processes, crashed>>
    BY <2>2, <2>3 DEF SupTyped, processes
  <2>4. CASE (\E p \in Pids : Spawned(p)) /\ UNCHANGED <<screen, reused, crashed>>
    BY <2>2, <2>4 DEF SupTyped, Spawned
  <2>5. CASE Ending(pidFile)
    BY <2>2, <2>5 DEF SupTyped, Ending
  <2>6. CASE rec[o].pid \in Pids /\ Killed(rec[o].pid)
    BY <2>2, <2>6 DEF SupTyped, Killed
  <2> QED
    BY <2>1, <2>3, <2>4, <2>5, <2>6
<1>3. ASSUME NEW o \in Operators, RecBegun(o)
      PROVE  SupTyped'
  BY <1>3 DEF RecBegun, SupTyped, processes
<1>4. CASE UNCHANGED <<processes, pidFile, crashed>>
  BY <1>4 DEF SupTyped, processes
<1> QED
  BY <1>1, <1>2, <1>3, <1>4, RecorderStep

(* A supervisor is dead for good, and what has been started stays so.      *)
Onwards ==
  \A p \in Pids : (sup[p] = "dead" => sup'[p] = "dead") /\ (sup[p] # "none" => sup'[p] # "none")

Screens ==
  /\ \A p \in Pids : screen[p] # "none" => sup[p] = "watching" \/ p \in crashed
  /\ \A p \in reused : sup[p] = "dead"

Pointed(o) ==
  /\ rec[o].pc \in {"write", "poll"} => rec[o].pid # 0
  /\ rec[o].pid # 0 => sup[rec[o].pid] # "none"
  /\ rec[o].pc = "clear" /\ rec[o].how = "stopped" => rec[o].pid # 0 /\ sup[rec[o].pid] = "dead"

LEMMA SilentIs ==
  Silent <=> Screens /\ (pidFile # 0 => sup[pidFile] # "none") /\ \A o \in Operators : Pointed(o)
BY DEF Silent, Screens, Pointed

LEMMA PointedKept ==
  ASSUME JobsTyped, Onwards, NEW o \in Operators, rec'[o] = rec[o], Pointed(o)
  PROVE  Pointed(o)'
<1>1. rec[o].pid \in Pids \cup {0}
  BY DEF JobsTyped, RecJobs
<1> QED
  BY <1>1 DEF Pointed, Onwards

LEMMA SilentStep ==
  ASSUME JobsTyped, Ordered, SupTyped, Silent, SvcTyped, StackNext
  PROVE  Silent'
<1>0. Screens /\ (pidFile # 0 => sup[pidFile] # "none") /\ \A o \in Operators : Pointed(o)
  BY SilentIs
<1> SUFFICES Screens' /\ (pidFile # 0 => sup[pidFile] # "none")' /\ \A o \in Operators : Pointed(o)'
  BY DEF Silent, Screens, Pointed
<1>1. CASE SupDone
  <2>1. Onwards
    BY <1>1 DEF SupDone, SupTyped, Onwards, Spawned, SupervisorLives
  <2>2. Screens'
    BY <1>0, <1>1 DEF SupDone, SupTyped, Screens, Spawned, SupervisorLives
  <2>3. UNCHANGED <<pidFile, rec>>
    BY <1>1 DEF SupDone, SupOnly
  <2> QED
    BY <1>0, <2>1, <2>2, <2>3, PointedKept DEF Onwards, SupTyped
<1>2. ASSUME NEW o \in Operators, RecDone(o)
      PROVE  Screens' /\ (pidFile # 0 => sup[pidFile] # "none")' /\ \A q \in Operators : Pointed(q)'
  <2>1. rec[o].pid \in Pids \cup {0} /\ Pointed(o) /\ pidFile \in Pids \cup {0}
    BY <1>0 DEF JobsTyped, RecJobs, SupTyped
  <2>2. Onwards /\ Screens'
    <3>1. \/ UNCHANGED <<processes, crashed>>
          \/ (\E p \in Pids : Spawned(p)) /\ UNCHANGED <<screen, reused, crashed>>
          \/ Ending(pidFile)
          \/ rec[o].pid \in Pids /\ Killed(rec[o].pid)
      BY <1>2, RecProcesses
    <3>2. CASE UNCHANGED <<processes, crashed>>
      BY <1>0, <3>2 DEF Onwards, Screens, processes
    <3>3. CASE (\E p \in Pids : Spawned(p)) /\ UNCHANGED <<screen, reused, crashed>>
      BY <1>0, <3>3 DEF SupTyped, Onwards, Screens, Spawned
    <3>4. CASE Ending(pidFile)
      BY <1>0, <3>4 DEF SupTyped, Onwards, Screens, Ending
    <3>5. CASE rec[o].pid \in Pids /\ Killed(rec[o].pid)
      BY <1>0, <3>5 DEF SupTyped, Onwards, Screens, Killed, SupervisorLives
    <3> QED
      BY <3>1, <3>2, <3>3, <3>4, <3>5
  <2>4. (pidFile # 0 => sup[pidFile] # "none")'
    <3>1. pidFile' = pidFile \/ pidFile' = 0 \/ (pidFile' = rec[o].pid /\ UNCHANGED sup)
      BY <1>2 DEF RecDone, processes
    <3> QED
      BY <1>0, <2>1, <2>2, <3>1 DEF Onwards, Pointed
  <2>5. \A q \in Operators \ {o} : Pointed(q)'
    <3>1. \A q \in Operators \ {o} : rec'[q] = rec[q]
      BY <1>2 DEF RecDone, RecIs
    <3> QED
      BY <1>0, <2>2, <3>1, PointedKept
  <2>6. Pointed(o)'
    <3>1. CASE rec[o].pc = "check"
      BY <1>2, <2>1, <2>2, <3>1 DEF RecDone, RecIs, Pointed, Onwards
    <3>2. CASE rec[o].pc = "spawn"
      <4>1. PICK p \in Pids : Spawned(p) /\ RecIs(o, "write", p, rec[o].how)
        BY <1>2, <3>2 DEF RecDone
      <4> QED
        BY <4>1, StackAssumption DEF RecIs, Pointed, Spawned, SupTyped
    <3>3. CASE rec[o].pc \in {"write", "clear"}
      BY <1>2, <3>3 DEF RecDone, RecIs, Pointed
    <3>4. CASE rec[o].pc = "stop"
      <4>1. \/ RecIs(o, "poll", pidFile, "none") /\ pidFile # 0
            \/ RecIs(o, "clear", 0, "stopped already")
        BY <1>2, <3>4 DEF RecDone, IsProcessAlive
      <4> QED
        BY <1>0, <2>1, <2>2, <4>1 DEF RecIs, Pointed, Onwards
    <3>5. CASE rec[o].pc = "poll"
      <4>1. CASE ~IsProcessAlive(rec[o].pid)
        <5>1. UNCHANGED sup /\ RecIs(o, "clear", rec[o].pid, "stopped")
          BY <1>2, <3>5, <4>1 DEF RecDone, processes
        <5>2. rec[o].pid # 0 /\ sup[rec[o].pid] = "dead"
          BY <2>1, <3>5, <4>1 DEF Pointed, IsProcessAlive, SupervisorLives, SupTyped
        <5> QED
          BY <5>1, <5>2 DEF RecIs, Pointed
      <4>2. CASE IsProcessAlive(rec[o].pid)
        BY <1>2, <2>1, <2>2, <3>5, <4>2 DEF RecDone, RecIs, Pointed, Onwards
      <4> QED
        BY <4>1, <4>2
    <3> QED
      BY <1>2, <3>1, <3>2, <3>3, <3>4, <3>5 DEF RecDone
  <2> QED
    BY <2>2, <2>4, <2>5, <2>6
<1>3. ASSUME NEW o \in Operators, RecBegun(o)
      PROVE  Screens' /\ (pidFile # 0 => sup[pidFile] # "none")' /\ \A q \in Operators : Pointed(q)'
  <2>1. UNCHANGED <<screen, sup, reused, pidFile, crashed>>
    BY <1>3 DEF RecBegun, processes
  <2>2. Pointed(o)'
    BY <1>3 DEF RecBegun, Pointed
  <2>3. \A q \in Operators \ {o} : Pointed(q)'
    BY <1>0, <1>3, <2>1 DEF RecBegun, Pointed
  <2> QED
    BY <1>0, <2>1, <2>2, <2>3 DEF Screens
<1>4. CASE UNCHANGED <<processes, pidFile, crashed, rec>>
  BY <1>0, <1>4 DEF Screens, Pointed, processes
<1> QED
  BY <1>1, <1>2, <1>3, <1>4, RecorderStep

(* As long as commands run one after the other and no supervisor is        *)
(* killed, all that live are the one the pid file names, or the one whose  *)
(* pid is yet to be written.                                               *)
Orderly == ~overlapped /\ ~loose /\ crashed = {}
Near(o) ==
  /\ rec[o].pc \in {"spawn", "clear"} => Nobody
  /\ rec[o].pc = "write" => \A p \in Pids : SupervisorLives(p) => p = rec[o].pid
  /\ rec[o].pc = "poll" => rec[o].pid = pidFile
OnFile == \A p \in Pids : SupervisorLives(p) => p = pidFile
NoFewer == \A p \in Pids : SupervisorLives(p)' => SupervisorLives(p)

LEMMA FindableIs ==
  Findable <=> (Orderly => /\ \A o \in Operators : Near(o)
                           /\ (\A o \in Operators : rec[o].pc # "write") => OnFile)
BY DEF Findable, Orderly, Near, OnFile

LEMMA FindableStep ==
  ASSUME JobsTyped, Ordered, Alone, SupTyped, Silent, Findable, SvcTyped, StackNext
  PROVE  Findable'
<1> SUFFICES ASSUME Orderly'
             PROVE  /\ \A o \in Operators : Near(o)'
                    /\ (\A o \in Operators : rec'[o].pc # "write") => OnFile'
  BY DEF Findable, Orderly, Near, OnFile
<1>1. CASE SupDone
  <2>1. Orderly /\ UNCHANGED <<pidFile, rec>>
    BY <1>1 DEF SupDone, SupOnly, Orderly
  <2>2. NoFewer
    BY <1>1 DEF SupDone, Orderly, SupTyped, NoFewer, SupervisorLives
  <2> QED
    BY <2>1, <2>2, FindableIs DEF Near, OnFile, Nobody, NoFewer
<1>2. ASSUME NEW o \in Operators, RecDone(o)
      PROVE  /\ \A q \in Operators : Near(q)'
             /\ (\A q \in Operators : rec'[q].pc # "write") => OnFile'
  <2>1. Orderly
    BY <1>2 DEF RecDone, Orderly
  <2>2. \A q \in Operators \ {o} : Ended(rec[q]) /\ rec'[q] = rec[q]
    BY <1>2, <2>1 DEF RecDone, RecIs, Ordered, OrderedOne, Alone, Orderly
  <2>3. \A q \in Operators \ {o} : Near(q)'
    BY <2>2 DEF Near, Ended
  <2>4. Near(o) /\ (rec[o].pc # "write" => OnFile)
    BY <2>1, <2>2, FindableIs DEF Ended
  <2>5. 0 \notin Pids /\ rec[o].pid \in Pids \cup {0} /\ pidFile \in Pids \cup {0} /\ Pointed(o)
    BY StackAssumption, SilentIs DEF JobsTyped, RecJobs, SupTyped
  <2> SUFFICES Near(o)' /\ (rec'[o].pc # "write" => OnFile')
    BY <2>3
  <2>6. CASE rec[o].pc = "check"
    BY <1>2, <2>4, <2>5, <2>6
       DEF RecDone, RecIs, Near, OnFile, Nobody, IsProcessAlive, processes, SupervisorLives
  <2>7. CASE rec[o].pc = "spawn"
    <3>1. PICK p \in Pids : Spawned(p) /\ RecIs(o, "write", p, rec[o].how)
      BY <1>2, <2>7 DEF RecDone
    <3>2. Nobody
      BY <2>4, <2>7 DEF Near
    <3> QED
      BY <3>1, <3>2 DEF RecIs, Near, Nobody, SupTyped, Spawned, SupervisorLives
  <2>8. CASE rec[o].pc = "write"
    BY <1>2, <2>4, <2>8 DEF RecDone, RecIs, Near, OnFile, processes, SupervisorLives
  <2>9. CASE rec[o].pc = "stop"
    <3>1. CASE IsProcessAlive(pidFile)
      <4>1. Ending(pidFile) /\ UNCHANGED pidFile /\ RecIs(o, "poll", pidFile, "none")
        BY <1>2, <2>5, <2>9, <3>1, Terminated DEF RecDone
      <4> QED
        BY <2>4, <2>9, <4>1 DEF RecIs, Near, OnFile, Ending, SupervisorLives
    <3>2. CASE ~IsProcessAlive(pidFile)
      BY <1>2, <2>4, <2>5, <2>9, <3>2
         DEF RecDone, RecIs, Near, OnFile, Nobody, IsProcessAlive, processes, SupervisorLives
    <3> QED
      BY <3>1, <3>2
  <2>10. CASE rec[o].pc = "poll"
    <3>1. CASE IsProcessAlive(rec[o].pid)
      BY <1>2, <2>10, <3>1 DEF RecDone, Orderly
    <3>2. CASE ~IsProcessAlive(rec[o].pid)
      <4>1. UNCHANGED <<sup, pidFile>> /\ RecIs(o, "clear", rec[o].pid, "stopped")
        BY <1>2, <2>10, <3>2 DEF RecDone, processes
      <4>2. rec[o].pid = pidFile /\ OnFile /\ rec[o].pid # 0
        BY <2>4, <2>5, <2>10 DEF Near, Pointed
      <4> QED
        BY <2>5, <3>2, <4>1, <4>2 DEF RecIs, Near, OnFile, Nobody, IsProcessAlive, SupervisorLives
    <3> QED
      BY <3>1, <3>2
  <2>11. CASE rec[o].pc = "clear"
    BY <1>2, <2>4, <2>11 DEF RecDone, RecIs, Near, OnFile, Nobody, processes, SupervisorLives
  <2> QED
    BY <1>2, <2>6, <2>7, <2>8, <2>9, <2>10, <2>11 DEF RecDone
<1>3. ASSUME NEW o \in Operators, RecBegun(o)
      PROVE  /\ \A q \in Operators : Near(q)'
             /\ (\A q \in Operators : rec'[q].pc # "write") => OnFile'
  <2>1. UNCHANGED <<sup, pidFile>> /\ Orderly
    BY <1>3 DEF RecBegun, processes, Orderly, JobsTyped
  <2>2. Near(o)'
    BY <1>3 DEF RecBegun, Near
  <2>3. \A q \in Operators \ {o} : Near(q)'
    BY <1>3, <2>1, FindableIs DEF RecBegun, Near, Nobody, SupervisorLives
  <2>4. (\A q \in Operators : rec'[q].pc # "write") => \A q \in Operators : rec[q].pc # "write"
    BY <1>3 DEF RecBegun, Ended
  <2> QED
    BY <2>1, <2>2, <2>3, <2>4, FindableIs DEF OnFile, SupervisorLives
<1>4. CASE UNCHANGED <<processes, pidFile, crashed, loose, rec, overlapped>>
  <2>1. Orderly /\ UNCHANGED <<sup, pidFile, rec>>
    BY <1>4 DEF Orderly, processes
  <2> QED
    BY <2>1, FindableIs DEF Near, OnFile, Nobody, SupervisorLives
<1>5. CASE loose' = TRUE
  BY <1>5 DEF Orderly
<1> QED
  BY <1>1, <1>2, <1>3, <1>4, <1>5, RecorderStep

-----------------------------------------------------------------------------
(* The service: what happens besides the steps of a service job.           *)
SvcBegun(o) ==
  /\ UNCHANGED <<service, legacy>> /\ (overlapped => overlapped') /\ (loose => loose')
  /\ Ended(svc[o])
  /\ \A q \in Operators \ {o} : svc'[q] = svc[q]
  /\ svc'[o].pc \in {"none", "start", "stop"}

SvcElse ==
  /\ UNCHANGED svc /\ legacy' \in {legacy, "none"}
  /\ service' = service \/ service' = [service EXCEPT !.ready = ~@]
  /\ (overlapped => overlapped') /\ (loose => loose')

LEMMA ServiceChanges ==
  ASSUME JobsTyped, Ordered, SupTyped, SvcTyped, StackNext
  PROVE  SvcElse \/ \E o \in Operators : SvcDone(o) \/ SvcBegun(o)
<1> USE DEF SvcElse
<1>1. ASSUME NEW p \in Pids, SupStep(p)
      PROVE  SvcElse
  BY <1>1 DEF SupStep, SpawnScreenpipe, ScreenpipeExits, FinalMaintenanceDone, SupervisorCrashes,
              PidReused, jobs, launchd, stackGhosts
<1>2. CASE InstanceChanges
  BY <1>2 DEF InstanceChanges, jobs, stackGhosts
<1>3. ASSUME NEW o \in Operators, RecStep(o)
      PROVE  SvcElse
  <2>1. RecDone(o)
    BY <1>3, RecDoes
  <2> QED
    BY <2>1 DEF RecDone, launchd
<1>4. ASSUME NEW o \in Operators, OpStep(o)
      PROVE  SvcElse \/ SvcBegun(o)
  <2>1. OpDone(o)
    BY <1>4, OpDoes
  <2>2. CASE \E name \in Commands, at \in OpSteps, r \in RecSteps, s \in SvcSteps : Begun(o, name, at, r, s)
    <3>1. PICK name \in Commands, at \in OpSteps, r \in RecSteps, s \in SvcSteps : Begun(o, name, at, r, s)
      BY <2>2
    <3>2. Ended(svc[o])
      BY <3>1 DEF Begun, Ordered, OrderedOne
    <3>3. (overlapped => overlapped') /\ UNCHANGED <<service, legacy, loose>>
      BY <2>1, <3>1 DEF OpDone, Begun
    <3>4. /\ \A q \in Operators \ {o} : svc'[q] = svc[q]
          /\ svc'[o].pc \in {"none", "start", "stop"}
      BY <3>1 DEF Begun, SvcIs
    <3>5. loose => loose'
      BY <3>3
    <3> QED
      BY <3>2, <3>3, <3>4, <3>5 DEF SvcBegun
  <2>3. CASE JobsStarted(o) /\ UNCHANGED overlapped
    BY <2>1, <2>3 DEF OpDone, JobsStarted, SvcIs, SvcBegun, Ordered, OrderedOne
  <2>4. CASE Captured(o) /\ UNCHANGED overlapped
    BY <2>1, <2>4 DEF OpDone, Captured
  <2>5. CASE SignsRead(o) /\ UNCHANGED overlapped
    BY <2>1, <2>5 DEF OpDone, SignsRead
  <2>6. CASE Finished(o) /\ UNCHANGED overlapped
    BY <2>1, <2>6 DEF OpDone, Finished, SvcIs, SvcBegun
  <2> QED
    BY <2>1, <2>2, <2>3, <2>4, <2>5, <2>6 DEF OpDone
<1> QED
  BY <1>1, <1>2, <1>3, <1>4, StepIs, SvcDoes

(* How the file and launchd's view of the service change.                  *)
Serviced == [loaded : BOOLEAN, ready : BOOLEAN, plist : BOOLEAN]
ServiceIs(l, p) == service' \in Serviced /\ service'.loaded = l /\ service'.plist = p

LEMMA ServiceSets ==
  ASSUME service \in Serviced
  PROVE  /\ service' = service => ServiceIs(service.loaded, service.plist)
         /\ service' = [service EXCEPT !.ready = ~@] => ServiceIs(service.loaded, service.plist)
         /\ service' = [service EXCEPT !.plist = TRUE] => ServiceIs(service.loaded, TRUE)
         /\ service' = [service EXCEPT !.plist = FALSE] => ServiceIs(service.loaded, FALSE)
         /\ service' = [service EXCEPT !.loaded = TRUE] => ServiceIs(TRUE, service.plist)
         /\ service' = Unloaded => ServiceIs(FALSE, service.plist)
         /\ service' = [Unloaded EXCEPT !.plist = FALSE] => ServiceIs(FALSE, FALSE)
<1>1. PICK s : s = Unloaded
  OBVIOUS
<1>2. s \in Serviced /\ s.loaded = FALSE /\ s.plist = service.plist
  BY <1>1 DEF Serviced, Unloaded
<1>3. service' = [s EXCEPT !.plist = FALSE] => ServiceIs(FALSE, FALSE)
  BY <1>2 DEF Serviced, ServiceIs
<1> QED
  BY <1>1, <1>2, <1>3 DEF Serviced, ServiceIs

LEMMA SvcTypedStep ==
  ASSUME JobsTyped, Ordered, SupTyped, SvcTyped, StackNext
  PROVE  SvcTyped'
<1>0. service \in Serviced
  BY DEF SvcTyped, Serviced
<1>1. service' \in Serviced
  <2>1. CASE SvcElse
    BY <1>0, <2>1, ServiceSets DEF SvcElse, ServiceIs
  <2>2. ASSUME NEW o \in Operators, SvcDone(o)
        PROVE  service' \in Serviced
    BY <1>0, <2>2, ServiceSets DEF SvcDone, ServiceIs
  <2>3. ASSUME NEW o \in Operators, SvcBegun(o)
        PROVE  service' \in Serviced
    BY <1>0, <2>3 DEF SvcBegun
  <2> QED
    BY <2>1, <2>2, <2>3, ServiceChanges
<1>2. ASSUME NEW o \in Operators, SvcStep(o)
      PROVE  /\ legacy' \in {"none", "plist", "loaded"} /\ home' \in {"old", "moved", "new"}
             /\ {marker', onboarded', forgotten'} \subseteq BOOLEAN
  <2> USE DEF SvcTyped, ServiceOnly, launchd, MovedHome, Forgets
  <2>1. CASE PreflightService(o)
    BY <2>1 DEF PreflightService
  <2>2. CASE UninstallLegacy(o)
    BY <2>2 DEF UninstallLegacy
  <2>3. CASE ReadyHome(o)
    BY <2>3 DEF ReadyHome
  <2>4. CASE InstallServicePlist(o)
    BY <2>4 DEF InstallServicePlist
  <2>5. CASE BootoutRunning(o)
    BY <2>5 DEF BootoutRunning
  <2>6. CASE BootstrapService(o)
    BY <2>6 DEF BootstrapService
  <2>7. CASE WaitForService(o)
    BY <2>7 DEF WaitForService
  <2>8. CASE UndoStart(o)
    BY <2>8 DEF UndoStart
  <2>9. CASE StopService(o)
    BY <2>9 DEF StopService
  <2> QED
    BY <1>2, <2>1, <2>2, <2>3, <2>4, <2>5, <2>6, <2>7, <2>8, <2>9 DEF SvcStep
<1>3. ASSUME NEW o \in Operators, OpStep(o)
      PROVE  /\ legacy' \in {"none", "plist", "loaded"} /\ home' \in {"old", "moved", "new"}
             /\ {marker', onboarded', forgotten'} \subseteq BOOLEAN
  <2>1. OpDone(o)
    BY <1>3, OpDoes
  <2>2. CASE SignsRead(o)
    BY <2>1, <2>2 DEF SvcTyped, OpDone, SignsRead, MovedHome
  <2>3. CASE ~SignsRead(o)
    BY ZenonT(30), <2>1, <2>3 DEF SvcTyped, OpDone, Begun, JobsStarted, Captured, Finished
  <2> QED
    BY <2>2, <2>3
<1>4. ASSUME NEW p \in Pids, SupStep(p)
      PROVE  UNCHANGED <<legacy, home, marker, onboarded, forgotten>>
  BY <1>4 DEF SupStep, SpawnScreenpipe, ScreenpipeExits, FinalMaintenanceDone, SupervisorCrashes,
              PidReused, launchd
<1>5. CASE InstanceChanges
  BY <1>1, <1>5 DEF InstanceChanges, SvcTyped, Serviced
<1>6. ASSUME NEW o \in Operators, RecStep(o)
      PROVE  UNCHANGED <<legacy, home, marker, onboarded, forgotten>>
  <2>1. RecDone(o)
    BY <1>6, RecDoes
  <2> QED
    BY <2>1 DEF RecDone, launchd
<1> QED
  BY <1>1, <1>2, <1>3, <1>4, <1>5, <1>6, StepIs DEF SvcTyped, Serviced

ReplacedBy(o) ==
  svc[o].pc \in {"home", "install", "bootout", "bootstrap", "wait"} => legacy = "none"
WholeFor(o) ==
  /\ svc[o].pc = "bootout" => service.plist
  /\ svc[o].pc = "bootstrap" => ~service.loaded /\ service.plist
  /\ svc[o].pc = "wait" => service.loaded /\ service.plist
  /\ svc[o].pc = "undo" => service.plist
Between == {"bootout", "bootstrap", "undo"}

LEMMA ReplacedStep ==
  ASSUME JobsTyped, Ordered, SupTyped, SvcTyped, Replaced, StackNext
  PROVE  Replaced'
<1>0. service \in Serviced
  BY DEF SvcTyped, Serviced
<1>1. (service.loaded => legacy = "none") /\ \A o \in Operators : ReplacedBy(o)
  BY DEF Replaced, ReplacedBy
<1> SUFFICES (service.loaded => legacy = "none")' /\ \A o \in Operators : ReplacedBy(o)'
  BY DEF Replaced, ReplacedBy
<1>2. CASE SvcElse
  BY <1>0, <1>1, <1>2, ServiceSets DEF SvcElse, ServiceIs, ReplacedBy
<1>3. ASSUME NEW o \in Operators, SvcBegun(o)
      PROVE  (service.loaded => legacy = "none")' /\ \A q \in Operators : ReplacedBy(q)'
  BY <1>1, <1>3 DEF SvcBegun, ReplacedBy
<1>4. ASSUME NEW o \in Operators, SvcDone(o)
      PROVE  (service.loaded => legacy = "none")' /\ \A q \in Operators : ReplacedBy(q)'
  <2>1. legacy' \in {legacy, "none"}
    BY <1>4 DEF SvcDone
  <2>2. service'.loaded => service.loaded \/ (svc[o].pc = "bootstrap" /\ legacy' = legacy)
    BY <1>0, <1>4, ServiceSets DEF SvcDone, ServiceIs
  <2>3. ReplacedBy(o)'
    BY <1>1, <1>4, <2>1 DEF SvcDone, SvcIs, ReplacedBy
  <2>4. \A q \in Operators \ {o} : ReplacedBy(q)'
    BY <1>1, <1>4, <2>1 DEF SvcDone, SvcIs, ReplacedBy
  <2> QED
    BY <1>1, <2>1, <2>2, <2>3, <2>4 DEF ReplacedBy
<1> QED
  BY <1>2, <1>3, <1>4, ServiceChanges

LEMMA WholeStep ==
  ASSUME JobsTyped, Ordered, Alone, SupTyped, SvcTyped, Whole, StackNext
  PROVE  Whole'
<1> SUFFICES ASSUME ~overlapped', ~loose'
             PROVE  /\ \A o \in Operators : WholeFor(o)'
                    /\ (\A o \in Operators : svc'[o].pc \notin Between) => (service.loaded = service.plist)'
  BY DEF Whole, WholeFor, Between
<1>1. service \in Serviced
  BY DEF SvcTyped, Serviced
<1>2. ASSUME ~overlapped, ~loose
      PROVE  /\ \A o \in Operators : WholeFor(o)
             /\ (\A o \in Operators : svc[o].pc \notin Between) => service.loaded = service.plist
  BY <1>2 DEF Whole, WholeFor, Between
<1>3. CASE SvcElse
  <2>1. ~overlapped /\ ~loose /\ UNCHANGED svc
    BY <1>3 DEF SvcElse
  <2>2. ServiceIs(service.loaded, service.plist)
    BY <1>1, <1>3, ServiceSets DEF SvcElse
  <2> QED
    BY <1>2, <2>1, <2>2 DEF ServiceIs, WholeFor
<1>4. ASSUME NEW o \in Operators, SvcBegun(o)
      PROVE  /\ \A q \in Operators : WholeFor(q)'
             /\ (\A q \in Operators : svc'[q].pc \notin Between) => (service.loaded = service.plist)'
  <2>1. ~overlapped /\ ~loose /\ UNCHANGED service
    BY <1>4 DEF SvcBegun
  <2>2. \A q \in Operators : WholeFor(q)'
    BY <1>2, <1>4, <2>1 DEF SvcBegun, WholeFor
  <2>3. (\A q \in Operators : svc'[q].pc \notin Between) => \A q \in Operators : svc[q].pc \notin Between
    BY <1>4 DEF SvcBegun, Ended, Between
  <2> QED
    BY <1>2, <2>1, <2>2, <2>3
<1>5. ASSUME NEW o \in Operators, SvcDone(o)
      PROVE  /\ \A q \in Operators : WholeFor(q)'
             /\ (\A q \in Operators : svc'[q].pc \notin Between) => (service.loaded = service.plist)'
  <2>1. ~overlapped /\ ~loose
    <3>1. overlapped' = overlapped /\ (loose' = loose \/ loose' = TRUE)
      BY <1>5 DEF SvcDone
    <3> QED
      BY <3>1
  <2>2. \A q \in Operators \ {o} : Ended(svc[q]) /\ svc'[q] = svc[q]
    BY <1>5, <2>1 DEF SvcDone, SvcIs, Ordered, OrderedOne, Alone
  <2>3. \A q \in Operators \ {o} : WholeFor(q)'
    BY <2>2 DEF WholeFor, Ended
  <2>4. WholeFor(o) /\ (svc[o].pc \notin Between => service.loaded = service.plist)
    BY <1>2, <2>1, <2>2 DEF Between, Ended
  <2>5. WholeFor(o)' /\ (svc'[o].pc \notin Between => (service.loaded = service.plist)')
    <3>1. CASE svc[o].pc \in {"start", "legacy", "stop legacy", "home"}
      BY <1>5, <2>4, <3>1 DEF SvcDone, SvcIs, WholeFor, Between
    <3>2. CASE svc[o].pc = "install"
      <4>1. ServiceIs(service.loaded, TRUE) /\ svc'[o].pc = "bootout"
        BY <1>1, <1>5, <3>2, ServiceSets DEF SvcDone, SvcIs
      <4> QED
        BY <4>1 DEF ServiceIs, WholeFor, Between
    <3>3. CASE svc[o].pc = "bootout"
      <4>1. \/ ServiceIs(FALSE, service.plist) /\ svc'[o].pc = "bootstrap"
            \/ service' = service /\ svc'[o].pc = "undo"
        BY <1>1, <1>5, <3>3, ServiceSets DEF SvcDone, SvcIs
      <4> QED
        BY <2>4, <3>3, <4>1 DEF ServiceIs, WholeFor, Between
    <3>4. CASE svc[o].pc = "bootstrap"
      <4>1. \/ ServiceIs(TRUE, service.plist) /\ svc'[o].pc = "wait"
            \/ service' = service /\ svc'[o].pc = "undo"
        BY <1>1, <1>5, <3>4, ServiceSets DEF SvcDone, SvcIs
      <4> QED
        BY <2>4, <3>4, <4>1 DEF ServiceIs, WholeFor, Between
    <3>5. CASE svc[o].pc = "wait"
      BY <1>5, <2>4, <3>5 DEF SvcDone, SvcIs, WholeFor, Between
    <3>6. CASE svc[o].pc = "undo"
      <4>1. ServiceIs(FALSE, FALSE) /\ svc'[o].pc = "failed"
        BY <1>1, <1>5, <3>6, ServiceSets DEF SvcDone, SvcIs
      <4> QED
        BY <4>1 DEF ServiceIs, WholeFor, Between
    <3>7. CASE svc[o].pc = "stop"
      <4>1. \/ ServiceIs(FALSE, FALSE) /\ svc'[o].pc = "stop legacy"
            \/ service' = service /\ svc'[o].pc = "failed"
        BY <1>1, <1>5, <3>7, ServiceSets DEF SvcDone, SvcIs
      <4> QED
        BY <2>4, <3>7, <4>1 DEF ServiceIs, WholeFor, Between
    <3> QED
      BY <1>5, <3>1, <3>2, <3>3, <3>4, <3>5, <3>6, <3>7 DEF SvcDone
  <2> QED
    BY <2>3, <2>5
<1> QED
  BY <1>3, <1>4, <1>5, ServiceChanges

-----------------------------------------------------------------------------
(* The signs of an onboarding only go when service:stop removes the last.  *)
SignsKept ==
  /\ home' = "new" => home = "new"
  /\ legacy' \in {legacy, "none"}
  /\ marker => marker'
  /\ forgotten => forgotten'
  /\ onboarded' => onboarded \/ marker'
  /\ service.plist => service'.plist \/ forgotten' \/ marker \/ home # "new"

LEMMA SignsKeptStep ==
  ASSUME JobsTyped, Ordered, SupTyped, SvcTyped, StackNext
  PROVE  SignsKept
<1>0. service \in Serviced /\ {marker, forgotten, onboarded} \subseteq BOOLEAN
  BY DEF SvcTyped, Serviced
<1>1. CASE UNCHANGED launchd
  BY <1>1 DEF launchd, SignsKept
<1>2. ASSUME NEW p \in Pids, SupStep(p)
      PROVE  UNCHANGED launchd
  BY <1>2 DEF SupStep, SpawnScreenpipe, ScreenpipeExits, FinalMaintenanceDone, SupervisorCrashes, PidReused
<1>3. CASE InstanceChanges
  <2>1. service'.plist = service.plist
    BY <1>0, <1>3, ServiceSets DEF InstanceChanges, ServiceIs
  <2> QED
    BY <1>3, <2>1 DEF InstanceChanges, SignsKept
<1>4. ASSUME NEW o \in Operators, RecStep(o)
      PROVE  UNCHANGED launchd
  <2>1. RecDone(o)
    BY <1>4, RecDoes
  <2> QED
    BY <2>1 DEF RecDone
<1>5. ASSUME NEW o \in Operators, SvcStep(o)
      PROVE  SignsKept
  <2>1. SvcDone(o)
    BY <1>5, SvcDoes
  <2>2. /\ home' = home \/ MovedHome
        /\ legacy' \in {legacy, "none"} /\ onboarded' = onboarded
    BY <2>1 DEF SvcDone
  <2>3. marker' = marker \/ (marker => marker')
    BY <2>1 DEF SvcDone
  <2>4. forgotten' = forgotten \/ Forgets
    BY <2>1 DEF SvcDone
  <2>5. \/ service'.plist = service.plist \/ service'.plist = TRUE
        \/ Forgets
    BY <1>0, <2>1, ServiceSets DEF SvcDone, ServiceIs
  <2>6. forgotten => forgotten'
    BY <1>0, <2>4 DEF Forgets
  <2>7. service.plist => service'.plist \/ forgotten' \/ marker \/ home # "new"
    BY <1>0, <2>5 DEF Forgets, Serviced
  <2>8. home' = "new" => home = "new"
    BY <2>2 DEF MovedHome
  <2>9. (marker => marker') /\ (onboarded' => onboarded \/ marker')
    BY <1>0, <2>2, <2>3
  <2> QED
    BY <2>2, <2>6, <2>7, <2>8, <2>9 DEF SignsKept
<1>6. ASSUME NEW o \in Operators, OpStep(o)
      PROVE  SignsKept
  <2>1. OpDone(o)
    BY <1>6, OpDoes
  <2>2. /\ home' = home \/ MovedHome
        /\ legacy' \in {legacy, "none"} /\ UNCHANGED <<service, forgotten>>
    BY <2>1 DEF OpDone, Begun, JobsStarted, Captured, SignsRead, Finished
  <2>3. \/ marker' = marker \/ (marker => marker')
        \/ marker' = (marker \/ TreatAsOnboarded(o))
    BY <2>1 DEF OpDone, Begun, JobsStarted, Captured, SignsRead, Finished
  <2>4. onboarded' = onboarded \/ (onboarded' => onboarded \/ marker')
    BY <2>1 DEF OpDone, Begun, JobsStarted, Captured, SignsRead, Finished
  <2>5. home' = "new" => home = "new"
    BY <2>2 DEF MovedHome
  <2>6. marker => marker'
    BY <2>3
  <2>7. onboarded' => onboarded \/ marker'
    BY <2>4
  <2>8. (forgotten => forgotten') /\ (service.plist => service'.plist)
    BY <2>2
  <2> QED
    BY <2>2, <2>5, <2>6, <2>7, <2>8 DEF SignsKept
<1> QED
  BY <1>1, <1>2, <1>3, <1>4, <1>5, <1>6, StepIs

SignedFor(o) ==
  /\ op[o].pc \in {"signs", "legacy", "home"} => op[o].name \in {"start", "setup"}
  /\ op[o].pc = "mode" => marker \/ home = "new"

LEMMA SignedForStep ==
  ASSUME JobsTyped, Ordered, SupTyped, SvcTyped, Signs, StackNext, SignsKept, NEW q \in Operators
  PROVE  SignedFor(q)'
<1>0. SignedFor(q)
  BY DEF Signs, SignedFor
<1>1. CASE op'[q] = op[q] /\ UNCHANGED home
  BY <1>0, <1>1 DEF SignedFor, SignsKept
<1>2. CASE op'[q] = op[q] /\ MovedHome /\ op[q].pc # "mode"
  BY <1>0, <1>2 DEF SignedFor
<1>3. op[q] \in OpStates /\ home \in {"old", "moved", "new"}
  BY DEF JobsTyped, SvcTyped
<1>4. ASSUME NEW p \in Pids, SupStep(p)
      PROVE  UNCHANGED <<op, home>>
  BY <1>4 DEF SupStep, SpawnScreenpipe, ScreenpipeExits, FinalMaintenanceDone, SupervisorCrashes,
              PidReused, launchd, jobs
<1>5. CASE InstanceChanges
  BY <1>1, <1>5 DEF InstanceChanges, jobs
<1>6. ASSUME NEW o \in Operators, RecStep(o)
      PROVE  UNCHANGED <<op, home>>
  <2>1. RecDone(o)
    BY <1>6, RecDoes
  <2> QED
    BY <2>1 DEF RecDone, launchd
<1>7. CASE op'[q] = op[q] /\ MovedHome
  BY <1>0, <1>3, <1>7 DEF SignedFor, SignsKept, MovedHome
<1>8. ASSUME NEW o \in Operators, SvcStep(o)
      PROVE  UNCHANGED op /\ (UNCHANGED home \/ MovedHome)
  <2>1. SvcDone(o)
    BY <1>8, SvcDoes
  <2> QED
    BY <2>1 DEF SvcDone
<1>9. ASSUME NEW o \in Operators, OpStep(o)
      PROVE  SignedFor(q)'
  <2>1. OpDone(o)
    BY <1>9, OpDoes
  <2>2. CASE q # o
    <3>1. op'[q] = op[q]
      BY <2>1, <2>2 DEF OpDone, Begun, JobsStarted, Captured, SignsRead, Finished, OpGoesOn, OpIs
    <3>2. UNCHANGED home \/ MovedHome
      BY <2>1 DEF OpDone, Begun, JobsStarted, Captured, SignsRead, Finished
    <3> QED
      BY <1>1, <1>7, <3>1, <3>2
  <2>3. CASE q = o
    <3>1. CASE \E name \in Commands, at \in OpSteps, r \in RecSteps, s \in SvcSteps : Begun(o, name, at, r, s)
      BY <2>3, <3>1 DEF Begun, OpIs, SignedFor
    <3>2. CASE JobsStarted(o)
      BY <2>3, <3>2 DEF JobsStarted, OpGoesOn, OpIs, SignedFor
    <3>3. CASE Captured(o)
      BY <1>0, <2>3, <3>3 DEF Captured, OpGoesOn, OpIs, SignedFor
    <3>4. CASE SignsRead(o) /\ op[o].pc \in {"signs", "legacy"}
      BY <1>0, <2>3, <3>4 DEF SignsRead, OpGoesOn, OpIs, SignedFor
    <3>5. CASE SignsRead(o) /\ op[o].pc = "home"
      <4>1. CASE OpGoesOn(o, "done")
        BY <2>3, <4>1 DEF OpGoesOn, OpIs, SignedFor
      <4>2. CASE /\ MovedHome /\ marker' = (marker \/ TreatAsOnboarded(o))
                 /\ OpGoesOn(o, "mode") /\ op[o].name # "setup"
        <5>1. op[o].name = "start"
          BY <1>0, <2>3, <3>5, <4>2 DEF SignedFor
        <5>2. marker' \/ home' = "new"
          BY <1>3, <4>2, <5>1 DEF MovedHome, TreatAsOnboarded
        <5> QED
          BY <2>3, <4>2, <5>2 DEF OpGoesOn, OpIs, SignedFor
      <4> QED
        BY <3>5, <4>1, <4>2 DEF SignsRead
    <3>6. CASE Finished(o)
      BY <2>3, <3>6 DEF Finished, OpIs, SignedFor
    <3> QED
      BY <2>1, <3>1, <3>2, <3>3, <3>4, <3>5, <3>6 DEF OpDone, SignsRead
  <2> QED
    BY <2>2, <2>3
<1> QED
  BY <1>1, <1>4, <1>5, <1>6, <1>7, <1>8, <1>9, StepIs

LEMMA SignsStep ==
  ASSUME JobsTyped, Ordered, SupTyped, SvcTyped, Signs, StackNext
  PROVE  Signs'
<1>1. SignsKept
  BY SignsKeptStep
<1>2. \A o \in Operators : SignedFor(o)'
  BY <1>1, SignedForStep
<1>3. (home = "new" => legacy = "none")'
  BY <1>1 DEF Signs, SignsKept
<1>4. (home = "new" /\ onboarded => marker \/ service.plist \/ forgotten)'
  BY <1>1 DEF Signs, SignsKept
<1> QED
  BY <1>2, <1>3, <1>4 DEF Signs, SignedFor

-----------------------------------------------------------------------------
LEMMA StackInvInit == StackInit => StackInv
<1> SUFFICES ASSUME StackInit PROVE StackInv
  OBVIOUS
<1>1. JobsTyped /\ Ordered /\ Alone
  BY JobsInit
<1>2. SupTyped
  BY DEF StackInit, SupTyped
<1>3. \A o \in Operators : rec[o] = NoJob /\ svc[o] = NoJob /\ op[o] = NoCommand
  BY DEF StackInit
<1>4. NoJob.pc = "none" /\ NoJob.pid = 0 /\ NoCommand.pc = "idle"
  BY DEF NoJob, NoCommand
<1>5. Silent
  BY <1>3, <1>4 DEF StackInit, Silent
<1>6. Findable
  BY <1>3, <1>4 DEF StackInit, Findable, Nobody, SupervisorLives
<1>7. PICK installed \in BOOLEAN :
        service = [loaded |-> installed, ready |-> installed, plist |-> installed]
  BY DEF StackInit
<1>8. service \in Serviced /\ service.loaded = installed /\ service.plist = installed
  BY <1>7 DEF Serviced
<1>9. SvcTyped
  BY <1>8 DEF StackInit, SvcTyped, Serviced, HasCompletedOnboarding
<1>10. Replaced
  BY <1>3, <1>4, <1>8 DEF StackInit, Replaced
<1>11. Whole
  BY <1>3, <1>4, <1>8 DEF Whole
<1>12. Signs
  BY <1>3, <1>4, <1>8 DEF StackInit, Signs, HasCompletedOnboarding
<1> QED
  BY <1>1, <1>2, <1>5, <1>6, <1>9, <1>10, <1>11, <1>12 DEF StackInv

LEMMA StackInvStep == StackInv /\ [StackNext]_stackVars => StackInv'
<1> SUFFICES ASSUME StackInv, [StackNext]_stackVars PROVE StackInv'
  OBVIOUS
<1>1. CASE StackNext
  BY <1>1, JobsStep, SupTypedStep, SilentStep, FindableStep, SvcTypedStep, ReplacedStep, WholeStep,
     SignsStep DEF StackInv
<1>2. CASE UNCHANGED stackVars
  <2>1. /\ UNCHANGED <<sup, screen, reused, pidFile, service, legacy, marker, home, onboarded, forgotten>>
        /\ UNCHANGED <<op, rec, svc, overlapped, crashed, loose>>
    BY <1>2 DEF stackVars, processes, launchd, jobs, stackGhosts
  <2>2. JobsTyped' /\ Ordered' /\ Alone'
    BY <2>1 DEF StackInv, JobsTyped, Ordered, OrderedOne, Alone, Ended
  <2>3. SupTyped' /\ Silent'
    BY <2>1 DEF StackInv, SupTyped, Silent
  <2>4. Findable'
    BY <2>1 DEF StackInv, Findable, Nobody, SupervisorLives
  <2>5. SvcTyped' /\ Replaced'
    BY <2>1 DEF StackInv, SvcTyped, Replaced
  <2>6. Whole'
    BY <2>1 DEF StackInv, Whole
  <2>7. Signs'
    BY <2>1 DEF StackInv, Signs
  <2> QED
    BY <2>2, <2>3, <2>4, <2>5, <2>6, <2>7 DEF StackInv
<1> QED
  BY <1>1, <1>2

LEMMA StackInvariant == StackSpec => []StackInv
BY StackInvInit, StackInvStep, PTL DEF StackSpec

(* recorder:stop reports "stopped" only once Screenpipe has ended, unless  *)
(* its supervisor crashed or was killed.                                   *)
THEOREM StoppedTheorem == StackSpec => []StoppedIsSilent
<1>1. StackInv => StoppedIsSilent
  BY DEF StackInv, SupTyped, JobsTyped, RecJobs, Silent, StoppedIsSilent
<1> QED
  BY <1>1, StackInvariant, PTL

(* Commands that do not overlap leave one Screenpipe at most, and no       *)
(* supervisor that recorder:stop would not find.                           *)
THEOREM RecorderTheorem == StackSpec => []OneRecorder
<1>1. ASSUME StackInv PROVE OneRecorder
  <2> SUFFICES ASSUME Orderly
               PROVE  /\ Cardinality({p \in Pids : screen[p] # "none"}) <= 1
                      /\ \A p \in Pids :
                           SupervisorLives(p) => p = pidFile \/ \E o \in Operators : rec[o].pid = p
    BY DEF OneRecorder, Orderly
  <2> DEFINE recording == {p \in Pids : screen[p] # "none"}
  <2>1. \E x : \A p \in Pids :
        SupervisorLives(p) => p = x /\ (x = pidFile \/ \E o \in Operators : rec[o].pid = x)
    <3>1. /\ \A o \in Operators : Near(o)
          /\ (\A o \in Operators : rec[o].pc # "write") => OnFile
      BY <1>1, FindableIs DEF StackInv
    <3>2. CASE \A o \in Operators : rec[o].pc # "write"
      BY <3>1, <3>2 DEF OnFile
    <3>3. CASE \E o \in Operators : rec[o].pc = "write"
      BY <3>1, <3>3 DEF Near
    <3> QED
      BY <3>2, <3>3
  <2>2. PICK x : \A p \in Pids :
        SupervisorLives(p) => p = x /\ (x = pidFile \/ \E o \in Operators : rec[o].pid = x)
    BY <2>1
  <2>3. \A p \in recording : SupervisorLives(p)
    BY <1>1 DEF StackInv, Silent, Orderly, SupervisorLives
  <2>4. recording \subseteq {x}
    BY <2>2, <2>3
  <2>5. IsFiniteSet({x}) /\ Cardinality({x}) = 1
    BY FS_Singleton
  <2>6. Cardinality(recording) <= 1
    BY <2>4, <2>5, FS_Subset
  <2> QED
    BY <2>2, <2>6
<1> QED
  BY <1>1, StackInvariant, PTL

(* With no command on its way the service is loaded exactly if launchd     *)
(* will find its file again, and never beside its old self.                *)
THEOREM ServiceTheorem == StackSpec => []ServiceAllOrNothing
<1>1. StackInv => ServiceAllOrNothing
  BY DEF StackInv, Whole, Replaced, ServiceAllOrNothing, Ended
<1> QED
  BY <1>1, StackInvariant, PTL

(* start asks the questions of the onboarding again only of a user whose   *)
(* last sign of it service:stop removed.                                   *)
THEOREM OnboardedTheorem == StackSpec => []NotOnboardedAgain
<1>1. StackInv => NotOnboardedAgain
  BY DEF StackInv, Signs, NotOnboardedAgain, HasCompletedOnboarding
<1> QED
  BY <1>1, StackInvariant, PTL

-----------------------------------------------------------------------------
(* config.yaml: a writer at work has its process to itself, so that only   *)
(* another process can make its document an old one, and every field that  *)
(* has not been made old is the file's.                                    *)
Document(d) == d = [f \in Fields |-> d[f]]

Editor(e) == e = [f \in {"pc", "edit", "doc", "stale"} |-> e[f]]

Queued ==
  /\ queue \in [{Process(w) : w \in Writers} -> Seq(Writers)]
  /\ \A w \in Writers :
       /\ editor[w].pc \in {"idle", "waiting", "editing"}
       /\ editor[w].pc # "idle" => editor[w].edit \in Edits /\ Resolves(editor[w].edit)
       /\ editor[w].pc # "idle" => \E i \in 1..Len(queue[Process(w)]) : queue[Process(w)][i] = w
       /\ editor[w].pc = "editing" => Head(queue[Process(w)]) = w

InStep ==
  /\ editor = [w \in Writers |-> editor[w]]
  /\ Document(file) /\ Document(due)
  /\ \A w \in Writers : editor[w].pc = "editing" =>
       /\ Document(editor[w].doc)
       /\ \A f \in Fields \ editor[w].stale : editor[w].doc[f] = file[f]

Shaped == \A w \in Writers : Editor(editor[w])

Edited == Queued /\ InStep /\ Shaped /\ EditsKept

LEMMA ShapedStep ==
  ASSUME Shaped, InStep, [SettingsNext]_settingsVars
  PROVE  Shaped'
<1> USE DEF Shaped, InStep, Editor
<1>1. ASSUME NEW w \in Writers, RequestEdit(w)
      PROVE  Shaped'
  <2>1. PICK edit \in Edits :
          editor' = [editor EXCEPT ![w] = [IdleEditor EXCEPT !.pc = "waiting", !.edit = edit]]
    BY <1>1 DEF RequestEdit
  <2>2. Editor([IdleEditor EXCEPT !.pc = "waiting", !.edit = edit])
    BY DEF IdleEditor
  <2> QED
    BY <2>1, <2>2
<1>2. ASSUME NEW w \in Writers, ReadDocument(w)
      PROVE  Shaped'
  BY <1>2 DEF ReadDocument
<1>3. ASSUME NEW w \in Writers, Refuse(w) \/ WriteFails(w)
      PROVE  Shaped'
  BY <1>3 DEF Refuse, WriteFails, IdleEditor
<1>4. ASSUME NEW w \in Writers, Write(w)
      PROVE  Shaped'
  <2>1. PICK doc : editor' = [v \in Writers |->
          IF v = w THEN IdleEditor
          ELSE IF editor[v].pc = "editing" /\ Process(v) # Process(w)
               THEN [editor[v] EXCEPT !.stale = @ \cup Differ(doc, file)]
               ELSE editor[v]]
    BY <1>4 DEF Write, Publish
  <2>2. Editor(IdleEditor)
    BY DEF IdleEditor
  <2> QED
    BY <2>1, <2>2
<1>5. CASE EditByHand
  <2>1. PICK f : editor' = [w \in Writers |->
          IF editor[w].pc = "editing" THEN [editor[w] EXCEPT !.stale = @ \cup {f}] ELSE editor[w]]
    BY <1>5 DEF EditByHand
  <2> QED
    BY <2>1
<1>6. CASE ServiceStep \/ UNCHANGED settingsVars
  BY <1>6 DEF ServiceStep, Preflight, InstallPlist, Bootstrap, Started, TakenDown, Relaunch,
              fileVars, settingsVars
<1> QED
  BY <1>1, <1>2, <1>3, <1>4, <1>5, <1>6 DEF SettingsNext, EditStep

LEMMA OneAtATime ==
  ASSUME Queued, NEW v \in Writers, NEW w \in Writers, Process(v) = Process(w),
         editor[v].pc = "editing", editor[w].pc = "editing"
  PROVE  v = w
BY DEF Queued

LEMMA AppliedFields ==
  ASSUME NEW edit \in Edits, Resolves(edit), NEW doc, Document(doc), NEW other, Document(other)
  PROVE  /\ Document(Applied(edit, doc))
         /\ \A f \in Fields :
              (f = edit.field /\ edit.op \in {"set", "unset"}) \/ doc[f] = other[f]
                => Applied(edit, doc)[f] = Applied(edit, other)[f]
<1>1. edit.op \in {"set", "unset", "add", "remove"} /\ edit.field \in Fields
  BY EditAssumption
<1>2. CASE edit.op = "set"
  BY <1>1, <1>2 DEF Applied, Document, Fields
<1>3. CASE edit.op = "unset"
  BY <1>1, <1>3 DEF Applied, Document, Fields
<1>4. CASE edit.op = "add"
  BY <1>1, <1>4 DEF Applied, Document, Fields
<1>5. CASE edit.op = "remove"
  BY <1>1, <1>5 DEF Applied, Document, Fields
<1> QED
  BY <1>1, <1>2, <1>3, <1>4, <1>5

LEMMA QueuedStep ==
  ASSUME Queued, InStep, [SettingsNext]_settingsVars
  PROVE  Queued'
<1> USE DEF Queued, InStep
<1>a. ASSUME NEW w \in Writers, editor[w].pc = "editing", Release(w),
             editor'[w] = IdleEditor,
             \A v \in Writers : v # w => editor'[v].pc = editor[v].pc
                                         /\ editor'[v].edit = editor[v].edit
      PROVE  Queued'
  <2> DEFINE p == Process(w)
  <2>1. /\ queue[p] \in Seq(Writers) /\ queue[p] # <<>> /\ Head(queue[p]) = w
        /\ queue' = [queue EXCEPT ![p] = Tail(queue[p])]
    BY <1>a DEF Release
  <2>2. queue' \in [{Process(v) : v \in Writers} -> Seq(Writers)]
    BY <2>1
  <2>3. ASSUME NEW v \in Writers, v # w, editor[v].pc # "idle"
        PROVE  /\ \E i \in 1..Len(queue'[Process(v)]) : queue'[Process(v)][i] = v
               /\ editor[v].pc = "editing" => Head(queue'[Process(v)]) = v
    <3>1. CASE Process(v) # p
      BY <2>1, <2>3, <3>1
    <3>2. CASE Process(v) = p
      <4>1. PICK i \in 1..Len(queue[p]) : queue[p][i] = v
        BY <2>3, <3>2
      <4>2. i # 1
        BY <2>1, <2>3, <4>1
      <4>3. i - 1 \in 1..Len(Tail(queue[p])) /\ Tail(queue[p])[i - 1] = v
        BY <2>1, <4>1, <4>2
      <4>4. editor[v].pc # "editing"
        BY <1>a, <2>3, <3>2, OneAtATime
      <4> QED
        BY <2>1, <3>2, <4>3, <4>4
    <3> QED
      BY <3>1, <3>2
  <2> QED
    BY <1>a, <2>2, <2>3 DEF IdleEditor
<1>1. ASSUME NEW w \in Writers, RequestEdit(w)
      PROVE  Queued'
  <2> DEFINE p == Process(w)
  <2>1. /\ queue[p] \in Seq(Writers) /\ queue' = [queue EXCEPT ![p] = Append(queue[p], w)]
        /\ editor[w].pc = "idle"
    BY <1>1 DEF RequestEdit
  <2>2. PICK edit \in Edits : Resolves(edit) /\
          editor' = [editor EXCEPT ![w] = [IdleEditor EXCEPT !.pc = "waiting", !.edit = edit]]
    BY <1>1 DEF RequestEdit
  <2>3. /\ queue' \in [{Process(v) : v \in Writers} -> Seq(Writers)]
        /\ Len(queue'[p]) = Len(queue[p]) + 1 /\ queue'[p][Len(queue[p]) + 1] = w
        /\ \A i \in 1..Len(queue[p]) : queue'[p][i] = queue[p][i]
    BY <2>1
  <2>4. ASSUME NEW v \in Writers, v # w, editor[v].pc # "idle"
        PROVE  /\ \E i \in 1..Len(queue'[Process(v)]) : queue'[Process(v)][i] = v
               /\ editor[v].pc = "editing" => Head(queue'[Process(v)]) = v
    <3>1. CASE Process(v) # p
      BY <2>1, <2>4, <3>1
    <3>2. CASE Process(v) = p
      BY <2>1, <2>3, <2>4, <3>2
    <3> QED
      BY <3>1, <3>2
  <2>5. Len(queue[p]) + 1 \in 1..Len(queue'[p])
    BY <2>1, <2>3
  <2> QED
    BY <2>2, <2>3, <2>4, <2>5 DEF IdleEditor
<1>2. ASSUME NEW w \in Writers, ReadDocument(w)
      PROVE  Queued'
  BY <1>2 DEF ReadDocument, Turn
<1>3. ASSUME NEW w \in Writers, Refuse(w) \/ WriteFails(w)
      PROVE  Queued'
  BY <1>3, <1>a DEF Refuse, WriteFails
<1>4. ASSUME NEW w \in Writers, Write(w)
      PROVE  Queued'
  <2>1. PICK doc : editor' = [v \in Writers |->
          IF v = w THEN IdleEditor
          ELSE IF editor[v].pc = "editing" /\ Process(v) # Process(w)
               THEN [editor[v] EXCEPT !.stale = @ \cup Differ(doc, file)]
               ELSE editor[v]]
    BY <1>4 DEF Write, Publish
  <2>2. \A v \in Writers : v # w => editor'[v].pc = editor[v].pc
                                   /\ editor'[v].edit = editor[v].edit
    BY <2>1
  <2>3. editor[w].pc = "editing" /\ Release(w) /\ editor'[w] = IdleEditor
    BY <1>4, <2>1 DEF Write
  <2> QED
    BY <1>a, <2>2, <2>3
<1>5. CASE EditByHand
  BY <1>5 DEF EditByHand
<1>6. CASE ServiceStep \/ UNCHANGED settingsVars
  BY <1>6 DEF ServiceStep, Preflight, InstallPlist, Bootstrap, Started, TakenDown, Relaunch,
              fileVars, settingsVars
<1> QED
  BY <1>1, <1>2, <1>3, <1>4, <1>5, <1>6 DEF SettingsNext, EditStep

LEMMA EditedStep ==
  ASSUME Edited, [SettingsNext]_settingsVars
  PROVE  InStep' /\ EditsKept'
<1> USE DEF Edited, InStep, EditsKept
<1>1. ASSUME NEW w \in Writers,
             RequestEdit(w) \/ ReadDocument(w) \/ Refuse(w) \/ WriteFails(w)
      PROVE  InStep' /\ EditsKept'
  <2>1. UNCHANGED <<file, due, clobbered>>
    BY <1>1 DEF RequestEdit, ReadDocument, Refuse, WriteFails
  <2>2. CASE ReadDocument(w)
    <3>1. editor' = [editor EXCEPT ![w].pc = "editing", ![w].doc = file]
      BY <2>2 DEF ReadDocument
    <3>2. editor' = [v \in Writers |-> editor'[v]]
      BY <3>1
    <3>3. editor'[w].doc = file /\ \A v \in Writers : v # w => editor'[v] = editor[v]
      BY <3>1 DEF Shaped, Editor
    <3> QED
      BY <2>1, <3>2, <3>3 DEF Document
  <2>3. CASE ~ReadDocument(w)
    <3>1. \E e : editor' = [editor EXCEPT ![w] = e] /\ e.pc # "editing"
      <4>1. CASE RequestEdit(w)
        <5>1. PICK edit \in Edits :
                editor' = [editor EXCEPT ![w] = [IdleEditor EXCEPT !.pc = "waiting", !.edit = edit]]
          BY <4>1 DEF RequestEdit
        <5>2. [IdleEditor EXCEPT !.pc = "waiting", !.edit = edit].pc # "editing"
          BY DEF IdleEditor
        <5> QED
          BY <5>1, <5>2
      <4>2. CASE Refuse(w) \/ WriteFails(w)
        BY <4>2 DEF Refuse, WriteFails, IdleEditor
      <4> QED
        BY <1>1, <2>3, <4>1, <4>2
    <3> QED
      BY <2>1, <3>1 DEF Document
  <2> QED
    BY <2>2, <2>3
<1>2. ASSUME NEW w \in Writers, Write(w)
      PROVE  InStep' /\ EditsKept'
  <2> DEFINE edit == editor[w].edit
             held == editor[w].doc
             doc  == Applied(edit, held)
             kept == clobbered \cup editor[w].stale
  <2>1. /\ edit \in Edits /\ Resolves(edit) /\ editor[w].pc = "editing"
        /\ Document(held)
        /\ \A f \in Fields \ editor[w].stale : held[f] = file[f]
    BY <1>2 DEF Write, Queued
  <2>2. /\ file' = doc /\ due' = Applied(edit, due)
        /\ clobbered' = kept \ IF edit.op \in {"set", "unset"} THEN {edit.field} ELSE {}
        /\ editor' = [v \in Writers |->
             IF v = w THEN IdleEditor
             ELSE IF editor[v].pc = "editing" /\ Process(v) # Process(w)
                  THEN [editor[v] EXCEPT !.stale = @ \cup Differ(doc, file)]
                  ELSE editor[v]]
    BY <1>2 DEF Write, Publish
  <2>3. Document(doc) /\ Document(Applied(edit, due))
    BY <2>1, AppliedFields
  <2>4. \A f \in Fields :
          (f = edit.field /\ edit.op \in {"set", "unset"}) \/ held[f] = due[f]
            => doc[f] = Applied(edit, due)[f]
    BY <2>1, AppliedFields
  <2> HIDE DEF edit, held, doc
  <2>5. EditsKept'
    <3> SUFFICES ASSUME NEW f \in Fields, f \notin clobbered'
                 PROVE  file'[f] = due'[f]
      OBVIOUS
    <3>1. CASE f \in kept
      <4>1. f = edit.field /\ edit.op \in {"set", "unset"}
        BY <2>2, <3>1
      <4>2. doc[f] = Applied(edit, due)[f]
        BY <2>4, <4>1
      <4> QED
        BY <2>2, <4>2
    <3>2. CASE f \notin kept
      <4>1. held[f] = due[f]
        BY <2>1, <3>2
      <4>2. doc[f] = Applied(edit, due)[f]
        BY <2>4, <4>1
      <4> QED
        BY <2>2, <4>2
    <3> QED
      BY <3>1, <3>2
  <2>6. ASSUME NEW v \in Writers, editor'[v].pc = "editing"
        PROVE  /\ Document(editor'[v].doc)
               /\ \A f \in Fields \ editor'[v].stale : editor'[v].doc[f] = file'[f]
    <3>1. v # w
      BY <2>2, <2>6 DEF IdleEditor
    <3>2. editor[v].pc = "editing"
      BY <2>2, <2>6, <3>1
    <3>3. Process(v) # Process(w)
      BY <2>1, <3>1, <3>2, OneAtATime
    <3>4. editor'[v] = [editor[v] EXCEPT !.stale = @ \cup Differ(doc, file)]
      BY <2>2, <3>1, <3>2, <3>3
    <3>5. editor'[v].doc = editor[v].doc
          /\ editor'[v].stale = editor[v].stale \cup {f \in Fields : doc[f] # file[f]}
      BY <3>4 DEF Differ
    <3>6. \A f \in Fields \ editor[v].stale : editor[v].doc[f] = file[f]
      BY <3>2
    <3> QED
      BY <2>2, <3>2, <3>5, <3>6
  <2> QED
    BY <2>2, <2>3, <2>5, <2>6
<1>3. CASE EditByHand
  <2>1. PICK f \in {"host", "port", "token"}, x \in {"other", "bad"} :
          /\ file' = [file EXCEPT ![f] = x] /\ due' = [due EXCEPT ![f] = x]
          /\ clobbered' = clobbered \ {f}
          /\ editor' = [w \in Writers |->
               IF editor[w].pc = "editing" THEN [editor[w] EXCEPT !.stale = @ \cup {f}] ELSE editor[w]]
    BY <1>3 DEF EditByHand
  <2>2. /\ Document(file') /\ Document(due')
        /\ f \in Fields /\ file'[f] = x /\ due'[f] = x
        /\ \A g \in Fields : g # f => file'[g] = file[g] /\ due'[g] = due[g]
    BY <2>1 DEF Document, Fields
  <2>3. EditsKept'
    BY <2>1, <2>2
  <2>4. ASSUME NEW w \in Writers, editor'[w].pc = "editing"
        PROVE  /\ Document(editor'[w].doc)
               /\ \A g \in Fields \ editor'[w].stale : editor'[w].doc[g] = file'[g]
    <3>1. editor[w].pc = "editing"
      BY <2>1, <2>4
    <3>2. editor'[w].doc = editor[w].doc /\ editor'[w].stale = editor[w].stale \cup {f}
      BY <2>1, <3>1
    <3> QED
      BY <2>2, <3>1, <3>2
  <2> QED
    BY <2>1, <2>2, <2>3, <2>4 DEF Document
<1>4. CASE ServiceStep \/ UNCHANGED settingsVars
  BY <1>4 DEF ServiceStep, Preflight, InstallPlist, Bootstrap, Started, TakenDown, Relaunch,
              fileVars, settingsVars
<1> QED
  BY <1>1, <1>2, <1>3, <1>4 DEF SettingsNext, EditStep

LEMMA EditedInit == SettingsInit => Edited
<1> SUFFICES ASSUME SettingsInit PROVE Edited
  OBVIOUS
<1>1. Queued /\ Shaped
  BY DEF SettingsInit, Queued, Shaped, Editor, IdleEditor
<1>2. Document(file)
  BY DEF SettingsInit, Document, Fields
<1> QED
  BY <1>1, <1>2 DEF SettingsInit, Edited, InStep, EditsKept, IdleEditor

(* No accepted edit of a field is lost, for any number of requests and     *)
(* commands at once, unless another process wrote that field meanwhile.    *)
THEOREM EditsTheorem == SettingsSpec => []EditsKept
<1>1. SettingsInit => Edited
  BY EditedInit
<1>2. Edited /\ [SettingsNext]_settingsVars => Edited'
  BY QueuedStep, EditedStep, ShapedStep DEF Edited
<1>3. Edited => EditsKept
  BY DEF Edited
<1> QED
  BY <1>1, <1>2, <1>3, PTL DEF SettingsSpec

-----------------------------------------------------------------------------
(* service:status: what the plist fixes, and what is still the file's.     *)
Installed ==
  plist # NoPlist =>
    /\ "host" \notin edited => plist.serverHost = Server(file).host
    /\ plist.token \in Unset /\ "token" \notin edited => file.token = "unset"

Launching ==
  plist # NoPlist /\ running # Down /\ start.pc # "bootstrap" =>
    /\ running.port = Or(plist.port, plist.serverPort)
    /\ "host" \notin edited => running.host = plist.serverHost
    /\ plist.token \notin Unset => running.token = plist.token
    /\ plist.token \in Unset /\ "token" \notin edited => running.token = "unset"

Found == start = [f \in {"pc", "env", "server"} |-> start[f]] /\ Document(file) /\ Installed /\ Launching

LEMMA LaunchedAs ==
  ASSUME Installed, plist # NoPlist, Launched # Down
  PROVE  /\ Launched.port = Or(plist.port, plist.serverPort)
         /\ "host" \notin edited => Launched.host = plist.serverHost
         /\ plist.token \notin Unset => Launched.token = plist.token
         /\ plist.token \in Unset /\ "token" \notin edited => Launched.token = "unset"
<1>1. Launched = LoadConfig(file, plist)
  BY DEF Launched
<1> QED
  BY <1>1 DEF LoadConfig, Installed, Or, Server, Default, Unset

LEMMA FoundStep ==
  ASSUME Found, Edited, [SettingsNext]_settingsVars
  PROVE  Found'
<1> USE DEF Found
<1>1. ASSUME NEW w \in Writers,
             RequestEdit(w) \/ ReadDocument(w) \/ Refuse(w) \/ WriteFails(w)
      PROVE  Found'
  BY <1>1 DEF RequestEdit, ReadDocument, Refuse, WriteFails, serviceVars, Document,
              Installed, Launching, Server
<1>2. ASSUME NEW w \in Writers, Write(w)
      PROVE  Found'
  <2> DEFINE doc == Applied(editor[w].edit, editor[w].doc)
  <2>1. /\ file' = doc /\ edited' = edited \cup Differ(doc, file)
        /\ UNCHANGED <<start, plist, running>>
    BY <1>2 DEF Write, Publish, serviceVars
  <2>0. Document(doc)
    BY <1>2, AppliedFields DEF Write, Edited, Queued, InStep
  <2> HIDE DEF doc
  <2>2. /\ "host" \notin edited' => "host" \notin edited /\ file'["host"] = file["host"]
        /\ "token" \notin edited' => "token" \notin edited /\ file'["token"] = file["token"]
    BY <2>1 DEF Differ, Fields
  <2>3. Document(file')
    BY <2>0, <2>1
  <2> QED
    BY <2>1, <2>2, <2>3 DEF Installed, Launching, Server
<1>3. CASE EditByHand
  <2>1. PICK f \in {"host", "port", "token"}, x \in {"other", "bad"} :
          /\ file' = [file EXCEPT ![f] = x] /\ edited' = edited \cup {f}
          /\ UNCHANGED <<start, plist, running>>
    BY <1>3 DEF EditByHand, serviceVars
  <2>2. /\ Document(file')
        /\ \A g \in Fields : g # f => file'[g] = file[g]
    BY <2>1 DEF Document, Fields
  <2>3. /\ "host" \notin edited' => "host" \notin edited /\ file'["host"] = file["host"]
        /\ "token" \notin edited' => "token" \notin edited /\ file'["token"] = file["token"]
    BY <2>1, <2>2 DEF Fields
  <2> QED
    BY <2>1, <2>2, <2>3 DEF Installed, Launching, Server
<1>4. CASE Preflight \/ Started
  <2>1. /\ UNCHANGED <<file, plist, running, edited>>
        /\ start.pc # "bootstrap"
    BY <1>4 DEF Preflight, Started, fileVars
  <2>2. start' = [f \in {"pc", "env", "server"} |-> start'[f]]
    BY <1>4 DEF Preflight, Started, NoStart
  <2> QED
    BY <2>1, <2>2 DEF Document, Installed, Launching, Server
<1>5. CASE InstallPlist
  <2>1. CASE Valid(file)
    <3>1. /\ plist' = ManagedEnvironment(start.env,
                         ApplyServerEnvironmentOverrides(Server(file), start.env))
          /\ start' = [start EXCEPT !.pc = "bootstrap"]
          /\ UNCHANGED file
      BY <1>5, <2>1 DEF InstallPlist, fileVars
    <3>2. Installed'
      BY <2>1, <3>1 DEF Installed, ManagedEnvironment, ApplyServerEnvironmentOverrides, Or,
                        Unset, Valid, Server, Default
    <3>3. Launching'
      BY <3>1 DEF Launching
    <3> QED
      BY <3>1, <3>2, <3>3 DEF Document
  <2>2. CASE ~Valid(file)
    BY <1>5, <2>2 DEF InstallPlist, fileVars, NoStart, Document, Installed, Launching, Server
  <2> QED
    BY <2>1, <2>2
<1>6. CASE Bootstrap \/ Relaunch
  <2>1. running' = Launched /\ UNCHANGED <<file, plist, edited>>
    BY <1>6 DEF Bootstrap, Relaunch, fileVars
  <2>2. Installed' /\ Document(file')
    BY <2>1 DEF Installed, Server, Document
  <2>3. Launching'
    BY <2>1, LaunchedAs DEF Launching
  <2>4. start' = [f \in {"pc", "env", "server"} |-> start'[f]]
    BY <1>6 DEF Bootstrap, Relaunch
  <2> QED
    BY <2>2, <2>3, <2>4
<1>7. CASE TakenDown
  BY <1>7 DEF TakenDown, NoStart, fileVars, Document, Installed, Launching
<1>8. CASE UNCHANGED settingsVars
  BY <1>8 DEF settingsVars, fileVars, serviceVars, Document, Installed, Launching, Server
<1> QED
  BY <1>1, <1>2, <1>3, <1>4, <1>5, <1>6, <1>7, <1>8 DEF SettingsNext, EditStep, ServiceStep

(* service:status looks for the service where it listens, with the token   *)
(* it wants, after any edits, restarts and relaunches: always the port,    *)
(* and host and token unless the file's have changed since the start.      *)
THEOREM StatusTheorem == SettingsSpec => []StatusFindsService
<1>1. SettingsInit => Edited /\ Found
  <2>1. SettingsInit => Found
    BY DEF SettingsInit, Found, Document, Fields, Installed, Launching, NoStart
  <2> QED
    BY <2>1, EditedInit
<1>2. Edited /\ Found /\ [SettingsNext]_settingsVars => (Edited /\ Found)'
  BY QueuedStep, EditedStep, ShapedStep, FoundStep DEF Edited
<1>3. Found => StatusFindsService
  BY DEF Found, Installed, Launching, StatusFindsService, StatusServer, Or, Server, Default
<1> QED
  BY <1>1, <1>2, <1>3, PTL DEF SettingsSpec

-----------------------------------------------------------------------------
(* The move of the home.  A home that is a directory is somewhere under    *)
(* one of the two names all the time, because a rename is one step; a      *)
(* linked one keeps its records in the original until the copy is whole.   *)
HomeSteps == {"idle", "refused", "through", "check", "back up", "rename", "copy", "copying",
              "unlink", "rewrite", "roll back", "relink"}

StarterStates == [pc : HomeSteps, home : Directories \cup {"none"}, link : BOOLEAN]

HomeTyped ==
  /\ linked \in BOOLEAN
  /\ legacyAt \in {"none", "original", "stray"}
  /\ targetAt \in {"none", "original", "copy", "fresh"}
  /\ records \in [Directories -> SUBSET Nat]
  /\ paths \in [Directories -> {"legacy", "target"}]
  /\ old \in {"off", "on"} /\ written \in Nat
  /\ starter \in [Starters -> StarterStates]
  /\ {late, early, interrupted} \subseteq BOOLEAN

Ones(steps) == {s \in Starters : starter[s].pc \in steps}
IsThrough   == Ones({"through"}) # {}
IsMoving    == \E s \in Starters : AtMove(s)
Untroubled  == ~late /\ ~early /\ ~interrupted
RecordedIn(S) == \A n \in 1..written : \E d \in S \cap Directories : n \in records[d]

(* Each starter treats the old name as what it was from the beginning.     *)
Kinded == \A s \in Starters :
  /\ AtMove(s) /\ starter[s].pc # "check" => starter[s].link = linked
  /\ starter[s].pc = "rename" => ~linked
  /\ starter[s].pc \in {"copy", "copying", "unlink", "relink"} => linked

(* There was no old home.                                                  *)
Unborn ==
  /\ ~linked /\ legacyAt = "none" /\ targetAt \in {"none", "fresh"} /\ old = "off"
  /\ \A s \in Starters : /\ starter[s].pc \in {"idle", "through"}
                         /\ starter[s].pc = "through" => starter[s].home = "fresh" /\ targetAt = "fresh"
  /\ paths["fresh"] = "target" /\ RecordedIn({targetAt})

(* It was a directory.                                                     *)
Elsewhere ==
  /\ ~linked /\ records["original"] # {}
  /\ \/ legacyAt = "original" /\ targetAt = "none"
     \/ legacyAt \in {"none", "stray"} /\ targetAt = "original"
  /\ \A s \in Starters : starter[s].pc = "through" => starter[s].home = "original"
  /\ RecordedIn({"original", legacyAt})

Settled ==
  Untroubled =>
       /\ legacyAt # "stray"
       /\ IsThrough => targetAt = "original" /\ paths["original"] = "target" /\ ~IsMoving

Renamed == Elsewhere /\ Settled

(* It was a link, and no two starters were at its move at once.            *)
Kept ==
  /\ linked /\ ~early
  /\ targetAt \in {"none", "copy", "fresh"}
  /\ \A s, t \in Starters : AtMove(s) /\ AtMove(t) => s = t
  /\ IsMoving => /\ ~IsThrough /\ legacyAt # "stray" /\ targetAt # "fresh"
                 /\ targetAt = "copy" => records["copy"] \subseteq records["original"]
  /\ \A s \in Starters :
       /\ starter[s].pc = "through" => starter[s].home = targetAt /\ targetAt # "none"
       /\ starter[s].pc \in {"check", "back up", "copy"} => targetAt = "none"
       /\ starter[s].pc \in {"copying", "unlink", "rewrite", "roll back"} => targetAt = "copy"
  /\ legacyAt = "stray" => targetAt # "none"
  /\ RecordedIn({"original", legacyAt, targetAt})

Steady(s) ==
  /\ AtMove(s) /\ starter[s].pc # "check" => old = "off"
  /\ starter[s].pc \in {"check", "back up", "copy", "copying", "unlink"} => legacyAt = "original"
  /\ starter[s].pc \in {"rewrite", "roll back", "relink"} => legacyAt = "none"
  /\ starter[s].pc \in {"unlink", "rewrite", "roll back"} => RecordedIn({"copy"})
  /\ starter[s].pc = "relink" => targetAt = "none"

Moved == targetAt = "copy" /\ old = "off" /\ paths["copy"] = "target" /\ RecordedIn({"copy"})

InTurn ==
  /\ legacyAt # "stray" /\ (IsThrough => legacyAt = "none")
  /\ \A s \in Starters : Steady(s)
  /\ legacyAt = "none" /\ ~IsMoving => Moved

Copied == Kept /\ (Untroubled => InTurn)

HomeInv == HomeTyped /\ Kinded /\ ((linked /\ early) \/ Unborn \/ Renamed \/ Copied)

-----------------------------------------------------------------------------
(* What each step does, starter by starter.                                *)
Turned(s) == /\ starter' \in [Starters -> StarterStates]
             /\ \A t \in Starters \ {s} : starter'[t] = starter[t]

At(s, at) == /\ Turned(s) /\ starter'[s].pc = at
             /\ starter'[s].home = starter[s].home /\ starter'[s].link = starter[s].link

LEMMA GoesTo ==
  ASSUME HomeTyped, NEW s \in Starters, NEW at \in HomeSteps, Goes(s, at)
  PROVE  At(s, at)
BY DEF Goes, At, Turned, HomeTyped, StarterStates

LEMMA ThroughTo ==
  ASSUME HomeTyped, NEW s \in Starters, NEW d \in Directories, Through(s, d)
  PROVE  /\ Turned(s) /\ starter'[s].pc = "through" /\ starter'[s].home = d
         /\ early' = (early \/ \E t \in Starters \ {s} : AtMove(t))
BY DEF Through, Turned, HomeTyped, StarterStates, HomeSteps

LEMMA Typed ==
  ASSUME HomeTyped, NEW s \in Starters
  PROVE  starter[s].pc \in HomeSteps /\ starter[s].home \in Directories \cup {"none"} /\ starter[s].link \in BOOLEAN
BY DEF HomeTyped, StarterStates

InspectDone(s) ==
  /\ starter[s].pc = "idle" /\ Turned(s)
  /\ UNCHANGED <<legacyAt, linked, records, paths, old, written, late>>
  /\ \/ /\ legacyAt = "none" /\ targetAt' = IF targetAt = "none" THEN "fresh" ELSE targetAt
        /\ starter'[s].pc = "through" /\ starter'[s].home = targetAt'
        /\ early' = (early \/ \E t \in Starters \ {s} : AtMove(t))
        /\ interrupted' = (interrupted \/ paths[targetAt'] = "legacy")
     \/ /\ legacyAt # "none" /\ targetAt # "none" /\ starter'[s].pc = "refused"
        /\ UNCHANGED <<targetAt, early, interrupted>>
     \/ /\ legacyAt # "none" /\ targetAt = "none" /\ starter'[s].pc = "check"
        /\ UNCHANGED <<targetAt, interrupted>>
        /\ early' = (early \/ (linked /\ \E t \in Starters : AtMove(t)))

LEMMA InspectDoes ==
  ASSUME HomeTyped, NEW s \in Starters, Inspect(s)
  PROVE  InspectDone(s)
<1>1. CASE SkipMissing(s)
  <2>1. targetAt' \in Directories
    BY <1>1 DEF InspectDone, SkipMissing, HomeTyped, Directories
  <2> QED
    BY <1>1, <2>1, ThroughTo DEF InspectDone, Inspect, SkipMissing, content
<1>2. CASE RefuseBoth(s)
  BY <1>2, GoesTo DEF InspectDone, Inspect, RefuseBoth, At, HomeSteps, content
<1>3. CASE ~SkipMissing(s) /\ ~RefuseBoth(s)
  BY <1>3, GoesTo DEF InspectDone, Inspect, At, HomeSteps, content
<1> QED
  BY <1>1, <1>2, <1>3

CheckWritersDone(s) ==
  /\ starter[s].pc = "check" /\ Turned(s)
  /\ UNCHANGED <<names, content, old, written, homeGhosts>>
  /\ \/ starter'[s].pc = "refused"
     \/ /\ old = "off" /\ legacyAt # "none"
        /\ starter'[s].pc = "back up" /\ starter'[s].link = linked

LEMMA CheckWritersDoes ==
  ASSUME HomeTyped, NEW s \in Starters, CheckWriters(s)
  PROVE  CheckWritersDone(s)
<1>1. CASE old = "off"
  <2>1. PICK at \in {"refused", "back up"} :
          /\ at = IF legacyAt = "none" THEN "refused" ELSE "back up"
          /\ starter' = [starter EXCEPT ![s].pc = at, ![s].link = linked]
    BY <1>1 DEF CheckWritersDone, CheckWriters, NoActiveLegacyRuntimeWriters
  <2> DEFINE turned == [starter[s] EXCEPT !.pc = at, !.link = linked]
  <2>2. at \in HomeSteps /\ linked \in BOOLEAN /\ starter \in [Starters -> StarterStates]
    BY DEF CheckWritersDone, HomeTyped, HomeSteps
  <2>3. starter' = [starter EXCEPT ![s] = turned]
    BY <2>1
  <2>4. turned \in StarterStates /\ turned.pc = at /\ turned.link = linked
    BY <2>2 DEF CheckWritersDone, StarterStates
  <2> HIDE DEF turned
  <2>5. Turned(s) /\ starter'[s].pc = at /\ starter'[s].link = linked
    BY <2>2, <2>3, <2>4 DEF CheckWritersDone, Turned
  <2> QED
    BY <1>1, <2>1, <2>5 DEF CheckWritersDone, CheckWriters, homeCounters
<1>2. CASE old # "off"
  BY <1>2, GoesTo DEF CheckWritersDone, CheckWriters, NoActiveLegacyRuntimeWriters, At, HomeSteps, homeCounters
<1> QED
  BY <1>1, <1>2

BackUpDone(s) ==
  /\ starter[s].pc = "back up"
  /\ UNCHANGED <<names, content, old, written, homeGhosts>>
  /\ \/ At(s, "refused")
     \/ starter[s].link /\ At(s, "copy")
     \/ ~starter[s].link /\ At(s, "rename")

LEMMA BackUpDoes ==
  ASSUME HomeTyped, NEW s \in Starters, BackUp(s)
  PROVE  BackUpDone(s)
BY GoesTo, Typed DEF BackUpDone, BackUp, HomeSteps

RenameDone(s) ==
  /\ starter[s].pc = "rename"
  /\ UNCHANGED <<linked, content, old, written, homeGhosts>>
  /\ \/ At(s, "refused") /\ UNCHANGED <<legacyAt, targetAt>>
     \/ /\ legacyAt # "none" /\ Empty(targetAt)
        /\ targetAt' = legacyAt /\ legacyAt' = "none" /\ At(s, "rewrite")

LEMMA RenameDoes ==
  ASSUME HomeTyped, NEW s \in Starters, Rename(s)
  PROVE  RenameDone(s)
BY GoesTo DEF RenameDone, Rename, HomeSteps

BeginCopyDone(s) ==
  /\ starter[s].pc = "copy" /\ At(s, "copying")
  /\ UNCHANGED <<legacyAt, linked, paths, old, written, homeGhosts>>
  /\ \/ /\ targetAt = "none" /\ targetAt' = "copy"
        /\ records' = [records EXCEPT !["copy"] = {}]
     \/ targetAt # "none" /\ UNCHANGED <<targetAt, records>>

LEMMA BeginCopyDoes ==
  ASSUME HomeTyped, NEW s \in Starters, BeginCopy(s)
  PROVE  BeginCopyDone(s)
BY GoesTo DEF BeginCopyDone, BeginCopy, HomeSteps, homeCounters

EndCopyDone(s) ==
  /\ starter[s].pc = "copying"
  /\ UNCHANGED <<names, old, written, homeGhosts>>
  /\ \/ /\ targetAt # "none" /\ At(s, "unlink")
        /\ records' = [records EXCEPT ![targetAt] = records["original"]]
        /\ paths' = [paths EXCEPT ![targetAt] = paths["original"]]
     \/ At(s, "refused") /\ UNCHANGED content

LEMMA EndCopyDoes ==
  ASSUME HomeTyped, NEW s \in Starters, EndCopy(s)
  PROVE  EndCopyDone(s)
BY GoesTo DEF EndCopyDone, EndCopy, HomeSteps

RemoveLinkDone(s) ==
  /\ starter[s].pc = "unlink"
  /\ UNCHANGED <<targetAt, linked, content, old, written, homeGhosts>>
  /\ \/ legacyAt = "original" /\ legacyAt' = "none" /\ At(s, "rewrite")
     \/ At(s, "refused") /\ UNCHANGED legacyAt

LEMMA RemoveLinkDoes ==
  ASSUME HomeTyped, NEW s \in Starters, RemoveLink(s)
  PROVE  RemoveLinkDone(s)
BY GoesTo DEF RemoveLinkDone, RemoveLink, HomeSteps

RewriteDone(s) ==
  /\ starter[s].pc = "rewrite" /\ Turned(s)
  /\ UNCHANGED <<names, records, old, written, late, interrupted>>
  /\ \/ /\ targetAt # "none" /\ paths' = [paths EXCEPT ![targetAt] = "target"]
        /\ starter'[s].pc = "through" /\ starter'[s].home = targetAt
        /\ early' = (early \/ \E t \in Starters \ {s} : AtMove(t))
     \/ /\ (targetAt = "none" /\ At(s, "refused")) \/ At(s, "roll back")
        /\ UNCHANGED <<paths, early>>

LEMMA RewriteDoes ==
  ASSUME HomeTyped, NEW s \in Starters, RewriteLegacyAppHomePaths(s)
  PROVE  RewriteDone(s)
<1>1. targetAt # "none" => targetAt \in Directories
  BY DEF RewriteDone, HomeTyped, Directories
<1> QED
  BY <1>1, GoesTo, ThroughTo DEF RewriteDone, RewriteLegacyAppHomePaths, At, HomeSteps

RollBackDone(s) ==
  /\ starter[s].pc = "roll back"
  /\ UNCHANGED <<linked, paths, old, written, late, early>>
  /\ \/ /\ starter[s].link /\ At(s, "relink")
        /\ targetAt' = "none" /\ Removed(targetAt) /\ UNCHANGED <<legacyAt, interrupted>>
     \/ /\ ~starter[s].link /\ legacyAt = "none" /\ targetAt # "none"
        /\ legacyAt' = targetAt /\ targetAt' = "none" /\ At(s, "refused")
        /\ UNCHANGED <<records, interrupted>>
     \/ /\ At(s, IF starter[s].link THEN "relink" ELSE "refused")
        /\ interrupted' = TRUE /\ UNCHANGED <<legacyAt, targetAt, records>>

LEMMA RollBackDoes ==
  ASSUME HomeTyped, NEW s \in Starters, RollBack(s)
  PROVE  RollBackDone(s)
BY GoesTo, Typed DEF RollBackDone, RollBack, HomeSteps

RelinkDone(s) ==
  /\ starter[s].pc = "relink" /\ At(s, "refused")
  /\ UNCHANGED <<targetAt, linked, content, old, written, late, early>>
  /\ \/ legacyAt = "none" /\ legacyAt' = "original" /\ UNCHANGED interrupted
     \/ UNCHANGED legacyAt /\ interrupted' = TRUE

LEMMA RelinkDoes ==
  ASSUME HomeTyped, NEW s \in Starters, Relink(s)
  PROVE  RelinkDone(s)
BY GoesTo DEF RelinkDone, Relink, HomeSteps

ServesDone(s) ==
  /\ starter[s].pc = "through" /\ written' = written + 1
  /\ UNCHANGED <<targetAt, linked, paths, old, starter, homeGhosts>>
  /\ \/ /\ paths[starter[s].home] = "target" /\ UNCHANGED legacyAt
        /\ records' = [records EXCEPT ![starter[s].home] = @ \cup {written + 1}]
     \/ /\ paths[starter[s].home] = "legacy"
        /\ legacyAt' = IF legacyAt = "none" THEN "stray" ELSE legacyAt
        /\ records' = [records EXCEPT ![legacyAt'] = @ \cup {written + 1}]

LEMMA ServesDoes ==
  ASSUME HomeTyped, NEW s \in Starters, Serves(s), starter[s].home \in Directories
  PROVE  ServesDone(s)
BY DEF ServesDone, Serves, Record, HomeTyped

StarterEndsDone(s) ==
  /\ starter[s].pc # "idle" /\ Turned(s) /\ starter'[s].pc = "idle"
  /\ UNCHANGED <<names, content, old, written, late, early>>
  /\ \/ starter[s].pc \in {"refused", "through"} /\ UNCHANGED interrupted
     \/ /\ starter[s].pc \notin {"refused", "through"}
        /\ interrupted' = (interrupted \/ starter[s].pc \in {"rewrite", "roll back", "relink"})

LEMMA StarterEndsDoes ==
  ASSUME HomeTyped, NEW s \in Starters, StarterEnds(s)
  PROVE  StarterEndsDone(s)
<1>1. Turned(s) /\ starter'[s].pc = "idle"
  BY DEF StarterEndsDone, StarterEnds, Turned, NotStarted, HomeTyped, StarterStates, HomeSteps
<1> QED
  BY <1>1 DEF StarterEndsDone, StarterEnds, AtMove

LEMMA LinkedStep ==
  ASSUME HomeTyped, HomeNext
  PROVE  linked' = linked
<1>1. CASE OldStartsOrStops
  BY <1>1 DEF OldStartsOrStops, names, content
<1>2. CASE OldWrites
  BY <1>2 DEF OldWrites, Record, names, homeGhosts
<1>3. ASSUME NEW s \in Starters, Inspect(s)
      PROVE  linked' = linked
  <2>1. InspectDone(s)
    BY <1>3, InspectDoes
  <2> QED
    BY <2>1 DEF InspectDone, At, Turned
<1>4. ASSUME NEW s \in Starters, CheckWriters(s)
      PROVE  linked' = linked
  <2>1. CheckWritersDone(s)
    BY <1>4, CheckWritersDoes
  <2> QED
    BY <2>1 DEF CheckWritersDone, At, Turned, names, content, homeGhosts
<1>5. ASSUME NEW s \in Starters, BackUp(s)
      PROVE  linked' = linked
  <2>1. BackUpDone(s)
    BY <1>5, BackUpDoes
  <2> QED
    BY <2>1 DEF BackUpDone, At, Turned, names, content, homeGhosts
<1>6. ASSUME NEW s \in Starters, Rename(s)
      PROVE  linked' = linked
  <2>1. RenameDone(s)
    BY <1>6, RenameDoes
  <2> QED
    BY <2>1 DEF RenameDone, At, Turned, content, homeGhosts
<1>7. ASSUME NEW s \in Starters, BeginCopy(s)
      PROVE  linked' = linked
  <2>1. BeginCopyDone(s)
    BY <1>7, BeginCopyDoes
  <2> QED
    BY <2>1 DEF BeginCopyDone, At, Turned, homeGhosts
<1>8. ASSUME NEW s \in Starters, EndCopy(s)
      PROVE  linked' = linked
  <2>1. EndCopyDone(s)
    BY <1>8, EndCopyDoes
  <2> QED
    BY <2>1 DEF EndCopyDone, At, Turned, names, content, homeGhosts
<1>9. ASSUME NEW s \in Starters, RemoveLink(s)
      PROVE  linked' = linked
  <2>1. RemoveLinkDone(s)
    BY <1>9, RemoveLinkDoes
  <2> QED
    BY <2>1 DEF RemoveLinkDone, At, Turned, content, homeGhosts
<1>10. ASSUME NEW s \in Starters, RewriteLegacyAppHomePaths(s)
      PROVE  linked' = linked
  <2>1. RewriteDone(s)
    BY <1>10, RewriteDoes
  <2> QED
    BY <2>1 DEF RewriteDone, At, Turned, names
<1>11. ASSUME NEW s \in Starters, RollBack(s)
      PROVE  linked' = linked
  <2>1. RollBackDone(s)
    BY <1>11, RollBackDoes
  <2> QED
    BY <2>1 DEF RollBackDone, At, Turned, Removed
<1>12. ASSUME NEW s \in Starters, Relink(s)
      PROVE  linked' = linked
  <2>1. RelinkDone(s)
    BY <1>12, RelinkDoes
  <2> QED
    BY <2>1 DEF RelinkDone, At, Turned, content
<1>13. ASSUME NEW s \in Starters, Serves(s)
      PROVE  linked' = linked
  <2> QED
    BY <1>13 DEF Serves
<1>14. ASSUME NEW s \in Starters, StarterEnds(s)
      PROVE  linked' = linked
  <2>1. StarterEndsDone(s)
    BY <1>14, StarterEndsDoes
  <2> QED
    BY <2>1 DEF StarterEndsDone, At, Turned, names, content
<1> QED
  BY <1>1, <1>2, <1>3, <1>4, <1>5, <1>6, <1>7, <1>8, <1>9, <1>10, <1>11, <1>12, <1>13, <1>14 DEF HomeNext

LEMMA KindedStep ==
  ASSUME HomeTyped, Kinded, HomeNext
  PROVE  Kinded'
<1> USE LinkedStep DEF Kinded, AtMove
<1>1. CASE OldStartsOrStops
  BY <1>1 DEF OldStartsOrStops, names, content
<1>2. CASE OldWrites
  BY <1>2 DEF OldWrites, Record, names, homeGhosts
<1>3. ASSUME NEW s \in Starters, Inspect(s)
      PROVE  Kinded'
  <2>1. InspectDone(s)
    BY <1>3, InspectDoes
  <2> QED
    BY <2>1 DEF InspectDone, At, Turned
<1>4. ASSUME NEW s \in Starters, CheckWriters(s)
      PROVE  Kinded'
  <2>1. CheckWritersDone(s)
    BY <1>4, CheckWritersDoes
  <2> QED
    BY <2>1 DEF CheckWritersDone, At, Turned, names, content, homeGhosts
<1>5. ASSUME NEW s \in Starters, BackUp(s)
      PROVE  Kinded'
  <2>1. BackUpDone(s)
    BY <1>5, BackUpDoes
  <2> QED
    BY <2>1 DEF BackUpDone, At, Turned, names, content, homeGhosts
<1>6. ASSUME NEW s \in Starters, Rename(s)
      PROVE  Kinded'
  <2>1. RenameDone(s)
    BY <1>6, RenameDoes
  <2> QED
    BY <2>1 DEF RenameDone, At, Turned, content, homeGhosts
<1>7. ASSUME NEW s \in Starters, BeginCopy(s)
      PROVE  Kinded'
  <2>1. BeginCopyDone(s)
    BY <1>7, BeginCopyDoes
  <2> QED
    BY <2>1 DEF BeginCopyDone, At, Turned, homeGhosts
<1>8. ASSUME NEW s \in Starters, EndCopy(s)
      PROVE  Kinded'
  <2>1. EndCopyDone(s)
    BY <1>8, EndCopyDoes
  <2> QED
    BY <2>1 DEF EndCopyDone, At, Turned, names, content, homeGhosts
<1>9. ASSUME NEW s \in Starters, RemoveLink(s)
      PROVE  Kinded'
  <2>1. RemoveLinkDone(s)
    BY <1>9, RemoveLinkDoes
  <2> QED
    BY <2>1 DEF RemoveLinkDone, At, Turned, content, homeGhosts
<1>10. ASSUME NEW s \in Starters, RewriteLegacyAppHomePaths(s)
      PROVE  Kinded'
  <2>1. RewriteDone(s)
    BY <1>10, RewriteDoes
  <2> QED
    BY <2>1 DEF RewriteDone, At, Turned, names
<1>11. ASSUME NEW s \in Starters, RollBack(s)
      PROVE  Kinded'
  <2>1. RollBackDone(s)
    BY <1>11, RollBackDoes
  <2> QED
    BY <2>1 DEF RollBackDone, At, Turned, Removed
<1>12. ASSUME NEW s \in Starters, Relink(s)
      PROVE  Kinded'
  <2>1. RelinkDone(s)
    BY <1>12, RelinkDoes
  <2> QED
    BY <2>1 DEF RelinkDone, At, Turned, content
<1>13. ASSUME NEW s \in Starters, Serves(s)
      PROVE  Kinded'
  <2> QED
    BY <1>13 DEF Serves
<1>14. ASSUME NEW s \in Starters, StarterEnds(s)
      PROVE  Kinded'
  <2>1. StarterEndsDone(s)
    BY <1>14, StarterEndsDoes
  <2> QED
    BY <2>1 DEF StarterEndsDone, At, Turned, names, content
<1> QED
  BY <1>1, <1>2, <1>3, <1>4, <1>5, <1>6, <1>7, <1>8, <1>9, <1>10, <1>11, <1>12, <1>13, <1>14 DEF HomeNext

LEMMA HomeTypedStep ==
  ASSUME HomeInv, HomeNext
  PROVE  HomeTyped'
<1> USE DEF HomeInv, HomeTyped, Directories
<1>1. CASE OldStartsOrStops
  BY <1>1 DEF OldStartsOrStops, names, content, homeGhosts
<1>2. CASE OldWrites
  BY <1>2 DEF OldWrites, Record, names, homeGhosts
<1>3. ASSUME NEW s \in Starters, Inspect(s)
      PROVE  HomeTyped'
  <2>1. InspectDone(s)
    BY <1>3, InspectDoes
  <2> QED
    BY <2>1 DEF InspectDone, At, Turned
<1>4. ASSUME NEW s \in Starters, CheckWriters(s)
      PROVE  HomeTyped'
  <2>1. CheckWritersDone(s)
    BY <1>4, CheckWritersDoes
  <2> QED
    BY <2>1 DEF CheckWritersDone, At, Turned, names, content, homeGhosts
<1>5. ASSUME NEW s \in Starters, BackUp(s)
      PROVE  HomeTyped'
  <2>1. BackUpDone(s)
    BY <1>5, BackUpDoes
  <2> QED
    BY <2>1 DEF BackUpDone, At, Turned, names, content, homeGhosts
<1>6. ASSUME NEW s \in Starters, Rename(s)
      PROVE  HomeTyped'
  <2>1. RenameDone(s)
    BY <1>6, RenameDoes
  <2> QED
    BY <2>1 DEF RenameDone, At, Turned, content, homeGhosts, Empty, Kinded, Unborn, Renamed, Elsewhere, Copied, Kept
<1>7. ASSUME NEW s \in Starters, BeginCopy(s)
      PROVE  HomeTyped'
  <2>1. BeginCopyDone(s)
    BY <1>7, BeginCopyDoes
  <2> QED
    BY <2>1 DEF BeginCopyDone, At, Turned, homeGhosts
<1>8. ASSUME NEW s \in Starters, EndCopy(s)
      PROVE  HomeTyped'
  <2>1. EndCopyDone(s)
    BY <1>8, EndCopyDoes
  <2> QED
    BY <2>1 DEF EndCopyDone, At, Turned, names, content, homeGhosts
<1>9. ASSUME NEW s \in Starters, RemoveLink(s)
      PROVE  HomeTyped'
  <2>1. RemoveLinkDone(s)
    BY <1>9, RemoveLinkDoes
  <2> QED
    BY <2>1 DEF RemoveLinkDone, At, Turned, content, homeGhosts
<1>10. ASSUME NEW s \in Starters, RewriteLegacyAppHomePaths(s)
      PROVE  HomeTyped'
  <2>1. RewriteDone(s)
    BY <1>10, RewriteDoes
  <2> QED
    BY ZenonT(30), <2>1 DEF RewriteDone, At, Turned, names
<1>11. ASSUME NEW s \in Starters, RollBack(s)
      PROVE  HomeTyped'
  <2>1. RollBackDone(s)
    BY <1>11, RollBackDoes
  <2>2. starter[s].link = linked /\ (~linked => targetAt \in {"none", "original"})
    BY <2>1 DEF RollBackDone, Kinded, AtMove, Unborn, Renamed, Elsewhere, Copied, Kept
  <2>3. legacyAt' \in {"none", "original", "stray"} /\ targetAt' \in {"none", "original", "copy", "fresh"}
    BY <2>1, <2>2 DEF RollBackDone
  <2>4. records' \in [Directories -> SUBSET Nat]
    BY ZenonT(30), <2>1 DEF RollBackDone, Removed
  <2> QED
    BY <2>1, <2>3, <2>4 DEF RollBackDone, At, Turned
<1>12. ASSUME NEW s \in Starters, Relink(s)
      PROVE  HomeTyped'
  <2>1. RelinkDone(s)
    BY <1>12, RelinkDoes
  <2> QED
    BY <2>1 DEF RelinkDone, At, Turned, content
<1>13. ASSUME NEW s \in Starters, Serves(s)
      PROVE  HomeTyped'
  <2> QED
    BY <1>13 DEF Serves, Record, homeGhosts
<1>14. ASSUME NEW s \in Starters, StarterEnds(s)
      PROVE  HomeTyped'
  <2>1. StarterEndsDone(s)
    BY <1>14, StarterEndsDoes
  <2> QED
    BY <2>1 DEF StarterEndsDone, At, Turned, names, content
<1> QED
  BY <1>1, <1>2, <1>3, <1>4, <1>5, <1>6, <1>7, <1>8, <1>9, <1>10, <1>11, <1>12, <1>13, <1>14 DEF HomeNext

LEMMA UnbornStep ==
  ASSUME HomeTyped, Unborn, HomeNext
  PROVE  Unborn'
<1> USE DEF Unborn, RecordedIn, Directories, HomeTyped
<1>1. CASE OldStartsOrStops
  BY <1>1 DEF OldStartsOrStops, names, content
<1>2. CASE OldWrites
  BY <1>2 DEF OldWrites, Record, names, homeGhosts
<1>3. ASSUME NEW s \in Starters, Inspect(s)
      PROVE  Unborn'
  <2>1. InspectDone(s)
    BY <1>3, InspectDoes
  <2> QED
    BY <2>1 DEF InspectDone, At, Turned
<1>4. ASSUME NEW s \in Starters, Serves(s)
      PROVE  Unborn'
  <2>1. starter[s].pc = "through" /\ starter[s].home = "fresh" /\ targetAt = "fresh"
    BY <1>4 DEF Serves
  <2>2. ServesDone(s)
    BY <1>4, <2>1, ServesDoes
  <2>3. /\ UNCHANGED <<legacyAt, targetAt, linked, paths, old, starter>> /\ written' = written + 1
        /\ records' = [records EXCEPT !["fresh"] = @ \cup {written + 1}]
    BY <2>1, <2>2 DEF ServesDone
  <2> QED
    BY <2>1, <2>3
<1>5. ASSUME NEW s \in Starters, StarterEnds(s)
      PROVE  Unborn'
  <2>1. StarterEndsDone(s)
    BY <1>5, StarterEndsDoes
  <2> QED
    BY <2>1 DEF StarterEndsDone, At, Turned, names, content
<1> QED
  BY <1>1, <1>2, <1>3, <1>4, <1>5
     DEF HomeNext, CheckWriters, BackUp, Rename, BeginCopy, EndCopy, RemoveLink,
         RewriteLegacyAppHomePaths, RollBack, Relink

LEMMA ElsewhereStep ==
  ASSUME HomeTyped, Kinded, Elsewhere, HomeNext
  PROVE  Elsewhere'
<1> USE DEF HomeTyped, Elsewhere, RecordedIn, Directories
<1>1. CASE OldStartsOrStops
  BY <1>1 DEF OldStartsOrStops, names, content
<1>2. CASE OldWrites
  BY <1>2 DEF OldWrites, Record, names, homeGhosts
<1>3. ASSUME NEW s \in Starters, Inspect(s)
      PROVE  Elsewhere'
  <2>1. InspectDone(s)
    BY <1>3, InspectDoes
  <2> QED
    BY <2>1 DEF InspectDone, At, Turned
<1>4. ASSUME NEW s \in Starters, CheckWriters(s)
      PROVE  Elsewhere'
  <2>1. CheckWritersDone(s)
    BY <1>4, CheckWritersDoes
  <2> QED
    BY <2>1 DEF CheckWritersDone, At, Turned, names, content, homeGhosts
<1>5. ASSUME NEW s \in Starters, BackUp(s)
      PROVE  Elsewhere'
  <2>1. BackUpDone(s)
    BY <1>5, BackUpDoes
  <2> QED
    BY <2>1 DEF BackUpDone, At, Turned, names, content, homeGhosts
<1>6. ASSUME NEW s \in Starters, Rename(s)
      PROVE  Elsewhere'
  <2>1. RenameDone(s)
    BY <1>6, RenameDoes
  <2> QED
    BY <2>1 DEF RenameDone, At, Turned, content, homeGhosts, Empty
<1>7. ASSUME NEW s \in Starters, RewriteLegacyAppHomePaths(s)
      PROVE  Elsewhere'
  <2>1. RewriteDone(s)
    BY <1>7, RewriteDoes
  <2> QED
    BY <2>1 DEF RewriteDone, At, Turned, names
<1>8. ASSUME NEW s \in Starters, RollBack(s)
      PROVE  Elsewhere'
  <2>1. RollBackDone(s)
    BY <1>8, RollBackDoes
  <2>2. starter[s].link = linked
    BY <2>1 DEF RollBackDone, Kinded, AtMove
  <2> QED
    BY ZenonT(30), <2>1, <2>2 DEF RollBackDone, At, Turned
<1>9. ASSUME NEW s \in Starters, Serves(s)
      PROVE  Elsewhere'
  <2>1. starter[s].pc = "through" /\ starter[s].home = "original"
    BY <1>9 DEF Serves
  <2>2. ServesDone(s)
    BY <1>9, <2>1, ServesDoes
  <2>3. PICK d \in {"original", "stray"} :
          /\ records' = [records EXCEPT ![d] = @ \cup {written + 1}]
          /\ d \in {"original", legacyAt'}
          /\ legacyAt' = legacyAt \/ (legacyAt = "none" /\ legacyAt' = "stray")
    BY <2>1, <2>2 DEF ServesDone
  <2>4. \A n \in 1..written' : n \in 1..written \/ n \in records'[d]
    BY <2>2, <2>3 DEF ServesDone
  <2>5. \A e \in Directories : records[e] \subseteq records'[e]
    BY <2>3
  <2>6. RecordedIn({"original", legacyAt})'
    BY <2>3, <2>4, <2>5
  <2> QED
    BY <2>1, <2>2, <2>3, <2>5, <2>6 DEF ServesDone
<1>10. ASSUME NEW s \in Starters, StarterEnds(s)
      PROVE  Elsewhere'
  <2>1. StarterEndsDone(s)
    BY <1>10, StarterEndsDoes
  <2> QED
    BY <2>1 DEF StarterEndsDone, At, Turned, names, content
<1> QED
  BY <1>1, <1>2, <1>3, <1>4, <1>5, <1>6, <1>7, <1>8, <1>9, <1>10
     DEF HomeNext, Kinded, BeginCopy, EndCopy, RemoveLink, Relink

LEMMA SettledStep ==
  ASSUME HomeTyped, Kinded, Renamed, HomeNext
  PROVE  Settled'
<1> USE DEF HomeTyped, Renamed, Elsewhere, Settled, Untroubled, IsThrough, IsMoving, Ones, AtMove, HomeSteps
<1>1. CASE OldStartsOrStops
  BY <1>1 DEF OldStartsOrStops, names, content
<1>2. CASE OldWrites
  BY <1>2 DEF OldWrites, Record, names, homeGhosts
<1>3. ASSUME NEW s \in Starters, Inspect(s)
      PROVE  Settled'
  <2>1. InspectDone(s)
    BY <1>3, InspectDoes
  <2>2. CASE starter'[s].pc = "through"
    <3>1. /\ legacyAt = "none" /\ legacyAt' = "none" /\ targetAt = "original" /\ targetAt' = targetAt
          /\ early' = (early \/ \E t \in Starters \ {s} : AtMove(t))
          /\ interrupted' = (interrupted \/ paths["original"] = "legacy") /\ paths' = paths
      BY <2>1, <2>2 DEF InspectDone
    <3>2. SUFFICES ASSUME Untroubled'
                   PROVE  (paths["original"] = "target" /\ ~IsMoving)'
      BY <3>1
    <3>3. ~interrupted' /\ ~early'
      BY <3>2
    <3>4. \A t \in Starters \ {s} : ~AtMove(t) /\ starter'[t] = starter[t]
      BY <2>1, <3>1, <3>3 DEF InspectDone, Turned
    <3>5. paths["original"] # "legacy"
      BY <3>1, <3>3
    <3> QED
      <4>1. ~IsMoving'
        BY <2>2, <3>4
      <4>2. paths'["original"] = "target"
        BY <3>1, <3>5 DEF Directories
      <4> QED
        BY <4>1, <4>2
  <2>3. CASE starter'[s].pc # "through"
    <3>1. /\ UNCHANGED <<legacyAt, targetAt, paths, late, interrupted>> /\ legacyAt # "none"
          /\ early => early'
          /\ \A t \in Starters : starter'[t].pc = "through" => starter[t].pc = "through"
          /\ targetAt = "original" => \A t \in Starters : AtMove(t)' => AtMove(t)
      BY <2>1, <2>3 DEF InspectDone, Turned
    <3> QED
      BY <3>1
  <2> QED
    BY <2>2, <2>3
<1>4. ASSUME NEW s \in Starters, CheckWriters(s)
      PROVE  Settled'
  <2>1. CheckWritersDone(s)
    BY <1>4, CheckWritersDoes
  <2> QED
    BY <2>1 DEF CheckWritersDone, At, Turned, names, content, homeGhosts
<1>5. ASSUME NEW s \in Starters, BackUp(s)
      PROVE  Settled'
  <2>1. BackUpDone(s)
    BY <1>5, BackUpDoes
  <2> QED
    BY ZenonT(30), <2>1 DEF BackUpDone, At, Turned, names, content, homeGhosts
<1>6. ASSUME NEW s \in Starters, Rename(s)
      PROVE  Settled'
  <2>1. RenameDone(s)
    BY <1>6, RenameDoes
  <2> QED
    BY <2>1 DEF RenameDone, At, Turned, content, homeGhosts, Empty
<1>7. ASSUME NEW s \in Starters, RewriteLegacyAppHomePaths(s)
      PROVE  Settled'
  <2>1. RewriteDone(s)
    BY <1>7, RewriteDoes
  <2>2. CASE starter'[s].pc = "through"
    <3>1. /\ UNCHANGED <<legacyAt, targetAt, late, interrupted>> /\ targetAt = "original"
          /\ paths' = [paths EXCEPT !["original"] = "target"]
          /\ early' = (early \/ \E t \in Starters \ {s} : AtMove(t))
      BY <2>1, <2>2 DEF RewriteDone, At, names
    <3>2. SUFFICES ASSUME Untroubled'
                   PROVE  (legacyAt # "stray" /\ paths["original"] = "target" /\ ~IsMoving)'
      BY <3>1
    <3>3. ~early' /\ Untroubled
      BY <3>1, <3>2
    <3>4. \A t \in Starters \ {s} : ~AtMove(t) /\ starter'[t] = starter[t]
      BY <2>1, <3>1, <3>3 DEF RewriteDone, Turned
    <3> QED
      <4>1. ~IsMoving'
        BY <2>2, <3>4
      <4>2. paths'["original"] = "target" /\ legacyAt' # "stray"
        BY <3>1, <3>3 DEF Directories
      <4> QED
        BY <4>1, <4>2
  <2>3. CASE starter'[s].pc # "through"
    <3>1. /\ UNCHANGED <<legacyAt, targetAt, paths, late, early, interrupted>>
          /\ AtMove(s)
          /\ \A t \in Starters : starter'[t].pc = "through" => starter[t].pc = "through"
      BY <2>1, <2>3 DEF RewriteDone, At, Turned, names
    <3> QED
      BY <3>1
  <2> QED
    BY <2>2, <2>3
<1>8. ASSUME NEW s \in Starters, RollBack(s)
      PROVE  Settled'
  <2>1. RollBackDone(s)
    BY <1>8, RollBackDoes
  <2> QED
    BY ZenonT(30), <2>1 DEF RollBackDone, At, Turned, Removed, Kinded
<1>9. ASSUME NEW s \in Starters, Serves(s)
      PROVE  Settled'
  <2>1. starter[s].pc = "through" /\ starter[s].home = "original"
    BY <1>9 DEF Serves
  <2>2. ServesDone(s)
    BY <1>9, <2>1, ServesDoes DEF Directories
  <2>3. Untroubled => paths["original"] = "target"
    BY <2>1
  <2> QED
    BY <2>1, <2>2, <2>3 DEF ServesDone, homeGhosts
<1>10. ASSUME NEW s \in Starters, StarterEnds(s)
      PROVE  Settled'
  <2>1. StarterEndsDone(s)
    BY <1>10, StarterEndsDoes
  <2>2. interrupted => interrupted'
    BY <2>1, Zenon DEF StarterEndsDone
  <2>3. /\ UNCHANGED <<legacyAt, targetAt, paths, late, early>>
        /\ \A t \in Starters : /\ starter'[t].pc = "through" => starter[t].pc = "through"
                               /\ AtMove(t)' => AtMove(t)
    BY <2>1 DEF StarterEndsDone, Turned, names, content
  <2> QED
    BY <2>2, <2>3
<1> QED
  BY <1>1, <1>2, <1>3, <1>4, <1>5, <1>6, <1>7, <1>8, <1>9, <1>10
     DEF HomeNext, Kinded, BeginCopy, EndCopy, RemoveLink, Relink

LEMMA Recorded ==
  ASSUME HomeTyped, NEW d \in Directories, written' = written + 1,
         records' = [records EXCEPT ![d] = @ \cup {written + 1}]
  PROVE  /\ \A e \in Directories : records[e] \subseteq records'[e]
         /\ \A n \in 1..written' : n \in 1..written \/ n \in records'[d]
BY DEF HomeTyped

LEMMA Troubled ==
  ASSUME HomeTyped, HomeNext
  PROVE  (Untroubled' => Untroubled) /\ (early => early')
<1>a. late \in BOOLEAN /\ early \in BOOLEAN /\ interrupted \in BOOLEAN
  BY DEF HomeTyped
<1>1. CASE OldStartsOrStops
  BY <1>1, Zenon DEF Untroubled, OldStartsOrStops, names, content
<1>2. CASE OldWrites
  BY <1>2, Zenon DEF Untroubled, OldWrites, Record, names, homeGhosts
<1>3. ASSUME NEW s \in Starters, Inspect(s)
      PROVE  (Untroubled' => Untroubled) /\ (early => early')
  <2>1. InspectDone(s)
    BY <1>3, InspectDoes
  <2> QED
    BY <1>a, <2>1 DEF Untroubled, InspectDone
<1>4. ASSUME NEW s \in Starters, CheckWriters(s)
      PROVE  (Untroubled' => Untroubled) /\ (early => early')
  <2>1. CheckWritersDone(s)
    BY <1>4, CheckWritersDoes
  <2> QED
    BY <2>1, Zenon DEF Untroubled, CheckWritersDone, names, content, homeGhosts
<1>5. ASSUME NEW s \in Starters, BackUp(s)
      PROVE  (Untroubled' => Untroubled) /\ (early => early')
  <2>1. BackUpDone(s)
    BY <1>5, BackUpDoes
  <2> QED
    BY <2>1, Zenon DEF Untroubled, BackUpDone, names, content, homeGhosts
<1>6. ASSUME NEW s \in Starters, Rename(s)
      PROVE  (Untroubled' => Untroubled) /\ (early => early')
  <2>1. RenameDone(s)
    BY <1>6, RenameDoes
  <2> QED
    BY <2>1, Zenon DEF Untroubled, RenameDone, content, homeGhosts
<1>7. ASSUME NEW s \in Starters, BeginCopy(s)
      PROVE  (Untroubled' => Untroubled) /\ (early => early')
  <2>1. BeginCopyDone(s)
    BY <1>7, BeginCopyDoes
  <2> QED
    BY <2>1, Zenon DEF Untroubled, BeginCopyDone, homeGhosts
<1>8. ASSUME NEW s \in Starters, EndCopy(s)
      PROVE  (Untroubled' => Untroubled) /\ (early => early')
  <2>1. EndCopyDone(s)
    BY <1>8, EndCopyDoes
  <2> QED
    BY <2>1, Zenon DEF Untroubled, EndCopyDone, names, content, homeGhosts
<1>9. ASSUME NEW s \in Starters, RemoveLink(s)
      PROVE  (Untroubled' => Untroubled) /\ (early => early')
  <2>1. RemoveLinkDone(s)
    BY <1>9, RemoveLinkDoes
  <2> QED
    BY <2>1, Zenon DEF Untroubled, RemoveLinkDone, content, homeGhosts
<1>10. ASSUME NEW s \in Starters, RewriteLegacyAppHomePaths(s)
      PROVE  (Untroubled' => Untroubled) /\ (early => early')
  <2>1. RewriteDone(s)
    BY <1>10, RewriteDoes
  <2>2. early => early'
    BY <2>1, Zenon DEF RewriteDone
  <2> QED
    BY <2>1, <2>2 DEF Untroubled, RewriteDone
<1>11. ASSUME NEW s \in Starters, RollBack(s)
      PROVE  (Untroubled' => Untroubled) /\ (early => early')
  <2>1. RollBackDone(s)
    BY <1>11, RollBackDoes
  <2> QED
    BY <1>a, <2>1 DEF Untroubled, RollBackDone, Removed
<1>12. ASSUME NEW s \in Starters, Relink(s)
      PROVE  (Untroubled' => Untroubled) /\ (early => early')
  <2>1. RelinkDone(s)
    BY <1>12, RelinkDoes
  <2> QED
    BY <2>1 DEF Untroubled, RelinkDone, content
<1>13. ASSUME NEW s \in Starters, Serves(s)
      PROVE  (Untroubled' => Untroubled) /\ (early => early')
  <2> QED
    BY <1>13, Zenon DEF Serves, Untroubled, homeGhosts
<1>14. ASSUME NEW s \in Starters, StarterEnds(s)
      PROVE  (Untroubled' => Untroubled) /\ (early => early')
  <2>1. StarterEndsDone(s)
    BY <1>14, StarterEndsDoes
  <2>2. interrupted => interrupted'
    BY <2>1, Zenon DEF StarterEndsDone
  <2> QED
    BY <2>1, <2>2 DEF Untroubled, StarterEndsDone
<1> QED
  BY <1>1, <1>2, <1>3, <1>4, <1>5, <1>6, <1>7, <1>8, <1>9, <1>10, <1>11, <1>12, <1>13, <1>14 DEF HomeNext

LEMMA KeptStep ==
  ASSUME HomeTyped, Kinded, Kept, HomeNext, ~early'
  PROVE  Kept'
<1> USE DEF HomeTyped, Kept, RecordedIn, Directories, IsThrough, IsMoving, Ones, AtMove, HomeSteps
<1>1. CASE OldStartsOrStops
  BY <1>1 DEF OldStartsOrStops, names, content
<1>2. CASE OldWrites
  <2>1. /\ UNCHANGED <<legacyAt, targetAt, linked, paths, old, starter, early>> /\ written' = written + 1
        /\ records' = [records EXCEPT !["original"] = @ \cup {written + 1}]
    BY <1>2 DEF OldWrites, Record, names, homeGhosts
  <2>2. /\ \A d \in Directories : records[d] \subseteq records'[d]
        /\ \A n \in 1..written' : n \in 1..written \/ n \in records'["original"]
    BY <2>1, Recorded
  <2>3. RecordedIn({"original", legacyAt, targetAt})'
    <3>1. RecordedIn({"original", legacyAt, targetAt})
      OBVIOUS
    <3> HIDE DEF HomeTyped, Kept, AtMove, IsThrough, IsMoving, Ones, HomeSteps
    <3> QED
      BY <2>1, <2>2, <3>1
  <2>4. records["copy"] \subseteq records["original"] => records'["copy"] \subseteq records'["original"]
    BY <2>1
  <2> QED
    BY <2>1, <2>3, <2>4
<1>3. ASSUME NEW s \in Starters, Inspect(s)
      PROVE  Kept'
  <2>1. InspectDone(s)
    BY <1>3, InspectDoes
  <2> QED
    BY ZenonT(30), <2>1 DEF InspectDone, At, Turned
<1>4. ASSUME NEW s \in Starters, CheckWriters(s)
      PROVE  Kept'
  <2>1. CheckWritersDone(s)
    BY <1>4, CheckWritersDoes
  <2> QED
    BY <2>1 DEF CheckWritersDone, At, Turned, names, content, homeGhosts
<1>5. ASSUME NEW s \in Starters, BackUp(s)
      PROVE  Kept'
  <2>1. BackUpDone(s)
    BY <1>5, BackUpDoes
  <2> QED
    BY ZenonT(30), <2>1 DEF BackUpDone, At, Turned, names, content, homeGhosts, Kinded
<1>6. ASSUME NEW s \in Starters, BeginCopy(s)
      PROVE  Kept'
  <2>1. BeginCopyDone(s)
    BY <1>6, BeginCopyDoes
  <2> QED
    BY ZenonT(30), <2>1 DEF BeginCopyDone, At, Turned, homeGhosts
<1>7. ASSUME NEW s \in Starters, EndCopy(s)
      PROVE  Kept'
  <2>1. EndCopyDone(s)
    BY <1>7, EndCopyDoes
  <2>2. targetAt = "copy" /\ legacyAt # "stray" /\ records["copy"] \subseteq records["original"]
    BY <2>1 DEF EndCopyDone
  <2>3. RecordedIn({"original", legacyAt, targetAt})'
    BY <2>1, <2>2 DEF EndCopyDone, names, content
  <2>4. (records["copy"] \subseteq records["original"])'
    <3>1. \/ records' = records
          \/ records' = [records EXCEPT !["copy"] = records["original"]]
      BY <2>1, <2>2 DEF EndCopyDone, content
    <3> QED
      BY ZenonT(30), <2>2, <3>1
  <2>5. UNCHANGED <<legacyAt, targetAt, linked, early>>
    BY <2>1 DEF EndCopyDone, names, homeGhosts
  <2>6. Turned(s) /\ starter'[s].pc \in {"unlink", "refused"}
    BY <2>1 DEF EndCopyDone, At
  <2>7. \A t \in Starters \ {s} : starter'[t] = starter[t] /\ ~AtMove(t)
    BY <2>1, <2>6 DEF EndCopyDone, Turned
  <2> QED
    BY <2>1, <2>2, <2>3, <2>4, <2>5, <2>6, <2>7 DEF EndCopyDone
<1>8. ASSUME NEW s \in Starters, RemoveLink(s)
      PROVE  Kept'
  <2>1. RemoveLinkDone(s)
    BY <1>8, RemoveLinkDoes
  <2> QED
    BY ZenonT(30), <2>1 DEF RemoveLinkDone, At, Turned, content, homeGhosts
<1>9. ASSUME NEW s \in Starters, RewriteLegacyAppHomePaths(s)
      PROVE  Kept'
  <2>1. RewriteDone(s)
    BY <1>9, RewriteDoes
  <2> QED
    BY <2>1 DEF RewriteDone, At, Turned, names
<1>10. ASSUME NEW s \in Starters, RollBack(s)
      PROVE  Kept'
  <2>1. RollBackDone(s)
    BY <1>10, RollBackDoes
  <2>2. starter[s].link = linked /\ targetAt = "copy" /\ legacyAt # "stray"
    BY <2>1 DEF RollBackDone, Kinded
  <2>3. \A n \in 1..written : n \in records["original"]
    <3>1. records["copy"] \subseteq records["original"]
      BY <2>1, <2>2 DEF RollBackDone
    <3> QED
      BY <2>2, <3>1
  <2>4. /\ UNCHANGED <<linked, legacyAt, written, early>> /\ At(s, "relink")
        /\ \/ UNCHANGED <<targetAt, records>>
           \/ targetAt' = "none" /\ records'["original"] = records["original"]
    BY <2>1, <2>2 DEF RollBackDone, Removed
  <2>5. RecordedIn({"original", legacyAt, targetAt})'
    BY <2>2, <2>3, <2>4
  <2>6. \A t \in Starters \ {s} : starter'[t] = starter[t] /\ ~AtMove(t)
    BY <2>1, <2>4 DEF RollBackDone, At, Turned
  <2> QED
    BY <2>1, <2>2, <2>4, <2>5, <2>6 DEF RollBackDone, At
<1>11. ASSUME NEW s \in Starters, Relink(s)
      PROVE  Kept'
  <2>1. RelinkDone(s)
    BY <1>11, RelinkDoes
  <2> QED
    BY ZenonT(30), <2>1 DEF RelinkDone, At, Turned, content
<1>12. ASSUME NEW s \in Starters, Serves(s)
      PROVE  Kept'
  <2>1. starter[s].pc = "through" /\ starter[s].home = targetAt /\ targetAt \in Directories
    BY <1>12 DEF Serves
  <2>2. ServesDone(s)
    BY <1>12, <2>1, ServesDoes
  <2>3. PICK d \in Directories :
          /\ records' = [records EXCEPT ![d] = @ \cup {written + 1}]
          /\ d \in {legacyAt', targetAt'} /\ legacyAt' \in {legacyAt, "stray"}
          /\ legacyAt' = legacyAt \/ legacyAt = "none"
    BY ZenonT(30), <2>1, <2>2 DEF ServesDone
  <2>4. UNCHANGED <<targetAt, linked, starter, early>> /\ written' = written + 1
    BY <2>2 DEF ServesDone, homeGhosts
  <2>5. \A n \in 1..written' : n \in 1..written \/ n \in records'[d]
    BY <2>3, <2>4, Recorded
  <2>6. \A e \in Directories : records[e] \subseteq records'[e]
    BY <2>3, <2>4, Recorded
  <2>7. RecordedIn({"original", legacyAt, targetAt})'
    BY <2>3, <2>4, <2>5, <2>6
  <2> QED
    BY <2>1, <2>3, <2>4, <2>7
<1>13. ASSUME NEW s \in Starters, StarterEnds(s)
      PROVE  Kept'
  <2>1. StarterEndsDone(s)
    BY <1>13, StarterEndsDoes
  <2> QED
    BY ZenonT(30), <2>1 DEF StarterEndsDone, At, Turned, names, content
<1> QED
  BY <1>1, <1>2, <1>3, <1>4, <1>5, <1>6, <1>7, <1>8, <1>9, <1>10, <1>11, <1>12, <1>13
     DEF HomeNext, Kinded, Rename

LEMMA InTurnStep ==
  ASSUME HomeTyped, Kinded, Kept, InTurn, HomeNext, Untroubled'
  PROVE  InTurn'
<1> USE DEF AtMove, Ones, IsThrough, IsMoving
<1>1. CASE OldStartsOrStops
  BY <1>1 DEF OldStartsOrStops, names, content, homeGhosts, homeCounters, InTurn, Steady, Moved, RecordedIn, Untroubled
<1>2. CASE OldWrites
  <2>1. /\ UNCHANGED <<legacyAt, targetAt, linked, paths, old, starter>> /\ old = "on"
    BY <1>2 DEF OldWrites, names
  <2> QED
    BY <2>1 DEF InTurn, Steady, Moved
<1>3. ASSUME NEW s \in Starters, Inspect(s)
      PROVE  InTurn'
  <2>1. InspectDone(s)
    BY <1>3, InspectDoes
  <2>2. /\ UNCHANGED <<legacyAt, old, records, paths, written>>
        /\ \A t \in Starters \ {s} : starter'[t] = starter[t]
    BY <2>1 DEF InspectDone, Turned
  <2>3. CASE starter'[s].pc = "through"
    <3>1. /\ legacyAt = "none" /\ targetAt' = IF targetAt = "none" THEN "fresh" ELSE targetAt
          /\ \A t \in Starters \ {s} : ~AtMove(t)
      BY <2>1, <2>3 DEF InspectDone, Untroubled
    <3>2. \A t \in Starters : ~AtMove(t) /\ ~AtMove(t)'
      BY <2>1, <2>2, <2>3, <3>1 DEF InspectDone
    <3>3. Moved
      BY <3>1, <3>2 DEF InTurn
    <3>4. Moved'
      BY <2>2, <3>1, <3>3 DEF Moved, RecordedIn
    <3>5. \A t \in Starters : Steady(t)'
      BY <3>2 DEF Steady
    <3> QED
      BY <2>2, <3>1, <3>4, <3>5 DEF InTurn
  <2>4. CASE starter'[s].pc # "through"
    <3>1. targetAt' = targetAt /\ legacyAt \notin {"none", "stray"} /\ starter'[s].pc \in {"refused", "check"}
      BY <2>1, <2>4 DEF InspectDone, InTurn
    <3>2. legacyAt = "original"
      BY <3>1 DEF HomeTyped
    <3>3. ASSUME NEW t \in Starters PROVE Steady(t)'
      <4>1. CASE t = s
        BY <2>2, <3>1, <3>2, <4>1 DEF Steady
      <4>2. CASE t # s
        BY <2>2, <3>1, <4>2 DEF Steady, InTurn, RecordedIn
      <4> QED
        BY <4>1, <4>2
    <3>4. ~IsThrough'
      BY <2>2, <3>1, <3>2 DEF InTurn
    <3> QED
      BY <2>2, <3>2, <3>3, <3>4 DEF InTurn
  <2> QED
    BY <2>3, <2>4
<1>4. ASSUME NEW s \in Starters, CheckWriters(s)
      PROVE  InTurn'
  <2>1. CheckWritersDone(s)
    BY <1>4, CheckWritersDoes
  <2>2. \A t \in Starters \ {s} : starter'[t] = starter[t] /\ ~AtMove(t)
    BY <2>1 DEF CheckWritersDone, At, Turned, Kept
  <2>3. \A t \in Starters \ {s} : Steady(t)'
    BY <2>2 DEF Steady
  <2> QED
    BY <2>1, <2>2, <2>3 DEF CheckWritersDone, At, Turned, InTurn, Steady, Moved, RecordedIn, Kept, Kinded, names, content
<1>5. ASSUME NEW s \in Starters, BackUp(s)
      PROVE  InTurn'
  <2>1. BackUpDone(s)
    BY <1>5, BackUpDoes
  <2>2. \A t \in Starters \ {s} : starter'[t] = starter[t] /\ ~AtMove(t)
    BY <2>1 DEF BackUpDone, At, Turned, Kept
  <2>3. \A t \in Starters \ {s} : Steady(t)'
    BY <2>2 DEF Steady
  <2> QED
    BY <2>1, <2>2, <2>3 DEF BackUpDone, At, Turned, InTurn, Steady, Moved, RecordedIn, Kept, Kinded, names, content
<1>6. ASSUME NEW s \in Starters, BeginCopy(s)
      PROVE  InTurn'
  <2>1. BeginCopyDone(s)
    BY <1>6, BeginCopyDoes
  <2>2. \A t \in Starters \ {s} : starter'[t] = starter[t] /\ ~AtMove(t)
    BY <2>1 DEF BeginCopyDone, At, Turned, Kept
  <2>3. \A t \in Starters \ {s} : Steady(t)'
    BY <2>2 DEF Steady
  <2> QED
    BY <2>1, <2>2, <2>3 DEF BeginCopyDone, At, Turned, InTurn, Steady, Moved, RecordedIn, Kept, Kinded
<1>7. ASSUME NEW s \in Starters, EndCopy(s)
      PROVE  InTurn'
  <2>1. EndCopyDone(s)
    BY <1>7, EndCopyDoes
  <2>2. \A t \in Starters \ {s} : starter'[t] = starter[t] /\ ~AtMove(t)
    BY <2>1 DEF EndCopyDone, At, Turned, Kept
  <2>3. \A t \in Starters \ {s} : Steady(t)'
    BY <2>2 DEF Steady
  <2>4. /\ targetAt = "copy" /\ legacyAt = "original" /\ old = "off"
        /\ UNCHANGED <<targetAt, legacyAt, old, written>>
    BY <2>1 DEF EndCopyDone, names, Kept, InTurn, Steady
  <2>5. CASE starter'[s].pc = "unlink"
    <3>1. records'["copy"] = records["original"]
      BY <2>1, <2>4, <2>5 DEF EndCopyDone, At, HomeTyped, Directories
    <3>2. RecordedIn({"copy"})'
      BY ZenonT(30), <2>1, <2>4, <3>1 DEF EndCopyDone, Kept, RecordedIn, HomeTyped, Directories
    <3> QED
      BY <2>1, <2>2, <2>3, <2>4, <2>5, <3>2 DEF EndCopyDone, InTurn, Steady, Kept
  <2>6. CASE starter'[s].pc # "unlink"
    BY <2>1, <2>2, <2>3, <2>4, <2>6 DEF EndCopyDone, At, InTurn, Steady, Kept
  <2> QED
    BY <2>5, <2>6
<1>8. ASSUME NEW s \in Starters, RemoveLink(s)
      PROVE  InTurn'
  <2>1. RemoveLinkDone(s)
    BY <1>8, RemoveLinkDoes
  <2>2. \A t \in Starters \ {s} : starter'[t] = starter[t] /\ ~AtMove(t)
    BY <2>1 DEF RemoveLinkDone, At, Turned, Kept
  <2>3. \A t \in Starters \ {s} : Steady(t)'
    BY <2>2 DEF Steady
  <2> QED
    BY <2>1, <2>2, <2>3 DEF RemoveLinkDone, At, Turned, InTurn, Steady, Moved, RecordedIn, Kept, Kinded, content
<1>9. ASSUME NEW s \in Starters, RewriteLegacyAppHomePaths(s)
      PROVE  InTurn'
  <2>1. RewriteDone(s)
    BY <1>9, RewriteDoes
  <2>2. \A t \in Starters \ {s} : starter'[t] = starter[t] /\ ~AtMove(t)
    BY <2>1 DEF RewriteDone, At, Turned, Kept
  <2>3. \A t \in Starters \ {s} : Steady(t)'
    BY <2>2 DEF Steady
  <2>4. /\ targetAt = "copy" /\ legacyAt = "none" /\ old = "off" /\ RecordedIn({"copy"})
        /\ UNCHANGED <<targetAt, legacyAt, old, records, written>>
    BY <2>1 DEF RewriteDone, names, Kept, InTurn, Steady
  <2>5. RecordedIn({"copy"})'
    BY <2>4 DEF RecordedIn
  <2>6. CASE starter'[s].pc = "through"
    <3>1. paths'["copy"] = "target"
      BY <2>1, <2>4, <2>6 DEF RewriteDone, At, HomeTyped, Directories
    <3> QED
      BY <2>2, <2>3, <2>4, <2>5, <2>6, <3>1 DEF InTurn, Steady, Moved
  <2>7. CASE starter'[s].pc = "roll back"
    BY <2>1, <2>2, <2>3, <2>4, <2>5, <2>7 DEF RewriteDone, At, InTurn, Steady, Moved
  <2> QED
    BY <2>1, <2>4, <2>6, <2>7 DEF RewriteDone, At
<1>10. ASSUME NEW s \in Starters, RollBack(s)
      PROVE  InTurn'
  <2>1. RollBackDone(s)
    BY <1>10, RollBackDoes
  <2>2. \A t \in Starters \ {s} : starter'[t] = starter[t] /\ ~AtMove(t)
    BY <2>1 DEF RollBackDone, At, Turned, Kept
  <2>3. \A t \in Starters \ {s} : Steady(t)'
    BY <2>2 DEF Steady
  <2> QED
    BY <2>1, <2>2, <2>3 DEF RollBackDone, At, Turned, InTurn, Steady, Moved, RecordedIn, Kept, Kinded, Removed, Untroubled
<1>11. ASSUME NEW s \in Starters, Relink(s)
      PROVE  InTurn'
  <2>1. RelinkDone(s)
    BY <1>11, RelinkDoes
  <2>2. \A t \in Starters \ {s} : starter'[t] = starter[t] /\ ~AtMove(t)
    BY <2>1 DEF RelinkDone, At, Turned, Kept
  <2>3. \A t \in Starters \ {s} : Steady(t)'
    BY <2>2 DEF Steady
  <2> QED
    BY <2>1, <2>2, <2>3 DEF RelinkDone, At, Turned, InTurn, Steady, Moved, RecordedIn, Kept, Kinded, content, Untroubled
<1>12. ASSUME NEW s \in Starters, Serves(s)
      PROVE  InTurn'
  <2>1. starter[s].pc = "through" /\ starter[s].home = targetAt /\ targetAt \in Directories
    BY <1>12 DEF Serves, Kept, Directories
  <2>2. ServesDone(s)
    BY <1>12, <2>1, ServesDoes
  <2>3. UNCHANGED <<targetAt, linked, paths, old, starter>> /\ written' = written + 1
    BY <2>2 DEF ServesDone
  <2>4. ~IsMoving /\ legacyAt = "none" /\ Moved
    BY <2>1 DEF InTurn, Kept
  <2>5. legacyAt' = "none" /\ records' = [records EXCEPT !["copy"] = @ \cup {written + 1}]
    BY <2>1, <2>2, <2>4 DEF ServesDone, Moved
  <2>6. RecordedIn({"copy"})'
    BY <2>3, <2>4, <2>5, Recorded DEF Moved, RecordedIn, Directories
  <2>7. \A t \in Starters : ~AtMove(t)'
    BY <2>3, <2>4
  <2> QED
    BY <2>3, <2>4, <2>5, <2>6, <2>7 DEF InTurn, Steady, Moved
<1>13. ASSUME NEW s \in Starters, StarterEnds(s)
      PROVE  InTurn'
  <2>1. StarterEndsDone(s)
    BY <1>13, StarterEndsDoes
  <2>2. UNCHANGED <<legacyAt, targetAt, records, paths, old, written>>
    BY <2>1 DEF StarterEndsDone, names, content
  <2>3. /\ \A t \in Starters \ {s} : starter'[t] = starter[t]
        /\ starter'[s].pc = "idle" /\ starter[s].pc \notin {"rewrite", "roll back", "relink"}
    BY <2>1 DEF StarterEndsDone, Turned, Untroubled
  <2>4. ASSUME NEW t \in Starters PROVE Steady(t)'
    BY <2>2, <2>3 DEF Steady, InTurn, RecordedIn
  <2>5. legacyAt = "none" => starter[s].pc \notin {"check", "back up", "copy", "copying", "unlink"}
    BY DEF InTurn, Steady
  <2>6. legacyAt = "none" /\ ~IsMoving' => ~IsMoving
    BY <2>1, <2>3, <2>5, Typed DEF StarterEndsDone, HomeSteps, Kinded, Kept
  <2> QED
    BY <2>2, <2>3, <2>4, <2>6 DEF InTurn, Moved, RecordedIn
<1> QED
  BY <1>1, <1>2, <1>3, <1>4, <1>5, <1>6, <1>7, <1>8, <1>9, <1>10, <1>11, <1>12, <1>13
     DEF HomeNext, Kinded, Kept, Rename

LEMMA HomeInvStep ==
  ASSUME HomeInv, [HomeNext]_homeVars
  PROVE  HomeInv'
<1>1. CASE HomeNext
  <2>1. HomeTyped' /\ Kinded' /\ linked' = linked
    BY <1>1, HomeTypedStep, KindedStep, LinkedStep DEF HomeInv
  <2>2. (Untroubled' => Untroubled) /\ (early => early')
    BY <1>1, Troubled DEF HomeInv
  <2>3. CASE linked /\ early
    BY <2>1, <2>2, <2>3 DEF HomeInv
  <2>4. CASE Unborn
    BY <1>1, <2>1, <2>4, UnbornStep DEF HomeInv
  <2>5. CASE Renamed
    BY <1>1, <2>1, <2>5, ElsewhereStep, SettledStep DEF HomeInv, Renamed
  <2>6. CASE Copied
    <3>1. CASE early'
      BY <2>1, <2>6, <3>1 DEF HomeInv, Copied, Kept
    <3>2. CASE ~early'
      <4>1. Kept' /\ (Untroubled' => InTurn')
        BY <1>1, <2>2, <2>6, <3>2, KeptStep, InTurnStep DEF HomeInv, Copied
      <4> QED
        BY <2>1, <4>1 DEF HomeInv, Copied
    <3> QED
      BY <3>1, <3>2
  <2> QED
    BY <2>3, <2>4, <2>5, <2>6 DEF HomeInv
<1>2. CASE UNCHANGED homeVars
  <2> USE <1>2 DEF homeVars, names, content, homeCounters, homeGhosts, Untroubled, RecordedIn, AtMove,
                   IsThrough, IsMoving, Ones
  <2>1. HomeTyped => HomeTyped'
    BY DEF HomeTyped
  <2>2. Kinded => Kinded'
    BY DEF Kinded
  <2>3. Unborn => Unborn'
    BY DEF Unborn
  <2>4. Renamed => Renamed'
    BY DEF Renamed, Elsewhere, Settled
  <2>5. Copied => Copied'
    <3>1. Kept => Kept'
      BY DEF Kept
    <3>2. InTurn => InTurn'
      BY DEF InTurn, Steady, Moved
    <3> QED
      BY <3>1, <3>2 DEF Copied
  <2>6. linked /\ early => linked' /\ early'
    OBVIOUS
  <2> QED
    BY <2>1, <2>2, <2>3, <2>4, <2>5, <2>6 DEF HomeInv
<1> QED
  BY <1>1, <1>2

LEMMA HomeInvInit == HomeInit => HomeInv
<1> SUFFICES ASSUME HomeInit PROVE HomeInv
  OBVIOUS
<1>1. \A s \in Starters : starter[s].pc = "idle"
  BY DEF HomeInit, NotStarted
<1>2. HomeTyped
  <2>1. starter \in [Starters -> StarterStates]
    BY DEF HomeInit, NotStarted, HomeSteps, StarterStates
  <2>2. written \in Nat /\ legacyAt \in {"none", "original", "stray"}
    BY DEF HomeInit
  <2>3. records \in [Directories -> SUBSET Nat]
    BY <2>2 DEF HomeInit
  <2>4. {late, early, interrupted} \subseteq BOOLEAN
    BY DEF HomeInit
  <2> QED
    BY <2>1, <2>2, <2>3, <2>4 DEF HomeInit, HomeTyped
<1>3. Kinded
  BY <1>1 DEF Kinded, AtMove
<1>4. CASE legacyAt = "none"
  BY <1>1, <1>2, <1>3, <1>4 DEF HomeInit, HomeInv, Unborn, RecordedIn, Directories
<1>5. CASE legacyAt = "original"
  <2>1. targetAt = "none" /\ ~early /\ (\A n \in 1..written : n \in records["original"])
        /\ records["original"] # {}
    BY <1>5 DEF HomeInit, Directories
  <2>2. CASE ~linked
    BY <1>1, <1>2, <1>3, <1>5, <2>1, <2>2
       DEF HomeInv, Renamed, Elsewhere, Settled, RecordedIn, IsThrough, Ones, Directories
  <2>3. CASE linked
    <3>1. Kept
      BY <1>1, <1>5, <2>1, <2>3 DEF Kept, RecordedIn, IsMoving, AtMove, Directories
    <3>2. InTurn
      BY <1>1, <1>5, <2>1 DEF InTurn, Steady, IsThrough, Ones, AtMove
    <3> QED
      BY <1>2, <1>3, <3>1, <3>2 DEF HomeInv, Copied
  <2> QED
    BY <1>2, <2>2, <2>3 DEF HomeTyped
<1> QED
  BY <1>4, <1>5 DEF HomeInit

(* However many start at once, fail or die: the records of a home that was *)
(* renamed are in a directory somebody can find, and so are those of a     *)
(* copied one unless two starters were at its move at once.                *)
THEOREM RecordsTheorem == HomeSpec => []RecordsSurvive
<1>1. HomeInv => RecordsSurvive
  <2> SUFFICES ASSUME HomeInv, ~(linked /\ early), NEW n \in 1..written
               PROVE  \E d \in {"original", legacyAt, targetAt} \cap Directories : n \in records[d]
    BY DEF RecordsSurvive
  <2>1. CASE Unborn
    BY <2>1 DEF Unborn, RecordedIn
  <2>2. CASE Renamed
    BY <2>2 DEF Renamed, Elsewhere, RecordedIn
  <2>3. CASE Copied
    BY <2>3 DEF Copied, Kept, RecordedIn
  <2> QED
    BY <2>1, <2>2, <2>3 DEF HomeInv
<1> QED
  BY <1>1, HomeInvInit, HomeInvStep, PTL DEF HomeSpec

(* In a history none of the four accidents has happened in, every start    *)
(* that goes through has found every record, and paths that lead to them.  *)
THEOREM StartsTheorem == HomeSpec => []StartsWhole
<1>1. HomeInv => StartsWhole
  <2> SUFFICES ASSUME HomeInv, Untroubled, NEW s \in Starters, starter[s].pc = "through"
               PROVE  /\ starter[s].home = targetAt
                      /\ paths[targetAt] = "target"
                      /\ 1..written \subseteq records[targetAt]
    BY DEF StartsWhole, Untroubled
  <2> USE DEF RecordedIn, IsThrough, Ones
  <2>1. CASE Unborn
    BY <2>1 DEF Unborn
  <2>2. CASE Renamed
    <3>1. targetAt = "original" /\ paths["original"] = "target" /\ legacyAt \in {"original", "none"}
      BY <2>2 DEF Renamed, Elsewhere, Settled
    <3>2. starter[s].home = "original" /\ \A n \in 1..written : n \in records["original"]
      BY <2>2, <3>1 DEF Renamed, Elsewhere, Directories
    <3> QED
      BY <3>1, <3>2
  <2>3. CASE Copied
    BY <2>3 DEF Copied, Kept, InTurn, Moved
  <2> QED
    BY <2>1, <2>2, <2>3 DEF HomeInv, Untroubled
<1> QED
  BY <1>1, HomeInvInit, HomeInvStep, PTL DEF HomeSpec

-----------------------------------------------------------------------------
(* The privacy state and those who write it.                               *)
Ranges    == [from : Ticks, to : Ticks, resolved : BOOLEAN,
             reason : {"pause", "delete-range", "cascade-failure"}]
StateSet == [paused : BOOLEAN, start : Ticks \cup {NoPauseStart},
             excluded : SUBSET Apps, ranges : SUBSET Ranges]

Asked    == [kind : {"pause", "resume", "last_1h", "wider", "reconcile", "retention"}]
            \cup [kind : {"exclude", "remove"}, app : Apps]
Storing  == {"write", "fill", "rename"}
Entombing == {"entomb", "fill-tomb", "rename-tomb"}
Steps    == {"idle", "compute", "delete", "bury"} \cup Storing \cup Entombing

Shapes ==
  /\ clock \in Ticks
  /\ pc \in [StateWriters -> Steps]
  /\ req \in [StateWriters -> Asked]
  /\ since \in [StateWriters -> Ticks]
  /\ snap = [w \in StateWriters |-> snap[w]]
  /\ out = [w \in StateWriters |-> out[w]]
  /\ outdated \subseteq StateWriters
  /\ {lost, told} \subseteq BOOLEAN

Taken ==
  /\ hidden \subseteq {t \in Ticks : t < clock}
  /\ \A w \in StateWriters : pc[w] # "idle" =>
       /\ EndsPause(req[w]) => ~told
       /\ req[w].kind = "last_1h" => hidden = {}
       /\ \A a \in Apps : EndsExclusion(req[w], a) => a \notin wanted

Covered(s) == {t \in Ticks : \E r \in s.ranges : r.from <= t /\ t <= r.to}
Starts(s)  == s.paused /\ s.start # NoPauseStart

Honours(s) ==
  /\ s \in StateSet /\ s.start <= clock
  /\ told => Starts(s)
  /\ hidden \subseteq Blocked(s)
  /\ deleted \subseteq Covered(s)
  /\ wanted \subseteq s.excluded
  /\ buried \subseteq s.ranges

(* What the answer of w will promise.                                      *)
Answers(w) ==
  /\ pc[w] \in Storing =>
       /\ req[w].kind = "pause" => Starts(out[w])
       /\ req[w].kind = "exclude" => req[w].app \in out[w].excluded
       /\ req[w].kind = "last_1h" => (LastHourFrom(since[w])..since[w]) \cap Ticks \subseteq Covered(out[w])
  /\ pc[w] \in Entombing => Tombstone(req[w].kind, since[w]) \in out[w].ranges

Carries(w) ==
  pc[w] \in Storing \cup Entombing /\ w \notin outdated =>
    /\ Honours(out[w])
    /\ ~EndsPause(req[w]) /\ Starts(state) => Starts(out[w])
    /\ Answers(w)

Promised ==
  ~lost => /\ Honours(state)
           /\ \A w \in StateWriters : w \notin outdated => snap[w] = state
           /\ \A w \in StateWriters : Carries(w)

PrivacyInv == Shapes /\ Taken /\ Promised

-----------------------------------------------------------------------------
LEMMA TickFacts ==
  /\ Ticks \subseteq Nat /\ 0 \in Ticks
  /\ \A t \in Ticks : t \in 0..MaxClock
  /\ \A t \in Ticks : LastHourFrom(t) \in Ticks /\ LastHourFrom(t) <= t
  /\ \A t \in Ticks : \A f \in Ticks : f <= t => PauseRange(f, t) \in Ranges
  BY PrivacyAssumption DEF Ticks, LastHourFrom, PauseRange, Ranges

LEMMA RangeFacts ==
  ASSUME NEW t \in Ticks
  PROVE  /\ LastHourRange(t) \in Ranges
         /\ \A k : Tombstone(k, t) \in Ranges
<1>1. t \in Ticks /\ LastHourFrom(t) \in Ticks /\ 0 \in Ticks
  BY TickFacts
<1> QED
  BY <1>1 DEF LastHourRange, Tombstone, Ranges

LEMMA StartsInt ==
  ASSUME NEW s \in StateSet
  PROVE  s.start \in Int
<1>1. s.start \in Ticks \/ s.start = -1
  BY DEF StateSet, NoPauseStart
<1>2. \A t \in Ticks : t \in Int
  BY PrivacyAssumption DEF Ticks
<1> QED
  BY <1>1, <1>2

LEMMA NotTorn ==
  ASSUME NEW s \in StateSet
  PROVE  s # Torn
<1>1. s.paused \in BOOLEAN /\ DOMAIN s = {"paused", "start", "excluded", "ranges"}
  BY DEF StateSet
<1>2. DOMAIN Torn = {"contents"}
  BY DEF Torn
<1> QED
  BY <1>1, <1>2

(* A promise once met stays met when a state only gains ranges.            *)
LEMMA Grows ==
  ASSUME NEW s \in StateSet, Honours(s), NEW r \in Ranges
  PROVE  /\ Honours([s EXCEPT !.ranges = @ \cup {r}])
         /\ [s EXCEPT !.ranges = @ \cup {r}].start = s.start
         /\ [s EXCEPT !.ranges = @ \cup {r}].paused = s.paused
         /\ r \in [s EXCEPT !.ranges = @ \cup {r}].ranges
<1> DEFINE o == [s EXCEPT !.ranges = @ \cup {r}]
<1>1. /\ o \in StateSet /\ o.start = s.start /\ o.paused = s.paused
      /\ o.excluded = s.excluded /\ o.ranges = s.ranges \cup {r}
  BY DEF StateSet
<1> HIDE DEF o
<1>2. Blocked(s) \subseteq Blocked(o) /\ Covered(s) \subseteq Covered(o)
  BY <1>1 DEF Blocked, Covered
<1>3. Honours(o)
  BY <1>1, <1>2 DEF Honours, Starts
<1> QED
  BY <1>1, <1>3 DEF o

LEMMA PrivacyInitially == PrivacyInit => PrivacyInv
<1> SUFFICES ASSUME PrivacyInit PROVE PrivacyInv
  OBVIOUS
<1>1. DefaultState \in StateSet /\ DefaultState.start = -1 /\ DefaultState.ranges = {}
  BY DEF DefaultState, StateSet, NoPauseStart
<1>2. \A w \in StateWriters : pc[w] = "idle" /\ snap[w] = state
  BY DEF PrivacyInit
<1>3. Shapes
  BY TickFacts DEF PrivacyInit, Shapes, Steps, Asked
<1>4. Taken
  BY <1>2 DEF PrivacyInit, Taken
<1>5. Honours(state)
  BY <1>1 DEF PrivacyInit, Honours
<1>6. \A w \in StateWriters : Carries(w)
  BY <1>2 DEF Carries, Storing, Entombing
<1> QED
  BY <1>2, <1>3, <1>4, <1>5, <1>6 DEF PrivacyInv, Promised

-----------------------------------------------------------------------------
(* A step that replaces no state: what was promised is at most taken back, *)
(* so whoever was about to store a state still may.                        *)
LEMMA PrivacyTick ==
  ASSUME PrivacyInv, Tick
  PROVE  PrivacyInv'
<1> USE DEF PrivacyInv
<1>1. /\ clock \in Ticks /\ clock' = clock + 1 /\ clock' \in Ticks
      /\ hidden' = IF told THEN hidden \cup {clock} ELSE hidden
      /\ UNCHANGED <<state, tmp, pc, req, snap, out, since, fd, told, deleted, wanted, buried, outdated, lost>>
  BY PrivacyAssumption DEF Tick, Shapes, Ticks, files, local, marks
<1>2. Shapes'
  BY <1>1 DEF Shapes
<1>3. Taken'
  <2>1. hidden' \subseteq {t \in Ticks : t < clock'}
    <3>1. \A t \in Ticks : t < clock => t < clock'
      BY <1>1, TickFacts
    <3>2. clock < clock'
      BY <1>1, TickFacts
    <3> QED
      BY <1>1, <3>1, <3>2 DEF Taken
  <2>2. ASSUME NEW w \in StateWriters, pc[w] # "idle", req[w].kind = "last_1h"
        PROVE  hidden' = {}
    <3>1. ~told /\ hidden = {}
      BY <2>2 DEF Taken, EndsPause
    <3> QED
      BY <1>1, <3>1
  <2> QED
    BY <1>1, <2>1, <2>2 DEF Taken, EndsPause, EndsExclusion
<1>4. ASSUME NEW s, Honours(s) PROVE Honours(s)'
  <2>1. told => clock \in Blocked(s)
    BY <1>1, <1>4 DEF Honours, Starts, Blocked
  <2>2. s.start <= clock'
    <3>1. s.start \in Int /\ s.start <= clock
      BY <1>4, TickFacts, StartsInt DEF Honours
    <3> QED
      BY <1>1, <3>1, TickFacts
  <2>3. hidden' \subseteq Blocked(s)
    BY <1>1, <1>4, <2>1 DEF Honours
  <2> QED
    BY <1>1, <1>4, <2>2, <2>3 DEF Honours
<1>5. Promised'
  BY <1>1, <1>4 DEF Promised, Carries, Answers, EndsPause
<1> QED
  BY <1>2, <1>3, <1>5

(* Steps that change no file, and no promise but to take it back, keep     *)
(* what the others are about to store.                                     *)
LEMMA OthersCarry ==
  ASSUME Promised, ~lost, NEW w \in StateWriters, Carries(w),
         clock' = clock, state' = state,
         pc'[w] = pc[w], req'[w] = req[w], out'[w] = out[w], since'[w] = since[w],
         w \notin outdated' => w \notin outdated,
         hidden' \subseteq hidden, deleted' \subseteq deleted,
         wanted' \subseteq wanted, buried' \subseteq buried,
         pc[w] # "idle" => (told' => told \/ (Starts(state) /\ ~EndsPause(req[w])))
  PROVE  Carries(w)'
<1> SUFFICES ASSUME pc[w] \in Storing \cup Entombing, w \notin outdated
             PROVE  /\ Honours(out[w])'
                    /\ ~EndsPause(req[w])' /\ Starts(state)' => Starts(out[w])'
                    /\ Answers(w)'
  BY DEF Carries
<1>1. /\ Honours(out[w])
      /\ ~EndsPause(req[w]) /\ Starts(state) => Starts(out[w])
      /\ Answers(w)
  BY DEF Carries
<1>2. told' => Starts(out[w])
  BY <1>1 DEF Honours, Storing, Entombing
<1>3. Honours(out[w])'
  BY <1>1, <1>2 DEF Honours, Starts, Blocked
<1>4. ~EndsPause(req[w])' /\ Starts(state)' => Starts(out[w])'
  BY <1>1 DEF EndsPause, Starts
<1>5. Answers(w)'
  BY <1>1 DEF Answers, Starts, Covered
<1> QED
  BY <1>3, <1>4, <1>5

LEMMA LessServes ==
  ASSUME NEW s, Honours(s), clock' = clock, hidden' \subseteq hidden, deleted' \subseteq deleted,
         wanted' \subseteq wanted, buried' \subseteq buried, told' => told \/ Starts(s)
  PROVE  Honours(s)'
  BY DEF Honours, Starts, Blocked

(* Call: the state read is the state of the file; what the request takes   *)
(* back is no promise any more.                                            *)
LEMMA PrivacyCall ==
  ASSUME PrivacyInv, NEW c \in Clients, NEW k \in PrivacyRequests, Call(c, k)
  PROVE  PrivacyInv'
<1> USE DEF PrivacyInv
<1>0. c \in StateWriters /\ k \in Asked
  BY PrivacyAssumption DEF StateWriters, Asked
<1>1. /\ pc[c] = "idle"
      /\ UNCHANGED <<clock, state, out, since, deleted, buried, lost>>
  BY DEF Call, files
<1>2. CASE UNCHANGED <<pc, req, snap, told, hidden, wanted, outdated>>
  <2>1. Shapes' /\ Taken'
    BY <1>1, <1>2 DEF Shapes, Taken, EndsPause, EndsExclusion
  <2>2. Promised'
    BY <1>1, <1>2 DEF Promised, Honours, Carries, Starts, Blocked, Covered, Answers, EndsPause
  <2> QED
    BY <2>1, <2>2
<1>3. CASE /\ req' = [req EXCEPT ![c] = k]
           /\ snap' = [snap EXCEPT ![c] = state]
           /\ Goto(c, "compute")
           /\ outdated' = outdated \ {c}
           /\ told' = (told /\ ~EndsPause(k))
           /\ hidden' = IF k.kind = "last_1h" THEN {} ELSE hidden
           /\ wanted' = {a \in wanted : ~EndsExclusion(k, a)}
  <2>1. /\ pc'[c] = "compute" /\ req'[c] = k /\ snap'[c] = state
        /\ \A w \in StateWriters : w # c => pc'[w] = pc[w] /\ req'[w] = req[w] /\ snap'[w] = snap[w]
    BY <1>0, <1>3 DEF Shapes, Goto
  <2>2. pc' \in [StateWriters -> Steps]
    BY <1>0, <1>3 DEF Shapes, Goto, Steps
  <2>3. /\ hidden' \subseteq hidden /\ wanted' \subseteq wanted
        /\ told' \in BOOLEAN /\ (told' => told)
        /\ EndsPause(k) => ~told'
        /\ k.kind = "last_1h" => hidden' = {}
    BY <1>3
  <2>4. Shapes'
    <3>1. req' \in [StateWriters -> Asked]
      BY <1>0, <1>3 DEF Shapes
    <3>2. snap' = [w \in StateWriters |-> snap'[w]]
      BY <1>0, <1>3 DEF Shapes
    <3>3. outdated' \subseteq StateWriters
      BY <1>3 DEF Shapes
    <3> QED
      BY <1>1, <2>2, <2>3, <3>1, <3>2, <3>3 DEF Shapes
  <2>5. Taken'
    <3>1. hidden' \subseteq {t \in Ticks : t < clock'}
      BY <1>1, <2>3 DEF Taken
    <3>2. ASSUME NEW w \in StateWriters, pc'[w] # "idle"
          PROVE  /\ EndsPause(req'[w]) => ~told'
                 /\ req'[w].kind = "last_1h" => hidden' = {}
                 /\ \A a \in Apps : EndsExclusion(req'[w], a) => a \notin wanted'
      <4>1. CASE w = c
        BY <1>3, <2>1, <2>3, <4>1
      <4>2. CASE w # c
        BY <2>1, <2>3, <3>2, <4>2 DEF Taken
      <4> QED
        BY <4>1, <4>2
    <3> QED
      BY <3>1, <3>2 DEF Taken, EndsPause, EndsExclusion
  <2>6. ASSUME ~lost
        PROVE  /\ Honours(state)'
               /\ \A w \in StateWriters : w \notin outdated' => snap'[w] = state'
               /\ \A w \in StateWriters : Carries(w)'
    <3>1. Honours(state)'
      BY <1>1, <2>3, <2>6, LessServes DEF Promised
    <3>2. \A w \in StateWriters : w \notin outdated' => snap'[w] = state'
      BY <1>1, <1>3, <2>1, <2>6 DEF Promised
    <3>3. Carries(c)'
      BY <2>1 DEF Carries, Storing, Entombing
    <3>4. ASSUME NEW w \in StateWriters, w # c PROVE Carries(w)'
      <4>1. Carries(w)
        BY <2>6 DEF Promised
      <4>2. w \notin outdated' => w \notin outdated
        BY <1>3, <3>4
      <4> QED
        BY <1>1, <2>1, <2>3, <2>6, <3>4, <4>1, <4>2, OthersCarry
    <3> QED
      BY <3>1, <3>2, <3>3, <3>4
  <2> QED
    BY <1>1, <2>4, <2>5, <2>6 DEF Promised
<1> QED
  BY <1>2, <1>3 DEF Call

-----------------------------------------------------------------------------
(* A writer moves on with its file and the promises alone; to store a      *)
(* state it must have one that carries them.                               *)
LEMMA Moves ==
  ASSUME PrivacyInv, NEW w \in StateWriters, pc[w] # "idle",
         NEW l \in Steps, Goto(w, l),
         UNCHANGED <<clock, state, req, outdated, lost>>,
         UNCHANGED <<hidden, deleted, wanted>>, buried' \subseteq buried, told' \in BOOLEAN,
         told' => \/ told
                  \/ /\ ~lost => Starts(state)
                     /\ \A x \in StateWriters : pc[x] # "idle" => ~EndsPause(req[x]),
         out' = [x \in StateWriters |-> out'[x]], snap' = snap,
         since' \in [StateWriters -> Ticks],
         \A x \in StateWriters : x # w => out'[x] = out[x] /\ since'[x] = since[x],
         ~lost => Carries(w)'
  PROVE  PrivacyInv'
<1> USE DEF PrivacyInv
<1>1. /\ pc' \in [StateWriters -> Steps] /\ pc'[w] = l
      /\ \A x \in StateWriters : x # w => pc'[x] = pc[x]
  BY DEF Goto, Shapes
<1>2. Shapes'
  BY <1>1 DEF Shapes
<1>3. Taken'
  BY <1>1 DEF Taken, EndsPause, EndsExclusion
<1>4. ASSUME ~lost
      PROVE  /\ Honours(state)'
             /\ \A x \in StateWriters : x \notin outdated' => snap'[x] = state'
             /\ \A x \in StateWriters : Carries(x)'
  <2>1. Honours(state)'
    BY <1>4, LessServes DEF Promised
  <2>2. \A x \in StateWriters : x \notin outdated' => snap'[x] = state'
    BY <1>4 DEF Promised
  <2>3. ASSUME NEW x \in StateWriters, x # w PROVE Carries(x)'
    <3>1. Carries(x)
      BY <1>4 DEF Promised
    <3> QED
      BY <1>1, <1>4, <2>3, <3>1, OthersCarry
  <2> QED
    BY <1>4, <2>1, <2>2, <2>3
<1> QED
  BY <1>2, <1>3, <1>4 DEF Promised

(* The handlers, from the state of the file: o is what they store.         *)
LEMMA PauseServes ==
  ASSUME NEW s, Honours(s), clock \in Ticks, ~Starts(s),
         NEW o, o = [s EXCEPT !.paused = TRUE, !.start = clock]
  PROVE  Honours(o) /\ Starts(o)
<1>1. /\ o \in StateSet /\ o.paused /\ o.start = clock /\ o.excluded = s.excluded /\ o.ranges = s.ranges
  BY DEF Honours, StateSet
<1>2. clock # NoPauseStart /\ clock <= clock
  BY PrivacyAssumption DEF Ticks, NoPauseStart
<1>3. Blocked(s) \subseteq Blocked(o)
  BY <1>1 DEF Blocked, Starts
<1>4. Covered(o) = Covered(s)
  BY <1>1 DEF Covered
<1> QED
  BY <1>1, <1>2, <1>3, <1>4 DEF Honours, Starts

LEMMA ExcludeServes ==
  ASSUME NEW s, Honours(s), NEW E \in SUBSET Apps, wanted \subseteq E,
         NEW o, o = [s EXCEPT !.excluded = E]
  PROVE  Honours(o) /\ (Starts(s) => Starts(o)) /\ o.excluded = E
<1>1. /\ o \in StateSet /\ o.paused = s.paused /\ o.start = s.start /\ o.excluded = E /\ o.ranges = s.ranges
  BY DEF Honours, StateSet
<1>2. Blocked(o) = Blocked(s) /\ Covered(o) = Covered(s)
  BY <1>1 DEF Blocked, Covered
<1> QED
  BY <1>1, <1>2 DEF Honours, Starts

LEMMA AppendServes ==
  ASSUME NEW s, Honours(s), ~told, NEW r \in Ranges,
         \A t \in hidden : Starts(s) /\ s.start <= t => r.from <= t /\ t <= r.to,
         clock \in Ticks, NEW p \in BOOLEAN,
         NEW o, o = [AppendSuppressedRange(s, r) EXCEPT !.paused = p, !.start = NoPauseStart]
  PROVE  Honours(o) /\ r \in o.ranges
<1>1. /\ o \in StateSet /\ o.paused = p /\ o.start = NoPauseStart /\ o.excluded = s.excluded
      /\ o.ranges = s.ranges \cup {r}
  BY DEF Honours, StateSet, AppendSuppressedRange
<1>2. hidden \subseteq Blocked(o)
  <2> SUFFICES ASSUME NEW t \in hidden PROVE t \in Blocked(o)
    OBVIOUS
  <2>1. t \in Blocked(s)
    BY DEF Honours
  <2>2. CASE \E q \in s.ranges : q.from <= t /\ t <= q.to
    BY <1>1, <2>1, <2>2 DEF Blocked
  <2>3. CASE Starts(s) /\ s.start <= t
    BY <1>1, <2>1, <2>3 DEF Blocked
  <2> QED
    BY <2>1, <2>2, <2>3 DEF Blocked, Starts
<1>3. Covered(s) \subseteq Covered(o)
  BY <1>1 DEF Covered
<1>4. o.start <= clock
  <2>1. clock \in Ticks => NoPauseStart <= clock
    BY PrivacyAssumption DEF Ticks, NoPauseStart
  <2> QED
    BY <1>1, <2>1 DEF Honours
<1> QED
  BY <1>1, <1>2, <1>3, <1>4 DEF Honours

LEMMA ResolveServes ==
  ASSUME NEW s, Honours(s), NEW R \in SUBSET s.ranges, NEW o, o = Resolve(s, R)
  PROVE  /\ o \in StateSet /\ o.start = s.start /\ o.paused = s.paused /\ o.excluded = s.excluded
         /\ Blocked(o) = Blocked(s) /\ Covered(o) = Covered(s)
         /\ s.ranges \ R \subseteq o.ranges
<1> DEFINE done(r) == [r EXCEPT !.resolved = TRUE]
<1>1. \A r \in s.ranges : r \in Ranges
  BY DEF Honours, StateSet
<1>2. \A r \in Ranges : done(r) \in Ranges /\ done(r).from = r.from /\ done(r).to = r.to
  BY DEF Ranges
<1>3. o = [s EXCEPT !.ranges = (s.ranges \ R) \cup {done(r) : r \in R}]
  BY DEF Resolve, Honours, StateSet
<1> HIDE DEF done
<1>4. (s.ranges \ R) \cup {done(r) : r \in R} \in SUBSET Ranges
  BY <1>1, <1>2
<1>5. /\ o \in StateSet /\ o.start = s.start /\ o.paused = s.paused /\ o.excluded = s.excluded
      /\ o.ranges = (s.ranges \ R) \cup {done(r) : r \in R}
  BY <1>3, <1>4 DEF Honours, StateSet
<1>6. \A t \in Ticks : (\E r \in o.ranges : r.from <= t /\ t <= r.to)
                         <=> (\E r \in s.ranges : r.from <= t /\ t <= r.to)
  <2> SUFFICES ASSUME NEW t \in Ticks
               PROVE  (\E r \in o.ranges : r.from <= t /\ t <= r.to)
                        <=> (\E r \in s.ranges : r.from <= t /\ t <= r.to)
    OBVIOUS
  <2>1. ASSUME NEW r \in o.ranges, r.from <= t /\ t <= r.to
        PROVE  \E q \in s.ranges : q.from <= t /\ t <= q.to
    <3>1. CASE r \in s.ranges
      BY <2>1, <3>1
    <3>2. CASE \E q \in R : r = done(q)
      <4>1. PICK q \in R : r = done(q)
        BY <3>2
      <4>2. r.from = q.from /\ r.to = q.to /\ q \in s.ranges
        BY <1>1, <1>2, <4>1
      <4> QED
        BY <2>1, <4>2
    <3> QED
      BY <1>5, <3>1, <3>2
  <2>2. ASSUME NEW r \in s.ranges, r.from <= t /\ t <= r.to
        PROVE  \E q \in o.ranges : q.from <= t /\ t <= q.to
    <3>1. CASE r \in R
      <4>1. done(r) \in o.ranges /\ done(r).from = r.from /\ done(r).to = r.to
        BY <1>1, <1>2, <1>5, <3>1
      <4> QED
        BY <2>2, <4>1
    <3>2. CASE r \notin R
      BY <1>5, <2>2, <3>2
    <3> QED
      BY <3>1, <3>2
  <2> QED
    BY <2>1, <2>2
<1> QED
  BY <1>5, <1>6 DEF Blocked, Covered

(* A handler that has nothing to store answers with the state it read: the *)
(* pause it reports is a promise if nobody has replaced that state.        *)
LEMMA NoWriteKeeps ==
  ASSUME PrivacyInv, NEW w \in StateWriters, pc[w] = "compute",
         UNCHANGED <<clock, files, req, snap, fd, calls, marks>>, NoWrite(w),
         \/ req[w].kind = "pause" /\ Starts(snap[w])
         \/ req[w].kind \in {"resume", "remove"}
  PROVE  PrivacyInv'
<1> USE DEF PrivacyInv
<1>1. /\ UNCHANGED <<clock, state, req, snap, outdated, lost, out, since>>
      /\ Goto(w, "idle") /\ "idle" \in Steps
      /\ UNCHANGED <<hidden, deleted, buried>>
  BY DEF NoWrite, Return, Answered, files, marks, ghosts, Steps
<1>2. wanted' = wanted
  <2>1. \A a \in Apps : req[w] # [kind |-> "exclude", app |-> a]
    <3>1. req[w].kind # "exclude"
      OBVIOUS
    <3> QED
      BY <3>1
  <2> QED
    BY <2>1 DEF NoWrite, Return, Answered, ghosts
<1>3. /\ told' \in BOOLEAN
      /\ told' => \/ told
                  \/ /\ ~lost => Starts(state)
                     /\ \A x \in StateWriters : pc[x] # "idle" => ~EndsPause(req[x])
  <2>1. CASE UNCHANGED ghosts
    BY <2>1 DEF ghosts, Shapes
  <2>2. CASE w \notin outdated /\ Answered(req[w])
    <3>1. told' = (told \/ (req[w].kind = "pause" /\ \A o \in UnderWay : ~EndsPause(o)))
      BY <2>2 DEF Answered
    <3>2. told' \in BOOLEAN
      BY <3>1
    <3>3. \A x \in StateWriters : pc[x] # "idle" => req[x] \in UnderWay
      BY DEF UnderWay
    <3>4. req[w].kind = "pause" /\ ~lost => Starts(state)
      BY <2>2 DEF Promised
    <3> QED
      BY <3>1, <3>2, <3>3, <3>4
  <2> QED
    BY <2>1, <2>2 DEF NoWrite, Return
<1>4. Carries(w)'
  <2>1. pc'[w] = "idle"
    BY <1>1 DEF Goto, Shapes
  <2> QED
    BY <2>1 DEF Carries, Storing, Entombing
<1>5. out' = [x \in StateWriters |-> out'[x]] /\ since' \in [StateWriters -> Ticks]
  BY <1>1 DEF Shapes
<1> QED
  BY <1>1, <1>2, <1>3, <1>4, <1>5, Moves

(* A handler that stores o, computed from the state of the file.           *)
LEMMA WriteKeeps ==
  ASSUME PrivacyInv, NEW w \in StateWriters, pc[w] = "compute",
         UNCHANGED <<clock, files, req, snap, fd, calls, marks>>,
         NEW o, WriteState(w, o, clock),
         ~lost /\ w \notin outdated =>
           /\ Honours(o)
           /\ ~EndsPause(req[w]) /\ Starts(snap[w]) => Starts(o)
           /\ req[w].kind = "pause" => Starts(o)
           /\ req[w].kind = "exclude" => req[w].app \in o.excluded
           /\ req[w].kind = "last_1h" => (LastHourFrom(clock)..clock) \cap Ticks \subseteq Covered(o)
  PROVE  PrivacyInv'
<1> USE DEF PrivacyInv
<1>1. /\ UNCHANGED <<clock, state, req, snap, outdated, lost, told, hidden, deleted, wanted, buried>>
      /\ out' = [out EXCEPT ![w] = o] /\ since' = [since EXCEPT ![w] = clock]
      /\ Goto(w, "write") /\ "write" \in Steps
  BY DEF WriteState, files, marks, ghosts, Steps, Storing
<1>2. /\ out' = [x \in StateWriters |-> out'[x]] /\ out'[w] = o
      /\ since' \in [StateWriters -> Ticks] /\ since'[w] = clock /\ pc'[w] = "write"
      /\ \A x \in StateWriters : x # w => out'[x] = out[x] /\ since'[x] = since[x]
  BY <1>1 DEF Shapes, Goto
<1>3. ASSUME ~lost, w \notin outdated
      PROVE  /\ Honours(o)'
             /\ ~EndsPause(req[w]) /\ Starts(state) => Starts(o)
             /\ req[w].kind = "pause" => Starts(o)
             /\ req[w].kind = "exclude" => req[w].app \in o.excluded
             /\ req[w].kind = "last_1h" => (LastHourFrom(clock)..clock) \cap Ticks \subseteq Covered(o)
  <2>1. snap[w] = state
    BY <1>3 DEF Promised
  <2>2. Honours(o)'
    BY <1>1, <1>3 DEF Honours
  <2> QED
    BY <1>3, <2>1, <2>2
<1>4. "write" \in Storing /\ "write" \notin Entombing
  BY DEF Storing, Entombing
<1>5. ~lost => Carries(w)'
  BY <1>1, <1>2, <1>3, <1>4 DEF Carries, Answers, EndsPause, Starts, Covered
<1>6. told' \in BOOLEAN /\ (told' => told) /\ buried' \subseteq buried /\ pc[w] # "idle"
  BY <1>1 DEF Shapes
<1> HIDE DEF PrivacyInv
<1> QED
  BY <1>1, <1>2, <1>5, <1>6, Moves

LEMMA DropServes ==
  ASSUME NEW s, Honours(s), ~told, s.start = NoPauseStart, clock \in Ticks,
         NEW o, o = [s EXCEPT !.paused = FALSE, !.start = NoPauseStart]
  PROVE  Honours(o)
<1>1. /\ o \in StateSet /\ o.start = s.start /\ o.excluded = s.excluded /\ o.ranges = s.ranges
  BY DEF Honours, StateSet
<1>2. Blocked(o) = Blocked(s) /\ Covered(o) = Covered(s)
  BY <1>1 DEF Blocked, Covered
<1> QED
  BY <1>1, <1>2 DEF Honours

LEMMA PrivacyCompute ==
  ASSUME PrivacyInv, NEW w \in StateWriters, Compute(w)
  PROVE  PrivacyInv'
<1> DEFINE s == snap[w]
<1>0. /\ pc[w] = "compute" /\ pc[w] # "idle" /\ clock \in Ticks /\ req[w] \in Asked
      /\ UNCHANGED <<clock, files, req, snap, fd, calls, marks>>
  BY DEF Compute, PrivacyInv, Shapes
<1>1. ASSUME ~lost, w \notin outdated PROVE s = state /\ Honours(s) /\ s \in StateSet
  BY <1>1 DEF PrivacyInv, Promised, Honours
<1>2. EndsPause(req[w]) => ~told
  BY <1>0 DEF PrivacyInv, Taken
<1>3. CASE Pause(w, s)
  <2>1. CASE Starts(s) /\ NoWrite(w)
    BY <1>0, <1>3, <2>1, NoWriteKeeps DEF Pause
  <2>2. CASE ~Starts(s)
    <3> DEFINE o == [s EXCEPT !.paused = TRUE, !.start = clock]
    <3>1. WriteState(w, o, clock) /\ req[w].kind = "pause"
      BY <1>3, <2>2 DEF Pause, Starts
    <3>2. ~lost /\ w \notin outdated => Honours(o) /\ Starts(o)
      BY <1>0, <1>1, <2>2, PauseServes
    <3> HIDE DEF o
    <3> QED
      BY <1>0, <3>1, <3>2, WriteKeeps
  <2> QED
    BY <1>3, <2>1, <2>2 DEF Pause, Starts
<1>4. CASE Resume(w, s)
  <2>0. req[w].kind = "resume" /\ EndsPause(req[w]) /\ ~told
    BY <1>2, <1>4 DEF Resume, EndsPause
  <2>1. CASE NoWrite(w)
    BY <1>0, <2>0, <2>1, NoWriteKeeps
  <2>2. CASE ~NoWrite(w)
    <3> DEFINE o == [IF s.start = NoPauseStart THEN s
                     ELSE AppendSuppressedRange(s, PauseRange(s.start, clock))
                     EXCEPT !.paused = FALSE, !.start = NoPauseStart]
    <3>1. WriteState(w, o, clock)
      BY <1>4, <2>2 DEF Resume
    <3>2. ASSUME ~lost, w \notin outdated PROVE Honours(o)
      <4>1. Honours(s) /\ s \in StateSet
        BY <1>1, <3>2
      <4>2. CASE s.start = NoPauseStart
        BY <1>0, <2>0, <4>1, <4>2, DropServes
      <4>3. CASE s.start # NoPauseStart
        <5> DEFINE r == PauseRange(s.start, clock)
        <5>1. s.start \in Ticks /\ s.start <= clock
          BY <4>1, <4>3 DEF Honours, StateSet
        <5>2. r \in Ranges
          BY <1>0, <5>1, TickFacts
        <5>3. r.from = s.start /\ r.to = IF clock - 1 < s.start THEN s.start ELSE clock - 1
          BY DEF PauseRange
        <5>4. ASSUME NEW t \in hidden, s.start <= t PROVE r.from <= t /\ t <= r.to
          <6>1. t \in Ticks /\ t < clock
            BY DEF PrivacyInv, Taken
          <6>2. t \in Nat /\ clock \in Nat /\ s.start \in Nat
            BY <1>0, <5>1, <6>1, TickFacts
          <6> QED
            BY <5>3, <5>4, <6>1, <6>2
        <5> HIDE DEF r
        <5>5. o = [AppendSuppressedRange(s, r) EXCEPT !.paused = FALSE, !.start = NoPauseStart]
          BY <4>3 DEF r
        <5> HIDE DEF o
        <5> QED
          BY <1>0, <2>0, <4>1, <5>2, <5>4, <5>5, AppendServes
      <4> QED
        BY <4>2, <4>3
    <3> HIDE DEF o
    <3> QED
      BY <1>0, <2>0, <3>1, <3>2, WriteKeeps
  <2> QED
    BY <2>1, <2>2
<1>5. CASE ExcludeApp(w, s)
  <2> DEFINE o == [s EXCEPT !.excluded = @ \cup {req[w].app}]
  <2>1. req[w].kind = "exclude" /\ WriteState(w, o, clock)
    BY <1>5 DEF ExcludeApp
  <2>2. req[w].app \in Apps
    BY <1>0, <2>1 DEF Asked
  <2>3. ASSUME ~lost, w \notin outdated
        PROVE  Honours(o) /\ (Starts(s) => Starts(o)) /\ req[w].app \in o.excluded
    <3>1. s.excluded \cup {req[w].app} \in SUBSET Apps /\ wanted \subseteq s.excluded \cup {req[w].app}
      BY <1>1, <2>2, <2>3 DEF Honours, StateSet
    <3>2. o = [s EXCEPT !.excluded = s.excluded \cup {req[w].app}]
      BY <1>1, <2>3 DEF StateSet
    <3> HIDE DEF o
    <3> QED
      BY <1>1, <2>3, <3>1, <3>2, ExcludeServes
  <2> HIDE DEF o
  <2> QED
    BY <1>0, <2>1, <2>3, WriteKeeps
<1>6. CASE RemoveExcludedApp(w, s)
  <2>1. req[w].kind = "remove"
    BY <1>6 DEF RemoveExcludedApp
  <2>2. CASE NoWrite(w)
    BY <1>0, <2>1, <2>2, NoWriteKeeps
  <2>3. CASE ~NoWrite(w)
    <3> DEFINE o == [s EXCEPT !.excluded = @ \ {req[w].app}]
    <3>1. WriteState(w, o, clock)
      BY <1>6, <2>3 DEF RemoveExcludedApp
    <3>2. req[w].app \in Apps /\ req[w] = [kind |-> "remove", app |-> req[w].app]
      BY <1>0, <2>1 DEF Asked
    <3>3. req[w].app \notin wanted
      BY <1>0, <3>2 DEF PrivacyInv, Taken, EndsExclusion
    <3>4. ASSUME ~lost, w \notin outdated
          PROVE  Honours(o) /\ (Starts(s) => Starts(o))
      <4>1. s.excluded \ {req[w].app} \in SUBSET Apps /\ wanted \subseteq s.excluded \ {req[w].app}
        BY <1>1, <3>3, <3>4 DEF Honours, StateSet
      <4>2. o = [s EXCEPT !.excluded = s.excluded \ {req[w].app}]
        BY <1>1, <3>4 DEF StateSet
      <4> HIDE DEF o
      <4> QED
        BY SMTT(30), <1>1, <3>4, <4>1, <4>2, ExcludeServes
    <3> HIDE DEF o
    <3> QED
      BY <1>0, <2>1, <3>1, <3>4, WriteKeeps
  <2> QED
    BY <2>2, <2>3
<1>7. CASE DeleteRange(w, s)
  <2>1. CASE req[w].kind = "last_1h" /\ WriteState(w, AppendSuppressedRange(s, LastHourRange(clock)), clock)
    <3> DEFINE r == LastHourRange(clock)
               o == AppendSuppressedRange(s, r)
    <3>1. ~told /\ hidden = {} /\ EndsPause(req[w])
      BY <1>0, <2>1 DEF PrivacyInv, Taken, EndsPause
    <3>2. r \in Ranges /\ r.from = LastHourFrom(clock) /\ r.to = clock
      BY <1>0, RangeFacts DEF LastHourRange
    <3>3. ASSUME ~lost, w \notin outdated
          PROVE  Honours(o) /\ (LastHourFrom(clock)..clock) \cap Ticks \subseteq Covered(o)
      <4>1. Honours(s) /\ s \in StateSet /\ s.paused \in BOOLEAN
        BY <1>1, <3>3 DEF StateSet
      <4> HIDE DEF r
      <4>2. o = [AppendSuppressedRange(s, r) EXCEPT !.paused = s.paused, !.start = NoPauseStart]
        BY <4>1 DEF AppendSuppressedRange, StateSet
      <4> HIDE DEF o
      <4>3. Honours(o) /\ r \in o.ranges
        BY <1>0, <3>1, <3>2, <4>1, <4>2, AppendServes
      <4>4. ASSUME NEW t \in (LastHourFrom(clock)..clock) \cap Ticks PROVE t \in Covered(o)
        BY <3>2, <4>3, <4>4 DEF Covered
      <4> QED
        BY <4>3, <4>4
    <3> HIDE DEF o
    <3>4. WriteState(w, o, clock)
      BY <2>1 DEF o, r
    <3> QED
      BY <1>0, <2>1, <3>1, <3>3, <3>4, WriteKeeps
  <2>2. CASE /\ since' = [since EXCEPT ![w] = clock] /\ Goto(w, "delete") /\ UNCHANGED <<out, ghosts>>
    <3>1. /\ "delete" \in Steps /\ UNCHANGED <<state, outdated, lost, told, hidden, deleted, wanted, buried>>
          /\ since' \in [StateWriters -> Ticks]
          /\ \A x \in StateWriters : x # w => since'[x] = since[x]
          /\ out' = [x \in StateWriters |-> out'[x]]
          /\ told' \in BOOLEAN /\ pc'[w] = "delete"
      BY <1>0, <2>2 DEF Steps, files, marks, ghosts, PrivacyInv, Shapes, Goto
    <3>2. Carries(w)'
      BY <3>1 DEF Carries, Storing, Entombing
    <3> QED
      BY <1>0, <2>2, <3>1, <3>2, Moves
  <2> QED
    BY <1>7, <2>1, <2>2 DEF DeleteRange
<1>8. CASE Reconcile(w, s)
  <2>0. PICK R \in SUBSET Unresolved(s) :
          out' = [out EXCEPT ![w] = Resolve(s, R)] /\ buried' = buried \ R
    BY <1>8 DEF Reconcile
  <2>a. PICK o : o = Resolve(s, R)
    OBVIOUS
  <2>b. PICK l : l = IF s.ranges = {} THEN "idle" ELSE "write"
    OBVIOUS
  <2>1. /\ req[w].kind = "reconcile" /\ since' = [since EXCEPT ![w] = clock] /\ Goto(w, l)
        /\ UNCHANGED <<state, outdated, lost, told, hidden, deleted, wanted>>
    BY <1>0, <1>8, <2>b DEF Reconcile, files, marks
  <2>2. /\ l \in Steps /\ pc'[w] = l
        /\ out' = [x \in StateWriters |-> out'[x]] /\ out'[w] = o
        /\ since' \in [StateWriters -> Ticks]
        /\ \A x \in StateWriters : x # w => out'[x] = out[x] /\ since'[x] = since[x]
        /\ told' \in BOOLEAN
    BY <1>0, <2>0, <2>a, <2>b, <2>1 DEF Steps, Storing, PrivacyInv, Shapes, Goto
  <2>3. ASSUME ~lost, w \notin outdated PROVE Honours(o)' /\ (Starts(state) => Starts(o))
    <3>1. s = state /\ Honours(s) /\ R \subseteq s.ranges
      BY <1>1, <2>3 DEF Unresolved
    <3>2. /\ o \in StateSet /\ o.start = s.start /\ o.paused = s.paused /\ o.excluded = s.excluded
          /\ Blocked(o) = Blocked(s) /\ Covered(o) = Covered(s)
          /\ s.ranges \ R \subseteq o.ranges
      BY <2>a, <3>1, ResolveServes
    <3>3. buried' \subseteq o.ranges
      BY <2>0, <3>1, <3>2 DEF Honours
    <3>4. Starts(s) => Starts(o)
      BY <3>2 DEF Starts
    <3> QED
      BY <1>0, <2>1, <3>1, <3>2, <3>3, <3>4 DEF Honours
  <2>4. ~lost => Carries(w)'
    <3>1. l \notin Entombing
      BY <2>b DEF Entombing
    <3> QED
      BY <1>0, <2>1, <2>2, <2>3, <3>1 DEF Carries, Answers, EndsPause, Starts
  <2>5. buried' \subseteq buried
    BY <2>0
  <2> HIDE DEF s
  <2> QED
    BY <1>0, <2>1, <2>2, <2>4, <2>5, Moves
<1> QED
  BY <1>3, <1>4, <1>5, <1>6, <1>7, <1>8 DEF Compute

LEMMA PrivacyDelete ==
  ASSUME PrivacyInv, NEW w \in StateWriters, Delete(w)
  PROVE  PrivacyInv'
<1>1. PICK l \in {"idle", "bury"} : Goto(w, l)
  BY DEF Delete
<1>2. /\ pc[w] = "delete" /\ pc[w] # "idle" /\ l \in Steps
      /\ UNCHANGED <<clock, state, req, snap, out, outdated, lost, told, hidden, deleted, wanted, buried>>
      /\ since' = [since EXCEPT ![w] = clock]
  BY DEF Delete, files, marks, ghosts, Steps
<1>3. /\ since' \in [StateWriters -> Ticks] /\ pc'[w] = l
      /\ \A x \in StateWriters : x # w => since'[x] = since[x]
      /\ out' = [x \in StateWriters |-> out'[x]] /\ told' \in BOOLEAN
  BY <1>1, <1>2 DEF PrivacyInv, Shapes, Goto
<1>4. Carries(w)'
  BY <1>3 DEF Carries, Storing, Entombing
<1> QED
  BY <1>1, <1>2, <1>3, <1>4, Moves

(* A retention pass begins to answer for a cascade that failed.            *)
LEMMA PrivacyRetention ==
  ASSUME PrivacyInv, NEW t \in Trims, RetentionFails(t)
  PROVE  PrivacyInv'
<1> USE DEF PrivacyInv
<1>1. /\ t \in StateWriters /\ pc[t] = "idle"
      /\ req' = [req EXCEPT ![t] = [kind |-> "retention"]] /\ Goto(t, "bury")
      /\ UNCHANGED <<clock, state, snap, out, since, outdated, lost, told, hidden, deleted, wanted, buried>>
  BY DEF RetentionFails, StateWriters, files, ghosts, marks
<1>2. /\ pc' \in [StateWriters -> Steps] /\ req' \in [StateWriters -> Asked]
      /\ pc'[t] = "bury" /\ req'[t] = [kind |-> "retention"]
      /\ \A w \in StateWriters : w # t => pc'[w] = pc[w] /\ req'[w] = req[w]
  BY <1>1 DEF Shapes, Goto, Steps, Asked
<1>3. Shapes'
  BY <1>1, <1>2 DEF Shapes
<1>4. Taken'
  <2>1. \A a \in Apps : ~EndsExclusion([kind |-> "retention"], a)
    <3> SUFFICES ASSUME NEW a \in Apps, [kind |-> "retention"] = [kind |-> "remove", app |-> a] PROVE FALSE
      BY DEF EndsExclusion
    <3>1. [kind |-> "retention"].kind = [kind |-> "remove", app |-> a].kind
      OBVIOUS
    <3> QED
      BY <3>1
  <2>2. /\ ~EndsPause([kind |-> "retention"])
        /\ [kind |-> "retention"].kind # "last_1h"
    BY DEF EndsPause
  <2>3. ASSUME NEW w \in StateWriters, pc'[w] # "idle"
        PROVE  /\ EndsPause(req'[w]) => ~told
               /\ req'[w].kind = "last_1h" => hidden = {}
               /\ \A a \in Apps : EndsExclusion(req'[w], a) => a \notin wanted
    <3>1. CASE w = t
      BY <1>2, <2>1, <2>2, <3>1
    <3>2. CASE w # t
      BY <1>2, <2>3, <3>2 DEF Taken
    <3> QED
      BY <3>1, <3>2
  <2>4. hidden' \subseteq {x \in Ticks : x < clock'}
    BY <1>1 DEF Taken
  <2> QED
    BY <1>1, <2>3, <2>4 DEF Taken, EndsPause, EndsExclusion
<1>5. ASSUME ~lost
      PROVE  /\ Honours(state)'
             /\ \A w \in StateWriters : w \notin outdated' => snap'[w] = state'
             /\ \A w \in StateWriters : Carries(w)'
  <2>1. Honours(state)'
    BY <1>1, <1>5, LessServes DEF Promised
  <2>2. \A w \in StateWriters : w \notin outdated' => snap'[w] = state'
    BY <1>1, <1>5 DEF Promised
  <2>3. Carries(t)'
    BY <1>2 DEF Carries, Storing, Entombing
  <2>4. ASSUME NEW w \in StateWriters, w # t PROVE Carries(w)'
    <3>1. Carries(w)
      BY <1>5 DEF Promised
    <3> QED
      BY <1>1, <1>2, <1>5, <2>4, <3>1, OthersCarry
  <2> QED
    BY <2>1, <2>2, <2>3, <2>4
<1> QED
  BY <1>1, <1>3, <1>4, <1>5 DEF Promised

(* A tombstone is added to the state of the file, read again.              *)
LEMMA PrivacyBury ==
  ASSUME PrivacyInv, NEW w \in StateWriters, Bury(w)
  PROVE  PrivacyInv'
<1>0. /\ pc[w] = "bury" /\ pc[w] # "idle"
      /\ UNCHANGED <<clock, state, req, since, lost, told, hidden, deleted, wanted, buried>>
      /\ since' \in [StateWriters -> Ticks] /\ since[w] \in Ticks /\ told' \in BOOLEAN
  BY DEF Bury, files, ghosts, PrivacyInv, Shapes
<1>1. CASE Goto(w, "idle") /\ UNCHANGED <<snap, out, outdated>>
  <2>1. /\ "idle" \in Steps /\ pc'[w] = "idle" /\ out' = [x \in StateWriters |-> out'[x]]
    BY <1>1 DEF PrivacyInv, Shapes, Goto, Steps
  <2>2. Carries(w)'
    BY <2>1 DEF Carries, Storing, Entombing
  <2> QED
    BY <1>0, <1>1, <2>1, <2>2, Moves
<1>2. CASE /\ snap' = [snap EXCEPT ![w] = state]
           /\ out' = [out EXCEPT ![w] = [state EXCEPT !.ranges = @ \cup {Tombstone(req[w].kind, since[w])}]]
           /\ Goto(w, "entomb")
           /\ outdated' = outdated \ {w}
  <2>a. PICK r : r = Tombstone(req[w].kind, since[w])
    OBVIOUS
  <2>b. PICK o : o = [state EXCEPT !.ranges = @ \cup {r}]
    OBVIOUS
  <2>1. /\ pc' \in [StateWriters -> Steps] /\ pc'[w] = "entomb"
        /\ out' = [x \in StateWriters |-> out'[x]] /\ out'[w] = o
        /\ snap' = [x \in StateWriters |-> snap'[x]] /\ snap'[w] = state
        /\ \A x \in StateWriters : x # w =>
             pc'[x] = pc[x] /\ out'[x] = out[x] /\ snap'[x] = snap[x] /\ (x \in outdated' <=> x \in outdated)
        /\ w \notin outdated' /\ outdated' \subseteq StateWriters
    BY <1>2, <2>a, <2>b DEF PrivacyInv, Shapes, Goto, Steps, Entombing
  <2>2. Shapes' /\ Taken'
    BY <1>0, <2>1 DEF PrivacyInv, Shapes, Taken, EndsPause, EndsExclusion
  <2>3. ASSUME ~lost
        PROVE  /\ Honours(state)'
               /\ \A x \in StateWriters : x \notin outdated' => snap'[x] = state'
               /\ \A x \in StateWriters : Carries(x)'
    <3>1. Honours(state) /\ state \in StateSet
      BY <2>3 DEF PrivacyInv, Promised, Honours
    <3>2. Honours(state)'
      BY <1>0, <3>1, LessServes
    <3>3. \A x \in StateWriters : x \notin outdated' => snap'[x] = state'
      BY <1>0, <2>1, <2>3 DEF PrivacyInv, Promised
    <3>4. r \in Ranges
      BY <1>0, <2>a, RangeFacts
    <3>5. Honours(o) /\ o.start = state.start /\ o.paused = state.paused /\ r \in o.ranges
      BY <2>b, <3>1, <3>4, Grows
    <3>6. Honours(o)' /\ (Starts(state)' => Starts(o)')
      BY <1>0, <3>5 DEF Honours, Starts
    <3>7. Carries(w)'
      <4>1. "entomb" \notin Storing
        BY DEF Storing
      <4> QED
        BY <1>0, <2>a, <2>1, <3>5, <3>6, <4>1 DEF Carries, Answers, Starts
    <3>8. ASSUME NEW x \in StateWriters, x # w PROVE Carries(x)'
      <4>1. Carries(x) /\ Promised
        BY <2>3 DEF PrivacyInv, Promised
      <4> QED
        BY <1>0, <2>1, <2>3, <3>8, <4>1, OthersCarry
    <3> QED
      BY <3>2, <3>3, <3>7, <3>8
  <2> QED
    BY <1>0, <2>2, <2>3 DEF PrivacyInv, Promised
<1> QED
  BY <1>1, <1>2 DEF Bury

(* Once a write has gone into the published file nothing is promised.      *)
LEMMA LostKeeps ==
  ASSUME PrivacyInv, NEW w \in StateWriters, pc[w] # "idle", NEW l \in Steps, Goto(w, l),
         UNCHANGED <<clock, req, snap, out, since, told, hidden, deleted, wanted, buried>>,
         lost' = TRUE, outdated' = StateWriters
  PROVE  PrivacyInv'
<1>1. /\ pc' \in [StateWriters -> Steps]
      /\ \A x \in StateWriters : x # w => pc'[x] = pc[x]
  BY DEF PrivacyInv, Shapes, Goto
<1> QED
  BY <1>1 DEF PrivacyInv, Shapes, Taken, Promised, EndsPause, EndsExclusion

(* Opening and filling the temporary file.                                 *)
LEMMA PrivacyStores ==
  ASSUME PrivacyInv, NEW w \in StateWriters, OpenTmp(w) \/ Fill(w) \/ RenameFails(w)
  PROVE  PrivacyInv'
<1>1. \E l \in Steps : /\ Goto(w, l) /\ pc[w] # "idle"
                       /\ l \in Storing => pc[w] \in Storing
                       /\ l \in Entombing => pc[w] \in Entombing
  <2>1. CASE OpenTmp(w)
    <3>1. PICK b \in BOOLEAN : /\ pc[w] = Both("write", "entomb")[b]
                               /\ Goto(w, Both("fill", "fill-tomb")[b])
      BY <2>1 DEF OpenTmp, Step
    <3> QED
      BY <3>1 DEF Both, Steps, Storing, Entombing
  <2>2. CASE Fill(w)
    <3>1. PICK b \in BOOLEAN : /\ pc[w] = Both("fill", "fill-tomb")[b]
                               /\ Goto(w, Both("rename", "rename-tomb")[b])
      BY <2>2 DEF Fill, Step
    <3> QED
      BY <3>1 DEF Both, Steps, Storing, Entombing
  <2>3. CASE RenameFails(w)
    BY <2>3 DEF RenameFails, Steps, Storing, Entombing
  <2> QED
    BY <2>1, <2>2, <2>3
<1>2. PICK l \in Steps : /\ Goto(w, l) /\ pc[w] # "idle"
                         /\ l \in Storing => pc[w] \in Storing
                         /\ l \in Entombing => pc[w] \in Entombing
  BY <1>1
<1>3. /\ UNCHANGED <<clock, req, snap, out, since, told, hidden, deleted, wanted, buried>>
      /\ pc'[w] = l /\ out' = [x \in StateWriters |-> out'[x]] /\ since' \in [StateWriters -> Ticks]
      /\ told' \in BOOLEAN
  BY <1>2 DEF OpenTmp, Fill, RenameFails, ghosts, PrivacyInv, Shapes, Goto
<1>4. CASE UNCHANGED <<state, outdated, lost>>
  <2>1. ASSUME ~lost PROVE Carries(w)'
    <3>1. Carries(w)
      BY <2>1 DEF PrivacyInv, Promised
    <3> QED
      BY <1>2, <1>3, <1>4, <3>1 DEF Carries, Honours, Answers, Starts, EndsPause, Blocked, Covered
  <2> QED
    BY <1>2, <1>3, <1>4, <2>1, Moves
<1>5. CASE lost' = TRUE /\ outdated' = StateWriters
  BY <1>2, <1>3, <1>5, LostKeeps
<1>6. \/ UNCHANGED <<state, outdated, lost>>
      \/ lost' = TRUE /\ outdated' = StateWriters
  <2>1. CASE OpenTmp(w) \/ RenameFails(w)
    BY <2>1 DEF OpenTmp, RenameFails, files, marks
  <2>2. CASE Fill(w) /\ fd[w] = "file"
    BY <2>2 DEF Fill
  <2>3. CASE Fill(w) /\ fd[w] # "file"
    <3>1. lost' = (lost \/ FALSE) /\ state' = state /\ outdated' = outdated
      BY <2>3 DEF Fill
    <3>2. lost \in BOOLEAN
      BY DEF PrivacyInv, Shapes
    <3> QED
      BY <3>1, <3>2
  <2> QED
    BY <2>1, <2>2, <2>3
<1> QED
  BY <1>4, <1>5, <1>6

-----------------------------------------------------------------------------
(* A state is published: it is the one its writer carried, or the write is *)
(* lost; nobody else may store what they have computed without loss.       *)
LEMMA PublishedFacts ==
  ASSUME PrivacyInv, NEW w \in StateWriters, pc[w] \in Storing \cup Entombing, Published(w),
         NEW l \in Steps, Goto(w, l)
  PROVE  /\ UNCHANGED <<clock, req, snap, out, since>> /\ outdated' = StateWriters
         /\ lost' \in BOOLEAN
         /\ pc' \in [StateWriters -> Steps] /\ pc'[w] = l
         /\ \A x \in StateWriters : x # w => pc'[x] = pc[x]
         /\ ~lost' => /\ state' = out[w] /\ Honours(out[w]) /\ Answers(w)
<1>1. /\ UNCHANGED <<clock, req, snap, out, since>> /\ outdated' = StateWriters
      /\ state' = tmp /\ lost' = (lost \/ w \in outdated \/ tmp # out[w])
  BY DEF Published
<1>2. /\ pc' \in [StateWriters -> Steps] /\ pc'[w] = l
      /\ \A x \in StateWriters : x # w => pc'[x] = pc[x]
  BY DEF PrivacyInv, Shapes, Goto
<1>3. ASSUME ~lost' PROVE state' = out[w] /\ Honours(out[w]) /\ Answers(w)
  <2>1. ~lost /\ w \notin outdated /\ tmp = out[w]
    BY <1>1, <1>3
  <2> QED
    BY <1>1, <2>1 DEF PrivacyInv, Promised, Carries
<1>4. lost' \in BOOLEAN
  BY <1>1
<1> QED
  BY <1>1, <1>2, <1>3, <1>4

LEMMA PublishedKeeps ==
  ASSUME PrivacyInv, NEW w \in StateWriters, pc[w] \in Storing \cup Entombing, Published(w),
         NEW l \in Steps, Goto(w, l), hidden' = hidden, told' \in BOOLEAN,
         told' => \/ told
                  \/ \A x \in StateWriters : pc[x] # "idle" => ~EndsPause(req[x]),
         \A a \in wanted' : \/ a \in wanted
                            \/ \A x \in StateWriters : pc[x] # "idle" => ~EndsExclusion(req[x], a),
         ~lost' => /\ told' => told \/ Starts(out[w])
                   /\ deleted' \subseteq deleted \cup Covered(out[w])
                   /\ wanted' \subseteq wanted \cup out[w].excluded
                   /\ buried' \subseteq buried \cup out[w].ranges
  PROVE  PrivacyInv'
<1>1. /\ UNCHANGED <<clock, req, snap, out, since>> /\ outdated' = StateWriters
      /\ lost' \in BOOLEAN
      /\ pc' \in [StateWriters -> Steps] /\ pc'[w] = l
      /\ \A x \in StateWriters : x # w => pc'[x] = pc[x]
      /\ ~lost' => /\ state' = out[w] /\ Honours(out[w]) /\ Answers(w)
  BY PublishedFacts
<1>2. pc[w] # "idle"
  BY DEF Storing, Entombing
<1>3. Shapes'
  BY <1>1 DEF PrivacyInv, Shapes
<1>4. Taken'
  <2>1. \A x \in StateWriters : pc'[x] # "idle" => pc[x] # "idle"
    BY <1>1, <1>2
  <2>2. ASSUME NEW x \in StateWriters, pc[x] # "idle"
        PROVE  /\ EndsPause(req[x]) => ~told'
               /\ req[x].kind = "last_1h" => hidden' = {}
               /\ \A a \in Apps : EndsExclusion(req[x], a) => a \notin wanted'
    BY <2>2 DEF PrivacyInv, Taken
  <2>3. hidden' \subseteq {t \in Ticks : t < clock'}
    BY <1>1 DEF PrivacyInv, Taken
  <2> QED
    BY <1>1, <2>1, <2>2, <2>3 DEF Taken, EndsPause, EndsExclusion
<1>5. ASSUME ~lost' PROVE Honours(state)'
  BY <1>1, <1>5 DEF Honours, Starts, Blocked, Covered
<1>6. \A x \in StateWriters : Carries(x)' /\ x \in outdated'
  BY <1>1 DEF Carries
<1> QED
  BY <1>3, <1>4, <1>5, <1>6 DEF PrivacyInv, Promised

LEMMA PrivacyRename ==
  ASSUME PrivacyInv, NEW w \in StateWriters, RenameState(w)
  PROVE  PrivacyInv'
<1>1. pc[w] = "rename" /\ pc[w] \in Storing /\ Published(w) /\ since[w] \in Ticks /\ req[w] \in Asked
  BY DEF RenameState, Storing, PrivacyInv, Shapes
<1>2. CASE req[w].kind = "last_1h"
  <2>1. /\ Goto(w, "delete") /\ "delete" \in Steps
        /\ deleted' = deleted \cup (LastHourFrom(since[w])..since[w])
        /\ UNCHANGED <<told, hidden, wanted, buried>>
    BY <1>2 DEF RenameState, Steps
  <2>2. ~lost' => Answers(w)
    BY <1>1, <2>1, PublishedFacts
  <2>3. LastHourFrom(since[w])..since[w] \subseteq Ticks
    <3>1. LastHourFrom(since[w]) \in 0..MaxClock /\ since[w] \in 0..MaxClock
      BY <1>1, TickFacts
    <3>2. \A a, b \in 0..MaxClock : a..b \subseteq 0..MaxClock
      BY PrivacyAssumption
    <3> QED
      BY <3>1, <3>2 DEF Ticks
  <2>4. ~lost' => deleted' \subseteq deleted \cup Covered(out[w])
    BY <1>1, <1>2, <2>1, <2>2, <2>3 DEF Answers
  <2>5. told' \in BOOLEAN
    BY <2>1 DEF PrivacyInv, Shapes
  <2> QED
    BY <1>1, <2>1, <2>4, <2>5, PublishedKeeps
<1>3. CASE req[w].kind # "last_1h"
  <2>1. /\ Goto(w, "idle") /\ "idle" \in Steps /\ UNCHANGED <<hidden, deleted, buried>>
        /\ told' = (told \/ (req[w].kind = "pause" /\ \A o \in UnderWay : ~EndsPause(o)))
        /\ wanted' = wanted \cup
             {a \in Apps : /\ req[w] = [kind |-> "exclude", app |-> a]
                           /\ \A o \in UnderWay : ~EndsExclusion(o, a)}
    BY <1>3 DEF RenameState, Return, Answered, Steps
  <2>2. \A x \in StateWriters : pc[x] # "idle" => req[x] \in UnderWay
    BY DEF UnderWay
  <2>3. told' \in BOOLEAN
    BY <2>1
  <2>4. told' => \/ told
                 \/ \A x \in StateWriters : pc[x] # "idle" => ~EndsPause(req[x])
    BY <2>1, <2>2
  <2>5. \A a \in wanted' : \/ a \in wanted
                           \/ \A x \in StateWriters : pc[x] # "idle" => ~EndsExclusion(req[x], a)
    BY <2>1, <2>2
  <2>6. ~lost' => Answers(w)
    BY <1>1, <2>1, PublishedFacts
  <2>7. ~lost' => (told' => told \/ Starts(out[w]))
    BY <1>1, <2>1, <2>6 DEF Answers
  <2>8. ASSUME ~lost', NEW a \in Apps, req[w] = [kind |-> "exclude", app |-> a]
        PROVE  a \in out[w].excluded
    <3>1. req[w].kind = "exclude" /\ req[w].app = a
      BY <2>8
    <3> QED
      BY <1>1, <2>6, <2>8, <3>1 DEF Answers
  <2>9. ~lost' => wanted' \subseteq wanted \cup out[w].excluded
    BY <2>1, <2>8
  <2> QED
    BY <1>1, <2>1, <2>3, <2>4, <2>5, <2>7, <2>9, PublishedKeeps
<1> QED
  BY <1>2, <1>3

LEMMA PrivacyEntomb ==
  ASSUME PrivacyInv, NEW w \in StateWriters, RenameTombstone(w)
  PROVE  PrivacyInv'
<1>1. /\ pc[w] \in Entombing /\ Published(w) /\ Goto(w, "idle") /\ "idle" \in Steps
      /\ buried' = buried \cup {Tombstone(req[w].kind, since[w])}
      /\ UNCHANGED <<told, hidden, deleted, wanted>> /\ told' \in BOOLEAN
  BY DEF RenameTombstone, Entombing, Steps, PrivacyInv, Shapes
<1>2. ~lost' => Answers(w)
  BY <1>1, PublishedFacts
<1>3. ~lost' => buried' \subseteq buried \cup out[w].ranges
  BY <1>1, <1>2 DEF Answers
<1> QED
  BY <1>1, <1>3, PublishedKeeps

-----------------------------------------------------------------------------
LEMMA PrivacyInductive == PrivacyInv /\ [PrivacyNext]_privacyVars => PrivacyInv'
<1> SUFFICES ASSUME PrivacyInv, [PrivacyNext]_privacyVars PROVE PrivacyInv'
  OBVIOUS
<1>1. CASE Tick
  BY <1>1, PrivacyTick
<1>2. ASSUME NEW c \in Clients, NEW k \in PrivacyRequests, Call(c, k) PROVE PrivacyInv'
  BY <1>2, PrivacyCall
<1>3. ASSUME NEW t \in Trims, RetentionFails(t) PROVE PrivacyInv'
  BY <1>3, PrivacyRetention
<1>4. ASSUME NEW w \in StateWriters, Handle(w) PROVE PrivacyInv'
  BY <1>4, PrivacyCompute, PrivacyDelete, PrivacyBury, PrivacyStores, PrivacyRename, PrivacyEntomb
     DEF Handle
<1>5. CASE UNCHANGED privacyVars
  BY <1>5 DEF privacyVars, files, local, ghosts, marks, PrivacyInv, Shapes, Taken, Promised, EndsPause,
              EndsExclusion, Honours, Starts, Blocked, Covered, Carries, Answers
<1> QED
  BY <1>1, <1>2, <1>3, <1>4, <1>5 DEF PrivacyNext

LEMMA PrivacyInvariant == PrivacySpec => []PrivacyInv
<1>1. PrivacyInit => PrivacyInv
  BY PrivacyInitially
<1>2. PrivacyInv /\ [PrivacyNext]_privacyVars => PrivacyInv'
  BY PrivacyInductive
<1> QED
  BY <1>1, <1>2, PTL DEF PrivacySpec

(* What was captured under a confirmed pause stays blocked, whatever       *)
(* requests are made and however they interleave, unless a write replaced  *)
(* a state other than the one it was computed from                         *)
(* (privacy-control-service.ts, privacy-store.ts).                         *)
THEOREM PauseTheorem == PrivacySpec => []PauseHides
<1>1. PrivacyInv => PauseHides
  BY NotTorn DEF PrivacyInv, Promised, Honours, PauseHides
<1> QED
  BY <1>1, PrivacyInvariant, PTL

(* A deleted hour stays blocked, an exclusion lasts and a tombstone stays  *)
(* until its cascade has been repeated, for any number of requests and     *)
(* retention passes, unless a write was lost (privacy-control-service.ts,  *)
(* trim-service.ts).                                                       *)
THEOREM PromisesTheorem == PrivacySpec => []PromisesKeptUnlessLost
<1>1. PrivacyInv => PromisesKeptUnlessLost
  <2> SUFFICES ASSUME PrivacyInv, ~lost PROVE PromisesKeptUnlessLost
    BY DEF PromisesKeptUnlessLost
  <2>1. Honours(state) /\ state # Torn
    BY NotTorn DEF PrivacyInv, Promised, Honours
  <2>2. Covered(state) \subseteq Blocked(state)
    BY DEF Covered, Blocked
  <2> QED
    BY <2>1, <2>2 DEF Honours, PromisesKeptUnlessLost
<1> QED
  BY <1>1, PrivacyInvariant, PTL
=============================================================================
