------------------------------ MODULE LocalStack ------------------------------
(***************************************************************************)
(* What an operator runs (scripts/): recorder:start and recorder:stop,     *)
(* service:start and service:stop, and the commands made of them - up,     *)
(* resume, start and down:all - over a recorder that supervises Screenpipe *)
(* in a process group of its own, and a service that launchd keeps alive.  *)
(* Several commands may run at once, each a process or a tree of them: a   *)
(* command's step runs from one file access, spawn or launchctl call to    *)
(* the next.                                                               *)
(*                                                                         *)
(* A supervisor is named by its process id; a process id is used for one   *)
(* supervisor, and perhaps by an unrelated process after it.               *)
(***************************************************************************)
EXTENDS Naturals, FiniteSets

CONSTANTS
  Operators,     \* terminals
  Pids,          \* process ids of supervisors
  Commands,      \* names of the commands that are run
  MaxCommands,   \* bound on commands
  StackFaults    \* bound on crashes, reused process ids and failing launchctl calls

ASSUME StackAssumption ==
  /\ Pids \subseteq Nat \ {0} /\ {MaxCommands, StackFaults} \subseteq Nat
  /\ Commands \subseteq {"recorder:start", "recorder:stop", "service:start", "service:stop", "down:all",
                        "up", "up --detach", "up --restart-capture --detach", "resume", "start", "setup"}

VARIABLES
  sup,           \* per process id: the safe-record supervisor
  screen,        \* per process id: the Screenpipe that supervisor has spawned
  reused,        \* process ids that now belong to something else
  pidFile,       \* recorder.pid
  service,       \* [loaded, ready, plist]: launchd's view, and the file
  legacy,        \* the service under its old name: "none", "plist" or "loaded"
  marker,        \* .onboarding-complete
  home,          \* the program's home: at its "old" name, "moved" from it with a backup, or "new"
  op,            \* per operator: the command, see Begin
  rec, svc,      \* per operator: its recorder job and its service job
  commands, stackFaults,
  overlapped,    \* ghost: two commands have run at once
  crashed,       \* ghost: supervisors that were killed or died
  loose,         \* ghost: a recorder without a pid file, or a failed clean-up
  onboarded,     \* ghost: the user has been through onboarding
  forgotten      \* ghost: the only sign of it was removed with the service
processes == <<sup, screen, reused>>
launchd   == <<service, legacy, marker, home, onboarded, forgotten>>
jobs      == <<op, rec, svc>>
stackGhosts == <<overlapped, crashed, loose>>
stackVars == <<processes, pidFile, launchd, jobs, commands, stackFaults, stackGhosts>>

NoJob == [pc |-> "none", pid |-> 0, how |-> "none"]
NoCommand == [name |-> "none", pc |-> "idle", signs |-> FALSE]
Ended(job) == job.pc \in {"none", "ok", "failed"}

(* A managed service, by either name, tells of an onboarding before the    *)
(* marker existed.                                                         *)
HasCompletedOnboarding == marker \/ service.plist \/ legacy # "none"

StackInit ==
  /\ sup = [p \in Pids |-> "none"] /\ screen = [p \in Pids |-> "none"] /\ reused = {}
  /\ pidFile = 0
  /\ \E installed \in BOOLEAN :
       service = [loaded |-> installed, ready |-> installed, plist |-> installed]
  /\ legacy \in {"none", "loaded"} /\ (legacy = "loaded" => ~service.plist)
  /\ marker = FALSE /\ home = IF legacy = "none" THEN "new" ELSE "old"
  /\ onboarded = HasCompletedOnboarding /\ forgotten = FALSE
  /\ op = [o \in Operators |-> NoCommand]
  /\ rec = [o \in Operators |-> NoJob] /\ svc = [o \in Operators |-> NoJob]
  /\ commands = 0 /\ stackFaults = 0
  /\ overlapped = FALSE /\ crashed = {} /\ loose = FALSE

StackFault == stackFaults < StackFaults /\ stackFaults' = stackFaults + 1

SupervisorLives(p) == sup[p] \in {"starting", "watching", "final"}
IsProcessAlive(p)  == p # 0 /\ (SupervisorLives(p) \/ p \in reused)
IsScreenpipeHealthy == \E p \in Pids : screen[p] = "up"

-----------------------------------------------------------------------------
(* screenpipe-safe-record: spawn Screenpipe, forward signals to its group, *)
(* and when it exits run a last maintenance before ending.                 *)

SpawnScreenpipe(p) ==
  /\ sup[p] = "starting"
  /\ \/ sup' = [sup EXCEPT ![p] = "watching"] /\ screen' = [screen EXCEPT ![p] = "up"]
     \/ sup' = [sup EXCEPT ![p] = "dead"] /\ UNCHANGED screen
  /\ UNCHANGED <<reused, pidFile, launchd, jobs, commands, stackFaults, stackGhosts>>

(* Screenpipe ends: when told to, or by itself.                            *)
ScreenpipeExits(p) ==
  /\ screen[p] # "none"
  /\ screen' = [screen EXCEPT ![p] = "none"]
  /\ sup' = [sup EXCEPT ![p] = IF @ = "watching" THEN "final" ELSE @]
  /\ UNCHANGED <<reused, pidFile, launchd, jobs, commands, stackFaults, stackGhosts>>

FinalMaintenanceDone(p) ==
  /\ sup[p] = "final"
  /\ sup' = [sup EXCEPT ![p] = "dead"]
  /\ UNCHANGED <<screen, reused, pidFile, launchd, jobs, commands, stackFaults, stackGhosts>>

SupervisorCrashes(p) ==
  /\ SupervisorLives(p) /\ StackFault
  /\ sup' = [sup EXCEPT ![p] = "dead"] /\ crashed' = crashed \cup {p}
  /\ UNCHANGED <<screen, reused, pidFile, launchd, jobs, commands, overlapped, loose>>

PidReused(p) ==
  /\ sup[p] = "dead" /\ p \notin reused /\ StackFault
  /\ reused' = reused \cup {p}
  /\ UNCHANGED <<sup, screen, pidFile, launchd, jobs, commands, stackGhosts>>

(* SIGTERM: the handlers are there while Screenpipe runs, and forward it;  *)
(* before and after, it ends the supervisor.  Mutant: no handlers.         *)
TerminateOutright(p) ==
  /\ sup' = [sup EXCEPT ![p] = IF SupervisorLives(p) THEN "dead" ELSE @]
  /\ reused' = reused \ {p}
  /\ UNCHANGED screen

Terminate(p) ==
  /\ sup' = [sup EXCEPT ![p] = IF @ \in {"starting", "final"} THEN "dead" ELSE @]
  /\ screen' = [screen EXCEPT ![p] = IF sup[p] = "watching" /\ @ = "up" THEN "ending" ELSE @]
  /\ reused' = reused \ {p}

-----------------------------------------------------------------------------
(* recorder:start and recorder:stop.                                       *)

RecGoes(o, pc)  == rec' = [rec EXCEPT ![o].pc = pc]
RecEnds(o, how) == rec' = [rec EXCEPT ![o] = [NoJob EXCEPT !.pc = how]]

RecorderOnly == UNCHANGED <<launchd, op, svc, commands>>

CheckRecorder(o) ==
  /\ rec[o].pc = "check"
  /\ IF IsProcessAlive(pidFile) THEN RecEnds(o, "failed") ELSE RecGoes(o, "spawn")
  /\ UNCHANGED <<processes, pidFile, stackFaults, stackGhosts>> /\ RecorderOnly

Spawned(p) == /\ \A q \in Pids : sup[q] = "none" => p <= q
              /\ sup[p] = "none" /\ sup' = [sup EXCEPT ![p] = "starting"]

SpawnRecorder(o) ==
  /\ rec[o].pc = "spawn"
  /\ \E p \in Pids : Spawned(p) /\ rec' = [rec EXCEPT ![o].pc = "write", ![o].pid = p]
  /\ UNCHANGED <<screen, reused, pidFile, stackFaults, stackGhosts>> /\ RecorderOnly

(* Mutant: the pid of the new supervisor is not kept.                      *)
WriteRecorderPidNot(o) ==
  /\ rec[o].pc = "write" /\ RecEnds(o, "ok")
  /\ UNCHANGED <<processes, pidFile, stackFaults, stackGhosts>> /\ RecorderOnly

WriteRecorderPid(o) ==
  /\ rec[o].pc = "write"
  /\ pidFile' = rec[o].pid /\ RecEnds(o, "ok")
  /\ UNCHANGED <<processes, stackFaults, stackGhosts>> /\ RecorderOnly

SignalRecorder(o) ==
  /\ rec[o].pc = "stop"
  /\ IF IsProcessAlive(pidFile)
     THEN /\ Terminate(pidFile)
          /\ rec' = [rec EXCEPT ![o] = [pc |-> "poll", pid |-> pidFile, how |-> "none"]]
     ELSE rec' = [rec EXCEPT ![o] = [NoJob EXCEPT !.pc = "clear", !.how = "stopped already"]]
          /\ UNCHANGED processes
  /\ UNCHANGED <<pidFile, stackFaults, stackGhosts>> /\ RecorderOnly

RecorderGone(o) ==
  /\ rec[o].pc = "poll" /\ ~IsProcessAlive(rec[o].pid)
  /\ rec' = [rec EXCEPT ![o].pc = "clear", ![o].how = "stopped"]
  /\ UNCHANGED <<processes, pidFile, stackFaults, stackGhosts>> /\ RecorderOnly

(* Not gone in 30 seconds: SIGKILL, which reaches the supervisor and not   *)
(* Screenpipe's group.                                                     *)
ForceStop(o) ==
  /\ rec[o].pc = "poll" /\ IsProcessAlive(rec[o].pid) /\ StackFault
  /\ sup' = [sup EXCEPT ![rec[o].pid] = "dead"] /\ reused' = reused \ {rec[o].pid}
  /\ crashed' = crashed \cup {rec[o].pid}
  /\ rec' = [rec EXCEPT ![o].pc = "clear", ![o].how = "forced"]
  /\ UNCHANGED <<screen, pidFile, overlapped, loose>> /\ RecorderOnly

ClearRecorderPid(o) ==
  /\ rec[o].pc = "clear"
  /\ pidFile' = 0 /\ RecEnds(o, "ok")
  /\ UNCHANGED <<processes, stackFaults, stackGhosts>> /\ RecorderOnly

-----------------------------------------------------------------------------
(* service:start and service:stop.                                         *)

SvcGoes(o, pc)  == svc' = [svc EXCEPT ![o].pc = pc]
SvcEnds(o, how) == svc' = [svc EXCEPT ![o] = [NoJob EXCEPT !.pc = how]]

ServiceOnly == UNCHANGED <<processes, pidFile, op, rec, commands, overlapped, crashed>>

(* The checks that end it before anything is touched.                      *)
PreflightService(o) ==
  /\ svc[o].pc = "start"
  /\ \/ SvcEnds(o, "failed")
     \/ svc' = [svc EXCEPT ![o].pc = "legacy",
                           ![o].how = IF HasCompletedOnboarding THEN "onboarded" ELSE "new"]
  /\ UNCHANGED <<launchd, stackFaults, loose>> /\ ServiceOnly

UninstallLegacy(o) ==
  /\ svc[o].pc \in {"legacy", "stop legacy"}
  /\ \/ /\ legacy' = "none" /\ UNCHANGED stackFaults
        /\ IF svc[o].pc = "legacy" THEN SvcGoes(o, "home") ELSE SvcEnds(o, "ok")
     \/ SvcEnds(o, "failed") /\ StackFault /\ UNCHANGED legacy
  /\ UNCHANGED <<service, marker, home, onboarded, forgotten, loose>> /\ ServiceOnly

(* ensureAppHomeReady (module AppHome), and the marker.                    *)
MovedHome == home' = IF home = "old" THEN "moved" ELSE home

ReadyHome(o) ==
  /\ svc[o].pc = "home"
  /\ \/ /\ marker' = (marker \/ svc[o].how = "onboarded") /\ UNCHANGED stackFaults
        /\ MovedHome /\ SvcGoes(o, "install")
     \/ SvcEnds(o, "failed") /\ StackFault /\ UNCHANGED <<marker, home>>
  /\ UNCHANGED <<service, legacy, onboarded, forgotten, loose>> /\ ServiceOnly

InstallServicePlist(o) ==
  /\ svc[o].pc = "install"
  /\ service' = [service EXCEPT !.plist = TRUE] /\ SvcGoes(o, "bootout")
  /\ UNCHANGED <<legacy, marker, home, onboarded, forgotten, stackFaults, loose>> /\ ServiceOnly

(* With the file goes the sign of an onboarding, if there is no other.     *)
Forgets == forgotten' = (forgotten \/ (service.plist /\ ~marker /\ home = "new"))

Unloaded == [service EXCEPT !.loaded = FALSE, !.ready = FALSE]

BootoutRunning(o) ==
  /\ svc[o].pc = "bootout"
  /\ \/ service' = Unloaded /\ SvcGoes(o, "bootstrap") /\ UNCHANGED stackFaults
     \/ service.loaded /\ SvcGoes(o, "undo") /\ StackFault /\ UNCHANGED service
  /\ UNCHANGED <<legacy, marker, home, onboarded, forgotten, loose>> /\ ServiceOnly

(* The port must be free; bootstrap fails when the service is loaded, or   *)
(* the file is gone.                                                       *)
BootstrapService(o) ==
  /\ svc[o].pc = "bootstrap"
  /\ \/ /\ ~service.loaded /\ service.plist
        /\ service' = [service EXCEPT !.loaded = TRUE] /\ SvcGoes(o, "wait")
        /\ UNCHANGED stackFaults
     \/ /\ service.loaded \/ ~service.plist
        /\ SvcGoes(o, "undo") /\ UNCHANGED <<service, stackFaults>>
     \/ SvcGoes(o, "undo") /\ StackFault /\ UNCHANGED service
  /\ UNCHANGED <<legacy, marker, home, onboarded, forgotten, loose>> /\ ServiceOnly

(* A service that is unloaded while it is being looked at ends the command  *)
(* at once.                                                                *)
WaitForService(o) ==
  /\ svc[o].pc = "wait"
  /\ \/ service.loaded /\ service.ready /\ SvcEnds(o, "ok")
     \/ ~service.ready /\ SvcGoes(o, "undo")
     \/ ~service.loaded /\ SvcEnds(o, "failed")
  /\ UNCHANGED <<launchd, stackFaults, loose>> /\ ServiceOnly

(* What went wrong takes the service down with it, the one that ran before *)
(* included.  Mutant: only the file is removed.                            *)
UndoStartFileOnly(o) ==
  /\ svc[o].pc = "undo"
  /\ service' = [service EXCEPT !.plist = FALSE] /\ SvcEnds(o, "failed") /\ Forgets
  /\ UNCHANGED <<legacy, marker, home, onboarded, stackFaults, loose>> /\ ServiceOnly

UndoStart(o) ==
  /\ svc[o].pc = "undo"
  /\ \/ service' = [Unloaded EXCEPT !.plist = FALSE] /\ UNCHANGED <<stackFaults, loose>>
     \/ /\ service.loaded /\ StackFault /\ loose' = TRUE
        /\ service' = [service EXCEPT !.plist = FALSE]
  /\ SvcEnds(o, "failed") /\ Forgets
  /\ UNCHANGED <<legacy, marker, home, onboarded>> /\ ServiceOnly

StopService(o) ==
  /\ svc[o].pc = "stop"
  /\ \/ /\ service' = [Unloaded EXCEPT !.plist = FALSE] /\ Forgets
        /\ SvcGoes(o, "stop legacy") /\ UNCHANGED stackFaults
     \/ SvcEnds(o, "failed") /\ StackFault /\ UNCHANGED <<service, forgotten>>
  /\ UNCHANGED <<legacy, marker, home, onboarded, loose>> /\ ServiceOnly

(* launchd: the instance comes up, ends, and is launched again.            *)
InstanceChanges ==
  /\ service.loaded
  /\ \/ ~service.ready /\ UNCHANGED stackFaults
     \/ service.ready /\ StackFault
  /\ service' = [service EXCEPT !.ready = ~@]
  /\ UNCHANGED <<processes, pidFile, legacy, marker, home, onboarded, forgotten, jobs, commands, stackGhosts>>

-----------------------------------------------------------------------------
(* The commands.                                                           *)

OpGoes(o, pc) == op' = [op EXCEPT ![o].pc = pc]
StartJob(j, o, pc) == j' = [j EXCEPT ![o] = [NoJob EXCEPT !.pc = pc]]
OpOnly == UNCHANGED <<pidFile, launchd, commands, stackFaults, overlapped, crashed>>

Begin(o, name) ==
  /\ op[o].pc = "idle" /\ commands < MaxCommands /\ commands' = commands + 1
  /\ op' = [op EXCEPT ![o] = [name |-> name, signs |-> FALSE, pc |->
              CASE name \in {"recorder:start", "recorder:stop"} -> "recorder"
                [] name \in {"service:start", "service:stop"}   -> "service"
                [] name = "down:all"                             -> "recorder, then service"
                [] name \in {"up", "up --detach", "up --restart-capture --detach"} -> "build"
                [] name = "resume"                               -> "check"
                [] name \in {"start", "setup"}                    -> "signs"]]
  /\ rec' = [rec EXCEPT ![o].pc = CASE name = "recorder:start" -> "check"
                                    [] name \in {"recorder:stop", "down:all"} -> "stop"
                                    [] OTHER -> "none"]
  /\ svc' = [svc EXCEPT ![o].pc = CASE name = "service:start" -> "start"
                                    [] name = "service:stop"  -> "stop"
                                    [] OTHER -> "none"]
  /\ overlapped' = (overlapped \/ \E other \in Operators : op[other].pc # "idle")
  /\ UNCHANGED <<processes, pidFile, launchd, stackFaults, crashed, loose>>

(* down:all stops the service even if the recorder could not be stopped.   *)
ThenService(o) ==
  /\ op[o].pc = "recorder, then service" /\ Ended(rec[o])
  /\ OpGoes(o, "service") /\ StartJob(svc, o, "stop")
  /\ UNCHANGED <<processes, rec, loose>> /\ OpOnly

Build(o) ==
  /\ op[o].pc = "build"
  /\ \/ OpGoes(o, "service, then capture") /\ StartJob(svc, o, "start")
     \/ OpGoes(o, "done") /\ UNCHANGED svc
  /\ UNCHANGED <<processes, rec, loose>> /\ OpOnly

(* A healthy Screenpipe is reused, unless it is to be restarted.           *)
Capture(o) ==
  /\ op[o].pc = "service, then capture" /\ Ended(svc[o])
  /\ OpGoes(o, IF svc[o].pc = "failed" THEN "done"
               ELSE IF ~IsScreenpipeHealthy THEN "record"
               ELSE IF op[o].name = "up --restart-capture --detach" THEN "stop listeners" ELSE "done")
  /\ UNCHANGED <<processes, rec, svc, loose>> /\ OpOnly

(* Whatever listens is told to end, and killed if it has not in time.      *)
StopRunningScreenpipe(o) ==
  /\ op[o].pc = "stop listeners"
  /\ IF \E p \in Pids : screen[p] = "up"
     THEN /\ screen' = [p \in Pids |-> IF screen[p] = "up" THEN "ending" ELSE screen[p]]
          /\ UNCHANGED <<sup, op>>
     ELSE /\ screen' = [p \in Pids |-> "none"]
          /\ sup' = [p \in Pids |-> IF screen[p] = "ending" /\ sup[p] = "watching" THEN "final" ELSE sup[p]]
          /\ OpGoes(o, "record")
  /\ UNCHANGED <<reused, rec, svc, loose>> /\ OpOnly

(* Detached by recorder:start, or in the foreground, without a pid file.   *)
StartRecorder(o) ==
  /\ op[o].pc = "record"
  /\ IF op[o].name = "up"
     THEN /\ \E p \in Pids : Spawned(p)
          /\ loose' = TRUE /\ OpGoes(o, "done") /\ UNCHANGED rec
     ELSE /\ StartJob(rec, o, "check") /\ OpGoes(o, "recorder") /\ UNCHANGED <<sup, loose>>
  /\ UNCHANGED <<screen, reused, svc>> /\ OpOnly

(* resumeStack: both are checked, and what is not healthy is started, at   *)
(* once; a recorder that is coming up already is waited for.               *)
ResumeStack(o) ==
  /\ op[o].pc = "check"
  /\ IF service.ready THEN UNCHANGED svc ELSE StartJob(svc, o, "start")
  /\ IF IsScreenpipeHealthy \/ IsProcessAlive(pidFile) THEN UNCHANGED rec
     ELSE StartJob(rec, o, "check")
  /\ OpGoes(o, "tasks")
  /\ UNCHANGED <<processes, loose>> /\ OpOnly

(* start and setup: the signs of an onboarding are read before the old     *)
(* service, which is one, is removed.                                      *)
ReadSigns(o) ==
  /\ op[o].pc = "signs"
  /\ op' = [op EXCEPT ![o].pc = "legacy", ![o].signs = HasCompletedOnboarding]
  /\ UNCHANGED <<processes, rec, svc, loose>> /\ OpOnly

RemoveLegacy(o) ==
  /\ op[o].pc = "legacy"
  /\ \/ legacy' = "none" /\ OpGoes(o, "home") /\ UNCHANGED stackFaults
     \/ OpGoes(o, "done") /\ StackFault /\ UNCHANGED legacy
  /\ UNCHANGED <<processes, pidFile, service, marker, home, onboarded, forgotten, rec, svc, commands, stackGhosts>>

(* Mutant: what a run that failed half-way left behind is not asked.       *)
TreatAsOnboardedNow(o) == op[o].signs \/ HasCompletedOnboarding

(* For start, a backup of the old home is a sign too.                      *)
TreatAsOnboarded(o) ==
  op[o].signs \/ HasCompletedOnboarding \/ (op[o].name = "start" /\ home' = "moved")

MakeHomeReady(o) ==
  /\ op[o].pc = "home"
  /\ \/ /\ MovedHome /\ marker' = (marker \/ TreatAsOnboarded(o))
        /\ OpGoes(o, IF op[o].name = "setup" THEN "done" ELSE "mode") /\ UNCHANGED stackFaults
     \/ OpGoes(o, "done") /\ StackFault /\ UNCHANGED <<home, marker>>
  /\ UNCHANGED <<processes, pidFile, service, legacy, onboarded, forgotten, rec, svc, commands, stackGhosts>>

(* startLocalStack: resume, or for the first time Screenpipe, the          *)
(* questions, and the service.                                             *)
SelectMode(o) ==
  /\ op[o].pc = "mode"
  /\ IF HasCompletedOnboarding THEN OpGoes(o, "check") /\ UNCHANGED rec
     ELSE /\ OpGoes(o, "first run")
          /\ IF IsScreenpipeHealthy \/ IsProcessAlive(pidFile) THEN UNCHANGED rec
             ELSE StartJob(rec, o, "check")
  /\ UNCHANGED <<processes, svc, loose>> /\ OpOnly

Onboard(o) ==
  /\ op[o].pc = "first run" /\ Ended(rec[o])
  /\ \/ /\ rec[o].pc # "failed" /\ IsScreenpipeHealthy
        /\ OpGoes(o, "onboarding") /\ StartJob(svc, o, "start")
     \/ ~IsScreenpipeHealthy /\ OpGoes(o, "done") /\ UNCHANGED svc
  /\ UNCHANGED <<processes, rec, loose>> /\ OpOnly

Finish(o) ==
  /\ op[o].pc \in {"recorder", "service", "tasks", "onboarding", "done"} /\ Ended(rec[o]) /\ Ended(svc[o])
  /\ op' = [op EXCEPT ![o] = NoCommand]
  /\ rec' = [rec EXCEPT ![o] = NoJob] /\ svc' = [svc EXCEPT ![o] = NoJob]
  /\ LET complete == op[o].name = "start" /\ op[o].pc \in {"tasks", "onboarding"}
                       /\ "failed" \notin {rec[o].pc, svc[o].pc}
     IN  marker' = (marker \/ complete) /\ onboarded' = (onboarded \/ complete)
  /\ UNCHANGED <<processes, pidFile, service, legacy, home, forgotten, commands, stackFaults, stackGhosts>>

StackNext ==
  \/ \E p \in Pids :
       \/ SpawnScreenpipe(p) \/ ScreenpipeExits(p) \/ FinalMaintenanceDone(p)
       \/ SupervisorCrashes(p) \/ PidReused(p)
  \/ \E o \in Operators :
       \/ CheckRecorder(o) \/ SpawnRecorder(o) \/ WriteRecorderPid(o)
       \/ SignalRecorder(o) \/ RecorderGone(o) \/ ForceStop(o) \/ ClearRecorderPid(o)
       \/ PreflightService(o) \/ UninstallLegacy(o) \/ ReadyHome(o) \/ InstallServicePlist(o)
       \/ BootoutRunning(o) \/ BootstrapService(o) \/ WaitForService(o) \/ UndoStart(o) \/ StopService(o)
       \/ \E name \in Commands : Begin(o, name)
       \/ ThenService(o) \/ Build(o) \/ Capture(o) \/ StopRunningScreenpipe(o)
       \/ StartRecorder(o) \/ ResumeStack(o) \/ Finish(o)
       \/ ReadSigns(o) \/ RemoveLegacy(o) \/ MakeHomeReady(o) \/ SelectMode(o) \/ Onboard(o)
  \/ InstanceChanges

StackSpec == StackInit /\ [][StackNext]_stackVars

-----------------------------------------------------------------------------
(* recorder:stop says "stopped" only of a recording that has ended: the    *)
(* signal goes to Screenpipe first and the supervisor outlives it, unless  *)
(* the supervisor crashed or was killed.                                   *)
StoppedIsSilent ==
  \A o \in Operators :
    rec[o].pc = "clear" /\ rec[o].how = "stopped" =>
      screen[rec[o].pid] = "none" \/ rec[o].pid \in crashed

(* Commands run one after the other never leave two Screenpipes recording, *)
(* nor a supervisor that recorder:stop does not find, as long as no        *)
(* supervisor was killed and none was started in the foreground.           *)
OneRecorder ==
  ~overlapped /\ ~loose /\ crashed = {} =>
    /\ Cardinality({p \in Pids : screen[p] # "none"}) <= 1
    /\ \A p \in Pids : SupervisorLives(p) => p = pidFile \/ \E o \in Operators : rec[o].pid = p

(* service:start and service:stop leave the service loaded and installed   *)
(* to be loaded again, or neither, whatever fails on the way, and the old  *)
(* service never beside the new one.                                       *)
ServiceAllOrNothing ==
  /\ ~overlapped /\ ~loose /\ (\A o \in Operators : Ended(svc[o])) => service.loaded = service.plist
  /\ service.loaded => legacy = "none"

(* start does not send a user who has been through onboarding there again, *)
(* though the old service and the old home, the signs of it, are gone by   *)
(* the time a start that failed half-way is repeated; only service:stop    *)
(* may have removed the one sign there was.                                *)
NotOnboardedAgain ==
  \A o \in Operators :
    op[o].pc = "mode" /\ ~HasCompletedOnboarding => ~onboarded \/ forgotten
=============================================================================
