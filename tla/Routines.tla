------------------------------- MODULE Routines -------------------------------
(***************************************************************************)
(* Routines (services/routines, mcp/tools/routine-create.ts,               *)
(* dashboard/routes/routines.ts): definitions and histories are files, the *)
(* scheduler keeps one cron task per definition, and a task that fires     *)
(* runs the definition unless a run of it is under way.  Start, requests   *)
(* that save a definition, and runs interleave at every await; what they   *)
(* do between two awaits is one action.                                    *)
(*                                                                         *)
(* A listing takes its files at one instant.  Names and prompts are left   *)
(* out, and so are createdAt and isNew.                                    *)
(***************************************************************************)
EXTENDS Integers, Sequences, FiniteSets

CONSTANTS
  Names,
  Schedules, Valid,  \* cron expressions, and those node-cron accepts
  Clients,           \* callers of routine-create and of POST /routines
  MaxRuns,           \* bound on firings
  MaxRequests,       \* bound on saved definitions
  MaxEdits,          \* bound on files removed by hand, and on pauses and resumes
  MaxFaults          \* bound on executions that throw, unreadable privacy
                     \* states, and restarts

Runs    == 1..MaxRuns  \* run ids, in the order the tasks fired
Boot    == 0           \* RoutineScheduler.start, called by createApp
Callers == Clients \cup {Boot}
Writers == Clients \cup Runs

ASSUME RoutineAssumption ==
  /\ Valid \subseteq Schedules /\ Clients \cap (Runs \cup {Boot}) = {}
  /\ {MaxRuns, MaxRequests, MaxEdits, MaxFaults} \subseteq Nat

VARIABLES
  paused,        \* what privacy-state.json says
  disk, tmp,     \* file contents, and those of the temporary file beside them
  tasks,         \* the scheduler's map: the age of a name's task, 0 for none
  armed,         \* live cron tasks, whether or not the map still has them
  age,           \* age of the next task
  running,       \* names that are mid-execution
  pc, name,      \* per caller and run; whose files it works on
  seen,          \* per caller: its listing
  text, fd,      \* per writer: what it writes, and where its descriptor leads
  fired,         \* number of firings so far
  skipped,       \* runs the no-overlap guard turned away
  raced,         \* ghost: a refresh was applied before start was
  muddled,       \* ghost: saves have overlapped, or files were edited by hand
  contested,     \* ghost: names to whose history two runs appended at once
  owed,          \* ghost: runs whose record the scheduler has done with
  barred,        \* ghost: runs that fired under a pause or a disabled definition
  requests, edits, faults
files   == <<disk, tmp>>
cron    == <<tasks, armed, age>>
control == <<pc, name>>
bounds  == <<requests, edits, faults>>
ghosts  == <<raced, muddled, contested, owed, barred>>
vars    == <<paused, files, cron, running, control, seen, text, fd, fired, skipped,
             ghosts, bounds>>

Definition == [schedule : Schedules, enabled : BOOLEAN]
Record     == [run : Runs, status : {"success", "failed", "skipped"}]
Absent     == [contents |-> "none"]
Torn       == [contents |-> "partial"]  \* truncated, or two writers' bytes
NoText     == [contents |-> "nothing to write"]
NoName     == "none"
Nothing    == [n \in Names |-> Absent]

DefinitionOf(n) == <<"definition", n>>
HistoryOf(n)    == <<"history", n>>
Files == {"definition", "history"} \X Names
FileOf(w) == IF w \in Runs THEN HistoryOf(name[w]) ELSE DefinitionOf(name[w])

Goto(a, l) == pc' = [pc EXCEPT ![a] = l]
Fault      == faults < MaxFaults /\ faults' = faults + 1

Init ==
  /\ paused = FALSE
  /\ disk \in {d \in [Files -> Definition \cup {Absent, [runs |-> <<>>]}] :
                 \A n \in Names : /\ d[HistoryOf(n)] = [runs |-> <<>>]
                                  /\ d[DefinitionOf(n)] \in Definition \cup {Absent}}
  /\ tmp = [f \in Files |-> Absent]
  /\ tasks = [n \in Names |-> 0] /\ armed = {} /\ age = 1 /\ running = {}
  /\ pc = [a \in Callers \cup Runs |-> IF a = Boot THEN "list" ELSE "idle"]
  /\ name = [a \in Callers \cup Runs |-> NoName]
  /\ seen = [c \in Callers |-> Nothing]
  /\ text = [w \in Writers |-> NoText] /\ fd = [w \in Writers |-> "none"]
  /\ fired = 0 /\ skipped = {}
  /\ raced = FALSE /\ muddled = FALSE /\ contested = {} /\ owed = {} /\ barred = {}
  /\ requests = 0 /\ edits = 0 /\ faults = 0

-----------------------------------------------------------------------------
(* writeJsonAtomic: writeFile opens and fills, rename publishes.  All      *)
(* writers of a file share its temporary name.                             *)

OpenTmp(w) ==
  /\ pc[w] = "open" /\ Goto(w, "fill")
  /\ tmp' = [tmp EXCEPT ![FileOf(w)] = Torn]
  /\ fd' = [fd EXCEPT ![w] = "tmp"]
  /\ UNCHANGED <<paused, disk, cron, running, name, seen, text, fired, skipped, ghosts, bounds>>

(* Bytes written over another writer's may leave a tail of them.           *)
Overlay(old, new) == IF old = Torn THEN {new} ELSE {new, Torn}

Fill(w) ==
  /\ pc[w] = "fill" /\ Goto(w, "rename")
  /\ LET f == FileOf(w)
     IN  \/ /\ fd[w] = "tmp"
            /\ \E new \in Overlay(tmp[f], text[w]) : tmp' = [tmp EXCEPT ![f] = new]
            /\ UNCHANGED disk
         \/ /\ fd[w] = "file"
            /\ \E new \in Overlay(disk[f], text[w]) : disk' = [disk EXCEPT ![f] = new]
            /\ UNCHANGED tmp
         \/ fd[w] = "gone" /\ UNCHANGED files
  /\ fd' = [fd EXCEPT ![w] = "none"]
  /\ UNCHANGED <<paused, cron, running, name, seen, text, fired, skipped, ghosts, bounds>>

(* A descriptor opened before the rename follows the file.                 *)
Publish(w) ==
  LET f == FileOf(w)
  IN  /\ tmp[f] # Absent
      /\ disk' = [disk EXCEPT ![f] = tmp[f]] /\ tmp' = [tmp EXCEPT ![f] = Absent]
      /\ fd' = [v \in Writers |->
                  CASE FileOf(v) = f /\ fd[v] = "tmp"  -> "file"
                    [] FileOf(v) = f /\ fd[v] = "file" -> "gone"
                    [] OTHER -> fd[v]]

(* Another writer has renamed the temporary file away.                     *)
NothingToRename(w) == tmp[FileOf(w)] = Absent /\ UNCHANGED <<files, fd>>

-----------------------------------------------------------------------------
(* Saving a definition.                                                    *)

(* writeDefinition reads the definition it replaces, and rejects the       *)
(* request if that cannot be parsed.                                       *)
Save(c, n, d) ==
  /\ pc[c] = "idle" /\ requests < MaxRequests /\ requests' = requests + 1
  /\ d.schedule \in Valid
  /\ disk[DefinitionOf(n)] # Torn
  /\ Goto(c, "open")
  /\ name' = [name EXCEPT ![c] = n]
  /\ text' = [text EXCEPT ![c] = d]
  /\ muddled' = (muddled \/ \E o \in Callers : pc[o] # "idle")
  /\ barred' = {r \in barred : name[r] # n}
  /\ UNCHANGED <<paused, files, cron, running, seen, fd, fired, skipped, raced, contested,
                 owed, edits, faults>>

SaveRenamed(c) ==
  /\ pc[c] = "rename"
  /\ \/ Publish(c) /\ Goto(c, "list")
     \/ NothingToRename(c) /\ Goto(c, "idle")
  /\ text' = [text EXCEPT ![c] = NoText]
  /\ UNCHANGED <<paused, cron, running, name, seen, fired, skipped, ghosts, bounds>>

(* listDefinitions: one file that cannot be parsed fails them all.         *)
List(c) ==
  /\ pc[c] = "list"
  /\ IF \E n \in Names : disk[DefinitionOf(n)] = Torn
     THEN Goto(c, "idle") /\ UNCHANGED seen
     ELSE /\ seen' = [seen EXCEPT ![c] = [n \in Names |-> disk[DefinitionOf(n)]]]
          /\ Goto(c, "apply")
  /\ UNCHANGED <<paused, files, cron, running, name, text, fd, fired, skipped, ghosts, bounds>>

Enabled(c)     == {n \in Names : seen[c][n] # Absent /\ seen[c][n].enabled}

Schedulable(c) == {n \in Enabled(c) : seen[c][n].schedule \in Valid}
Mapped(S)      == {t \in armed : t.name \in S /\ tasks[t.name] = t.age}
NewTasks(c)    == {[age |-> age, name |-> n, schedule |-> seen[c][n].schedule] :
                     n \in Schedulable(c)}

StartApply ==
  /\ pc[Boot] = "apply" /\ Goto(Boot, "idle")
  /\ armed' = armed \cup NewTasks(Boot)
  /\ tasks' = [n \in Names |-> IF n \in Schedulable(Boot) THEN age ELSE tasks[n]]
  /\ age' = age + 1
  /\ seen' = [seen EXCEPT ![Boot] = Nothing]
  /\ UNCHANGED <<paused, files, running, name, text, fd, fired, skipped, ghosts, bounds>>

(* Mutant: a task that is there is not replaced.                           *)
RefreshApplyNewOnly(c) ==
  /\ pc[c] = "apply" /\ Goto(c, "idle")
  /\ armed' = (armed \ Mapped(Names \ Enabled(c)))
                \cup {t \in NewTasks(c) : tasks[t.name] = 0}
  /\ tasks' = [n \in Names |-> IF n \notin Enabled(c) THEN 0
                               ELSE IF tasks[n] = 0 /\ n \in Schedulable(c) THEN age
                               ELSE tasks[n]]
  /\ age' = age + 1
  /\ seen' = [seen EXCEPT ![c] = Nothing]
  /\ raced' = (raced \/ pc[Boot] # "idle")
  /\ UNCHANGED <<paused, files, running, name, text, fd, fired, skipped, muddled,
                 contested, owed, barred, bounds>>

(* An enabled definition whose expression is invalid keeps its old task.   *)
RefreshApply(c) ==
  /\ pc[c] = "apply" /\ Goto(c, "idle")
  /\ armed' = (armed \ Mapped((Names \ Enabled(c)) \cup Schedulable(c))) \cup NewTasks(c)
  /\ tasks' = [n \in Names |-> IF n \in Schedulable(c) THEN age
                               ELSE IF n \in Enabled(c) THEN tasks[n] ELSE 0]
  /\ age' = age + 1
  /\ seen' = [seen EXCEPT ![c] = Nothing]
  /\ raced' = (raced \/ pc[Boot] # "idle")
  /\ UNCHANGED <<paused, files, running, name, text, fd, fired, skipped, muddled,
                 contested, owed, barred, bounds>>

-----------------------------------------------------------------------------
(* fireRoutine.                                                            *)

(* Whether what the user last said forbids a run of n, and nothing is      *)
(* being said about n.                                                     *)
Forbidden(n) ==
  \/ paused
  \/ /\ disk[DefinitionOf(n)] \in Definition /\ ~disk[DefinitionOf(n)].enabled
     /\ \A c \in Clients : pc[c] \in {"open", "fill", "rename"} => name[c] # n

RecordOf(r, status) == [run |-> r, status |-> status]
ToAppend(r, status) == /\ Goto(r, "append")
                       /\ text' = [text EXCEPT ![r] = RecordOf(r, status)]

Fire(t) ==
  LET r == fired + 1
  IN  /\ t \in armed /\ r \in Runs /\ fired' = r
      /\ name' = [name EXCEPT ![r] = t.name]
      /\ barred' = IF Forbidden(t.name) THEN barred \cup {r} ELSE barred
      /\ IF t.name \in running
         THEN /\ skipped' = skipped \cup {r}
              /\ ToAppend(r, "skipped")
              /\ UNCHANGED running
         ELSE /\ running' = running \cup {t.name}
              /\ Goto(r, "read")
              /\ UNCHANGED <<skipped, text>>
      /\ UNCHANGED <<paused, files, cron, seen, fd, raced, muddled, contested, owed, bounds>>

(* Mutant: the definition is trusted to be as it was when the task was made.*)
ReadDefinitionTrusting(r) ==
  /\ pc[r] = "read"
  /\ Goto(r, "execute")
  /\ UNCHANGED <<paused, files, cron, running, name, seen, text, fd, fired, skipped, ghosts,
                 bounds>>

(* The definition is read anew.                                            *)
ReadDefinition(r) ==
  /\ pc[r] = "read"
  /\ LET d == disk[DefinitionOf(name[r])]
     IN  \/ d = Absent /\ Goto(r, "drop") /\ UNCHANGED text
         \/ d = Torn /\ ToAppend(r, "failed")
         \/ d \in Definition /\ ~d.enabled /\ ToAppend(r, "skipped")
         \/ d \in Definition /\ d.enabled /\ Goto(r, "execute") /\ UNCHANGED text
  /\ UNCHANGED <<paused, files, cron, running, name, seen, fd, fired, skipped, ghosts, bounds>>

(* Mutant: finally covers the guard, so a skipped run frees the routine too.*)
EndAlways(r) == /\ Goto(r, "ended") /\ text' = [text EXCEPT ![r] = NoText]
                /\ running' = running \ {name[r]}

(* finally: the run frees its routine.                                     *)
End(r) == /\ Goto(r, "ended") /\ text' = [text EXCEPT ![r] = NoText]
          /\ running' = IF r \in skipped THEN running ELSE running \ {name[r]}

(* The definition is gone; whatever task the name has by now goes too.     *)
Drop(r) ==
  /\ pc[r] = "drop" /\ End(r)
  /\ armed' = armed \ Mapped({name[r]})
  /\ tasks' = [tasks EXCEPT ![name[r]] = 0]
  /\ UNCHANGED <<paused, files, age, name, seen, fd, fired, skipped, ghosts, bounds>>

(* PromptDrivenExecutor: under a pause, or if the privacy state cannot be  *)
(* read, a template is the result, and no evidence is sent.                *)
CheckPause(r) ==
  /\ pc[r] = "execute"
  /\ \/ paused /\ ToAppend(r, "success") /\ UNCHANGED faults
     \/ ~paused /\ Goto(r, "send") /\ UNCHANGED <<text, faults>>
     \/ ToAppend(r, "success") /\ Fault
  /\ UNCHANGED <<paused, files, cron, running, name, seen, fd, fired, skipped, ghosts,
                 requests, edits>>

(* Evidence is retrieved and sent; without an answer from the model, or    *)
(* without a model, a template takes its place.                            *)
Send(r) ==
  /\ pc[r] = "send"
  /\ \/ ToAppend(r, "success") /\ UNCHANGED faults
     \/ ToAppend(r, "failed") /\ Fault
  /\ UNCHANGED <<paused, files, cron, running, name, seen, fd, fired, skipped, ghosts,
                 requests, edits>>

Appending(n) == {r \in Runs : name[r] = n /\ pc[r] \in {"open", "fill", "rename"}}

(* appendRun reads the history and puts the record in front.  Its failure  *)
(* is logged.                                                              *)
AppendRun(r) ==
  LET history == disk[HistoryOf(name[r])]
  IN  /\ pc[r] = "append"
      /\ IF history = Torn
         THEN End(r) /\ owed' = owed \cup {r} /\ UNCHANGED contested
         ELSE /\ text' = [text EXCEPT ![r] = [runs |-> <<text[r]>> \o history.runs]]
              /\ Goto(r, "open")
              /\ contested' = IF Appending(name[r]) = {} THEN contested
                              ELSE contested \cup {name[r]}
              /\ UNCHANGED <<running, owed>>
      /\ UNCHANGED <<paused, files, cron, name, seen, fd, fired, skipped, raced, muddled,
                     barred, bounds>>

HistoryRenamed(r) ==
  /\ pc[r] = "rename"
  /\ Publish(r) \/ NothingToRename(r)
  /\ End(r) /\ owed' = owed \cup {r}
  /\ UNCHANGED <<paused, cron, name, seen, fired, skipped, raced, muddled, contested,
                 barred, bounds>>

-----------------------------------------------------------------------------
(* The environment: the user's pause, files removed by hand, the process.  *)

SetPaused ==
  /\ edits < MaxEdits /\ edits' = edits + 1
  /\ paused' = ~paused
  /\ barred' = IF paused THEN {} ELSE barred
  /\ UNCHANGED <<files, cron, running, control, seen, text, fd, fired, skipped, raced,
                 muddled, contested, owed, requests, faults>>

RemoveByHand(n) ==
  /\ edits < MaxEdits /\ edits' = edits + 1
  /\ disk[DefinitionOf(n)] # Absent
  /\ disk' = [disk EXCEPT ![DefinitionOf(n)] = Absent]
  /\ fd' = [w \in Writers |-> IF FileOf(w) = DefinitionOf(n) /\ fd[w] = "file"
                              THEN "gone" ELSE fd[w]]
  /\ muddled' = TRUE
  /\ UNCHANGED <<paused, tmp, cron, running, control, seen, text, fired, skipped, raced,
                 contested, owed, barred, requests, faults>>

(* A signal destroys the tasks and exits at once, as a crash does.         *)
Restart ==
  /\ Fault
  /\ pc' = [a \in Callers \cup Runs |->
              IF a = Boot THEN "list" ELSE IF a \in Runs /\ a <= fired THEN "ended" ELSE "idle"]
  /\ tasks' = [n \in Names |-> 0] /\ armed' = {} /\ age' = 1 /\ running' = {}
  /\ seen' = [c \in Callers |-> Nothing]
  /\ text' = [w \in Writers |-> NoText] /\ fd' = [w \in Writers |-> "none"]
  /\ raced' = FALSE
  /\ muddled' = (\E n \in Names : disk[DefinitionOf(n)] = Torn)
  /\ UNCHANGED <<paused, files, name, fired, skipped, contested, owed, barred, requests, edits>>

-----------------------------------------------------------------------------
Write(w)   == OpenTmp(w) \/ Fill(w)
SaveStep   == \E c \in Clients : Write(c) \/ SaveRenamed(c) \/ List(c) \/ RefreshApply(c)
StartStep  == List(Boot) \/ StartApply
RunStep(r) == \/ ReadDefinition(r) \/ Drop(r) \/ CheckPause(r) \/ Send(r) \/ AppendRun(r)
              \/ Write(r) \/ HistoryRenamed(r)

Next == \/ \E c \in Clients, n \in Names, d \in Definition : Save(c, n, d)
        \/ SaveStep \/ StartStep
        \/ \E t \in armed : Fire(t)
        \/ \E r \in Runs : RunStep(r)
        \/ SetPaused \/ (\E n \in Names : RemoveByHand(n)) \/ Restart

Spec == Init /\ [][Next]_vars

-----------------------------------------------------------------------------
Task    == [age : Nat \ {0}, name : Names, schedule : Valid]
History == [runs : Seq(Record)]

TypeOK ==
  /\ paused \in BOOLEAN
  /\ {disk, tmp} \subseteq [Files -> Definition \cup History \cup {Absent, Torn}]
  /\ \A n \in Names : /\ disk[DefinitionOf(n)] \in Definition \cup {Absent, Torn}
                      /\ tmp[DefinitionOf(n)] \in Definition \cup {Absent, Torn}
                      /\ disk[HistoryOf(n)] \in History \cup {Torn}
                      /\ tmp[HistoryOf(n)] \in History \cup {Absent, Torn}
  /\ tasks \in [Names -> Nat] /\ armed \subseteq Task /\ age \in Nat \ {0}
  /\ running \subseteq Names
  /\ pc \in [Callers \cup Runs ->
               {"idle", "open", "fill", "rename", "list", "apply", "read", "drop", "execute",
                "send", "append", "ended"}]
  /\ name \in [Callers \cup Runs -> Names \cup {NoName}]
  /\ seen \in [Callers -> [Names -> Definition \cup {Absent}]]
  /\ text \in [Writers -> Definition \cup Record \cup History \cup {NoText}]
  /\ fd \in [Writers -> {"none", "tmp", "file", "gone"}]
  /\ fired \in 0..MaxRuns /\ skipped \subseteq Runs
  /\ raced \in BOOLEAN /\ muddled \in BOOLEAN /\ contested \subseteq Names
  /\ owed \subseteq Runs /\ barred \subseteq Runs
  /\ requests \in 0..MaxRequests /\ edits \in 0..MaxEdits /\ faults \in 0..MaxFaults

UnderWay(n) == {r \in Runs : name[r] = n /\ pc[r] \notin {"idle", "ended"} /\ r \notin skipped}

(* ROUT-07: runs of one routine never overlap, whatever tasks fire it, and *)
(* a run that has ended, thrown or found nothing to do leaves the routine  *)
(* free for the next.                                                      *)
OneRunPerRoutine ==
  \A n \in Names : Cardinality(UnderWay(n)) = IF n \in running THEN 1 ELSE 0

(* The map has every live cron task, so refresh can replace and stop can   *)
(* destroy it, unless a refresh was applied before start's own listing.    *)
EveryTaskMapped ==
  ~raced => \A n \in Names : {t.age : t \in {t \in armed : t.name = n}} = {tasks[n]} \ {0}

(* ROUT-05: every run the scheduler has finished with is in a history that *)
(* can be read, unless two runs of the routine appended at once, which     *)
(* only a skipped run can bring about.                                     *)
HistoryKept ==
  \A n \in Names :
    /\ n \in contested => \E r \in skipped : name[r] = n
    /\ n \notin contested =>
         /\ disk[HistoryOf(n)] # Torn
         /\ \A r \in owed : name[r] = n =>
              \E i \in DOMAIN disk[HistoryOf(n)].runs : disk[HistoryOf(n)].runs[i].run = r

(* A run that fired under a pause, or for a disabled routine, gathers and  *)
(* sends no evidence unless the user has taken that back, even if the task *)
(* that fired it is stale or no longer in the map.                         *)
BarredRunsSendNothing == \A r \in barred : pc[r] # "send"

(* routine-create's "picked up immediately": when nobody is saving, the    *)
(* live tasks are those of the enabled definitions on disk, each with its  *)
(* schedule, unless saves overlapped or files were edited by hand.         *)
ScheduledAsSaved ==
  ~muddled /\ (\A c \in Callers : pc[c] = "idle") =>
    {[name |-> t.name, schedule |-> t.schedule] : t \in armed}
      = {[name |-> n, schedule |-> disk[DefinitionOf(n)].schedule] :
           n \in {n \in Names : /\ disk[DefinitionOf(n)] \in Definition
                                /\ disk[DefinitionOf(n)].enabled
                                /\ disk[DefinitionOf(n)].schedule \in Valid}}
=============================================================================
