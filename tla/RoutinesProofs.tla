---------------------------- MODULE RoutinesProofs ----------------------------
(***************************************************************************)
(* Runs of a routine never overlap, a history keeps every run unless two   *)
(* append to it at once, the scheduler's map has every task unless a       *)
(* refresh overtakes start, barred runs send nothing, and what is saved is *)
(* what is scheduled: for any routines, callers, schedules and bounds.     *)
(***************************************************************************)
EXTENDS Routines, FiniteSetTheorems, TLAPS

InRun == {"read", "drop", "execute", "send", "append", "open", "fill", "rename"}
Writing == {"open", "fill", "rename"}

(* Who can be where, and for whom.                                         *)
Placed ==
  /\ \A c \in Clients : /\ pc[c] \in {"idle", "list", "apply"} \cup Writing
                        /\ pc[c] \in Writing => name[c] \in Names
  /\ pc[Boot] \in {"idle", "list", "apply"}
  /\ \A r \in Runs : /\ pc[r] \in {"idle", "ended"} \cup InRun
                     /\ pc[r] = "idle" <=> fired < r
                     /\ r <= fired => name[r] \in Names
                     /\ r \in skipped => r <= fired

(* What a writer is about to write.                                        *)
Dressed ==
  /\ \A c \in Clients : pc[c] \in {"open", "fill"} => text[c] \in Definition
  /\ \A r \in Runs : /\ pc[r] = "append" => text[r] \in Record
                     /\ pc[r] \in {"open", "fill"} => text[r] \in History

(* The guard knows exactly the routines that are under way.                *)
Busy == \A n \in Names : /\ n \in running <=> UnderWay(n) # {}
                         /\ \A r, s \in UnderWay(n) : r = s

(* Until start has applied its listing there is no task, unless a refresh  *)
(* has come first.                                                         *)
Mapping ==
  ~raced =>
    /\ pc[Boot] # "idle" => armed = {} /\ \A n \in Names : tasks[n] = 0
    /\ \A t \in armed : tasks[t.name] = t.age
    /\ \A n \in Names : tasks[n] # 0 => \E t \in armed : t.name = n

(* The user's last word on n is that it does not run.                      *)
Off(n) == /\ \A d \in Definition : d.enabled => disk[DefinitionOf(n)] # d
          /\ disk[DefinitionOf(n)] # Torn
          /\ \A c \in Clients : pc[c] \in Writing => name[c] # n

Barred ==
  \A r \in barred : /\ r \in Runs /\ r <= fired
                    /\ pc[r] = "read" => paused \/ Off(name[r])
                    /\ pc[r] = "execute" => paused
                    /\ pc[r] # "send"

IInv == TypeOK /\ Placed /\ Dressed /\ Busy /\ Mapping /\ Barred

-----------------------------------------------------------------------------
LEMMA Distinct ==
  /\ Clients \cap Runs = {} /\ Boot \notin Clients /\ Boot \notin Runs
  /\ Runs \subseteq Nat \ {0}
  /\ \A n \in Names : DefinitionOf(n) \in Files /\ HistoryOf(n) \in Files
  /\ \A n, m : DefinitionOf(n) # HistoryOf(m)
  /\ \A n, m : DefinitionOf(n) = DefinitionOf(m) => n = m
  /\ \A n, m : HistoryOf(n) = HistoryOf(m) => n = m
BY RoutineAssumption DEF Runs, Boot, DefinitionOf, HistoryOf, Files

LEMMA Kinds ==
  /\ \A d \in Definition : d # Absent /\ d # Torn /\ d.enabled \in BOOLEAN
  /\ Absent # Torn
BY DEF Definition, Absent, Torn

LEMMA InitSound == Init => IInv
<1> SUFFICES ASSUME Init PROVE IInv
  OBVIOUS
<1>1. TypeOK
  <2>1. [runs |-> <<>>] \in History
    BY <<>> \in Seq(Record) DEF History
  <2>2. /\ disk \in [Files -> Definition \cup {Absent, [runs |-> <<>>]}]
        /\ \A n \in Names : /\ disk[HistoryOf(n)] = [runs |-> <<>>]
                            /\ disk[DefinitionOf(n)] \in Definition \cup {Absent}
    BY DEF Init
  <2>3. tmp \in [Files -> {Absent}]
    BY DEF Init
  <2>4. {disk, tmp} \subseteq [Files -> Definition \cup History \cup {Absent, Torn}]
    <3>1. disk \in [Files -> Definition \cup History \cup {Absent, Torn}]
      BY <2>1, <2>2
    <3>2. tmp \in [Files -> Definition \cup History \cup {Absent, Torn}]
      BY <2>3
    <3> QED
      BY <3>1, <3>2
  <2>5. \A n \in Names : /\ disk[DefinitionOf(n)] \in Definition \cup {Absent, Torn}
                         /\ tmp[DefinitionOf(n)] \in Definition \cup {Absent, Torn}
                         /\ disk[HistoryOf(n)] \in History \cup {Torn}
                         /\ tmp[HistoryOf(n)] \in History \cup {Absent, Torn}
    BY <2>1, <2>2, <2>3, Distinct
  <2>6. /\ pc \in [Callers \cup Runs -> {"list", "idle"}]
        /\ name \in [Callers \cup Runs -> {NoName}]
        /\ seen \in [Callers -> [Names -> {Absent}]]
        /\ text \in [Writers -> {NoText}] /\ fd \in [Writers -> {"none"}]
        /\ tasks \in [Names -> {0}]
    BY DEF Init, Nothing
  <2>7. /\ pc \in [Callers \cup Runs ->
               {"idle", "open", "fill", "rename", "list", "apply", "read", "drop", "execute",
                "send", "append", "ended"}]
        /\ name \in [Callers \cup Runs -> Names \cup {NoName}]
        /\ seen \in [Callers -> [Names -> Definition \cup {Absent}]]
        /\ text \in [Writers -> Definition \cup Record \cup History \cup {NoText}]
        /\ fd \in [Writers -> {"none", "tmp", "file", "gone"}]
        /\ tasks \in [Names -> Nat]
    BY <2>6
  <2>8. /\ fired \in 0..MaxRuns /\ requests \in 0..MaxRequests
        /\ edits \in 0..MaxEdits /\ faults \in 0..MaxFaults
    BY RoutineAssumption DEF Init
  <2>9. /\ paused \in BOOLEAN /\ raced \in BOOLEAN /\ muddled \in BOOLEAN
        /\ armed = {} /\ running = {} /\ skipped = {}
        /\ contested = {} /\ owed = {} /\ barred = {}
    BY Zenon DEF Init
  <2>10. age \in Nat \ {0}
    BY DEF Init
  <2> QED
    BY <2>4, <2>5, <2>7, <2>8, <2>9, <2>10 DEF TypeOK
<1>2. /\ \A a \in Clients \cup Runs : pc[a] = "idle"
      /\ pc[Boot] = "list"
  BY Distinct DEF Init, Callers
<1>3. Placed /\ Dressed
  <2>1. fired = 0
    BY DEF Init
  <2>2. \A r \in Runs : fired < r /\ ~(r <= fired) /\ r \notin skipped
    BY <2>1, Distinct DEF Init
  <2> QED
    BY <1>2, <2>2 DEF Placed, Dressed, Writing
<1>4. Busy /\ Mapping /\ Barred
  BY <1>2, Distinct DEF Init, Busy, UnderWay, Mapping, Barred
<1> QED
  BY <1>1, <1>3, <1>4 DEF IInv

-----------------------------------------------------------------------------
(* Where an action leaves a caller or a run, one fact for all parts of the *)
(* invariant that look at pc.                                              *)
LEMMA PlacedStep ==
  ASSUME IInv, Next
  PROVE  Placed'
<1> USE Distinct DEF IInv, Placed, Writing, InRun, Callers, Writers, Goto
<1>0. /\ pc \in [Callers \cup Runs -> {"idle", "open", "fill", "rename", "list", "apply", "read",
                                   "drop", "execute", "send", "append", "ended"}]
      /\ name \in [Callers \cup Runs -> Names \cup {NoName}]
      /\ fired \in 0..MaxRuns
  BY DEF TypeOK
<1>1. ASSUME NEW c \in Clients, NEW n \in Names, NEW d \in Definition, Save(c, n, d)
      PROVE  Placed'
  BY <1>0, <1>1 DEF Save
<1>2. ASSUME NEW w \in Writers, Write(w)
      PROVE  Placed'
  BY <1>0, <1>2 DEF Write, OpenTmp, Fill
<1>3. ASSUME NEW c \in Clients, SaveRenamed(c)
      PROVE  Placed'
  BY <1>0, <1>3 DEF SaveRenamed
<1>4. ASSUME NEW c \in Callers, List(c)
      PROVE  Placed'
  BY <1>0, <1>4 DEF List
<1>5. ASSUME NEW c \in Clients, RefreshApply(c)
      PROVE  Placed'
  BY <1>0, <1>5 DEF RefreshApply
<1>6. CASE StartApply
  BY <1>0, <1>6 DEF StartApply
<1>7. ASSUME NEW t \in armed, Fire(t)
      PROVE  Placed'
  <2> DEFINE r == fired + 1
  <2>1. t.name \in Names
    BY DEF TypeOK, Task
  <2>2. /\ r \in Runs /\ fired' = r /\ name' = [name EXCEPT ![r] = t.name]
        /\ \E l \in {"append", "read"} : pc' = [pc EXCEPT ![r] = l]
        /\ skipped' = skipped \/ skipped' = skipped \cup {r}
    BY <1>7 DEF Fire, ToAppend
  <2> QED
    BY <1>0, <2>1, <2>2
<1>8. ASSUME NEW r \in Runs,
             ReadDefinition(r) \/ Drop(r) \/ CheckPause(r) \/ Send(r) \/ AppendRun(r)
               \/ HistoryRenamed(r)
      PROVE  Placed'
  BY <1>0, <1>8 DEF ReadDefinition, Drop, CheckPause, Send, AppendRun, HistoryRenamed, End,
                    ToAppend
<1>9. CASE SetPaused \/ \E n \in Names : RemoveByHand(n)
  BY <1>0, <1>9 DEF SetPaused, RemoveByHand, control
<1>10. CASE Restart
  BY <1>0, <1>10 DEF Restart
<1> QED
  BY <1>1, <1>2, <1>3, <1>4, <1>5, <1>6, <1>7, <1>8, <1>9, <1>10
     DEF Next, SaveStep, StartStep, RunStep

LEMMA DressedStep ==
  ASSUME IInv, Next
  PROVE  Dressed'
<1> USE Distinct DEF IInv, Placed, Dressed, Writing, InRun, Callers, Writers, Goto
<1>0. /\ pc \in [Callers \cup Runs -> {"idle", "open", "fill", "rename", "list", "apply", "read",
                                   "drop", "execute", "send", "append", "ended"}]
      /\ name \in [Callers \cup Runs -> Names \cup {NoName}]
      /\ text \in [Writers -> Definition \cup Record \cup History \cup {NoText}]
      /\ fired \in 0..MaxRuns
  BY DEF TypeOK
<1>a. \A r \in Runs, s \in {"success", "failed", "skipped"} : RecordOf(r, s) \in Record
  BY DEF RecordOf, Record
<1>1. ASSUME NEW c \in Clients, NEW n \in Names, NEW d \in Definition, Save(c, n, d)
      PROVE  Dressed'
  BY <1>0, <1>1 DEF Save
<1>2. ASSUME NEW w \in Writers, Write(w)
      PROVE  Dressed'
  BY <1>0, <1>2 DEF Write, OpenTmp, Fill
<1>3. ASSUME NEW c \in Clients, SaveRenamed(c)
      PROVE  Dressed'
  BY <1>0, <1>3 DEF SaveRenamed
<1>4. ASSUME NEW c \in Callers, List(c) \/ RefreshApply(c) \/ StartApply
      PROVE  Dressed'
  BY <1>0, <1>4 DEF List, RefreshApply, StartApply
<1>5. ASSUME NEW t \in armed, Fire(t)
      PROVE  Dressed'
  <2> DEFINE r == fired + 1
  <2>1. /\ r \in Runs
        /\ \/ pc' = [pc EXCEPT ![r] = "append"]
              /\ text' = [text EXCEPT ![r] = RecordOf(r, "skipped")]
           \/ pc' = [pc EXCEPT ![r] = "read"] /\ text' = text
    BY <1>5 DEF Fire, ToAppend
  <2> QED
    BY <1>0, <1>a, <2>1
<1>6. ASSUME NEW r \in Runs,
             ReadDefinition(r) \/ Drop(r) \/ CheckPause(r) \/ Send(r) \/ HistoryRenamed(r)
      PROVE  Dressed'
  BY <1>0, <1>a, <1>6 DEF ReadDefinition, Drop, CheckPause, Send, HistoryRenamed, End, ToAppend
<1>7. ASSUME NEW r \in Runs, AppendRun(r)
      PROVE  Dressed'
  <2> DEFINE history == disk[HistoryOf(name[r])]
  <2>1. name[r] \in Names /\ text[r] \in Record
    BY <1>0, <1>7 DEF AppendRun
  <2>2. history \in History \cup {Torn}
    BY <2>1 DEF TypeOK
  <2>3. CASE history = Torn
    BY <1>0, <1>7, <2>3 DEF AppendRun, End
  <2>4. CASE history # Torn
    <3>1. [runs |-> <<text[r]>> \o history.runs] \in History
      BY <2>1, <2>2, <2>4 DEF History
    <3> QED
      BY <1>0, <1>7, <2>4, <3>1 DEF AppendRun
  <2> QED
    BY <2>3, <2>4
<1>8. CASE SetPaused \/ \E n \in Names : RemoveByHand(n)
  BY <1>0, <1>8 DEF SetPaused, RemoveByHand, control
<1>9. CASE Restart
  BY <1>0, <1>9 DEF Restart
<1> QED
  BY <1>1, <1>2, <1>3, <1>4, <1>5, <1>6, <1>7, <1>8, <1>9
     DEF Next, SaveStep, StartStep, RunStep

-----------------------------------------------------------------------------
(* A run frees its routine exactly if it is the one under way.             *)
LEMMA EndBusy ==
  ASSUME IInv, NEW r \in Runs, pc[r] \in InRun, End(r), name' = name, skipped' = skipped
  PROVE  Busy'
<1> USE Distinct DEF IInv, Placed, InRun, Callers, Goto, End
<1>0. /\ pc \in [Callers \cup Runs -> {"idle", "open", "fill", "rename", "list", "apply", "read",
                                   "drop", "execute", "send", "append", "ended"}]
      /\ fired \in 0..MaxRuns
  BY DEF TypeOK
<1>1. name[r] \in Names
  BY <1>0
<1>2. ASSUME NEW n \in Names
      PROVE  UnderWay(n)' = UnderWay(n) \ {r}
  BY <1>0 DEF UnderWay
<1>3. CASE r \in skipped
  <2>1. \A n \in Names : UnderWay(n)' = UnderWay(n)
    BY <1>2, <1>3 DEF UnderWay
  <2> QED
    BY <2>1, <1>3 DEF Busy
<1>4. CASE r \notin skipped
  <2>1. r \in UnderWay(name[r]) /\ \A n \in Names : n # name[r] => r \notin UnderWay(n)
    BY <1>4 DEF UnderWay
  <2>2. UnderWay(name[r])' = {}
    BY <1>1, <1>2, <2>1 DEF Busy
  <2>3. \A n \in Names : n # name[r] => UnderWay(n)' = UnderWay(n)
    BY <1>2, <2>1
  <2>4. running' = running \ {name[r]}
    BY <1>4
  <2> QED
    BY <1>1, <2>2, <2>3, <2>4 DEF Busy
<1> QED
  BY <1>3, <1>4

LEMMA BusyStep ==
  ASSUME IInv, Next
  PROVE  Busy'
<1> USE Distinct DEF IInv, Placed, Writing, InRun, Callers, Writers, Goto
<1>0. /\ pc \in [Callers \cup Runs -> {"idle", "open", "fill", "rename", "list", "apply", "read",
                                   "drop", "execute", "send", "append", "ended"}]
      /\ name \in [Callers \cup Runs -> Names \cup {NoName}]
      /\ fired \in 0..MaxRuns
  BY DEF TypeOK
<1>a. ASSUME running' = running, skipped' = skipped,
             \A r \in Runs : /\ name[r]' = name[r]
                             /\ pc[r]' \in {"idle", "ended"} <=> pc[r] \in {"idle", "ended"}
      PROVE  Busy'
  <2>1. \A n \in Names : UnderWay(n)' = UnderWay(n)
    BY <1>a DEF UnderWay
  <2> QED
    BY <1>a, <2>1 DEF Busy
<1>1. ASSUME NEW c \in Clients, NEW n \in Names, NEW d \in Definition, Save(c, n, d)
      PROVE  Busy'
  BY <1>0, <1>1, <1>a DEF Save
<1>2. ASSUME NEW w \in Writers, Write(w)
      PROVE  Busy'
  BY <1>0, <1>2, <1>a DEF Write, OpenTmp, Fill
<1>3. ASSUME NEW c \in Clients, SaveRenamed(c)
      PROVE  Busy'
  BY <1>0, <1>3, <1>a DEF SaveRenamed
<1>4. ASSUME NEW c \in Callers, List(c) \/ StartApply
      PROVE  Busy'
  BY <1>0, <1>4, <1>a DEF List, StartApply
<1>5. ASSUME NEW c \in Clients, RefreshApply(c)
      PROVE  Busy'
  BY <1>0, <1>5, <1>a DEF RefreshApply
<1>6. ASSUME NEW t \in armed, Fire(t)
      PROVE  Busy'
  <2> DEFINE r == fired + 1
  <2>1. r \in Runs /\ pc[r] = "idle" /\ t.name \in Names
    BY <1>0, <1>6 DEF Fire, TypeOK, Task
  <2>2. CASE t.name \in running
    <3>1. /\ skipped' = skipped \cup {r} /\ running' = running
          /\ pc' = [pc EXCEPT ![r] = "append"] /\ name' = [name EXCEPT ![r] = t.name]
      BY <1>6, <2>2 DEF Fire, ToAppend
    <3>2. \A n \in Names : UnderWay(n)' = UnderWay(n)
      BY <1>0, <2>1, <3>1 DEF UnderWay
    <3> QED
      BY <3>1, <3>2 DEF Busy
  <2>3. CASE t.name \notin running
    <3>1. /\ skipped' = skipped /\ running' = running \cup {t.name}
          /\ pc' = [pc EXCEPT ![r] = "read"] /\ name' = [name EXCEPT ![r] = t.name]
      BY <1>6, <2>3 DEF Fire
    <3>2. r \notin skipped
      BY <1>0, <2>1
    <3>3. UnderWay(t.name) = {}
      BY <2>1, <2>3 DEF Busy
    <3>4. UnderWay(t.name)' = {r}
      BY <1>0, <2>1, <3>1, <3>2, <3>3 DEF UnderWay
    <3>5. \A n \in Names : n # t.name => UnderWay(n)' = UnderWay(n)
      BY <1>0, <2>1, <3>1 DEF UnderWay
    <3> QED
      BY <2>1, <3>1, <3>4, <3>5 DEF Busy
  <2> QED
    BY <2>2, <2>3
<1>7. ASSUME NEW r \in Runs, ReadDefinition(r) \/ CheckPause(r) \/ Send(r)
      PROVE  Busy'
  BY <1>0, <1>7, <1>a DEF ReadDefinition, CheckPause, Send, ToAppend
<1>8. ASSUME NEW r \in Runs, Drop(r)
      PROVE  Busy'
  BY <1>8, EndBusy DEF Drop
<1>9. ASSUME NEW r \in Runs, HistoryRenamed(r)
      PROVE  Busy'
  BY <1>9, EndBusy DEF HistoryRenamed
<1>10. ASSUME NEW r \in Runs, AppendRun(r)
       PROVE  Busy'
  <2>1. CASE End(r)
    BY <1>10, <2>1, EndBusy DEF AppendRun
  <2>2. CASE ~End(r)
    BY <1>0, <1>10, <2>2, <1>a DEF AppendRun
  <2> QED
    BY <2>1, <2>2
<1>11. CASE SetPaused \/ \E n \in Names : RemoveByHand(n)
  BY <1>0, <1>11, <1>a DEF SetPaused, RemoveByHand, control
<1>12. CASE Restart
  <2>1. \A r \in Runs : pc'[r] \in {"idle", "ended"}
    BY <1>0, <1>12 DEF Restart
  <2>2. running' = {}
    BY <1>12 DEF Restart
  <2> QED
    BY <2>1, <2>2 DEF Busy, UnderWay
<1> QED
  BY <1>1, <1>2, <1>3, <1>4, <1>5, <1>6, <1>7, <1>8, <1>9, <1>10, <1>11, <1>12
     DEF Next, SaveStep, StartStep, RunStep

-----------------------------------------------------------------------------
LEMMA MappingStep ==
  ASSUME IInv, Next
  PROVE  Mapping'
<1> USE Distinct DEF IInv, Mapping, Callers, Goto
<1>0. /\ pc \in [Callers \cup Runs -> {"idle", "open", "fill", "rename", "list", "apply", "read",
                                   "drop", "execute", "send", "append", "ended"}]
      /\ tasks \in [Names -> Nat] /\ age \in Nat \ {0}
      /\ \A t \in armed : t.name \in Names
  BY DEF TypeOK, Task
<1>a. ASSUME raced' = raced, tasks' = tasks, armed' = armed,
             pc'[Boot] # "idle" => pc[Boot] # "idle"
      PROVE  Mapping'
  BY <1>a
<1>b. ASSUME NEW c \in Callers
      PROVE  /\ \A t \in NewTasks(c) : t.name \in Schedulable(c) /\ t.age = age
             /\ \A n \in Schedulable(c) : \E t \in NewTasks(c) : t.name = n
             /\ Schedulable(c) \subseteq Enabled(c) /\ Enabled(c) \subseteq Names
  <2>1. Schedulable(c) \subseteq Enabled(c) /\ Enabled(c) \subseteq Names
    BY DEF Schedulable, Enabled
  <2>2. ASSUME NEW n \in Schedulable(c)
        PROVE  \E t \in NewTasks(c) : t.name = n
    <3> DEFINE t == [age |-> age, name |-> n, schedule |-> seen[c][n].schedule]
    <3>1. t \in NewTasks(c) /\ t.name = n
      BY DEF NewTasks
    <3> QED
      BY <3>1
  <2>3. ASSUME NEW t \in NewTasks(c)
        PROVE  t.name \in Schedulable(c) /\ t.age = age
    BY DEF NewTasks
  <2> QED
    BY <2>1, <2>2, <2>3
<1>1. ASSUME NEW c \in Clients, NEW n \in Names, NEW d \in Definition, Save(c, n, d)
      PROVE  Mapping'
  BY <1>0, <1>1, <1>a DEF Save, cron
<1>2. ASSUME NEW w \in Writers, Write(w)
      PROVE  Mapping'
  BY <1>0, <1>2, <1>a DEF Write, OpenTmp, Fill, cron, ghosts, Writers
<1>3. ASSUME NEW c \in Clients, SaveRenamed(c)
      PROVE  Mapping'
  BY <1>0, <1>3, <1>a DEF SaveRenamed, cron, ghosts
<1>4. ASSUME NEW c \in Callers, List(c)
      PROVE  Mapping'
  BY <1>0, <1>4, <1>a DEF List, cron, ghosts
<1>5. CASE StartApply
  <2>1. pc[Boot] = "apply" /\ pc'[Boot] = "idle" /\ Boot \in Callers /\ raced' = raced
    BY <1>0, <1>5 DEF StartApply, ghosts
  <2>2. /\ armed' = armed \cup NewTasks(Boot)
        /\ tasks' = [n \in Names |-> IF n \in Schedulable(Boot) THEN age ELSE tasks[n]]
    BY <1>5 DEF StartApply
  <2> HIDE DEF Mapping
  <2>3. ASSUME ~raced
        PROVE  armed = {} /\ \A n \in Names : tasks[n] = 0
    BY <2>1, <2>3 DEF Mapping
  <2>4. ASSUME ~raced
        PROVE  /\ \A t \in armed' : tasks'[t.name] = t.age
               /\ \A n \in Names : tasks'[n] # 0 => \E t \in armed' : t.name = n
    BY <1>b, <2>1, <2>2, <2>3, <2>4
  <2> QED
    BY <2>1, <2>4 DEF Mapping
<1>6. ASSUME NEW c \in Clients, RefreshApply(c)
      PROVE  Mapping'
  <2>1. pc'[Boot] = pc[Boot] /\ c \in Callers
    BY <1>0, <1>6 DEF RefreshApply
  <2>2. /\ armed' = (armed \ Mapped((Names \ Enabled(c)) \cup Schedulable(c))) \cup NewTasks(c)
        /\ tasks' = [n \in Names |-> IF n \in Schedulable(c) THEN age
                                     ELSE IF n \in Enabled(c) THEN tasks[n] ELSE 0]
        /\ raced' = (raced \/ pc[Boot] # "idle")
    BY <1>6 DEF RefreshApply
  <2> HIDE DEF Mapping
  <2>3. ASSUME ~raced'
        PROVE  /\ pc'[Boot] = "idle"
               /\ \A t \in armed : tasks[t.name] = t.age
               /\ \A n \in Names : tasks[n] # 0 => \E t \in armed : t.name = n
    BY <2>1, <2>2, <2>3 DEF Mapping
  <2>4. ASSUME ~raced'
        PROVE  \A t \in armed \ Mapped((Names \ Enabled(c)) \cup Schedulable(c)) :
                 t.name \in Enabled(c) \ Schedulable(c)
    BY <1>0, <1>b, <2>1, <2>3, <2>4 DEF Mapped
  <2>5. ASSUME ~raced', NEW t \in armed'
        PROVE  tasks'[t.name] = t.age
    BY <1>0, <1>b, <2>1, <2>2, <2>3, <2>4, <2>5
  <2>6. ASSUME ~raced', NEW n \in Names, tasks'[n] # 0
        PROVE  \E t \in armed' : t.name = n
    <3>1. CASE n \in Schedulable(c)
      BY <1>b, <2>1, <2>2, <3>1
    <3>2. CASE n \in Enabled(c) \ Schedulable(c)
      <4>1. PICK t \in armed : t.name = n
        BY <2>2, <2>3, <2>6, <3>2
      <4>2. t \notin Mapped((Names \ Enabled(c)) \cup Schedulable(c))
        BY <3>2, <4>1 DEF Mapped
      <4> QED
        BY <2>2, <4>1, <4>2
    <3> QED
      BY <2>2, <2>6, <1>b, <2>1, <3>1, <3>2
  <2> QED
    BY <2>3, <2>5, <2>6 DEF Mapping
<1>7. ASSUME NEW t \in armed, Fire(t)
      PROVE  Mapping'
  BY <1>0, <1>7, <1>a DEF Fire, ToAppend, cron
<1>8. ASSUME NEW r \in Runs, Drop(r)
      PROVE  Mapping'
  <2>1. pc'[Boot] = pc[Boot] /\ raced' = raced
    BY <1>0, <1>8 DEF Drop, End, ghosts
  <2>2. armed' = armed \ Mapped({name[r]}) /\ tasks' = [tasks EXCEPT ![name[r]] = 0]
    BY <1>8 DEF Drop
  <2> QED
    BY <1>0, <2>1, <2>2 DEF Mapped
<1>9. ASSUME NEW r \in Runs,
             ReadDefinition(r) \/ CheckPause(r) \/ Send(r) \/ AppendRun(r) \/ HistoryRenamed(r)
      PROVE  Mapping'
  BY <1>0, <1>9, <1>a DEF ReadDefinition, CheckPause, Send, AppendRun, HistoryRenamed, End,
                          ToAppend, cron, ghosts
<1>10. CASE SetPaused \/ \E n \in Names : RemoveByHand(n)
  BY <1>0, <1>10, <1>a DEF SetPaused, RemoveByHand, control, cron
<1>11. CASE Restart
  BY <1>0, <1>11 DEF Restart
<1> QED
  BY <1>1, <1>2, <1>3, <1>4, <1>5, <1>6, <1>7, <1>8, <1>9, <1>10, <1>11
     DEF Next, SaveStep, StartStep, RunStep, Writers

-----------------------------------------------------------------------------
(* A step that leaves the pause, the definitions and the barred runs as    *)
(* they are, and lets no client begin to write.                            *)
LEMMA BarredKept ==
  ASSUME IInv, paused' = paused, barred' \subseteq barred, fired' \in Nat, fired <= fired',
         \A r \in barred : name'[r] = name[r],
         \A r \in barred' : disk'[DefinitionOf(name[r])] = disk[DefinitionOf(name[r])]
                            \/ ~Off(name[r]),
         \A c \in Clients, r \in barred' :
           pc'[c] \in Writing /\ name'[c] = name[r] => pc[c] \in Writing /\ name[c] = name[r],
         \A r \in barred' : \/ pc'[r] = pc[r] \/ pc'[r] \notin {"read", "execute", "send"}
                            \/ pc[r] = "read" /\ pc'[r] = "execute" /\ ~Off(name[r])
  PROVE  Barred'
<1>0. fired \in Nat
  BY DEF IInv, TypeOK
<1>1. ASSUME NEW r \in barred', Off(name[r])
      PROVE  Off(name[r])'
  BY <1>1 DEF Off, DefinitionOf, IInv, Barred
<1> QED
  BY <1>0, <1>1 DEF IInv, Barred, Runs

LEMMA BarredStep ==
  ASSUME IInv, Next
  PROVE  Barred'
<1> USE Distinct DEF Callers, Writers, Goto
<1>0. /\ pc \in [Callers \cup Runs -> {"idle", "open", "fill", "rename", "list", "apply", "read",
                                   "drop", "execute", "send", "append", "ended"}]
      /\ name \in [Callers \cup Runs -> Names \cup {NoName}]
      /\ disk \in [Files -> Definition \cup History \cup {Absent, Torn}]
      /\ fired \in 0..MaxRuns /\ fired \in Nat
      /\ \A r \in barred : r \in Runs /\ r <= fired /\ name[r] \in Names
  BY DEF IInv, TypeOK, Barred, Placed
<1>1. ASSUME NEW c \in Clients, NEW n \in Names, NEW d \in Definition, Save(c, n, d)
      PROVE  Barred'
  BY <1>0, <1>1, BarredKept DEF Save, files
<1>2. ASSUME NEW w \in Writers, Write(w)
      PROVE  Barred'
  <2>1. /\ paused' = paused /\ barred' = barred /\ fired' = fired /\ name' = name
        /\ \E l \in Writing : pc' = [pc EXCEPT ![w] = l]
        /\ pc[w] \in Writing
    BY <1>2 DEF Write, OpenTmp, Fill, ghosts, Writing
  <2>2. \A f \in Files : f # FileOf(w) => disk'[f] = disk[f]
    BY <1>0, <1>2 DEF Write, OpenTmp, Fill, files
  <2>3. ASSUME NEW r \in barred, Off(name[r])
        PROVE  FileOf(w) # DefinitionOf(name[r])
    BY <1>0, <2>1, <2>3 DEF FileOf, Off
  <2> QED
    BY <1>0, <2>1, <2>2, <2>3, BarredKept DEF Writing
<1>3. ASSUME NEW w \in Writers, SaveRenamed(w) \/ HistoryRenamed(w)
      PROVE  Barred'
  <2>1. /\ paused' = paused /\ barred' = barred /\ fired' = fired /\ name' = name
        /\ \E l \in {"list", "idle", "ended"} : pc' = [pc EXCEPT ![w] = l]
        /\ pc[w] \in Writing
    BY <1>3 DEF SaveRenamed, HistoryRenamed, ghosts, Writing, End
  <2>2. \A f \in Files : f # FileOf(w) => disk'[f] = disk[f]
    BY <1>0, <1>3 DEF SaveRenamed, HistoryRenamed, Publish, NothingToRename, files
  <2>3. ASSUME NEW r \in barred, Off(name[r])
        PROVE  FileOf(w) # DefinitionOf(name[r])
    BY <1>0, <2>1, <2>3 DEF FileOf, Off
  <2> QED
    BY <1>0, <2>1, <2>2, <2>3, BarredKept DEF Writing
<1>4. ASSUME NEW c \in Callers, List(c)
      PROVE  Barred'
  BY <1>0, <1>4, BarredKept DEF List, files, ghosts, Writing
<1>5. ASSUME NEW c \in Clients, RefreshApply(c)
      PROVE  Barred'
  BY <1>0, <1>5, BarredKept DEF RefreshApply, files, ghosts, Writing
<1>5a. CASE StartApply
  BY <1>0, <1>5a, BarredKept DEF StartApply, files, ghosts, Writing
<1>6. ASSUME NEW t \in armed, Fire(t)
      PROVE  Barred'
  <2> DEFINE r == fired + 1
  <2>1. /\ r \in Runs /\ fired' = r /\ name' = [name EXCEPT ![r] = t.name]
        /\ \E l \in {"append", "read"} : pc' = [pc EXCEPT ![r] = l]
        /\ paused' = paused /\ disk' = disk
        /\ barred' = IF Forbidden(t.name) THEN barred \cup {r} ELSE barred
    BY <1>6 DEF Fire, ToAppend, files
  <2>2. \A s \in barred : s # r
    BY <1>0
  <2>3. \A m : Off(m) => Off(m)'
    BY <1>0, <2>1 DEF Off, DefinitionOf
  <2>4. ASSUME Forbidden(t.name)
        PROVE  paused \/ Off(t.name)
    BY <2>4, Kinds DEF Forbidden, Off, Writing
  <2>5. ASSUME NEW s \in barred
        PROVE  /\ s \in Runs /\ s <= fired' /\ pc'[s] = pc[s] /\ name'[s] = name[s]
    <3>1. s \in Runs /\ s <= fired /\ s # r
      BY <1>0, <2>2
    <3>2. s <= fired'
      BY <1>0, <2>1, <3>1
    <3>3. pc'[s] = pc[s] /\ name'[s] = name[s]
      BY <1>0, <2>1, <3>1
    <3> QED
      BY <3>1, <3>2, <3>3
  <2>6. ASSUME Forbidden(t.name)
        PROVE  /\ r \in Runs /\ r <= fired' /\ pc'[r] \in {"append", "read"}
               /\ name'[r] = t.name /\ (paused' \/ Off(t.name)')
    <3>1. /\ r \in Runs /\ name'[r] = t.name /\ pc'[r] \in {"append", "read"}
      BY <1>0, <2>1
    <3>2. r <= fired'
      BY <1>0, <2>1
    <3>3. paused' \/ Off(t.name)'
      BY <2>1, <2>3, <2>4, <2>6
    <3> QED
      BY <3>1, <3>2, <3>3
  <2>7. \A s \in barred : /\ pc[s] = "read" => paused \/ Off(name[s])
                          /\ pc[s] = "execute" => paused
                          /\ pc[s] # "send"
    BY DEF IInv, Barred
  <2> QED
    BY <1>0, <2>1, <2>2, <2>3, <2>5, <2>6, <2>7 DEF Barred
<1>7. ASSUME NEW r \in Runs, ReadDefinition(r)
      PROVE  Barred'
  <2>1. /\ paused' = paused /\ barred' = barred /\ fired' = fired /\ name' = name
        /\ disk' = disk /\ pc[r] = "read"
    BY <1>7 DEF ReadDefinition, files, ghosts
  <2>2. \/ \E l \in {"drop", "append"} : pc' = [pc EXCEPT ![r] = l]
        \/ pc' = [pc EXCEPT ![r] = "execute"] /\ ~Off(name[r])
    BY <1>7 DEF ReadDefinition, ToAppend, Off
  <2> QED
    BY <1>0, <2>1, <2>2, BarredKept DEF Writing
<1>8. ASSUME NEW r \in Runs, Drop(r) \/ Send(r) \/ AppendRun(r)
      PROVE  Barred'
  <2>1. /\ paused' = paused /\ barred' = barred /\ fired' = fired /\ name' = name
        /\ disk' = disk
        /\ \E l \in {"ended", "append", "open"} : pc' = [pc EXCEPT ![r] = l]
    BY <1>8 DEF Drop, Send, AppendRun, ToAppend, End, files, ghosts
  <2> QED
    BY <1>0, <2>1, BarredKept DEF Writing
<1>9. ASSUME NEW r \in Runs, CheckPause(r)
      PROVE  Barred'
  <2>1. /\ paused' = paused /\ barred' = barred /\ fired' = fired /\ name' = name
        /\ disk' = disk /\ pc[r] = "execute"
        /\ \/ pc' = [pc EXCEPT ![r] = "append"]
           \/ ~paused /\ pc' = [pc EXCEPT ![r] = "send"]
    BY <1>9 DEF CheckPause, ToAppend, files, ghosts
  <2>2. r \in barred => paused
    BY <2>1 DEF IInv, Barred
  <2>3. r \notin barred \/ pc' = [pc EXCEPT ![r] = "append"]
    BY <2>1, <2>2
  <2> QED
    BY <1>0, <2>1, <2>3, BarredKept DEF Writing
<1>10. CASE SetPaused
  <2>1. /\ fired' = fired /\ name' = name /\ disk' = disk /\ pc' = pc
        /\ \/ barred' = {}
           \/ barred' = barred /\ paused' = TRUE
    BY <1>10 DEF SetPaused, files, control
  <2> QED
    BY <1>0, <2>1 DEF IInv, Barred, Off, DefinitionOf
<1>11. ASSUME NEW n \in Names, RemoveByHand(n)
       PROVE  Barred'
  <2>1. /\ paused' = paused /\ barred' = barred /\ fired' = fired /\ name' = name /\ pc' = pc
        /\ disk' = [disk EXCEPT ![DefinitionOf(n)] = Absent]
    BY <1>11 DEF RemoveByHand, control
  <2>2. ASSUME NEW m \in Names, Off(m)
        PROVE  Off(m)'
    <3>1. disk'[DefinitionOf(m)] \in {Absent, disk[DefinitionOf(m)]}
      BY <1>0, <2>1
    <3> QED
      BY <2>1, <2>2, <3>1, Kinds DEF Off, DefinitionOf
  <2> QED
    BY <1>0, <2>1, <2>2 DEF IInv, Barred
<1>12. CASE Restart
  <2>1. /\ barred' = barred /\ fired' = fired
        /\ \A r \in Runs : r <= fired => pc'[r] = "ended"
    BY <1>0, <1>12 DEF Restart
  <2> QED
    BY <1>0, <2>1 DEF IInv, Barred
<1> QED
  BY <1>1, <1>2, <1>3, <1>4, <1>5, <1>5a, <1>6, <1>7, <1>8, <1>9, <1>10, <1>11, <1>12
     DEF Next, SaveStep, StartStep, RunStep

-----------------------------------------------------------------------------
(* Type correctness, in three parts: the files, the cron tasks, the rest.  *)
DefinitionFile == Definition \cup {Absent, Torn}
HistoryFile    == History \cup {Torn}
Contents       == Definition \cup History \cup {Absent, Torn}

FilesTyped ==
  /\ disk \in [Files -> Contents] /\ tmp \in [Files -> Contents]
  /\ \A n \in Names : /\ disk[DefinitionOf(n)] \in DefinitionFile
                      /\ tmp[DefinitionOf(n)] \in DefinitionFile
                      /\ disk[HistoryOf(n)] \in HistoryFile
                      /\ tmp[HistoryOf(n)] \in HistoryFile \cup {Absent}

CronTyped ==
  /\ tasks \in [Names -> Nat] /\ armed \subseteq Task /\ age \in Nat \ {0}
  /\ seen \in [Callers -> [Names -> Definition \cup {Absent}]]

RestTyped ==
  /\ paused \in BOOLEAN
  /\ running \subseteq Names
  /\ pc \in [Callers \cup Runs ->
               {"idle", "open", "fill", "rename", "list", "apply", "read", "drop", "execute",
                "send", "append", "ended"}]
  /\ name \in [Callers \cup Runs -> Names \cup {NoName}]
  /\ text \in [Writers -> Definition \cup Record \cup History \cup {NoText}]
  /\ fd \in [Writers -> {"none", "tmp", "file", "gone"}]
  /\ fired \in 0..MaxRuns /\ skipped \subseteq Runs
  /\ raced \in BOOLEAN /\ muddled \in BOOLEAN /\ contested \subseteq Names
  /\ owed \subseteq Runs /\ barred \subseteq Runs
  /\ requests \in 0..MaxRequests /\ edits \in 0..MaxEdits /\ faults \in 0..MaxFaults

LEMMA TypedParts == TypeOK <=> FilesTyped /\ CronTyped /\ RestTyped
BY DEF TypeOK, FilesTyped, CronTyped, RestTyped, DefinitionFile, HistoryFile, Contents

(* What may be put into a writer's file.                                   *)
Fitting(w) == IF w \in Runs THEN HistoryFile ELSE DefinitionFile \ {Absent}

LEMMA WriterNamed ==
  ASSUME IInv, NEW w \in Writers, pc[w] \in Writing
  PROVE  name[w] \in Names
<1>1. fired \in Nat
  BY DEF IInv, TypeOK
<1>2. CASE w \in Clients
  BY <1>2 DEF IInv, Placed
<1>3. CASE w \in Runs
  <2>1. ~(fired < w)
    BY <1>3 DEF IInv, Placed, Writing
  <2>2. w <= fired
    BY <1>1, <1>3, <2>1, Distinct
  <2> QED
    BY <1>3, <2>2 DEF IInv, Placed
<1> QED
  BY <1>2, <1>3 DEF Writers

LEMMA FittingKept ==
  ASSUME IInv, NEW w \in Writers, pc[w] \in Writing, NEW new \in Fitting(w)
  PROVE  /\ FileOf(w) \in Files
         /\ FilesTyped /\ disk' = [disk EXCEPT ![FileOf(w)] = new] /\ tmp' = tmp => FilesTyped'
         /\ FilesTyped /\ tmp' = [tmp EXCEPT ![FileOf(w)] = new] /\ disk' = disk => FilesTyped'
         /\ FilesTyped /\ tmp' = [tmp EXCEPT ![FileOf(w)] = Absent]
              /\ disk' = [disk EXCEPT ![FileOf(w)] = new] => FilesTyped'
<1>1. name[w] \in Names
  BY WriterNamed
<1>2. \/ FileOf(w) = HistoryOf(name[w]) /\ new \in HistoryFile
      \/ FileOf(w) = DefinitionOf(name[w]) /\ new \in DefinitionFile
  BY Distinct DEF FileOf, Fitting
<1>3. FileOf(w) \in Files /\ new \in Contents /\ Absent \in Contents
  BY <1>1, <1>2, Distinct DEF HistoryFile, DefinitionFile, Contents
<1>4. CASE FileOf(w) = HistoryOf(name[w]) /\ new \in HistoryFile
  <2> USE <1>1, <1>3, <1>4, Distinct
  <2>1. ASSUME FilesTyped, disk' = [disk EXCEPT ![FileOf(w)] = new] /\ tmp' = tmp
        PROVE  FilesTyped'
    BY <2>1 DEF FilesTyped, HistoryOf, DefinitionOf
  <2>2. ASSUME FilesTyped, tmp' = [tmp EXCEPT ![FileOf(w)] = new] /\ disk' = disk
        PROVE  FilesTyped'
    BY <2>2 DEF FilesTyped, HistoryOf, DefinitionOf
  <2>3. ASSUME FilesTyped, /\ tmp' = [tmp EXCEPT ![FileOf(w)] = Absent]
                           /\ disk' = [disk EXCEPT ![FileOf(w)] = new]
        PROVE  FilesTyped'
    BY <2>3 DEF FilesTyped, HistoryOf, DefinitionOf
  <2> QED
    BY <2>1, <2>2, <2>3
<1>5. CASE FileOf(w) = DefinitionOf(name[w]) /\ new \in DefinitionFile
  <2> USE <1>1, <1>3, <1>5, Distinct
  <2>0. Absent \in DefinitionFile
    BY DEF DefinitionFile
  <2>1. ASSUME FilesTyped, disk' = [disk EXCEPT ![FileOf(w)] = new] /\ tmp' = tmp
        PROVE  FilesTyped'
    BY <2>1 DEF FilesTyped, HistoryOf, DefinitionOf
  <2>2. ASSUME FilesTyped, tmp' = [tmp EXCEPT ![FileOf(w)] = new] /\ disk' = disk
        PROVE  FilesTyped'
    BY <2>2 DEF FilesTyped, HistoryOf, DefinitionOf
  <2>3. ASSUME FilesTyped, /\ tmp' = [tmp EXCEPT ![FileOf(w)] = Absent]
                           /\ disk' = [disk EXCEPT ![FileOf(w)] = new]
        PROVE  FilesTyped'
    BY <2>0, <2>3 DEF FilesTyped, HistoryOf, DefinitionOf
  <2> QED
    BY <2>1, <2>2, <2>3
<1> QED
  BY <1>2, <1>3, <1>4, <1>5

LEMMA PublishTyped ==
  ASSUME IInv, NEW w \in Writers, pc[w] \in Writing, Publish(w) \/ NothingToRename(w)
  PROVE  FilesTyped' /\ fd' \in [Writers -> {"none", "tmp", "file", "gone"}]
<1>0. FilesTyped /\ RestTyped
  BY TypedParts DEF IInv
<1>1. CASE NothingToRename(w)
  BY <1>0, <1>1 DEF NothingToRename, files, FilesTyped, RestTyped, DefinitionOf, HistoryOf
<1>2. CASE Publish(w)
  <2> DEFINE f == FileOf(w)
  <2>1. name[w] \in Names
    BY WriterNamed
  <2>2. tmp[f] \in Fitting(w)
    BY <1>0, <1>2, <2>1 DEF Publish, FileOf, Fitting, FilesTyped
  <2>3. /\ disk' = [disk EXCEPT ![f] = tmp[f]] /\ tmp' = [tmp EXCEPT ![f] = Absent]
        /\ fd' = [v \in Writers |->
                    CASE FileOf(v) = f /\ fd[v] = "tmp"  -> "file"
                      [] FileOf(v) = f /\ fd[v] = "file" -> "gone"
                      [] OTHER -> fd[v]]
    BY <1>2 DEF Publish
  <2>4. FilesTyped'
    BY <1>0, <2>2, <2>3, FittingKept
  <2>5. fd' \in [Writers -> {"none", "tmp", "file", "gone"}]
    BY <1>0, <2>3 DEF RestTyped
  <2> QED
    BY <2>4, <2>5
<1> QED
  BY <1>1, <1>2

LEMMA FilesStep ==
  ASSUME IInv, Next
  PROVE  FilesTyped'
<1>0. FilesTyped /\ RestTyped
  BY TypedParts DEF IInv
<1>a. ASSUME files' = files
      PROVE  FilesTyped'
  BY <1>0, <1>a DEF FilesTyped, files, DefinitionOf, HistoryOf
<1>1. ASSUME NEW c \in Clients, NEW n \in Names, NEW d \in Definition, Save(c, n, d)
      PROVE  FilesTyped'
  BY <1>1, <1>a DEF Save
<1>2. ASSUME NEW w \in Writers, OpenTmp(w)
      PROVE  FilesTyped'
  <2>1. pc[w] \in Writing /\ Torn \in Fitting(w)
    BY <1>2, Kinds DEF OpenTmp, Writing, Fitting, HistoryFile, DefinitionFile
  <2> QED
    BY <1>0, <1>2, <2>1, FittingKept DEF OpenTmp
<1>3. ASSUME NEW w \in Writers, Fill(w)
      PROVE  FilesTyped'
  <2>1. pc[w] = "fill" /\ pc[w] \in Writing
    BY <1>3 DEF Fill, Writing
  <2>2. text[w] \in Fitting(w) /\ Torn \in Fitting(w)
    BY <2>1, Kinds, Distinct DEF IInv, Dressed, Writers, Fitting, HistoryFile, DefinitionFile
  <2>3. \A old : Overlay(old, text[w]) \subseteq Fitting(w)
    BY <2>2 DEF Overlay
  <2>4. \/ \E new \in Fitting(w) : tmp' = [tmp EXCEPT ![FileOf(w)] = new] /\ disk' = disk
        \/ \E new \in Fitting(w) : disk' = [disk EXCEPT ![FileOf(w)] = new] /\ tmp' = tmp
        \/ files' = files
    BY <1>3, <2>3 DEF Fill, files
  <2> QED
    BY <1>0, <2>1, <2>4, <1>a, FittingKept
<1>4. ASSUME NEW w \in Writers, SaveRenamed(w) \/ HistoryRenamed(w)
      PROVE  FilesTyped'
  BY <1>4, PublishTyped DEF SaveRenamed, HistoryRenamed, Writing
<1>5. ASSUME NEW c \in Callers, List(c) \/ RefreshApply(c) \/ StartApply
      PROVE  FilesTyped'
  BY <1>5, <1>a DEF List, RefreshApply, StartApply
<1>6. ASSUME NEW t \in armed, Fire(t)
      PROVE  FilesTyped'
  BY <1>6, <1>a DEF Fire
<1>7. ASSUME NEW r \in Runs,
             ReadDefinition(r) \/ Drop(r) \/ CheckPause(r) \/ Send(r) \/ AppendRun(r)
      PROVE  FilesTyped'
  BY <1>7, <1>a DEF ReadDefinition, Drop, CheckPause, Send, AppendRun
<1>8. CASE SetPaused \/ Restart
  BY <1>8, <1>a DEF SetPaused, Restart
<1>9. ASSUME NEW n \in Names, RemoveByHand(n)
      PROVE  FilesTyped'
  <2>1. disk' = [disk EXCEPT ![DefinitionOf(n)] = Absent] /\ tmp' = tmp
    BY <1>9 DEF RemoveByHand
  <2>2. Absent \in Contents /\ Absent \in DefinitionFile
    BY DEF Contents, DefinitionFile
  <2> QED
    BY <1>0, <2>1, <2>2, Distinct DEF FilesTyped, DefinitionOf, HistoryOf
<1> QED
  BY <1>1, <1>2, <1>3, <1>4, <1>5, <1>6, <1>7, <1>8, <1>9, Distinct
     DEF Next, SaveStep, StartStep, RunStep, Write, Writers, Callers

LEMMA CronStep ==
  ASSUME IInv, Next
  PROVE  CronTyped'
<1>0. CronTyped /\ FilesTyped
  BY TypedParts DEF IInv
<1>a. ASSUME cron' = cron, seen' = seen
      PROVE  CronTyped'
  BY <1>0, <1>a DEF CronTyped, cron
<1>b. ASSUME NEW c \in Callers
      PROVE  NewTasks(c) \subseteq Task
  BY <1>0 DEF NewTasks, Schedulable, Enabled, Task, CronTyped
<1>c. [seen EXCEPT ![Boot] = Nothing] \in [Callers -> [Names -> Definition \cup {Absent}]]
  BY <1>0 DEF CronTyped, Nothing, Callers
<1>1. ASSUME NEW c \in Clients, NEW n \in Names, NEW d \in Definition, Save(c, n, d)
      PROVE  CronTyped'
  BY <1>1, <1>a DEF Save
<1>2. ASSUME NEW w \in Writers, Write(w) \/ SaveRenamed(w) \/ HistoryRenamed(w)
      PROVE  CronTyped'
  BY <1>2, <1>a DEF Write, OpenTmp, Fill, SaveRenamed, HistoryRenamed
<1>3. ASSUME NEW c \in Callers, List(c)
      PROVE  CronTyped'
  <2>1. cron' = cron
    BY <1>3 DEF List
  <2>2. CASE seen' = seen
    BY <2>1, <2>2, <1>a
  <2>3. CASE /\ seen' = [seen EXCEPT ![c] = [n \in Names |-> disk[DefinitionOf(n)]]]
             /\ \A n \in Names : disk[DefinitionOf(n)] # Torn
    <3>1. [n \in Names |-> disk[DefinitionOf(n)]] \in [Names -> Definition \cup {Absent}]
      BY <1>0, <2>3 DEF FilesTyped, DefinitionFile
    <3> QED
      BY <1>0, <2>1, <2>3, <3>1 DEF CronTyped, cron
  <2> QED
    BY <1>3, <2>2, <2>3 DEF List
<1>4. CASE StartApply
  <2>1. NewTasks(Boot) \subseteq Task
    BY <1>b DEF Callers
  <2> QED
    BY <1>0, <1>4, <1>c, <2>1 DEF StartApply, CronTyped
<1>5. ASSUME NEW c \in Clients, RefreshApply(c)
      PROVE  CronTyped'
  <2>1. c \in Callers /\ NewTasks(c) \subseteq Task
    BY <1>b DEF Callers
  <2>2. armed' \subseteq armed \cup NewTasks(c) /\ age' = age + 1
    BY <1>5 DEF RefreshApply
  <2>3. tasks' = [n \in Names |-> IF n \in Schedulable(c) THEN age
                                  ELSE IF n \in Enabled(c) THEN tasks[n] ELSE 0]
    BY <1>5 DEF RefreshApply
  <2>4. tasks' \in [Names -> Nat]
    BY <1>0, <2>3 DEF CronTyped
  <2>5. seen' \in [Callers -> [Names -> Definition \cup {Absent}]]
    BY <1>0, <1>5, <2>1 DEF RefreshApply, CronTyped, Nothing
  <2> QED
    BY <1>0, <2>1, <2>2, <2>4, <2>5 DEF CronTyped
<1>6. ASSUME NEW t \in armed, Fire(t)
      PROVE  CronTyped'
  BY <1>6, <1>a DEF Fire
<1>7. ASSUME NEW r \in Runs, ReadDefinition(r) \/ CheckPause(r) \/ Send(r) \/ AppendRun(r)
      PROVE  CronTyped'
  BY <1>7, <1>a DEF ReadDefinition, CheckPause, Send, AppendRun
<1>8. ASSUME NEW r \in Runs, Drop(r)
      PROVE  CronTyped'
  BY <1>0, <1>8 DEF Drop, CronTyped
<1>9. CASE SetPaused \/ \E n \in Names : RemoveByHand(n)
  BY <1>9, <1>a DEF SetPaused, RemoveByHand
<1>10. CASE Restart
  BY <1>0, <1>10 DEF Restart, CronTyped, Nothing
<1> QED
  BY <1>1, <1>2, <1>3, <1>4, <1>5, <1>6, <1>7, <1>8, <1>9, <1>10
     DEF Next, SaveStep, StartStep, RunStep, Writers, Callers

LEMMA RestStep ==
  ASSUME IInv, Next
  PROVE  RestTyped'
<1> USE Distinct DEF Writers, Callers, Goto
<1>0. RestTyped /\ CronTyped
  BY TypedParts DEF IInv
<1>a. \A r \in Runs : pc[r] \in InRun => name[r] \in Names
  BY DEF IInv, Placed, InRun, RestTyped, TypeOK
<1>b. \A r \in Runs, s \in {"success", "failed", "skipped"} : RecordOf(r, s) \in Record
  BY DEF RecordOf, Record
<1>c. Fault => faults' \in 0..MaxFaults
  BY <1>0, RoutineAssumption DEF Fault, RestTyped
<1>d. \A r \in Runs : End(r) => /\ running' \subseteq Names
                                /\ pc' = [pc EXCEPT ![r] = "ended"]
                                /\ text' = [text EXCEPT ![r] = NoText]
  BY <1>0 DEF End, RestTyped
<1>1. ASSUME NEW c \in Clients, NEW n \in Names, NEW d \in Definition, Save(c, n, d)
      PROVE  RestTyped'
  <2>1. requests' \in 0..MaxRequests
    BY <1>0, <1>1, RoutineAssumption DEF Save, RestTyped
  <2>2. muddled' \in BOOLEAN
    BY <1>1, Zenon DEF Save
  <2>3. /\ pc' = [pc EXCEPT ![c] = "open"] /\ name' = [name EXCEPT ![c] = n]
        /\ text' = [text EXCEPT ![c] = d] /\ barred' \subseteq barred
    BY <1>1 DEF Save
  <2>4. text' \in [Writers -> Definition \cup Record \cup History \cup {NoText}]
    BY <1>0, <2>3 DEF RestTyped
  <2>5. /\ paused' = paused /\ running' = running /\ fd' = fd /\ fired' = fired
        /\ skipped' = skipped /\ raced' = raced /\ contested' = contested /\ owed' = owed
        /\ edits' = edits /\ faults' = faults
    BY <1>1 DEF Save
  <2> QED
    BY <1>0, <2>1, <2>2, <2>3, <2>4, <2>5 DEF RestTyped
<1>2. ASSUME NEW w \in Writers, Write(w)
      PROVE  RestTyped'
  BY <1>0, <1>2 DEF Write, OpenTmp, Fill, RestTyped, ghosts, bounds
<1>3. ASSUME NEW c \in Clients, SaveRenamed(c)
      PROVE  RestTyped'
  <2>1. fd' \in [Writers -> {"none", "tmp", "file", "gone"}]
    BY <1>3, PublishTyped DEF SaveRenamed, Writing
  <2>2. \E l \in {"list", "idle"} : pc' = [pc EXCEPT ![c] = l]
    BY <1>3 DEF SaveRenamed
  <2> QED
    BY <1>0, <1>3, <2>1, <2>2 DEF SaveRenamed, RestTyped, ghosts, bounds
<1>4. ASSUME NEW c \in Callers, List(c)
      PROVE  RestTyped'
  BY <1>0, <1>4 DEF List, RestTyped, ghosts, bounds
<1>5. CASE StartApply
  BY <1>0, <1>5 DEF StartApply, RestTyped, ghosts, bounds
<1>6. ASSUME NEW c \in Clients, RefreshApply(c)
      PROVE  RestTyped'
  <2>1. raced' \in BOOLEAN
    BY <1>6, Zenon DEF RefreshApply
  <2> QED
    BY <1>0, <1>6, <2>1 DEF RefreshApply, RestTyped, bounds
<1>7. ASSUME NEW t \in armed, Fire(t)
      PROVE  RestTyped'
  <2> DEFINE r == fired + 1
  <2>1. t.name \in Names /\ r \in Runs /\ r \in 0..MaxRuns
    BY <1>0, <1>7 DEF Fire, CronTyped, Task, Runs, RestTyped
  <2>2. /\ fired' = r /\ name' = [name EXCEPT ![r] = t.name]
        /\ barred' \subseteq barred \cup {r} /\ skipped' \subseteq skipped \cup {r}
        /\ running' \subseteq running \cup {t.name}
        /\ \E l \in {"append", "read"} : pc' = [pc EXCEPT ![r] = l]
        /\ text' = text \/ text' = [text EXCEPT ![r] = RecordOf(r, "skipped")]
    BY <1>7 DEF Fire, ToAppend
  <2>3. text' \in [Writers -> Definition \cup Record \cup History \cup {NoText}]
    BY <1>0, <1>b, <2>1, <2>2 DEF RestTyped
  <2> QED
    BY <1>0, <1>7, <2>1, <2>2, <2>3 DEF Fire, RestTyped, bounds
<1>8. ASSUME NEW r \in Runs, ReadDefinition(r)
      PROVE  RestTyped'
  <2>1. /\ \E l \in {"drop", "append", "execute"} : pc' = [pc EXCEPT ![r] = l]
        /\ \/ text' = text
           \/ \E s \in {"failed", "skipped"} : text' = [text EXCEPT ![r] = RecordOf(r, s)]
    BY <1>8 DEF ReadDefinition, ToAppend
  <2> QED
    BY <1>0, <1>8, <1>b, <2>1 DEF ReadDefinition, RestTyped, ghosts, bounds
<1>9. ASSUME NEW r \in Runs, Drop(r)
      PROVE  RestTyped'
  BY <1>0, <1>9, <1>d DEF Drop, RestTyped, ghosts, bounds
<1>10. ASSUME NEW r \in Runs, CheckPause(r) \/ Send(r)
       PROVE  RestTyped'
  <2>1. /\ \E l \in {"append", "send"} : pc' = [pc EXCEPT ![r] = l]
        /\ \/ text' = text
           \/ \E s \in {"success", "failed"} : text' = [text EXCEPT ![r] = RecordOf(r, s)]
        /\ faults' \in 0..MaxFaults
    BY <1>0, <1>10, <1>c DEF CheckPause, Send, ToAppend, RestTyped
  <2>2. text' \in [Writers -> Definition \cup Record \cup History \cup {NoText}]
    BY <1>0, <1>b, <2>1 DEF RestTyped
  <2>3. pc' \in [Callers \cup Runs ->
                 {"idle", "open", "fill", "rename", "list", "apply", "read", "drop", "execute",
                  "send", "append", "ended"}]
    BY <1>0, <2>1 DEF RestTyped
  <2>4. /\ paused' = paused /\ running' = running /\ fd' = fd /\ fired' = fired
        /\ skipped' = skipped /\ name' = name /\ ghosts' = ghosts
        /\ edits' = edits /\ requests' = requests
    BY <1>10 DEF CheckPause, Send
  <2> QED
    BY <1>0, <2>1, <2>2, <2>3, <2>4 DEF RestTyped, ghosts
<1>11. ASSUME NEW r \in Runs, AppendRun(r)
       PROVE  RestTyped'
  <2>1. pc[r] = "append" /\ name[r] \in Names
    BY <1>11, <1>a DEF AppendRun, InRun
  <2>2. CASE disk[HistoryOf(name[r])] = Torn
    <3>1. End(r) /\ owed' = owed \cup {r} /\ contested' = contested
      BY <1>11, <2>2 DEF AppendRun
    <3> QED
      BY <1>0, <1>11, <1>d, <3>1 DEF AppendRun, RestTyped, bounds
  <2>3. CASE disk[HistoryOf(name[r])] # Torn
    <3>1. /\ text' = [text EXCEPT ![r] = text'[r]] /\ pc' = [pc EXCEPT ![r] = "open"]
          /\ contested' \subseteq contested \cup {name[r]}
          /\ running' = running /\ owed' = owed
      BY <1>0, <1>11, <2>3 DEF AppendRun, RestTyped
    <3>2. pc'[r] = "open"
      BY <1>0, <3>1 DEF RestTyped
    <3>3. text'[r] \in History
      BY <3>2, DressedStep DEF Dressed
    <3>4. text' \in [Writers -> Definition \cup Record \cup History \cup {NoText}]
      BY <1>0, <3>1, <3>3 DEF RestTyped
    <3> QED
      BY <1>0, <1>11, <2>1, <3>1, <3>4 DEF AppendRun, RestTyped, bounds
  <2> QED
    BY <2>2, <2>3
<1>12. ASSUME NEW r \in Runs, HistoryRenamed(r)
       PROVE  RestTyped'
  <2>1. fd' \in [Writers -> {"none", "tmp", "file", "gone"}]
    BY <1>12, PublishTyped DEF HistoryRenamed, Writing
  <2> QED
    BY <1>0, <1>12, <1>d, <2>1 DEF HistoryRenamed, RestTyped, bounds
<1>13. CASE SetPaused \/ \E n \in Names : RemoveByHand(n)
  <2>1. edits' \in 0..MaxEdits
    BY <1>0, <1>13, RoutineAssumption DEF SetPaused, RemoveByHand, RestTyped
  <2>2. paused' \in BOOLEAN /\ muddled' \in BOOLEAN
    BY <1>0, <1>13, Zenon DEF SetPaused, RemoveByHand, RestTyped
  <2>3. fd' \in [Writers -> {"none", "tmp", "file", "gone"}]
    BY <1>0, <1>13 DEF SetPaused, RemoveByHand, RestTyped
  <2> QED
    BY <1>0, <1>13, <2>1, <2>2, <2>3 DEF SetPaused, RemoveByHand, RestTyped, control
<1>14. CASE Restart
  <2>1. muddled' \in BOOLEAN
    BY <1>14, Zenon DEF Restart
  <2>2. pc' \in [Callers \cup Runs -> {"list", "ended", "idle"}]
    BY <1>14 DEF Restart
  <2> QED
    BY <1>0, <1>14, <1>c, <2>1, <2>2 DEF Restart, RestTyped
<1> QED
  BY <1>1, <1>2, <1>3, <1>4, <1>5, <1>6, <1>7, <1>8, <1>9, <1>10, <1>11, <1>12, <1>13, <1>14
     DEF Next, SaveStep, StartStep, RunStep

-----------------------------------------------------------------------------
LEMMA StutterSound ==
  ASSUME IInv, UNCHANGED vars
  PROVE  IInv'
BY DEF IInv, TypeOK, Placed, Dressed, Busy, UnderWay, Mapping, Barred, Off, DefinitionOf,
       HistoryOf, vars, files, cron, control, ghosts, bounds

LEMMA Invariant == Spec => []IInv
<1>1. ASSUME IInv, [Next]_vars
      PROVE  IInv'
  <2>1. CASE Next
    <3>1. TypeOK'
      BY <1>1, <2>1, FilesStep, CronStep, RestStep
         DEF TypeOK, FilesTyped, CronTyped, RestTyped, DefinitionFile, HistoryFile, Contents,
             DefinitionOf, HistoryOf
    <3> QED
      BY <1>1, <2>1, <3>1, PlacedStep, DressedStep, BusyStep, MappingStep, BarredStep DEF IInv
  <2> QED
    BY <1>1, <2>1, StutterSound
<1> QED
  BY InitSound, <1>1, PTL DEF Spec

(* Files, cron tasks and everything in memory keep their types.            *)
THEOREM TypeCorrect == Spec => []TypeOK
<1>1. IInv => TypeOK
  BY DEF IInv
<1> QED
  BY Invariant, <1>1, PTL

(* ROUT-07: runs of one routine never overlap, and a routine without a run *)
(* under way is free, for any number of tasks, runs and restarts.          *)
THEOREM OneRunTheorem == Spec => []OneRunPerRoutine
<1>1. IInv => OneRunPerRoutine
  <2> SUFFICES ASSUME IInv, NEW n \in Names
               PROVE  Cardinality(UnderWay(n)) = IF n \in running THEN 1 ELSE 0
    BY DEF OneRunPerRoutine
  <2>1. CASE n \in running
    <3>1. PICK r \in UnderWay(n) : TRUE
      BY <2>1 DEF IInv, Busy
    <3>2. UnderWay(n) = {r}
      BY <3>1 DEF IInv, Busy
    <3> QED
      BY <2>1, <3>2, FS_Singleton
  <2>2. CASE n \notin running
    <3>1. UnderWay(n) = {}
      BY <2>2 DEF IInv, Busy
    <3> QED
      BY <2>2, <3>1, FS_EmptySet
  <2> QED
    BY <2>1, <2>2
<1> QED
  BY Invariant, <1>1, PTL

(* Every live cron task is in the scheduler's map under its name, and the  *)
(* map has no dead one, unless a refresh was applied before start's        *)
(* listing.                                                                *)
THEOREM MappedTheorem == Spec => []EveryTaskMapped
<1>1. IInv => EveryTaskMapped
  BY DEF IInv, Mapping, EveryTaskMapped, TypeOK, Task
<1> QED
  BY Invariant, <1>1, PTL

(* A run that fired under a pause or for a disabled routine sends nothing, *)
(* whichever task fired it.                                                *)
THEOREM BarredTheorem == Spec => []BarredRunsSendNothing
<1>1. IInv => BarredRunsSendNothing
  BY DEF IInv, Barred, BarredRunsSendNothing
<1> QED
  BY Invariant, <1>1, PTL

-----------------------------------------------------------------------------
(* HistoryKept.  While no two runs of n append at once, the one that does  *)
(* carries everything the history must have: first in memory, then in the  *)
(* temporary file, which nobody else touches.                              *)
Has(h, r) == \E i \in DOMAIN h.runs : h.runs[i].run = r

Complete(n, h) == h \in History /\ \A r \in owed : name[r] = n => Has(h, r)

KeptFor(n) ==
  /\ n \in contested => \E r \in skipped : name[r] = n
  /\ n \notin contested =>
       /\ Complete(n, disk[HistoryOf(n)])
       /\ \A r, s \in Appending(n) : r = s
       /\ \A r \in Appending(n) :
            /\ pc[r] \in {"open", "fill"} => Complete(n, text[r]) /\ Has(text[r], r)
            /\ pc[r] = "fill" => fd[r] = "tmp" /\ tmp[HistoryOf(n)] = Torn
            /\ pc[r] = "rename" => /\ Complete(n, tmp[HistoryOf(n)])
                                   /\ Has(tmp[HistoryOf(n)], r)

Kept == /\ \A r \in Runs : pc[r] = "append" => text[r].run = r
        /\ \A r \in owed : r \in Runs /\ r <= fired
        /\ \A n \in Names : KeptFor(n)

LEMMA Histories ==
  /\ \A h \in History : h # Torn /\ h # Absent
  /\ \A h \in History, d \in Record :
       /\ [runs |-> <<d>> \o h.runs] \in History
       /\ Has([runs |-> <<d>> \o h.runs], d.run)
       /\ \A r : Has(h, r) => Has([runs |-> <<d>> \o h.runs], r)
<1>1. \A h \in History : h # Torn /\ h # Absent
  BY DEF History, Torn, Absent
<1>2. ASSUME NEW h \in History, NEW d \in Record
      PROVE  /\ [runs |-> <<d>> \o h.runs] \in History
             /\ Has([runs |-> <<d>> \o h.runs], d.run)
             /\ \A r : Has(h, r) => Has([runs |-> <<d>> \o h.runs], r)
  <2> DEFINE new == <<d>> \o h.runs
  <2>1. h.runs \in Seq(Record)
    BY DEF History
  <2>2. /\ new \in Seq(Record) /\ Len(new) = Len(h.runs) + 1 /\ new[1] = d
        /\ \A i \in 1..Len(h.runs) : new[i + 1] = h.runs[i]
    BY <2>1
  <2>3. [runs |-> new] \in History
    BY <2>2 DEF History
  <2>4. 1 \in DOMAIN new /\ \A i \in DOMAIN h.runs : i + 1 \in DOMAIN new
    BY <2>1, <2>2
  <2>5. Has([runs |-> new], d.run)
    BY <2>2, <2>4 DEF Has
  <2>6. ASSUME NEW r, Has(h, r)
        PROVE  Has([runs |-> new], r)
    <3>1. PICK i \in DOMAIN h.runs : h.runs[i].run = r
      BY <2>6 DEF Has
    <3>2. i \in 1..Len(h.runs) /\ i + 1 \in DOMAIN new
      BY <2>1, <2>4, <3>1
    <3> QED
      BY <2>2, <3>1, <3>2 DEF Has
  <2> QED
    BY <2>3, <2>5, <2>6
<1> QED
  BY <1>1, <1>2

(* A step that leaves the history of n and its writer alone.               *)
LEMMA Untouched ==
  ASSUME NEW n \in Names, KeptFor(n), n \in contested' <=> n \in contested,
         skipped \subseteq skipped', \A r \in skipped : name'[r] = name[r],
         \A r \in owed' : name'[r] = n => r \in owed /\ name[r] = n,
         disk'[HistoryOf(n)] = disk[HistoryOf(n)], tmp'[HistoryOf(n)] = tmp[HistoryOf(n)],
         \A r \in Runs : name'[r] = n /\ pc'[r] \in Writing =>
           /\ name[r] = n /\ pc'[r] = pc[r] /\ text'[r] = text[r] /\ fd'[r] = fd[r]
  PROVE  KeptFor(n)'
<1>1. \A h : Complete(n, h) => Complete(n, h)'
  BY DEF Complete, Has, History, Record
<1>2. HistoryOf(n)' = HistoryOf(n)
  BY DEF HistoryOf
<1>3. \A r \in Appending(n)' : r \in Appending(n) /\ r \in Runs /\ pc'[r] = pc[r]
                               /\ text'[r] = text[r] /\ fd'[r] = fd[r]
  BY DEF Appending, Writing
<1>4. n \in contested' => \E r \in skipped' : name'[r] = n
  BY DEF KeptFor
<1>5. ASSUME n \notin contested'
      PROVE  /\ Complete(n, disk[HistoryOf(n)])'
             /\ \A r, s \in Appending(n)' : r = s
             /\ \A r \in Appending(n)' :
                  /\ pc'[r] \in {"open", "fill"} => Complete(n, text[r])' /\ Has(text[r], r)'
                  /\ pc'[r] = "fill" => fd'[r] = "tmp" /\ tmp'[HistoryOf(n)] = Torn
                  /\ pc'[r] = "rename" => /\ Complete(n, tmp[HistoryOf(n)])'
                                          /\ Has(tmp[HistoryOf(n)], r)'
  <2>1. Complete(n, disk[HistoryOf(n)])'
    BY <1>1, <1>2, <1>5 DEF KeptFor
  <2>2. \A r, s \in Appending(n)' : r = s
    BY <1>3, <1>5 DEF KeptFor
  <2>3. ASSUME NEW r \in Appending(n)'
        PROVE  /\ pc'[r] \in {"open", "fill"} => Complete(n, text[r])' /\ Has(text[r], r)'
               /\ pc'[r] = "fill" => fd'[r] = "tmp" /\ tmp'[HistoryOf(n)] = Torn
               /\ pc'[r] = "rename" => /\ Complete(n, tmp[HistoryOf(n)])'
                                       /\ Has(tmp[HistoryOf(n)], r)'
    BY <1>1, <1>2, <1>3, <1>5, <2>3 DEF KeptFor, Has
  <2> QED
    BY <2>1, <2>2, <2>3
<1> QED
  BY <1>2, <1>4, <1>5 DEF KeptFor

(* A run of n fills or renames the temporary file.                         *)
LEMMA WriteKept ==
  ASSUME IInv, Kept, NEW r \in Runs, Write(r)
  PROVE  KeptFor(name[r])'
<1> DEFINE n == name[r]
<1> USE Distinct
<1>0. /\ RestTyped /\ FilesTyped /\ r \in Writers
      /\ pc[r] \in {"open", "fill"} /\ n \in Names /\ r \in Appending(n) /\ KeptFor(n)
      /\ FileOf(r) = HistoryOf(n) /\ HistoryOf(n) \in Files
  <2>1. r \in Writers /\ pc[r] \in {"open", "fill"}
    BY DEF Write, OpenTmp, Fill, Writers
  <2>2. n \in Names
    BY <2>1, WriterNamed DEF Writing
  <2> QED
    BY <2>1, <2>2, TypedParts DEF IInv, Appending, Kept, FileOf
<1>1. /\ name' = name /\ text' = text /\ owed' = owed /\ skipped' = skipped
      /\ contested' = contested
  BY DEF Write, OpenTmp, Fill, ghosts
<1>2. Appending(n)' = Appending(n)
  BY <1>0, <1>1 DEF Write, OpenTmp, Fill, Goto, Appending, RestTyped, Callers
<1>3. \A h : Complete(n, h) => Complete(n, h)'
  BY <1>1 DEF Complete, Has, History, Record
<1>4. CASE n \in contested
  BY <1>0, <1>1, <1>4 DEF KeptFor
<1>5. CASE n \notin contested
  <2>1. /\ \A s \in Appending(n)' : s = r
        /\ Complete(n, text[r]) /\ Has(text[r], r)
    BY <1>0, <1>2, <1>5 DEF KeptFor
  <2>2. CASE OpenTmp(r)
    <3>1. /\ pc'[r] = "fill" /\ fd'[r] = "tmp" /\ tmp'[HistoryOf(n)] = Torn /\ disk' = disk
      BY <1>0, <2>2 DEF OpenTmp, Goto, RestTyped, FilesTyped, Callers
    <3> QED
      BY <1>0, <1>1, <1>2, <1>3, <1>5, <2>1, <3>1 DEF KeptFor, Has, HistoryOf
  <2>3. CASE Fill(r)
    <3>1. fd[r] = "tmp" /\ tmp[HistoryOf(n)] = Torn
      BY <1>0, <1>5, <2>3 DEF Fill, KeptFor
    <3>2. /\ pc'[r] = "rename" /\ tmp'[HistoryOf(n)] = text[r] /\ disk' = disk
      BY <1>0, <2>3, <3>1 DEF Fill, Overlay, Goto, RestTyped, FilesTyped, Callers
    <3> QED
      BY <1>0, <1>1, <1>2, <1>3, <1>5, <2>1, <3>2 DEF KeptFor, Has, HistoryOf
  <2> QED
    BY <2>2, <2>3 DEF Write
<1> QED
  BY <1>4, <1>5

(* A run of n takes the history as it is and is alone with it, or finds    *)
(* another: one of the two was turned away by the guard.                   *)
LEMMA AppendKept ==
  ASSUME IInv, Kept, NEW r \in Runs, AppendRun(r)
  PROVE  KeptFor(name[r])'
<1> DEFINE n == name[r]
           history == disk[HistoryOf(n)]
<1> USE Distinct
<1>0. /\ RestTyped /\ FilesTyped /\ r \in Writers /\ pc[r] = "append" /\ n \in Names
      /\ r \notin Appending(n) /\ KeptFor(n)
  <2>1. r \in Writers /\ pc[r] = "append"
    BY DEF AppendRun, Writers
  <2>2. n \in Names
    BY <2>1 DEF IInv, Placed, InRun, TypeOK
  <2> QED
    BY <2>1, <2>2, TypedParts DEF IInv, Appending, Kept
<1>1. name' = name /\ skipped' = skipped /\ disk' = disk
  BY DEF AppendRun, files
<1>2. \A h : owed' = owed /\ Complete(n, h) => Complete(n, h)'
  BY <1>1 DEF Complete, Has, History, Record
<1>3. CASE history = Torn
  <2>1. n \in contested
    BY <1>0, <1>3, Histories DEF KeptFor, Complete
  <2> QED
    BY <1>0, <1>1, <1>3, <2>1 DEF AppendRun, KeptFor
<1>4. CASE history # Torn
  <2>1. /\ text' = [text EXCEPT ![r] = [runs |-> <<text[r]>> \o history.runs]]
        /\ pc' = [pc EXCEPT ![r] = "open"] /\ owed' = owed
        /\ contested' = IF Appending(n) = {} THEN contested ELSE contested \cup {n}
    BY <1>4 DEF AppendRun, Goto
  <2>2. CASE Appending(n) = {}
    <3>1. Appending(n)' = {r} /\ pc'[r] = "open"
      BY <1>0, <1>1, <2>1, <2>2 DEF Appending, RestTyped, Callers
    <3>2. CASE n \in contested
      BY <1>0, <1>1, <2>1, <2>2, <3>2 DEF KeptFor
    <3>3. CASE n \notin contested
      <4>1. Complete(n, history) /\ text[r] \in Record /\ text[r].run = r
        BY <1>0, <3>3 DEF KeptFor, IInv, Dressed, Kept
      <4>2. text'[r] = [runs |-> <<text[r]>> \o history.runs]
        BY <1>0, <2>1 DEF RestTyped
      <4>3. Complete(n, text'[r]) /\ Has(text'[r], r)
        <5> DEFINE new == [runs |-> <<text[r]>> \o history.runs]
        <5>1. history \in History
          BY <4>1 DEF Complete
        <5>2. new \in History /\ Has(new, r) /\ \A o : Has(history, o) => Has(new, o)
          <6>1. ASSUME NEW h \in History, NEW d \in Record, d.run = r
                PROVE  LET m == [runs |-> <<d>> \o h.runs]
                       IN  m \in History /\ Has(m, r) /\ \A o : Has(h, o) => Has(m, o)
            BY <6>1, Histories
          <6>2. text[r] \in Record /\ text[r].run = r
            BY <4>1
          <6> QED
            BY <5>1, <6>1, <6>2, Zenon
        <5> QED
          BY <4>1, <4>2, <5>2 DEF Complete
      <4>4. Complete(n, text[r])' /\ Has(text[r], r)'
        BY <1>1, <2>1, <4>3 DEF Complete, Has, History, Record
      <4>5. Complete(n, disk[HistoryOf(n)])' /\ n \notin contested'
        BY <1>1, <1>2, <2>1, <2>2, <3>3, <4>1 DEF HistoryOf
      <4> QED
        BY <1>1, <3>1, <4>4, <4>5 DEF KeptFor
    <3> QED
      BY <3>2, <3>3
  <2>3. CASE Appending(n) # {}
    <3>1. PICK s \in Appending(n) : TRUE
      BY <2>3
    <3>2. s \in Runs /\ s # r /\ name[s] = n /\ pc[s] \in Writing
      BY <1>0, <3>1 DEF Appending, Writing
    <3>3. r \in skipped \/ s \in skipped
      <4>1. SUFFICES ASSUME r \notin skipped, s \notin skipped
                     PROVE  FALSE
        OBVIOUS
      <4>2. r \in UnderWay(n) /\ s \in UnderWay(n)
        BY <1>0, <3>2, <4>1 DEF UnderWay, Writing
      <4> QED
        BY <1>0, <3>2, <4>2 DEF IInv, Busy
    <3>4. n \in contested'
      BY <2>1, <2>3
    <3> QED
      BY <1>1, <3>2, <3>3, <3>4 DEF KeptFor
  <2> QED
    BY <2>2, <2>3
<1> QED
  BY <1>3, <1>4

(* A run of n publishes the history.                                       *)
LEMMA RenamedKept ==
  ASSUME IInv, Kept, NEW r \in Runs, HistoryRenamed(r)
  PROVE  KeptFor(name[r])'
<1> DEFINE n == name[r]
<1> USE Distinct
<1>0. /\ RestTyped /\ FilesTyped /\ r \in Writers /\ pc[r] = "rename" /\ n \in Names
      /\ r \in Appending(n) /\ KeptFor(n)
      /\ FileOf(r) = HistoryOf(n) /\ HistoryOf(n) \in Files
  <2>1. r \in Writers /\ pc[r] = "rename"
    BY DEF HistoryRenamed, Writers
  <2>2. n \in Names
    BY <2>1, WriterNamed DEF Writing
  <2> QED
    BY <2>1, <2>2, TypedParts DEF IInv, Appending, Kept, FileOf
<1>1. /\ name' = name /\ skipped' = skipped /\ contested' = contested
      /\ owed' = owed \cup {r} /\ pc' = [pc EXCEPT ![r] = "ended"]
  BY DEF HistoryRenamed, End, Goto
<1>2. Appending(n)' = Appending(n) \ {r}
  BY <1>0, <1>1 DEF Appending, RestTyped, Callers
<1>3. CASE n \in contested
  BY <1>0, <1>1, <1>3 DEF KeptFor
<1>4. CASE n \notin contested
  <2>1. /\ Complete(n, tmp[HistoryOf(n)]) /\ Has(tmp[HistoryOf(n)], r)
        /\ \A s \in Appending(n) : s = r
    BY <1>0, <1>4 DEF KeptFor
  <2>2. tmp[HistoryOf(n)] # Absent
    BY <2>1, Histories DEF Complete
  <2>3. disk' = [disk EXCEPT ![HistoryOf(n)] = tmp[HistoryOf(n)]]
    BY <1>0, <2>2 DEF HistoryRenamed, Publish, NothingToRename
  <2>4. disk'[HistoryOf(n)] = tmp[HistoryOf(n)]
    BY <1>0, <2>3 DEF FilesTyped
  <2>5. Complete(n, disk[HistoryOf(n)])'
    BY SMTT(30), <1>1, <2>1, <2>4 DEF Complete, Has, HistoryOf, History, Record
  <2>6. Appending(n)' = {}
    BY <1>2, <2>1
  <2> QED
    BY <1>1, <1>4, <2>5, <2>6 DEF KeptFor
<1> QED
  BY <1>3, <1>4

LEMMA KeptStep ==
  ASSUME IInv, Kept, Next
  PROVE  Kept'
<1> USE Distinct DEF Callers, Writers, Goto
<1>0. /\ RestTyped /\ FilesTyped
      /\ \A n \in Names : KeptFor(n) /\ HistoryOf(n) \in Files
      /\ \A r \in Runs : pc[r] = "append" => text[r].run = r
      /\ \A r \in owed : r \in Runs /\ r <= fired
      /\ \A r \in skipped : r \in Runs /\ r <= fired
      /\ fired \in Nat
  <2>1. RestTyped /\ FilesTyped
    BY TypedParts DEF IInv
  <2>2. \A n \in Names : KeptFor(n) /\ HistoryOf(n) \in Files
    BY DEF Kept
  <2>3. /\ \A r \in Runs : pc[r] = "append" => text[r].run = r
        /\ \A r \in owed : r \in Runs /\ r <= fired
    BY DEF Kept
  <2>4. \A r \in skipped : r \in Runs /\ r <= fired
    BY <2>1 DEF IInv, Placed, RestTyped
  <2>5. fired \in Nat
    BY <2>1 DEF RestTyped
  <2> QED
    BY <2>1, <2>2, <2>3, <2>4, <2>5
<1>a. ASSUME name' = name, fired' = fired, contested' = contested, owed' = owed,
             skipped' = skipped, \A n \in Names : disk'[HistoryOf(n)] = disk[HistoryOf(n)],
             \A n \in Names : tmp'[HistoryOf(n)] = tmp[HistoryOf(n)],
             \A r \in Runs : pc'[r] \in Writing =>
                pc'[r] = pc[r] /\ text'[r] = text[r] /\ fd'[r] = fd[r],
             \A r \in Runs : pc'[r] = "append" => text'[r].run = r
      PROVE  Kept'
  <2>1. \A n \in Names : KeptFor(n)'
    BY <1>0, <1>a, Untouched
  <2> QED
    BY <1>0, <1>a, <2>1 DEF Kept
<1>b. ASSUME NEW r \in Runs, name[r] \in Names, KeptFor(name[r])', name' = name,
             fired' = fired, skipped' = skipped, r <= fired,
             contested' \ {name[r]} = contested \ {name[r]}, owed' \ {r} = owed \ {r},
             \A f \in Files : f # HistoryOf(name[r]) => disk'[f] = disk[f] /\ tmp'[f] = tmp[f],
             \A s \in Runs : s # r =>
               /\ pc'[s] = pc[s] /\ text'[s] = text[s]
               /\ name[s] # name[r] => fd'[s] = fd[s],
             pc'[r] # "append"
      PROVE  Kept'
  <2>1. ASSUME NEW n \in Names, n # name[r]
        PROVE  KeptFor(n)'
    <3>1. HistoryOf(n) # HistoryOf(name[r]) /\ HistoryOf(n) \in Files
      BY <1>b, <2>1
    <3>2. \A s \in owed' : name'[s] = n => s \in owed /\ name[s] = n
      BY <1>b, <2>1
    <3>3. /\ disk'[HistoryOf(n)] = disk[HistoryOf(n)] /\ tmp'[HistoryOf(n)] = tmp[HistoryOf(n)]
          /\ n \in contested' <=> n \in contested
      BY <1>b, <2>1, <3>1
    <3>4. \A s \in Runs : name'[s] = n /\ pc'[s] \in Writing =>
            name[s] = n /\ pc'[s] = pc[s] /\ text'[s] = text[s] /\ fd'[s] = fd[s]
      BY <1>b, <2>1
    <3>5. KeptFor(n)
      BY <1>0
    <3> QED
      BY <1>b, <3>2, <3>3, <3>4, <3>5, Untouched
  <2>2. \A n \in Names : KeptFor(n)'
    BY <1>b, <2>1
  <2>3. \A s \in Runs : pc'[s] = "append" => text'[s].run = s
    BY <1>0, <1>b
  <2>4. \A s \in owed' : s \in Runs /\ s <= fired'
    BY <1>0, <1>b
  <2> QED
    BY <2>2, <2>3, <2>4 DEF Kept
<1>c. \A r \in Runs : pc[r] \in InRun => name[r] \in Names /\ r <= fired
  <2>1. ASSUME NEW r \in Runs, pc[r] \in InRun
        PROVE  r <= fired
    <3>1. ~(fired < r)
      BY <2>1 DEF IInv, Placed, InRun
    <3> QED
      BY <1>0, <3>1
  <2> QED
    BY <2>1 DEF IInv, Placed
<1>1. ASSUME NEW c \in Clients, NEW n \in Names, NEW d \in Definition, Save(c, n, d)
      PROVE  Kept'
  <2>1. /\ \A r \in Runs : name'[r] = name[r] /\ pc'[r] = pc[r] /\ text'[r] = text[r]
        /\ fd' = fd /\ fired' = fired /\ contested' = contested /\ owed' = owed
        /\ skipped' = skipped /\ disk' = disk /\ tmp' = tmp
    BY <1>0, <1>1 DEF Save, files, RestTyped
  <2>2. \A m \in Names : KeptFor(m)'
    BY <1>0, <2>1, Untouched
  <2> QED
    BY <1>0, <2>1, <2>2 DEF Kept
<1>2. ASSUME NEW c \in Clients, Write(c)
      PROVE  Kept'
  <2>1. FileOf(c) = DefinitionOf(name[c])
    BY DEF FileOf
  <2>2. /\ name' = name /\ fired' = fired /\ contested' = contested /\ owed' = owed
        /\ skipped' = skipped /\ text' = text
        /\ \A r \in Runs : pc'[r] = pc[r] /\ fd'[r] = fd[r]
    BY <1>0, <1>2 DEF Write, OpenTmp, Fill, ghosts, RestTyped
  <2>3. \A n \in Names : disk'[HistoryOf(n)] = disk[HistoryOf(n)]
                         /\ tmp'[HistoryOf(n)] = tmp[HistoryOf(n)]
    BY <1>0, <1>2, <2>1 DEF Write, OpenTmp, Fill, files, FilesTyped
  <2> QED
    BY <1>0, <1>a, <2>2, <2>3
<1>3. ASSUME NEW c \in Clients, SaveRenamed(c)
      PROVE  Kept'
  <2>1. FileOf(c) = DefinitionOf(name[c]) /\ \A r \in Runs : FileOf(r) = HistoryOf(name[r])
    BY DEF FileOf
  <2>2. /\ name' = name /\ fired' = fired /\ contested' = contested /\ owed' = owed
        /\ skipped' = skipped
        /\ \A r \in Runs : pc'[r] = pc[r] /\ text'[r] = text[r]
    BY <1>0, <1>3 DEF SaveRenamed, ghosts, RestTyped
  <2>3. \A n \in Names : disk'[HistoryOf(n)] = disk[HistoryOf(n)]
                         /\ tmp'[HistoryOf(n)] = tmp[HistoryOf(n)]
    BY <1>0, <1>3, <2>1 DEF SaveRenamed, Publish, NothingToRename, files, FilesTyped
  <2>4. \A r \in Runs : fd'[r] = fd[r]
    BY <1>3, <2>1 DEF SaveRenamed, Publish, NothingToRename
  <2> QED
    BY <1>0, <1>a, <2>2, <2>3, <2>4
<1>4. ASSUME NEW c \in Callers, List(c)
      PROVE  Kept'
  BY <1>0, <1>4, <1>a DEF List, files, ghosts, RestTyped
<1>5. ASSUME NEW c \in Clients, RefreshApply(c)
      PROVE  Kept'
  BY <1>0, <1>5, <1>a DEF RefreshApply, files, RestTyped
<1>6. CASE StartApply
  BY <1>0, <1>6, <1>a DEF StartApply, files, ghosts, RestTyped
<1>7. ASSUME NEW t \in armed, Fire(t)
      PROVE  Kept'
  <2> DEFINE r == fired + 1
  <2>1. /\ r \in Runs /\ fired' = r /\ name' = [name EXCEPT ![r] = t.name]
        /\ skipped' = skipped \/ skipped' = skipped \cup {r}
        /\ \/ pc' = [pc EXCEPT ![r] = "append"]
              /\ text' = [text EXCEPT ![r] = RecordOf(r, "skipped")]
           \/ pc' = [pc EXCEPT ![r] = "read"] /\ text' = text
        /\ fd' = fd /\ contested' = contested /\ owed' = owed /\ disk' = disk /\ tmp' = tmp
    BY <1>7 DEF Fire, ToAppend, files
  <2>2. r \notin owed /\ r \notin skipped
    BY <1>0
  <2>3. \A s \in Runs : s # r => name'[s] = name[s] /\ pc'[s] = pc[s] /\ text'[s] = text[s]
    BY <1>0, <2>1 DEF RestTyped
  <2>4. /\ pc'[r] \notin Writing
        /\ pc'[r] = "append" => text'[r].run = r
    BY <1>0, <2>1 DEF RestTyped, RecordOf, Writing
  <2>5. \A n \in Names : KeptFor(n)'
    BY <1>0, <2>1, <2>2, <2>3, <2>4, Untouched
  <2>6. \A s \in owed' : s \in Runs /\ s <= fired'
    <3>1. owed' = owed /\ fired' = fired + 1
      BY <2>1
    <3>2. \A s \in owed : s \in Runs /\ s \in Nat /\ s <= fired
      BY <1>0
    <3> QED
      BY <1>0, <3>1, <3>2
  <2>7. \A s \in Runs : pc'[s] = "append" => text'[s].run = s
    BY <1>0, <2>3, <2>4
  <2> QED
    BY <2>5, <2>6, <2>7 DEF Kept
<1>8. ASSUME NEW r \in Runs, ReadDefinition(r) \/ Drop(r) \/ CheckPause(r) \/ Send(r)
      PROVE  Kept'
  <2>1. /\ name' = name /\ fired' = fired /\ contested' = contested /\ owed' = owed
        /\ skipped' = skipped /\ files' = files /\ fd' = fd
    BY <1>8 DEF ReadDefinition, Drop, CheckPause, Send, ghosts
  <2>2. /\ \/ \E l \in {"drop", "execute", "ended", "send"} : pc' = [pc EXCEPT ![r] = l]
           \/ pc' = [pc EXCEPT ![r] = "append"] /\ text'[r].run = r
        /\ \A s \in Runs : s # r => text'[s] = text[s]
    BY <1>0, <1>8 DEF ReadDefinition, Drop, CheckPause, Send, End, ToAppend, RecordOf, RestTyped
  <2>3. /\ pc'[r] \notin Writing
        /\ pc'[r] = "append" => text'[r].run = r
        /\ \A s \in Runs : s # r => pc'[s] = pc[s]
    BY <1>0, <2>2 DEF RestTyped, Writing
  <2> QED
    <3>1. disk' = disk /\ tmp' = tmp
      BY <2>1 DEF files
    <3>2. \A s \in Runs : /\ pc'[s] = "append" => text'[s].run = s
                          /\ pc'[s] \in Writing => /\ pc'[s] = pc[s] /\ text'[s] = text[s]
                                                   /\ fd'[s] = fd[s]
      <4>1. ASSUME NEW s \in Runs, s # r
            PROVE  pc'[s] = pc[s] /\ text'[s] = text[s] /\ fd'[s] = fd[s]
        BY <4>1, <2>1, <2>2, <2>3
      <4>2. /\ pc'[r] = "append" => text'[r].run = r
            /\ pc'[r] \notin Writing
        BY <2>3
      <4> QED
        BY <1>0, <4>1, <4>2
    <3> QED
      BY <1>a, <2>1, <3>1, <3>2
<1>9. ASSUME NEW r \in Runs, AppendRun(r)
      PROVE  Kept'
  <2>1. name[r] \in Names /\ r <= fired
    BY <1>9, <1>c DEF AppendRun, InRun
  <2>2. /\ name' = name /\ fired' = fired /\ skipped' = skipped /\ disk' = disk /\ tmp' = tmp
        /\ fd' = fd
        /\ contested' \ {name[r]} = contested \ {name[r]} /\ owed' \ {r} = owed \ {r}
        /\ \E l \in {"ended", "open"} : pc' = [pc EXCEPT ![r] = l]
        /\ \A s \in Runs : s # r => text'[s] = text[s]
    BY <1>0, <1>9 DEF AppendRun, End, files, RestTyped
  <2>3. pc'[r] # "append" /\ \A s \in Runs : s # r => pc'[s] = pc[s]
    BY <1>0, <2>2 DEF RestTyped
  <2> QED
    BY <1>9, <1>b, <2>1, <2>2, <2>3, AppendKept
<1>10. ASSUME NEW r \in Runs, Write(r)
       PROVE  Kept'
  <2>1. name[r] \in Names /\ r <= fired
    BY <1>10, <1>c DEF Write, OpenTmp, Fill, InRun
  <2>2. FileOf(r) = HistoryOf(name[r])
    BY DEF FileOf
  <2>3. /\ name' = name /\ fired' = fired /\ skipped' = skipped /\ contested' = contested
        /\ owed' = owed /\ text' = text
        /\ \E l \in {"fill", "rename"} : pc' = [pc EXCEPT ![r] = l]
        /\ \A f \in Files : f # HistoryOf(name[r]) => disk'[f] = disk[f] /\ tmp'[f] = tmp[f]
        /\ \A s \in Runs : s # r => fd'[s] = fd[s]
    BY <1>0, <1>10, <2>2 DEF Write, OpenTmp, Fill, files, ghosts, RestTyped, FilesTyped
  <2>4. pc'[r] # "append" /\ \A s \in Runs : s # r => pc'[s] = pc[s]
    BY <1>0, <2>3 DEF RestTyped
  <2> QED
    BY <1>10, <1>b, <2>1, <2>3, <2>4, WriteKept
<1>11. ASSUME NEW r \in Runs, HistoryRenamed(r)
       PROVE  Kept'
  <2>1. name[r] \in Names /\ r <= fired
    BY <1>11, <1>c DEF HistoryRenamed, InRun
  <2>2. \A s \in Runs : FileOf(s) = HistoryOf(name[s])
    BY DEF FileOf
  <2>3. /\ name' = name /\ fired' = fired /\ skipped' = skipped /\ contested' = contested
        /\ owed' = owed \cup {r} /\ pc' = [pc EXCEPT ![r] = "ended"]
        /\ text' = [text EXCEPT ![r] = NoText]
    BY <1>11 DEF HistoryRenamed, End
  <2>4. \A f \in Files : f # HistoryOf(name[r]) => disk'[f] = disk[f] /\ tmp'[f] = tmp[f]
    BY <1>0, <1>11, <2>2 DEF HistoryRenamed, Publish, NothingToRename, files, FilesTyped
  <2>5. \A s \in Runs : name[s] # name[r] => fd'[s] = fd[s]
    <3>1. CASE fd' = fd
      BY <3>1
    <3>2. CASE fd' = [v \in Writers |->
                        CASE FileOf(v) = FileOf(r) /\ fd[v] = "tmp"  -> "file"
                          [] FileOf(v) = FileOf(r) /\ fd[v] = "file" -> "gone"
                          [] OTHER -> fd[v]]
      <4>1. ASSUME NEW s \in Runs, name[s] # name[r]
            PROVE  FileOf(s) # FileOf(r)
        BY <2>2, <4>1 DEF HistoryOf
      <4> QED
        BY <3>2, <4>1
    <3> QED
      BY <1>11, <3>1, <3>2 DEF HistoryRenamed, Publish, NothingToRename
  <2>6. /\ pc'[r] # "append"
        /\ \A s \in Runs : s # r => pc'[s] = pc[s] /\ text'[s] = text[s]
    BY <1>0, <2>3 DEF RestTyped
  <2> QED
    BY <1>11, <1>b, <2>1, <2>3, <2>4, <2>5, <2>6, RenamedKept
<1>12. CASE SetPaused
  BY <1>0, <1>12, <1>a DEF SetPaused, files, control
<1>13. ASSUME NEW n \in Names, RemoveByHand(n)
       PROVE  Kept'
  <2>1. \A r \in Runs : FileOf(r) = HistoryOf(name[r])
    BY DEF FileOf
  <2>2. \A r \in Runs : fd'[r] = fd[r]
    BY <1>13, <2>1 DEF RemoveByHand
  <2>3. \A m \in Names : disk'[HistoryOf(m)] = disk[HistoryOf(m)]
    BY <1>0, <1>13 DEF RemoveByHand, FilesTyped
  <2> QED
    BY <1>0, <1>13, <1>a, <2>2, <2>3 DEF RemoveByHand, control
<1>14. CASE Restart
  <2>1. \A r \in Runs : pc'[r] \in {"ended", "idle"}
    BY <1>0, <1>14 DEF Restart
  <2> QED
    BY <1>0, <1>14, <1>a, <2>1 DEF Restart, files, Writing
<1> QED
  BY <1>1, <1>2, <1>3, <1>4, <1>5, <1>6, <1>7, <1>8, <1>9, <1>10, <1>11, <1>12, <1>13, <1>14
     DEF Next, SaveStep, StartStep, RunStep

(* ROUT-05: a history that two runs never appended to at once can be read  *)
(* and has every run the scheduler has finished with; and two runs of a    *)
(* routine append at once only if the guard turned one of them away.       *)
THEOREM HistoryTheorem == Spec => []HistoryKept
<1>1. Init => Kept
  <2> SUFFICES ASSUME Init PROVE Kept
    OBVIOUS
  <2>1. /\ \A r \in Runs : pc[r] = "idle"
        /\ owed = {} /\ contested = {}
        /\ \A n \in Names : disk[HistoryOf(n)] = [runs |-> <<>>]
    BY Distinct DEF Init, Callers
  <2>2. [runs |-> <<>>] \in History
    BY <<>> \in Seq(Record) DEF History
  <2> QED
    BY <2>1, <2>2 DEF Kept, KeptFor, Complete, Appending
<1>2. IInv /\ Kept /\ [Next]_vars => Kept'
  <2>1. ASSUME Kept, UNCHANGED vars
        PROVE  Kept'
    <3>1. /\ name' = name /\ fired' = fired /\ contested' = contested /\ owed' = owed
          /\ skipped' = skipped /\ disk' = disk /\ tmp' = tmp /\ pc' = pc /\ text' = text
          /\ fd' = fd
      BY <2>1 DEF vars, files, control, ghosts
    <3>2. \A n \in Names : KeptFor(n)'
      BY <2>1, <3>1, Untouched DEF Kept
    <3> QED
      BY <2>1, <3>1, <3>2 DEF Kept
  <2> QED
    BY <2>1, KeptStep
<1>3. Kept => HistoryKept
  BY Histories DEF Kept, KeptFor, Complete, Has, HistoryKept
<1> QED
  BY Invariant, <1>1, <1>2, <1>3, PTL DEF Spec

-----------------------------------------------------------------------------
(* ScheduledAsSaved.  While no save has overlapped another caller's work   *)
(* and nobody has removed a file, at most one caller is at work, and its   *)
(* refresh brings the tasks of the one routine that has changed in line.   *)
Wanted == {d \in Definition : d.enabled /\ d.schedule \in Valid}

Current(n) ==
  /\ \A t \in armed : t.name = n => /\ disk[DefinitionOf(n)] \in Wanted
                                    /\ t.schedule = disk[DefinitionOf(n)].schedule
  /\ disk[DefinitionOf(n)] \in Wanted => \E t \in armed : t.name = n

(* How far a save has come.                                                *)
Saving(c) ==
  /\ pc[c] \in Writing => text[c] \in Definition /\ text[c].schedule \in Valid
  /\ pc[c] = "fill" => fd[c] = "tmp" /\ tmp[DefinitionOf(name[c])] = Torn
  /\ pc[c] = "rename" => tmp[DefinitionOf(name[c])] = text[c]
  /\ pc[c] \in {"list", "apply"} =>
       /\ name[c] \in Names /\ disk[DefinitionOf(name[c])] \in Definition
       /\ disk[DefinitionOf(name[c])].schedule \in Valid

Refreshing(n) ==
  pc[Boot] # "idle" \/ \E c \in Clients : pc[c] \in {"list", "apply"} /\ name[c] = n

Tidied ==
  /\ ~raced
  /\ \A n \in Names : disk[DefinitionOf(n)] # Torn
  /\ \A b, c \in Callers : pc[b] # "idle" /\ pc[c] # "idle" => b = c
  /\ \A t \in armed : disk[DefinitionOf(t.name)] \in Definition
  /\ \A r \in Runs : /\ pc[r] # "drop"
                     /\ pc[r] = "read" => disk[DefinitionOf(name[r])] \in Definition
  /\ \A c \in Clients : Saving(c)
  /\ \A c \in Callers, n \in Names : pc[c] = "apply" => seen[c][n] = disk[DefinitionOf(n)]
  /\ pc[Boot] # "idle" => armed = {}
  /\ \A n \in Names : Refreshing(n) \/ Current(n)

Tidy == ~muddled => Tidied

(* What no refresh, save or restart has touched stays in line.             *)
LEMMA TidyKept ==
  ASSUME IInv, Tidied, raced' = raced, armed' = armed,
         \A n \in Names : disk'[DefinitionOf(n)] = disk[DefinitionOf(n)]
                  /\ tmp'[DefinitionOf(n)] = tmp[DefinitionOf(n)],
         \A c \in Callers : pc'[c] = pc[c] /\ name'[c] = name[c] /\ seen'[c] = seen[c],
         \A c \in Clients : text'[c] = text[c] /\ fd'[c] = fd[c],
         \A r \in Runs : /\ pc'[r] # "drop"
                         /\ pc'[r] = "read" => pc[r] = "read" /\ name'[r] = name[r]
  PROVE  Tidied'
<1> USE DEF Callers
<1>1. \A n \in Names : Current(n)' <=> Current(n)
  BY DEF Current
<1>2. \A n \in Names : Refreshing(n)' <=> Refreshing(n)
  BY DEF Refreshing
<1>3. /\ \A t \in armed : t.name \in Names
      /\ \A c \in Clients : pc[c] \in Writing => name[c] \in Names
      /\ \A r \in Runs : pc[r] = "read" => name[r] \in Names
  <2>1. ASSUME NEW r \in Runs, pc[r] = "read"
        PROVE  name[r] \in Names
    <3>1. fired \in Nat /\ ~(fired < r) /\ r \in Nat
      BY <2>1, Distinct DEF IInv, TypeOK, Placed
    <3>2. r <= fired
      BY <3>1
    <3> QED
      BY <3>2 DEF IInv, Placed
  <2> QED
    BY <2>1, TypedParts DEF IInv, Placed, CronTyped, Task
<1>4. \A c \in Clients : Saving(c)'
  BY <1>3 DEF Tidied, Saving, Writing
<1> QED
  BY <1>1, <1>2, <1>3, <1>4 DEF Tidied

LEMMA SaveTidy ==
  ASSUME IInv, Tidied, ~muddled',
         NEW c \in Clients, NEW n \in Names, NEW d \in Definition, Save(c, n, d)
  PROVE  Tidied'
<1> USE Distinct DEF Callers, Goto, Writers
<1>0. RestTyped
  BY TypedParts DEF IInv
<1>1. \A b \in Callers : pc[b] = "idle"
  BY DEF Save
<1>2. /\ pc' = [pc EXCEPT ![c] = "open"] /\ name' = [name EXCEPT ![c] = n]
      /\ text' = [text EXCEPT ![c] = d] /\ d.schedule \in Valid
      /\ raced' = raced /\ armed' = armed /\ disk' = disk /\ tmp' = tmp /\ seen' = seen
  BY DEF Save, files, cron
<1>3. /\ pc'[c] = "open" /\ text'[c] = d
      /\ \A b \in Callers : b # c => pc'[b] = "idle"
      /\ \A r \in Runs : pc'[r] = pc[r] /\ name'[r] = name[r]
  BY <1>0, <1>1, <1>2 DEF RestTyped
<1>4. \A b \in Clients : Saving(b)'
  BY <1>2, <1>3 DEF Saving, Writing
<1>5. \A m \in Names : Current(m)'
  BY <1>1, <1>2 DEF Tidied, Refreshing, Current
<1> QED
  BY <1>2, <1>3, <1>4, <1>5 DEF Tidied

(* The temporary file of a save is its own.                                *)
LEMMA WriteTidy ==
  ASSUME IInv, Tidied, NEW c \in Clients, Write(c)
  PROVE  Tidied'
<1> USE Distinct DEF Callers, Goto, Writers
<1>0. RestTyped /\ FilesTyped
  BY TypedParts DEF IInv
<1>1. FileOf(c) = DefinitionOf(name[c]) /\ name[c] \in Names /\ pc[c] \in {"open", "fill"}
  BY DEF FileOf, Write, OpenTmp, Fill, IInv, Placed, Writing
<1>2. /\ \A b \in Callers : b # c => pc[b] = "idle"
      /\ Saving(c)
  BY <1>1 DEF Tidied
<1>3. /\ name' = name /\ text' = text /\ raced' = raced /\ armed' = armed /\ seen' = seen
      /\ disk' = disk
  BY <1>1, <1>2 DEF Write, OpenTmp, Fill, cron, ghosts, Saving
<1>4. \/ /\ pc' = [pc EXCEPT ![c] = "fill"] /\ fd' = [fd EXCEPT ![c] = "tmp"]
         /\ tmp' = [tmp EXCEPT ![DefinitionOf(name[c])] = Torn]
      \/ /\ pc' = [pc EXCEPT ![c] = "rename"]
         /\ tmp' = [tmp EXCEPT ![DefinitionOf(name[c])] = text[c]]
  BY <1>1, <1>2 DEF Write, OpenTmp, Fill, Saving, Overlay
<1>5. /\ pc'[c] \in {"fill", "rename"}
      /\ \A b \in Callers : b # c => pc'[b] = "idle"
      /\ \A r \in Runs : pc'[r] = pc[r]
  BY <1>0, <1>2, <1>4 DEF RestTyped
<1>6. Saving(c)'
  BY <1>0, <1>1, <1>2, <1>3, <1>4 DEF Saving, Writing, RestTyped, FilesTyped
<1>7. \A b \in Clients : Saving(b)'
  BY <1>5, <1>6 DEF Saving, Writing
<1>8. \A m \in Names : ~Refreshing(m)
  BY <1>1, <1>2 DEF Refreshing
<1>9. \A m \in Names : Current(m)'
  BY <1>3, <1>8 DEF Tidied, Current
<1> QED
  BY <1>3, <1>5, <1>7, <1>9 DEF Tidied

LEMMA RenameTidy ==
  ASSUME IInv, Tidied, NEW c \in Clients, SaveRenamed(c)
  PROVE  Tidied'
<1> USE Distinct, Kinds DEF Callers, Goto, Writers
<1>0. RestTyped /\ FilesTyped
  BY TypedParts DEF IInv
<1>1. /\ FileOf(c) = DefinitionOf(name[c]) /\ name[c] \in Names /\ pc[c] = "rename"
      /\ DefinitionOf(name[c]) \in Files
  BY DEF FileOf, SaveRenamed, IInv, Placed, Writing
<1>2. /\ \A b \in Callers : b # c => pc[b] = "idle"
      /\ text[c] \in Definition /\ text[c].schedule \in Valid
      /\ tmp[DefinitionOf(name[c])] = text[c]
  BY <1>1 DEF Tidied, Saving, Writing
<1>3. /\ disk' = [disk EXCEPT ![DefinitionOf(name[c])] = text[c]]
      /\ pc' = [pc EXCEPT ![c] = "list"]
      /\ name' = name /\ raced' = raced /\ armed' = armed /\ seen' = seen
  BY <1>1, <1>2 DEF SaveRenamed, Publish, NothingToRename, cron, ghosts
<1>4. /\ pc'[c] = "list"
      /\ \A b \in Callers : b # c => pc'[b] = "idle"
      /\ \A r \in Runs : pc'[r] = pc[r]
  BY <1>0, <1>2, <1>3 DEF RestTyped
<1>5. /\ disk'[DefinitionOf(name[c])] = text[c]
      /\ \A m : m # name[c] => disk'[DefinitionOf(m)] = disk[DefinitionOf(m)]
  BY <1>0, <1>1, <1>3 DEF FilesTyped
<1>6. \A b \in Clients : Saving(b)'
  BY <1>1, <1>2, <1>3, <1>4, <1>5 DEF Saving, Writing
<1>7. /\ \A m \in Names : ~Refreshing(m)
      /\ Refreshing(name[c])'
  BY <1>1, <1>2, <1>3, <1>4 DEF Refreshing
<1>8. \A m \in Names : m # name[c] => Current(m)'
  BY <1>3, <1>5, <1>7 DEF Tidied, Current
<1>9. /\ \A m \in Names : disk'[DefinitionOf(m)] # Torn
      /\ \A t \in armed' : disk'[DefinitionOf(t.name)] \in Definition
      /\ \A r \in Runs : /\ pc'[r] # "drop"
                         /\ pc'[r] = "read" => disk'[DefinitionOf(name'[r])] \in Definition
  BY <1>2, <1>3, <1>4, <1>5 DEF Tidied
<1> QED
  BY <1>3, <1>4, <1>6, <1>7, <1>8, <1>9 DEF Tidied

LEMMA ListTidy ==
  ASSUME IInv, Tidied, NEW c \in Callers, List(c)
  PROVE  Tidied'
<1> USE Distinct DEF Callers, Goto
<1>0. RestTyped /\ CronTyped
  BY TypedParts DEF IInv
<1>1. /\ pc[c] = "list" /\ pc' = [pc EXCEPT ![c] = "apply"]
      /\ seen' = [seen EXCEPT ![c] = [n \in Names |-> disk[DefinitionOf(n)]]]
      /\ name' = name /\ raced' = raced /\ armed' = armed /\ disk' = disk /\ tmp' = tmp
      /\ text' = text /\ fd' = fd
  BY DEF Tidied, List, files, cron, ghosts
<1>2. /\ pc'[c] = "apply"
      /\ \A b \in Callers : b # c => pc[b] = "idle" /\ pc'[b] = "idle"
      /\ \A r \in Runs : pc'[r] = pc[r]
  BY <1>0, <1>1 DEF RestTyped, Tidied
<1>3. \A n \in Names : seen'[c][n] = disk[DefinitionOf(n)]
  BY <1>0, <1>1 DEF CronTyped
<1>4. \A b \in Clients : Saving(b)'
  BY <1>1, <1>2 DEF Saving, Writing, Tidied
<1>5. \A n \in Names : /\ Refreshing(n)' <=> Refreshing(n)
                       /\ Current(n)' <=> Current(n)
  BY <1>1, <1>2 DEF Refreshing, Current
<1> QED
  BY <1>1, <1>2, <1>3, <1>4, <1>5 DEF Tidied

(* What a listing of the files as they are makes of the tasks.             *)
LEMMA Listed ==
  ASSUME NEW c \in Callers, \A n \in Names : seen[c][n] = disk[DefinitionOf(n)],
         \A n \in Names : disk[DefinitionOf(n)] \in Definition \cup {Absent}
  PROVE  /\ \A n \in Names : /\ n \in Schedulable(c) <=> disk[DefinitionOf(n)] \in Wanted
                             /\ n \in Enabled(c) => disk[DefinitionOf(n)] \in Definition
                             /\ n \notin Enabled(c) => disk[DefinitionOf(n)] \notin Wanted
         /\ \A t \in NewTasks(c) : /\ t.name \in Schedulable(c)
                                   /\ t.schedule = disk[DefinitionOf(t.name)].schedule
         /\ \A n \in Schedulable(c) : \E t \in NewTasks(c) : t.name = n
<1>1. \A n \in Names : /\ n \in Schedulable(c) <=> disk[DefinitionOf(n)] \in Wanted
                       /\ n \in Enabled(c) => disk[DefinitionOf(n)] \in Definition
                       /\ n \notin Enabled(c) => disk[DefinitionOf(n)] \notin Wanted
  BY Kinds DEF Schedulable, Enabled, Wanted
<1>2. Schedulable(c) \subseteq Names
  BY DEF Schedulable, Enabled
<1>3. \A t \in NewTasks(c) : /\ t.name \in Schedulable(c)
                             /\ t.schedule = disk[DefinitionOf(t.name)].schedule
  BY <1>2 DEF NewTasks
<1>4. ASSUME NEW n \in Schedulable(c)
      PROVE  \E t \in NewTasks(c) : t.name = n
  <2>1. [age |-> age, name |-> n, schedule |-> seen[c][n].schedule] \in NewTasks(c)
    BY DEF NewTasks
  <2> QED
    BY <2>1
<1> QED
  BY <1>1, <1>3, <1>4

LEMMA ApplyTidy ==
  ASSUME IInv, Tidied, NEW c \in Callers,
         (c \in Clients /\ RefreshApply(c)) \/ (c = Boot /\ StartApply)
  PROVE  Tidied'
<1> USE Distinct DEF Callers, Goto
<1>0. RestTyped /\ CronTyped /\ FilesTyped /\ Mapping /\ Placed
  BY TypedParts DEF IInv
<1>1. /\ pc[c] = "apply" /\ pc' = [pc EXCEPT ![c] = "idle"]
      /\ name' = name /\ disk' = disk /\ tmp' = tmp
  BY DEF RefreshApply, StartApply, files
<1>2. /\ \A b \in Callers : b # c => pc[b] = "idle"
      /\ \A b \in Callers : pc'[b] = "idle"
      /\ \A r \in Runs : pc'[r] = pc[r]
  BY <1>0, <1>1 DEF RestTyped, Tidied
<1>3. ~raced'
  BY <1>2 DEF RefreshApply, StartApply, ghosts, Tidied
<1>4. \A n \in Names : /\ seen[c][n] = disk[DefinitionOf(n)]
                       /\ disk[DefinitionOf(n)] \in Definition \cup {Absent}
  BY <1>0, <1>1 DEF Tidied, FilesTyped, DefinitionFile
<1>5. \A n \in Names : Current(n)' /\ \A t \in armed' : t.name = n =>
                                            disk[DefinitionOf(n)] \in Definition
  <2> SUFFICES ASSUME NEW n \in Names
               PROVE  Current(n)' /\ \A t \in armed' : t.name = n =>
                                            disk[DefinitionOf(n)] \in Definition
    OBVIOUS
  <2> USE <1>4, Listed
  <2>1. \A t \in armed : t.name \in Names /\ tasks[t.name] = t.age
    BY <1>0 DEF Mapping, Tidied, CronTyped, Task
  <2>2. CASE c = Boot
    <3>1. armed' = NewTasks(c)
      BY ZenonT(30), <1>1, <2>2 DEF StartApply, Tidied, RefreshApply
    <3> QED
      BY <1>1, <3>1 DEF Current, Wanted
  <2>3. CASE c # Boot
    <3>1. armed' = (armed \ Mapped((Names \ Enabled(c)) \cup Schedulable(c))) \cup NewTasks(c)
      BY <2>3 DEF RefreshApply
    <3>2. ASSUME n \in Schedulable(c) \/ n \notin Enabled(c)
          PROVE  \A t \in armed' : t.name = n => t \in NewTasks(c)
      BY <2>1, <3>1, <3>2 DEF Mapped
    <3>3. NewTasks(c) \subseteq armed'
      BY <3>1
    <3>4. CASE n \in Schedulable(c)
      BY <1>1, <3>2, <3>3, <3>4 DEF Current, Wanted
    <3>5. CASE n \notin Enabled(c)
      BY <1>1, <3>2, <3>5 DEF Current, Schedulable
    <3>6. CASE n \in Enabled(c) /\ n \notin Schedulable(c)
      <4>1. n # name[c]
        BY <1>1, <2>3, <3>6 DEF Tidied, Saving, Wanted, Schedulable, Enabled
      <4>2. Current(n)
        BY <1>1, <1>2, <2>3, <4>1 DEF Tidied, Refreshing
      <4>3. \A t \in armed' : t.name = n => t \in armed
        BY <3>1, <3>6
      <4> QED
        BY <1>1, <3>6, <4>2, <4>3 DEF Current
    <3> QED
      BY <3>4, <3>5, <3>6
  <2> QED
    BY <2>2, <2>3
<1>6. \A t \in armed' : t.name \in Names
  <2>1. \A t \in armed : t.name \in Names
    BY <1>0 DEF CronTyped, Task
  <2>2. \A t \in NewTasks(c) : t.name \in Names
    BY DEF NewTasks, Schedulable, Enabled
  <2> QED
    BY <2>1, <2>2 DEF RefreshApply, StartApply
<1>7. \A b \in Clients : Saving(b)'
  BY <1>2 DEF Saving, Writing
<1> QED
  BY <1>1, <1>2, <1>3, <1>5, <1>6, <1>7 DEF Tidied

LEMMA FireTidy ==
  ASSUME IInv, Tidied, NEW t \in armed, Fire(t)
  PROVE  Tidied'
<1> USE Distinct DEF Callers, Writers, Goto
<1> DEFINE r == fired + 1
<1>0. RestTyped
  BY TypedParts DEF IInv
<1>1. /\ r \in Runs /\ name' = [name EXCEPT ![r] = t.name]
      /\ \/ pc' = [pc EXCEPT ![r] = "append"]
            /\ text' = [text EXCEPT ![r] = RecordOf(r, "skipped")]
         \/ pc' = [pc EXCEPT ![r] = "read"] /\ text' = text
      /\ fd' = fd /\ raced' = raced /\ armed' = armed /\ disk' = disk /\ tmp' = tmp /\ seen' = seen
  BY DEF Fire, ToAppend, files, cron
<1> HIDE DEF r
<1>2. /\ \A c \in Callers : pc'[c] = pc[c] /\ name'[c] = name[c]
      /\ \A c \in Clients : text'[c] = text[c]
      /\ pc'[r] # "drop" /\ name'[r] = t.name
      /\ \A s \in Runs : s # r => pc'[s] = pc[s] /\ name'[s] = name[s]
  BY <1>0, <1>1 DEF RestTyped
<1>3. \A c \in Clients : Saving(c)'
  BY <1>1, <1>2 DEF Saving, Tidied
<1>4. \A n \in Names : /\ Refreshing(n)' <=> Refreshing(n)
                       /\ Current(n)' <=> Current(n)
  BY <1>1, <1>2 DEF Refreshing, Current
<1>5. \A s \in Runs : /\ pc'[s] # "drop"
                      /\ pc'[s] = "read" => disk'[DefinitionOf(name'[s])] \in Definition
  BY <1>1, <1>2 DEF Tidied
<1> QED
  BY <1>1, <1>2, <1>3, <1>4, <1>5 DEF Tidied

(* The steps of a run leave definitions and tasks alone: it finds its      *)
(* definition.                                                             *)
LEMMA RunTidy ==
  ASSUME IInv, Tidied, NEW r \in Runs, RunStep(r)
  PROVE  Tidied'
<1> USE Distinct, Kinds DEF Callers, Writers, Goto
<1>0. RestTyped /\ FilesTyped
  BY TypedParts DEF IInv
<1>1. pc[r] # "drop" /\ \A s \in Runs : FileOf(s) = HistoryOf(name[s])
  BY DEF Tidied, FileOf
<1>2. /\ \E l \in {"append", "execute", "send", "ended", "open", "fill", "rename"} :
           pc' = [pc EXCEPT ![r] = l]
      /\ \A c \in Clients : text'[c] = text[c]
      /\ name' = name /\ raced' = raced /\ armed' = armed /\ seen' = seen
  <2>1. CASE ReadDefinition(r)
    BY <1>0, <2>1 DEF ReadDefinition, ToAppend, Tidied, RestTyped, cron, ghosts
  <2>2. CASE CheckPause(r) \/ Send(r)
    BY <1>0, <2>2 DEF CheckPause, Send, ToAppend, RestTyped, cron, ghosts
  <2>3. CASE AppendRun(r) \/ HistoryRenamed(r)
    BY <1>0, <2>3 DEF AppendRun, HistoryRenamed, End, RestTyped, cron
  <2>4. CASE Write(r)
    BY <2>4 DEF Write, OpenTmp, Fill, cron, ghosts
  <2> QED
    BY <1>1, <2>1, <2>2, <2>3, <2>4 DEF RunStep, Drop
<1>3. \A n \in Names : disk'[DefinitionOf(n)] = disk[DefinitionOf(n)]
              /\ tmp'[DefinitionOf(n)] = tmp[DefinitionOf(n)]
  <2>1. CASE ReadDefinition(r) \/ CheckPause(r) \/ Send(r) \/ AppendRun(r)
    BY <2>1 DEF ReadDefinition, CheckPause, Send, AppendRun, files
  <2>2. CASE Write(r)
    BY <1>0, <1>1, <2>2 DEF Write, OpenTmp, Fill, files, FilesTyped
  <2>3. CASE HistoryRenamed(r)
    BY <1>0, <1>1, <2>3 DEF HistoryRenamed, Publish, NothingToRename, files, FilesTyped
  <2> QED
    BY <1>1, <2>1, <2>2, <2>3 DEF RunStep, Drop
<1>4. \A c \in Clients : fd'[c] = fd[c]
  <2>1. CASE ReadDefinition(r) \/ CheckPause(r) \/ Send(r) \/ AppendRun(r)
    BY <2>1 DEF ReadDefinition, CheckPause, Send, AppendRun
  <2>2. CASE Write(r)
    BY <1>0, <2>2 DEF Write, OpenTmp, Fill, RestTyped
  <2>3. CASE HistoryRenamed(r)
    <3>1. \A c \in Clients : FileOf(c) = DefinitionOf(name[c])
      BY DEF FileOf
    <3> QED
      BY <1>1, <2>3, <3>1 DEF HistoryRenamed, Publish, NothingToRename
  <2> QED
    BY <1>1, <2>1, <2>2, <2>3 DEF RunStep, Drop
<1>5. /\ \A c \in Callers : pc'[c] = pc[c]
      /\ \A s \in Runs : pc'[s] # "drop" /\ (pc'[s] = "read" => pc[s] = "read")
  <2>1. pc = [a \in Callers \cup Runs |-> pc[a]]
    BY <1>0 DEF RestTyped
  <2>2. /\ \A a \in (Callers \cup Runs) \ {r} : pc'[a] = pc[a]
        /\ pc'[r] \in {"append", "execute", "send", "ended", "open", "fill", "rename"}
    BY <1>2, <2>1
  <2>3. \A c \in Callers : c # r
    OBVIOUS
  <2>4. \A s \in Runs : pc[s] # "drop"
    BY DEF Tidied
  <2> HIDE DEF Callers
  <2> QED
    BY <2>2, <2>3, <2>4
<1> QED
  BY <1>2, <1>3, <1>4, <1>5, TidyKept

LEMMA RestartTidy ==
  ASSUME IInv, ~muddled', Restart
  PROVE  Tidied'
<1> USE Distinct DEF Callers
<1>1. /\ \A c \in Clients : pc'[c] = "idle"
      /\ pc'[Boot] = "list" /\ ~raced' /\ armed' = {} /\ disk' = disk
      /\ \A r \in Runs : pc'[r] \in {"ended", "idle"}
      /\ \A n \in Names : disk[DefinitionOf(n)] # Torn
  BY DEF Restart, files
<1>2. \A c \in Clients : Saving(c)'
  BY <1>1 DEF Saving, Writing
<1> QED
  BY <1>1, <1>2 DEF Tidied, Refreshing

LEMMA TidyStep == IInv /\ Tidy /\ [Next]_vars => Tidy'
<1> SUFFICES ASSUME IInv, Tidy, [Next]_vars, ~muddled' PROVE Tidied'
  BY DEF Tidy
<1>1. CASE Restart
  BY <1>1, RestartTidy
<1>2. CASE ~Restart
  <2>1. ~muddled
    BY <1>2 DEF Next, SaveStep, StartStep, RunStep, Save, Write, OpenTmp, Fill, SaveRenamed,
                List, RefreshApply, StartApply, Fire, ReadDefinition, Drop, CheckPause, Send,
                AppendRun, HistoryRenamed, SetPaused, RemoveByHand, ghosts, vars
  <2>2. Tidied
    BY <2>1 DEF Tidy
  <2>3. CASE \E c \in Clients, n \in Names, d \in Definition : Save(c, n, d)
    BY <2>2, <2>3, SaveTidy
  <2>4. CASE SaveStep
    BY <2>2, <2>4, WriteTidy, RenameTidy, ListTidy, ApplyTidy DEF SaveStep, Callers
  <2>5. CASE StartStep
    BY <2>2, <2>5, ListTidy, ApplyTidy DEF StartStep, Callers
  <2>6. CASE \E t \in armed : Fire(t)
    BY <2>2, <2>6, FireTidy
  <2>7. CASE \E r \in Runs : RunStep(r)
    BY <2>2, <2>7, RunTidy
  <2>8. CASE SetPaused \/ UNCHANGED vars
    BY <2>2, <2>8, TidyKept DEF SetPaused, vars, files, cron, control, ghosts, Tidied
  <2>9. CASE \E n \in Names : RemoveByHand(n)
    BY <2>9 DEF RemoveByHand
  <2> QED
    BY <1>2, <2>3, <2>4, <2>5, <2>6, <2>7, <2>8, <2>9 DEF Next
<1> QED
  BY <1>1, <1>2

(* A saved routine is picked up: once nobody is saving, the live tasks are *)
(* those of the enabled definitions on disk with their schedules, unless   *)
(* saves overlapped or a file was removed by hand since the last start.    *)
THEOREM ScheduledTheorem == Spec => []ScheduledAsSaved
<1>1. Init => Tidy
  <2> SUFFICES ASSUME Init PROVE Tidied
    BY DEF Tidy
  <2> USE Distinct, Kinds DEF Callers
  <2>1. /\ \A a \in Clients \cup Runs : pc[a] = "idle"
        /\ pc[Boot] = "list" /\ ~raced /\ armed = {}
        /\ \A n \in Names : disk[DefinitionOf(n)] # Torn
    BY DEF Init
  <2>2. \A c \in Clients : Saving(c)
    BY <2>1 DEF Saving, Writing
  <2> QED
    BY <2>1, <2>2 DEF Tidied, Refreshing
<1>2. IInv /\ Tidy => ScheduledAsSaved
  <2> SUFFICES ASSUME CronTyped, Tidied, \A c \in Callers : pc[c] = "idle"
               PROVE  {[name |-> t.name, schedule |-> t.schedule] : t \in armed}
                        = {[name |-> n, schedule |-> disk[DefinitionOf(n)].schedule] :
                             n \in {n \in Names : disk[DefinitionOf(n)] \in Wanted}}
    BY TypedParts DEF IInv, Tidy, ScheduledAsSaved, Wanted
  <2>1. \A n \in Names : Current(n)
    BY DEF Tidied, Refreshing, Callers
  <2>2. ASSUME NEW t \in armed
        PROVE  /\ t.name \in Names /\ disk[DefinitionOf(t.name)] \in Wanted
               /\ t.schedule = disk[DefinitionOf(t.name)].schedule
    BY <2>1 DEF Current, CronTyped, Task
  <2>3. ASSUME NEW n \in Names, disk[DefinitionOf(n)] \in Wanted
        PROVE  \E t \in armed : t.name = n /\ t.schedule = disk[DefinitionOf(n)].schedule
    BY <2>1, <2>3 DEF Current
  <2> QED
    BY <2>2, <2>3
<1> QED
  BY Invariant, <1>1, <1>2, TidyStep, PTL DEF Spec
==============================================================================
