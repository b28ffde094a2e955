------------------------------- MODULE Settings -------------------------------
(***************************************************************************)
(* config.yaml and the settings a process ends up with (src/config,        *)
(* dashboard/routes/config.ts, config-cli.ts, scripts/service-runtime-     *)
(* config.js).  The dashboard's requests share one process and its Mutex;  *)
(* every `config` command is a process of its own.  service:start copies   *)
(* settings into the launchd plist, launchd gives them to each instance of *)
(* the service as its environment, and service:status works out from the   *)
(* plist and the file where that instance must be listening.               *)
(*                                                                         *)
(* A step runs from one file access to the next.                           *)
(***************************************************************************)
EXTENDS Naturals, Sequences

CONSTANTS
  Requests,    \* dashboard requests that edit the file
  ConfigCommands, \* config commands
  Edits,       \* what either may ask for: records [op, field, value]
  Shells,      \* environments service:start is run in: [port, token]
  MaxEdits,    \* bound on edits, those by hand included
  MaxStarts    \* bound on service:start and on restarts by launchd

VARIABLES
  file,        \* the file: a value or "unset" per field
  editor,      \* per writer: [pc, edit, doc, stale]
  queue,       \* per process: the writers in line for its Mutex
  due,         \* ghost: what the accepted edits of each field leave in it
  clobbered,   \* ghost: fields another process wrote while a writer held an older document
  edits, starts,
  start,       \* service:start: [pc, env, server]
  plist,       \* the environment in the plist, or NoPlist
  running,     \* the address and token of the instance, or Down
  edited       \* ghost: fields changed since the plist was installed
fileVars    == <<file, editor, queue, due, clobbered, edits>>
serviceVars == <<starts, start, plist, running>>
settingsVars == <<fileVars, serviceVars, edited>>

Writers    == Requests \cup ConfigCommands
Process(w) == IF w \in Requests THEN "dashboard" ELSE w
Fields     == {"host", "port", "token", "apps"}

ASSUME EditAssumption ==
  \A edit \in Edits : edit.op \in {"set", "unset", "add", "remove"} /\ edit.field \in Fields

(* appConfigSchema, for the fields at hand.  Missing ones have defaults.   *)
Valid(doc) == doc.port # "bad" /\ doc.token # ""

Default == [host |-> "local", port |-> "default", token |-> "unset"]
Server(doc) == [f \in {"host", "port", "token"} |-> IF doc[f] = "unset" THEN Default[f] ELSE doc[f]]

IdleEditor == [pc |-> "idle", edit |-> "none", doc |-> "none", stale |-> {}]
NoStart    == [pc |-> "idle", env |-> "none", server |-> "none"]
NoPlist    == [port |-> "none", serverHost |-> "none", serverPort |-> "none", token |-> "none"]
Down       == [host |-> "none", port |-> "none", token |-> "none"]

SettingsInit ==
  /\ file \in [host : {"unset"}, port : {"unset", "p1"}, token : {"unset", "old"}, apps : {{}}]
  /\ editor = [w \in Writers |-> IdleEditor]
  /\ queue = [p \in {Process(w) : w \in Writers} |-> <<>>]
  /\ due = file /\ clobbered = {} /\ edits = 0 /\ starts = 0
  /\ start = NoStart /\ plist = NoPlist /\ running = Down /\ edited = {}

-----------------------------------------------------------------------------
(* ConfigCliService: set, unset, addToArray, removeFromArray.              *)

(* What an edit makes of a document: arrays take and lose items, and the   *)
(* rest is set or deleted.                                                 *)
Applied(edit, doc) ==
  CASE edit.op = "set"    -> [doc EXCEPT ![edit.field] = edit.value]
    [] edit.op = "unset"  -> [doc EXCEPT ![edit.field] = IF edit.field = "apps" THEN {} ELSE "unset"]
    [] edit.op = "add"    -> [doc EXCEPT !.apps = @ \cup {edit.value}]
    [] edit.op = "remove" -> [doc EXCEPT !.apps = @ \ {edit.value}]

(* The path must be in the schema, and be an array for add and remove only:*)
(* looked at before the lock is taken.                                     *)
Resolves(edit) == (edit.op \in {"add", "remove"}) = (edit.field = "apps") \/ edit.op = "unset"

RequestEdit(w) ==
  /\ editor[w].pc = "idle" /\ edits < MaxEdits /\ edits' = edits + 1
  /\ \E edit \in {e \in Edits : Resolves(e)} :
       editor' = [editor EXCEPT ![w] = [IdleEditor EXCEPT !.pc = "waiting", !.edit = edit]]
  /\ queue' = [queue EXCEPT ![Process(w)] = Append(@, w)]
  /\ UNCHANGED <<file, due, clobbered, serviceVars, edited>>

(* Mutex.run: the gate opens when the writer before has settled.  Mutant:  *)
(* nobody waits.                                                           *)
TurnAnyone(w) == TRUE
Turn(w) == Head(queue[Process(w)]) = w

ReadDocument(w) ==
  /\ editor[w].pc = "waiting" /\ Turn(w)
  /\ editor' = [editor EXCEPT ![w].pc = "editing", ![w].doc = file]
  /\ UNCHANGED <<file, queue, due, clobbered, edits, serviceVars, edited>>

(* The writer whose turn it was opens the next one's gate.                 *)
Release(w) == queue' = [queue EXCEPT ![Process(w)] = Tail(@)]

(* Nothing to change, or a document the schema does not accept: no write.  *)
Refuse(w) ==
  /\ editor[w].pc = "editing"
  /\ LET doc == Applied(editor[w].edit, editor[w].doc)
     IN  ~Valid(doc) \/ (editor[w].edit.op # "set" /\ doc = editor[w].doc)
  /\ editor' = [editor EXCEPT ![w] = IdleEditor]
  /\ Release(w)
  /\ UNCHANGED <<file, due, clobbered, edits, serviceVars, edited>>

Differ(a, b) == {f \in Fields : a[f] # b[f]}

(* The file becomes doc at a stroke (a temporary file, renamed); writers   *)
(* of other processes that have read it hold an older document now.        *)
Publish(w, doc) ==
  /\ file' = doc
  /\ edited' = edited \cup Differ(doc, file)
  /\ editor' = [v \in Writers |->
       IF v = w THEN IdleEditor
       ELSE IF editor[v].pc = "editing" /\ Process(v) # Process(w)
            THEN [editor[v] EXCEPT !.stale = @ \cup Differ(doc, file)]
            ELSE editor[v]]

Write(w) ==
  /\ editor[w].pc = "editing"
  /\ LET edit == editor[w].edit
         doc  == Applied(edit, editor[w].doc)
     IN  /\ Valid(doc)
         /\ edit.op = "set" \/ doc # editor[w].doc
         /\ Publish(w, doc)
         /\ due' = Applied(edit, due)
         /\ clobbered' = (clobbered \cup editor[w].stale)
                           \ IF edit.op \in {"set", "unset"} THEN {edit.field} ELSE {}
  /\ Release(w)
  /\ UNCHANGED <<edits, serviceVars>>

(* The rename fails and the temporary file is removed, or the process dies *)
(* before it.                                                              *)
WriteFails(w) ==
  /\ editor[w].pc = "editing"
  /\ editor' = [editor EXCEPT ![w] = IdleEditor]
  /\ Release(w)
  /\ UNCHANGED <<file, due, clobbered, edits, serviceVars, edited>>

(* The user edits the file, in ways the schema need not accept.            *)
EditByHand ==
  /\ edits < MaxEdits /\ edits' = edits + 1
  /\ \E f \in {"host", "port", "token"} : \E v \in {"other", "bad"} :
       /\ (f = "port") = (v = "bad")
       /\ file' = [file EXCEPT ![f] = v] /\ due' = [due EXCEPT ![f] = v]
       /\ edited' = edited \cup {f} /\ clobbered' = clobbered \ {f}
       /\ editor' = [w \in Writers |->
            IF editor[w].pc = "editing" THEN [editor[w] EXCEPT !.stale = @ \cup {f}] ELSE editor[w]]
  /\ UNCHANGED <<queue, serviceVars>>

-----------------------------------------------------------------------------
(* service:start and the settings of the service.                          *)

Unset == {"unset", ""}
Or(value, other) == IF value \in Unset THEN other ELSE value

(* applyServerEnvironmentOverrides, for a port that parses.                *)
ApplyServerEnvironmentOverrides(server, env) ==
  [server EXCEPT !.port = Or(env.port, @), !.token = Or(env.token, @)]

(* renderManagedServiceEnvironmentXml.                                     *)
ManagedEnvironment(env, server) ==
  [port |-> env.port, serverHost |-> server.host, serverPort |-> server.port,
   token |-> Or(env.token, server.token)]

(* Mutant: the port saved at start gives way to the file's.                *)
LoadConfigFromFile(doc, env) ==
  [host |-> Server(doc).host, port |-> Or(env.port, Server(doc).port),
   token |-> Or(env.token, Server(doc).token)]

(* loadConfig in a managed process.                                        *)
LoadConfig(doc, env) ==
  [host |-> Server(doc).host, port |-> Or(env.port, env.serverPort),
   token |-> Or(env.token, Server(doc).token)]

(* resolveManagedServiceServer over applyServerEnvironmentOverrides; a file*)
(* that cannot be used counts as the defaults.                             *)
StatusServer ==
  LET server == IF Valid(file) THEN Server(file) ELSE Default
  IN  [host |-> plist.serverHost, port |-> Or(plist.port, plist.serverPort),
       token |-> Or(plist.token, server.token)]

(* An unreadable port in the environment or the file, or a host that is    *)
(* not local, ends it before anything is touched.                          *)
Preflight ==
  /\ start.pc = "idle" /\ starts < MaxStarts /\ starts' = starts + 1
  /\ \E env \in Shells :
       /\ env.port # "bad" /\ Valid(file) /\ Server(file).host = "local"
       /\ start' = [pc |-> "install", env |-> env,
                    server |-> ApplyServerEnvironmentOverrides(Server(file), env)]
  /\ UNCHANGED <<fileVars, plist, running, edited>>

(* The file is read a second time for the plist.                           *)
InstallPlist ==
  /\ start.pc = "install"
  /\ IF Valid(file)
     THEN /\ plist' = ManagedEnvironment(start.env,
                        ApplyServerEnvironmentOverrides(Server(file), start.env))
          /\ start' = [start EXCEPT !.pc = "bootstrap"]
          /\ edited' = {}
     ELSE start' = NoStart /\ UNCHANGED <<plist, edited>>
  /\ UNCHANGED <<fileVars, starts, running>>

Launched == IF Valid(file) THEN LoadConfig(file, plist) ELSE Down

Bootstrap ==
  /\ start.pc = "bootstrap"
  /\ running' = Launched
  /\ start' = [start EXCEPT !.pc = "wait"]
  /\ UNCHANGED <<fileVars, starts, plist, edited>>

(* waitForManagedService: ready, if what was preflighted is what listens.  *)
Ready == /\ running # Down
         /\ [host |-> running.host, port |-> running.port] =
              [host |-> start.server.host, port |-> start.server.port]
         /\ running.token \in {"unset", start.server.token}

Started ==
  /\ start.pc = "wait" /\ Ready
  /\ start' = NoStart
  /\ UNCHANGED <<fileVars, starts, plist, running, edited>>

TakenDown ==
  /\ start.pc = "wait"
  /\ start' = NoStart /\ plist' = NoPlist /\ running' = Down
  /\ UNCHANGED <<fileVars, starts, edited>>

(* KeepAlive: an instance that ends is launched again, or for the first    *)
(* time with a file it can use.                                            *)
Relaunch ==
  /\ plist # NoPlist /\ start.pc = "idle" /\ starts < MaxStarts /\ starts' = starts + 1
  /\ running' = Launched
  /\ UNCHANGED <<fileVars, start, plist, edited>>

EditStep == \/ \E w \in Writers :
                 RequestEdit(w) \/ ReadDocument(w) \/ Refuse(w) \/ Write(w) \/ WriteFails(w)
            \/ EditByHand

ServiceStep == Preflight \/ InstallPlist \/ Bootstrap \/ Started \/ TakenDown \/ Relaunch

SettingsNext == EditStep \/ ServiceStep

SettingsSpec == SettingsInit /\ [][SettingsNext]_settingsVars

-----------------------------------------------------------------------------
(* No accepted edit is lost to another: the file holds what the edits      *)
(* leave in it, whichever requests came in together; only a writer of      *)
(* another process, which the Mutex does not reach                         *)
(* (config-cli-service.ts:15-16), may take fields back.                    *)
EditsKept == \A f \in Fields \ clobbered : file[f] = due[f]

(* service:status asks the instance that runs where it listens, with the   *)
(* token it wants, whatever was edited since and however often launchd     *)
(* relaunched it: always the port; host and token, unless the file's have  *)
(* changed since the plist was written.                                    *)
StatusFindsService ==
  running # Down /\ plist # NoPlist /\ start.pc \in {"idle", "wait"} =>
    /\ StatusServer.port = running.port
    /\ "host" \notin edited => StatusServer.host = running.host
    /\ "token" \notin edited => running.token \in {"unset", StatusServer.token}
=============================================================================
