----------------------------- MODULE MCOperations -----------------------------
(* What an operator does around the server, and what the user asks of privacy, *)
(* each on its own: part says which of the four a behaviour is about.          *)
EXTENDS LocalStack, Settings, AppHome, PrivacyControl, TLC

CONSTANT app
OneApp == {app}

Plain(K)     == [kind : K]
UserRequests == Plain({"pause", "resume", "last_1h", "wider"}) \cup [kind : {"exclude", "remove"}, app : Apps]
AllAsked     == UserRequests \cup Plain({"reconcile"})

VARIABLE part

Symmetry == Permutations(Operators) \cup Permutations(Clients)

(* The other commands are steps of these.                                      *)
SomeCommands == {"down:all", "up", "up --restart-capture --detach", "start"}

AllEdits ==
  {[op |-> "set", field |-> "port", value |-> "p2"], [op |-> "set", field |-> "port", value |-> "bad"],
   [op |-> "set", field |-> "token", value |-> "new"], [op |-> "unset", field |-> "token", value |-> "unset"],
   [op |-> "add", field |-> "apps", value |-> "mail"], [op |-> "add", field |-> "apps", value |-> "chat"],
   [op |-> "remove", field |-> "apps", value |-> "mail"]}
AllShells == [port : {"unset", "env", "bad"}, token : {"unset", "env"}]

(* The parts that a behaviour is not about stay as they begin.                 *)
Init ==
  /\ part \in {"stack", "settings", "home", "privacy"}
  /\ StackInit /\ SettingsInit /\ HomeInit /\ PrivacyInit
  /\ part # "stack" => legacy = "none" /\ ~service.plist
  /\ part # "settings" => file.port = "unset" /\ file.token = "unset"
  /\ part # "home" => legacyAt = "none" /\ paths["original"] = "target"

Next ==
  \/ part = "stack" /\ StackNext /\ UNCHANGED <<part, settingsVars, homeVars, privacyVars>>
  \/ part = "settings" /\ SettingsNext /\ UNCHANGED <<part, stackVars, homeVars, privacyVars>>
  \/ part = "home" /\ HomeNext /\ UNCHANGED <<part, stackVars, settingsVars, privacyVars>>
  \/ part = "privacy" /\ PrivacyNext /\ UNCHANGED <<part, stackVars, settingsVars, homeVars>>

Spec == Init /\ [][Next]_<<part, stackVars, settingsVars, homeVars, privacyVars>>
===============================================================================
