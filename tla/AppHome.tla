-------------------------------- MODULE AppHome --------------------------------
(***************************************************************************)
(* The move of the program's home to its new name                          *)
(* (config/app-home-migration.ts for the server and the config commands,   *)
(* scripts/app-home-migration.js for npm's scripts).  Every start runs it, *)
(* whichever comes first after the update does the move, and several may   *)
(* be at it at once.  A home that is a directory is renamed; one that is a *)
(* symbolic link is copied and the link removed.  Then the paths in        *)
(* config.yaml that lead through the old name are rewritten.               *)
(*                                                                         *)
(* A name leads to a directory; a directory keeps its content when it is   *)
(* renamed, under whoever has it open.  A step of a starter runs from one  *)
(* call that touches the file system to the next.                          *)
(***************************************************************************)
EXTENDS Naturals

CONSTANTS
  Starters,      \* processes that start: scripts, servers, config commands
  MaxRecords,    \* bound on records written
  MaxHomeStarts, \* bound on starts, those of the old program included
  HomeFaults     \* bound on failing calls and crashes

VARIABLES
  legacyAt, targetAt,  \* the directory each name leads to, or "none"
  linked,        \* the old name is a link
  records,       \* per directory: what has been written in it
  paths,         \* per directory: its config.yaml leads through the "legacy" name, or not
  old,           \* the old program: "off" or "on"
  starter,       \* per starter: [pc, home, link]; link: what lstat has said
  written, homeStarts, homeFaults,
  late,          \* ghost: the old program has run after a starter's check
  early,         \* ghost: a start went through while another was at the move, or two moved a link
  interrupted    \* ghost: a move stopped between the move and the paths
names == <<legacyAt, targetAt, linked>>
content == <<records, paths>>
homeCounters == <<written, homeStarts, homeFaults>>
homeGhosts == <<late, early, interrupted>>
homeVars == <<names, content, old, starter, homeCounters, homeGhosts>>

(* The old home, or what the link leads to; a copy of it; the directories  *)
(* that come to be when a name leads nowhere.                              *)
Directories == {"original", "copy", "fresh", "stray"}
NotStarted  == [pc |-> "idle", home |-> "none", link |-> FALSE]

HomeInit ==
  /\ legacyAt \in {"original", "none"} /\ targetAt = "none"
  /\ linked \in BOOLEAN /\ (linked => legacyAt = "original")
  /\ paths \in [Directories -> {"legacy", "target"}]
  /\ \A d \in Directories \ {"original"} : paths[d] = "target"
  /\ written = IF legacyAt = "none" THEN 0 ELSE 1
  /\ records = [d \in Directories |-> IF d = "original" THEN 1..written ELSE {}]
  /\ old = "off" /\ starter = [s \in Starters |-> NotStarted]
  /\ homeStarts = 0 /\ homeFaults = 0
  /\ late = FALSE /\ early = FALSE /\ interrupted = FALSE

HomeFault == homeFaults < HomeFaults /\ homeFaults' = homeFaults + 1
FailsBecause(cause) == (cause /\ UNCHANGED homeFaults) \/ HomeFault
Goes(s, pc) == starter' = [starter EXCEPT ![s].pc = pc]

(* At the move: past the check that there is one to make.                  *)
AtMove(s) == starter[s].pc \notin {"idle", "refused", "through"}

-----------------------------------------------------------------------------
(* The old program, which knows only the old name.                         *)

OldStartsOrStops ==
  /\ IF old = "on" THEN old' = "off" /\ UNCHANGED <<homeStarts, late>>
     ELSE /\ legacyAt = "original" /\ old' = "on"
          /\ homeStarts < MaxHomeStarts /\ homeStarts' = homeStarts + 1
          /\ late' = (late \/ \E s \in Starters : AtMove(s))
  /\ UNCHANGED <<names, content, starter, written, homeFaults, early, interrupted>>

Record(d) == /\ written < MaxRecords /\ written' = written + 1
             /\ records' = [records EXCEPT ![d] = @ \cup {written + 1}]

OldWrites ==
  /\ old = "on" /\ Record("original")
  /\ UNCHANGED <<names, paths, old, starter, homeStarts, homeFaults, homeGhosts>>

-----------------------------------------------------------------------------
(* ensureAppHomeReady and migrateLegacyAppHomeIfNeeded.                    *)

(* A start that goes through serves from the directory it has found.       *)
Through(s, d) ==
  /\ starter' = [starter EXCEPT ![s].pc = "through", ![s].home = d]
  /\ early' = (early \/ \E t \in Starters \ {s} : AtMove(t))

(* No old home: nothing to move, and a home is made if there is none.      *)
SkipMissing(s) ==
  /\ legacyAt = "none"
  /\ targetAt' = IF targetAt = "none" THEN "fresh" ELSE targetAt
  /\ Through(s, targetAt')
  /\ interrupted' = (interrupted \/ paths[targetAt'] = "legacy")

(* Mutant: with both there, go on with the new one.                        *)
RefuseBothNot(s) ==
  /\ legacyAt # "none" /\ targetAt # "none"
  /\ Through(s, targetAt) /\ UNCHANGED <<targetAt, interrupted>>

(* failOnConflict, which every caller sets.                                *)
RefuseBoth(s) ==
  /\ legacyAt # "none" /\ targetAt # "none"
  /\ Goes(s, "refused") /\ UNCHANGED <<targetAt, early, interrupted>>

Inspect(s) ==
  /\ starter[s].pc = "idle" /\ homeStarts < MaxHomeStarts /\ homeStarts' = homeStarts + 1
  /\ \/ SkipMissing(s) \/ RefuseBoth(s)
     \/ /\ legacyAt # "none" /\ targetAt = "none"
        /\ Goes(s, "check") /\ UNCHANGED <<targetAt, interrupted>>
        /\ early' = (early \/ (linked /\ \E t \in Starters : AtMove(t)))
  /\ UNCHANGED <<legacyAt, linked, content, old, written, homeFaults, late>>

(* The old service, recorder, servers and rebuild leave their process ids  *)
(* behind.                                                                 *)
NoActiveLegacyRuntimeWriters == old = "off"

CheckWriters(s) ==
  /\ starter[s].pc = "check"
  /\ IF NoActiveLegacyRuntimeWriters
     THEN starter' = [starter EXCEPT ![s].pc = IF legacyAt = "none" THEN "refused" ELSE "back up",
                                     ![s].link = linked]
     ELSE Goes(s, "refused")
  /\ UNCHANGED <<names, content, old, homeCounters, homeGhosts>>

Empty(d) == IF d = "none" THEN TRUE ELSE records[d] = {}

(* To a directory of its own, never read again.                            *)
BackUp(s) ==
  /\ starter[s].pc = "back up"
  /\ \/ /\ legacyAt # "none" \/ starter[s].link
        /\ Goes(s, IF starter[s].link THEN "copy" ELSE "rename") /\ UNCHANGED homeFaults
     \/ /\ legacyAt = "none" /\ ~starter[s].link
        /\ Goes(s, "refused") /\ UNCHANGED homeFaults
     \/ Goes(s, "refused") /\ HomeFault
  /\ UNCHANGED <<names, content, old, written, homeStarts, homeGhosts>>

Rename(s) ==
  /\ starter[s].pc = "rename"
  /\ \/ /\ legacyAt # "none" /\ Empty(targetAt)
        /\ targetAt' = legacyAt /\ legacyAt' = "none" /\ Goes(s, "rewrite") /\ UNCHANGED homeFaults
     \/ /\ legacyAt = "none" \/ ~Empty(targetAt)
        /\ Goes(s, "refused") /\ UNCHANGED <<legacyAt, targetAt, homeFaults>>
     \/ Goes(s, "refused") /\ HomeFault /\ UNCHANGED <<legacyAt, targetAt>>
  /\ UNCHANGED <<linked, content, old, written, homeStarts, homeGhosts>>

(* Files are copied one after the other, over those that are there: the    *)
(* new name leads to part of them first.                                   *)
BeginCopy(s) ==
  /\ starter[s].pc = "copy"
  /\ IF targetAt = "none"
     THEN targetAt' = "copy" /\ records' = [records EXCEPT !["copy"] = {}]
     ELSE UNCHANGED <<targetAt, records>>
  /\ Goes(s, "copying")
  /\ UNCHANGED <<legacyAt, linked, paths, old, homeCounters, homeGhosts>>

EndCopy(s) ==
  /\ starter[s].pc = "copying"
  /\ \/ /\ targetAt # "none"
        /\ records' = [records EXCEPT ![targetAt] = records["original"]]
        /\ paths' = [paths EXCEPT ![targetAt] = paths["original"]]
        /\ Goes(s, "unlink") /\ UNCHANGED homeFaults
     \/ Goes(s, "refused") /\ FailsBecause(targetAt = "none") /\ UNCHANGED content
  /\ UNCHANGED <<names, old, written, homeStarts, homeGhosts>>

RemoveLink(s) ==
  /\ starter[s].pc = "unlink"
  /\ \/ legacyAt = "original" /\ legacyAt' = "none" /\ Goes(s, "rewrite") /\ UNCHANGED homeFaults
     \/ Goes(s, "refused") /\ FailsBecause(legacyAt = "none") /\ UNCHANGED legacyAt
  /\ UNCHANGED <<targetAt, linked, content, old, written, homeStarts, homeGhosts>>

RewriteLegacyAppHomePaths(s) ==
  /\ starter[s].pc = "rewrite"
  /\ \/ /\ targetAt # "none" /\ UNCHANGED homeFaults
        /\ paths' = [paths EXCEPT ![targetAt] = "target"]
        /\ Through(s, targetAt)
     \/ /\ targetAt = "none" /\ UNCHANGED <<homeFaults, paths, early>> /\ Goes(s, "refused")
     \/ Goes(s, "roll back") /\ HomeFault /\ UNCHANGED <<paths, early>>
  /\ UNCHANGED <<names, records, old, written, homeStarts, late, interrupted>>

Removed(d) == records' = [e \in Directories |-> IF e = d THEN {} ELSE records[e]]

(* Back to where it was, if that works; nobody hears if it does not.       *)
(* Mutant: what was renamed is removed too.                                *)
RollBackByRemoving(s) ==
  /\ starter[s].pc = "roll back"
  /\ targetAt' = "none" /\ Removed(targetAt)
  /\ Goes(s, "relink") /\ UNCHANGED <<legacyAt, homeFaults, interrupted>>
  /\ UNCHANGED <<linked, paths, old, written, homeStarts, late, early>>

RollBack(s) ==
  /\ starter[s].pc = "roll back"
  /\ \/ /\ starter[s].link
        /\ targetAt' = "none" /\ Removed(targetAt)
        /\ Goes(s, "relink") /\ UNCHANGED <<legacyAt, homeFaults, interrupted>>
     \/ /\ ~starter[s].link /\ legacyAt = "none" /\ targetAt # "none"
        /\ legacyAt' = targetAt /\ targetAt' = "none"
        /\ Goes(s, "refused") /\ UNCHANGED <<records, homeFaults, interrupted>>
     \/ /\ Goes(s, IF starter[s].link THEN "relink" ELSE "refused")
        /\ interrupted' = TRUE
        /\ FailsBecause(legacyAt # "none")
        /\ UNCHANGED <<legacyAt, targetAt, records>>
  /\ UNCHANGED <<linked, paths, old, written, homeStarts, late, early>>

Relink(s) ==
  /\ starter[s].pc = "relink" /\ Goes(s, "refused")
  /\ \/ legacyAt = "none" /\ legacyAt' = "original" /\ UNCHANGED <<homeFaults, interrupted>>
     \/ FailsBecause(legacyAt # "none") /\ UNCHANGED legacyAt /\ interrupted' = TRUE
  /\ UNCHANGED <<targetAt, linked, content, old, written, homeStarts, late, early>>

-----------------------------------------------------------------------------
(* What has gone through writes in its home, and where its configuration   *)
(* leads it: through the old name, if that was never rewritten.            *)
Serves(s) ==
  /\ starter[s].pc = "through"
  /\ LET d == starter[s].home
     IN  IF paths[d] = "target" THEN Record(d) /\ UNCHANGED legacyAt
         ELSE /\ legacyAt' = IF legacyAt = "none" THEN "stray" ELSE legacyAt
              /\ Record(legacyAt')
  /\ UNCHANGED <<targetAt, linked, paths, old, starter, homeStarts, homeFaults, homeGhosts>>

StarterEnds(s) ==
  /\ \/ starter[s].pc \in {"refused", "through"} /\ UNCHANGED <<homeFaults, interrupted>>
     \/ AtMove(s) /\ HomeFault
        /\ interrupted' = (interrupted \/ starter[s].pc \in {"rewrite", "roll back", "relink"})
  /\ starter' = [starter EXCEPT ![s] = NotStarted]
  /\ UNCHANGED <<names, content, old, written, homeStarts, late, early>>

HomeNext ==
  \/ OldStartsOrStops \/ OldWrites
  \/ \E s \in Starters :
       \/ Inspect(s) \/ CheckWriters(s) \/ BackUp(s) \/ Rename(s) \/ BeginCopy(s) \/ EndCopy(s)
       \/ RemoveLink(s) \/ RewriteLegacyAppHomePaths(s) \/ RollBack(s) \/ Relink(s)
       \/ Serves(s) \/ StarterEnds(s)

HomeSpec == HomeInit /\ [][HomeNext]_homeVars

-----------------------------------------------------------------------------
(* Whatever fails or dies on the way, every record stays in a directory    *)
(* somebody can find: the old one, or one a name leads to.  For a renamed  *)
(* home that holds however many start at once; the copy of a linked one    *)
(* may be overwritten or removed under another start of the same time.     *)
RecordsSurvive ==
  (linked /\ early) \/
    1..written \subseteq UNION {records[d] : d \in {"original", legacyAt, targetAt} \cap Directories}

(* A start goes through only with everything that has been recorded, and   *)
(* with paths that lead to it; otherwise it is refused.  Not so once the   *)
(* old program ran during a move, a start overtook one, two copied a       *)
(* linked home at once, or one stopped before the paths were rewritten,    *)
(* which no later start makes good.                                        *)
StartsWhole ==
  late \/ early \/ interrupted \/
    \A s \in Starters :
      starter[s].pc = "through" =>
        /\ starter[s].home = targetAt
        /\ paths[targetAt] = "target"
        /\ 1..written \subseteq records[targetAt]
================================================================================
