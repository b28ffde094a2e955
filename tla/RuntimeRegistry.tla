-------------------------- MODULE RuntimeRegistry --------------------------
(***************************************************************************)
(* The cross-process guard of services/runtime-process-registry.ts as      *)
(* index.ts uses it.  A server announces itself with a marker file and     *)
(* looks at rebuild-index.lock before and after doing so; rebuild-index    *)
(* takes the lock and then looks for markers.  The file system is the only *)
(* shared state.  Every await in the code is a separate step here, and     *)
(* any process may be killed between two steps, leaving its files behind.  *)
(*                                                                         *)
(* A process runs once: pids are not recycled (the start time recorded in  *)
(* every file tells two incarnations of a pid apart).  The two temporary   *)
(* files carry the pid in their name and are invisible to the others, so   *)
(* write-then-rename and write-then-link are one step each.                *)
(***************************************************************************)
EXTENDS Naturals, FiniteSets

CONSTANTS Servers,      \* processes started as `serve`
          Rebuilders,   \* processes started as `rebuild-index`
          NoProc        \* the lock file does not exist

ASSUME ProcAssumption == /\ Servers \cap Rebuilders = {}
                         /\ NoProc \notin Servers \cup Rebuilders

Procs == Servers \cup Rebuilders

VARIABLES pc,         \* where each process is
          lock,       \* the pid stored in rebuild-index.lock, or NoProc
          markers,    \* the pids with a file in runtime-processes/
          seen,       \* the lock owner a process has read
          todo,       \* file names a rebuilder has listed and not yet opened
          liveSeen,   \* has the rebuilder met a live marker?
          clobbered   \* ghost: a lock was unlinked under a pid other than its own
vars == <<pc, lock, markers, seen, todo, liveSeen, clobbered>>

Registered == {"read2", "judge2", "unlink2", "serving"}
Holding    == {"list", "scan", "ps", "decide", "rebuild", "release"}
Running    == Registered \cup Holding \cup
                {"read1", "judge1", "unlink1", "register", "link"}
Locations  == Running \cup {"idle", "stopped", "crashed"}

(* isRecordedProcessAlive: kill(pid, 0), then the recorded start time.     *)
Alive(p) == pc[p] \in Running

Goto(p, l) == pc' = [pc EXCEPT ![p] = l]

(* What follows an ensureRebuildLockNotHeld that returns, and one that     *)
(* throws.  The exit handler of a server that is already registered        *)
(* removes its marker on the way out.                                      *)
Passed(p, round) ==
  IF round = 2 THEN "serving" ELSE IF p \in Servers THEN "register" ELSE "link"

Refuse(p) == /\ Goto(p, "stopped")
             /\ markers' = markers \ {p}

Init == /\ pc = [p \in Procs |-> "idle"]
        /\ lock = NoProc
        /\ markers = {}
        /\ seen = [p \in Procs |-> NoProc]
        /\ todo = [p \in Procs |-> {}]
        /\ liveSeen = [p \in Procs |-> FALSE]
        /\ clobbered = FALSE

Launch(p) == /\ pc[p] = "idle"
             /\ Goto(p, "read1")
             /\ UNCHANGED <<lock, markers, seen, todo, liveSeen, clobbered>>

-----------------------------------------------------------------------------
(* ensureRebuildLockNotHeld, called once by a rebuilder and twice by a     *)
(* server: read the file; ask ps about the owner; unlink what is stale.    *)

ReadLock(p, round) ==
  /\ pc[p] = IF round = 1 THEN "read1" ELSE "read2"
  /\ IF lock = NoProc
     THEN /\ Goto(p, Passed(p, round))
          /\ UNCHANGED seen
     ELSE /\ Goto(p, IF round = 1 THEN "judge1" ELSE "judge2")
          /\ seen' = [seen EXCEPT ![p] = lock]
  /\ UNCHANGED <<lock, markers, todo, liveSeen, clobbered>>

JudgeOwner(p, round) ==
  /\ pc[p] = IF round = 1 THEN "judge1" ELSE "judge2"
  /\ IF Alive(seen[p])
     THEN Refuse(p)
     ELSE /\ Goto(p, IF round = 1 THEN "unlink1" ELSE "unlink2")
          /\ UNCHANGED markers
  /\ UNCHANGED <<lock, seen, todo, liveSeen, clobbered>>

(* rm(lockPath) removes whatever bears that name by now.                   *)
UnlinkStale(p, round) ==
  /\ pc[p] = IF round = 1 THEN "unlink1" ELSE "unlink2"
  /\ lock' = NoProc
  /\ clobbered' = (clobbered \/ lock \notin {NoProc, seen[p]})
  /\ Goto(p, Passed(p, round))
  /\ UNCHANGED <<markers, seen, todo, liveSeen>>

-----------------------------------------------------------------------------
(* The server.                                                             *)

(* Mutant: the second look at the lock is missing.                         *)
RegisterOnly(s) ==
  /\ pc[s] = "register"
  /\ markers' = markers \cup {s}
  /\ Goto(s, "serving")
  /\ UNCHANGED <<lock, seen, todo, liveSeen, clobbered>>

Register(s) ==
  /\ pc[s] = "register"
  /\ markers' = markers \cup {s}
  /\ Goto(s, "read2")
  /\ UNCHANGED <<lock, seen, todo, liveSeen, clobbered>>

(* SIGINT, SIGTERM or a fatal error: the exit handler drops the marker.    *)
Shutdown(s) ==
  /\ pc[s] \in Registered
  /\ Refuse(s)
  /\ UNCHANGED <<lock, seen, todo, liveSeen, clobbered>>

-----------------------------------------------------------------------------
(* The rebuilder.                                                          *)

(* Mutant: an existing lock file makes the rebuilder try again.            *)
LinkLockRetry(r) ==
  /\ pc[r] = "link"
  /\ IF lock = NoProc
     THEN lock' = r /\ Goto(r, "list")
     ELSE lock' = lock /\ Goto(r, "link")
  /\ UNCHANGED <<markers, seen, todo, liveSeen, clobbered>>

(* link(2) fails when the lock file exists.                                *)
LinkLock(r) ==
  /\ pc[r] = "link"
  /\ IF lock = NoProc
     THEN lock' = r /\ Goto(r, "list")
     ELSE lock' = lock /\ Goto(r, "stopped")
  /\ UNCHANGED <<markers, seen, todo, liveSeen, clobbered>>

ListMarkers(r) ==
  /\ pc[r] = "list"
  /\ todo' = [todo EXCEPT ![r] = markers]
  /\ Goto(r, "scan")
  /\ UNCHANGED <<lock, markers, seen, liveSeen, clobbered>>

(* One iteration of readLiveRecords: a file that has gone is skipped, a    *)
(* dead owner's is removed.                                                *)
OpenMarker(r) ==
  /\ pc[r] = "scan"
  /\ \E m \in todo[r] :
       /\ todo' = [todo EXCEPT ![r] = @ \ {m}]
       /\ liveSeen' = [liveSeen EXCEPT ![r] = @ \/ (m \in markers /\ Alive(m))]
       /\ markers' = IF Alive(m) THEN markers ELSE markers \ {m}
  /\ UNCHANGED <<pc, lock, seen, clobbered>>

ScanDone(r) ==
  /\ pc[r] = "scan" /\ todo[r] = {}
  /\ Goto(r, "ps")
  /\ UNCHANGED <<lock, markers, seen, todo, liveSeen, clobbered>>

(* Processes whose command line is a server's, whatever runs it.           *)
InProcessList == {s \in Servers : Alive(s)}

(* ps shows servers without a marker, too; but a command may go            *)
(* unrecognised, its home unread and ps fail, so any of them is missed.    *)
FindLegacy(r) ==
  /\ pc[r] = "ps"
  /\ \E legacy \in SUBSET InProcessList :
       Goto(r, IF liveSeen[r] \/ legacy # {} THEN "release" ELSE "decide")
  /\ UNCHANGED <<lock, markers, seen, todo, liveSeen, clobbered>>

(* A server may listen where the configuration or the plist says.          *)
Answering == {s \in Servers : pc[s] = "serving"}

(* The probe of the managed endpoint: no answer within two seconds is none. *)
Decide(r) ==
  /\ pc[r] = "decide"
  /\ \/ Goto(r, "rebuild")
     \/ Answering # {} /\ Goto(r, "release")
  /\ UNCHANGED <<lock, markers, seen, todo, liveSeen, clobbered>>

(* The page loop ends or throws; both run the finally block.               *)
EndRebuild(r) ==
  /\ pc[r] = "rebuild"
  /\ Goto(r, "release")
  /\ UNCHANGED <<lock, markers, seen, todo, liveSeen, clobbered>>

Release(r) ==
  /\ pc[r] = "release"
  /\ lock' = NoProc
  /\ clobbered' = (clobbered \/ lock \notin {NoProc, r})
  /\ Goto(r, "stopped")
  /\ UNCHANGED <<markers, seen, todo, liveSeen>>

-----------------------------------------------------------------------------
(* SIGKILL, power loss, or an interrupt of rebuild-index, which installs   *)
(* no signal handler.                                                      *)
Crash(p) == /\ Alive(p)
            /\ Goto(p, "crashed")
            /\ UNCHANGED <<lock, markers, seen, todo, liveSeen, clobbered>>

EnsureStep(p, round) ==
  ReadLock(p, round) \/ JudgeOwner(p, round) \/ UnlinkStale(p, round)

ServerStep(s)  == EnsureStep(s, 1) \/ EnsureStep(s, 2) \/ Register(s)
RebuildStep(r) == \/ EnsureStep(r, 1) \/ LinkLock(r) \/ ListMarkers(r)
                  \/ OpenMarker(r) \/ ScanDone(r) \/ FindLegacy(r) \/ Decide(r)
                  \/ EndRebuild(r) \/ Release(r)

Next == \/ \E p \in Procs : Launch(p) \/ Crash(p)
        \/ \E s \in Servers : ServerStep(s) \/ Shutdown(s)
        \/ \E r \in Rebuilders : RebuildStep(r)

Spec == Init /\ [][Next]_vars

(* A running process is scheduled; nobody has to start, stop or kill one.  *)
Fairness == /\ \A s \in Servers : WF_vars(ServerStep(s))
            /\ \A r \in Rebuilders : WF_vars(RebuildStep(r))

FairSpec == Spec /\ Fairness

-----------------------------------------------------------------------------
TypeOK == /\ pc \in [Procs -> Locations]
          /\ \A s \in Servers : pc[s] \notin Holding \cup {"link"}
          /\ \A r \in Rebuilders : pc[r] \notin Registered \cup {"register"}
          /\ lock \in Rebuilders \cup {NoProc}
          /\ markers \subseteq Servers
          /\ seen \in [Procs -> Rebuilders \cup {NoProc}]
          /\ todo \in [Procs -> SUBSET Servers]
          /\ liveSeen \in [Procs -> BOOLEAN]
          /\ clobbered \in BOOLEAN

(* Two rebuilders never hold the lock together: what architecture.md says  *)
(* of rebuild-index.lock.                                                  *)
RebuildSingleHolder ==
  \A p, q \in Rebuilders : pc[p] \in Holding /\ pc[q] \in Holding => p = q

(* No server is polling while the vectors and the checkpoint are being     *)
(* reset and rebuilt, and only one process rebuilds.                       *)
Exclusion ==
  \A r \in Rebuilders : pc[r] = "rebuild" =>
     /\ \A s \in Servers : pc[s] # "serving"
     /\ \A q \in Rebuilders : pc[q] = "rebuild" => q = r

(* The handshake of marker and lock excludes rebuilders from servers and   *)
(* from each other, whatever is killed and in whatever order the steps     *)
(* fall, as long as nobody has unlinked a lock it did not judge: unlinking *)
(* by path in ensureRebuildLockNotHeld is the only way in.                 *)
ExclusionUnlessClobbered == ~clobbered => Exclusion /\ RebuildSingleHolder

(* A server that polls can be discovered: a concurrent rebuilder's sweep   *)
(* of stale markers never removes the marker of a live server.             *)
ServingIsDiscoverable ==
  \A s \in Servers : pc[s] \in Registered => s \in markers

(* Nobody waits on anybody: whatever locks and markers dead processes have *)
(* left, each launched process ends up serving, or has stopped.            *)
EveryLaunchSettles ==
  \A p \in Procs : pc[p] = "read1" ~> pc[p] \in {"serving", "stopped", "crashed"}
=============================================================================
