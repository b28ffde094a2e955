----------------------------- MODULE ServicesProofs -----------------------------
(***************************************************************************)
(* The server processes, for every number of them.                         *)
(*                                                                         *)
(* The marker-and-lock handshake of RuntimeRegistry is correct for every   *)
(* number of servers and rebuilders.  The invariant is inductive only      *)
(* together with what a process that is about to unlink a lock knows of    *)
(* its owner (Judged), and with the handshake itself: a rebuilder past its *)
(* listing of the markers has every serving server still to open, or has   *)
(* met one.  Then come the sweeps of internal-status.                      *)
(*                                                                         *)
(* The second half is what one process does with its models: the limiter,  *)
(* the pool of an indexing batch and the summaries' pause check, for any   *)
(* number of frames, searches and readers, any limit and any pool.  The    *)
(* limiter is one thing (Limited), acquired and given back; what the pool  *)
(* has in hand another (Batched), which leans on it only for who may       *)
(* become idle; the readers a third (Asked).                               *)
(***************************************************************************)
EXTENDS StatusReport, ModelCalls, FiniteSetTheorems, WellFoundedInduction, TLAPS


Ended == {"stopped", "crashed"}

Judged ==
  /\ lock \in Rebuilders => pc[lock] # "idle"
  /\ \A p \in Procs : pc[p] \in {"judge1", "judge2"} =>
       seen[p] \in Rebuilders /\ pc[seen[p]] # "idle"
  /\ \A p \in Procs : pc[p] \in {"unlink1", "unlink2"} =>
       seen[p] \in Rebuilders /\ pc[seen[p]] \in Ended

LockHeld == \A r \in Rebuilders : pc[r] \in Holding => lock = r

Handshake ==
  \A r \in Rebuilders, s \in Servers :
     pc[s] = "serving" /\ pc[r] \in {"scan", "ps", "decide", "rebuild"}
       => \/ pc[r] = "scan" /\ (s \in todo[r] \/ liveSeen[r])
          \/ pc[r] = "ps" /\ liveSeen[r]

IInv == /\ TypeOK
        /\ Judged
        /\ ServingIsDiscoverable
        /\ ~clobbered => LockHeld /\ Handshake

USE ProcAssumption DEF Procs

(* The files and locations keep their types.                               *)
LEMMA TypeInit == Init => TypeOK
  BY DEF Init, TypeOK, Holding, Registered, Locations, Running

LEMMA TypeStep == TypeOK /\ [Next]_vars => TypeOK'
<1> SUFFICES ASSUME TypeOK, [Next]_vars PROVE TypeOK'
  OBVIOUS
<1> USE DEF TypeOK, Holding, Registered, Locations, Running, Goto, Refuse
<1>1. ASSUME NEW p \in Procs, Launch(p) PROVE TypeOK'
  BY <1>1 DEF Launch
<1>2. ASSUME NEW p \in Procs, Crash(p) PROVE TypeOK'
  BY <1>2 DEF Crash, Alive
<1>3. ASSUME NEW p \in Procs, NEW round \in {1, 2}, EnsureStep(p, round),
             round = 2 => p \in Servers
      PROVE TypeOK'
  <2>1. CASE ReadLock(p, round)
    BY <1>3, <2>1 DEF ReadLock, Passed
  <2>2. CASE JudgeOwner(p, round)
    BY <1>3, <2>2 DEF JudgeOwner
  <2>3. CASE UnlinkStale(p, round)
    BY <1>3, <2>3 DEF UnlinkStale, Passed
  <2> QED BY <1>3, <2>1, <2>2, <2>3 DEF EnsureStep
<1>4. ASSUME NEW s \in Servers, Register(s) PROVE TypeOK'
  BY <1>4 DEF Register
<1>5. ASSUME NEW s \in Servers, Shutdown(s) PROVE TypeOK'
  BY <1>5 DEF Shutdown
<1>6. ASSUME NEW r \in Rebuilders, LinkLock(r) PROVE TypeOK'
  BY <1>6 DEF LinkLock
<1>7. ASSUME NEW r \in Rebuilders, ListMarkers(r) PROVE TypeOK'
  BY <1>7 DEF ListMarkers
<1>8. ASSUME NEW r \in Rebuilders, OpenMarker(r) PROVE TypeOK'
  BY <1>8 DEF OpenMarker, Alive
<1>9. ASSUME NEW r \in Rebuilders,
             ScanDone(r) \/ FindLegacy(r) \/ Decide(r) \/ EndRebuild(r) \/ Release(r)
      PROVE TypeOK'
  BY ZenonT(30), <1>9 DEF ScanDone, FindLegacy, Decide, EndRebuild, Release
<1>10. CASE UNCHANGED vars
  BY <1>10 DEF vars
<1> QED
  BY <1>1, <1>2, <1>3, <1>4, <1>5, <1>6, <1>7, <1>8, <1>9, <1>10
     DEF Next, ServerStep, RebuildStep

THEOREM TypeCorrect == Spec => []TypeOK
<1> QED BY TypeInit, TypeStep, PTL DEF Spec

-----------------------------------------------------------------------------
(* What a process has read about an owner stays true while it waits: an    *)
(* owner that has ended does not come back.                                *)
LEMMA JudgedStep == TypeOK /\ Judged /\ [Next]_vars => Judged'
<1> SUFFICES ASSUME TypeOK, Judged, [Next]_vars PROVE Judged'
  OBVIOUS
<1> USE DEF TypeOK, Judged, Ended, Goto, Refuse, Alive, Running, Holding,
            Registered, Locations
<1>1. ASSUME NEW p \in Procs, Launch(p) \/ Crash(p) PROVE Judged'
  BY <1>1 DEF Launch, Crash
<1>2. ASSUME NEW p \in Procs, NEW round \in {1, 2}, EnsureStep(p, round)
      PROVE Judged'
  <2>1. CASE ReadLock(p, round)
    BY <1>2, <2>1 DEF ReadLock, Passed
  <2>2. CASE JudgeOwner(p, round)
    BY <1>2, <2>2 DEF JudgeOwner
  <2>3. CASE UnlinkStale(p, round)
    BY <1>2, <2>3 DEF UnlinkStale, Passed
  <2> QED BY <1>2, <2>1, <2>2, <2>3 DEF EnsureStep
<1>3. ASSUME NEW s \in Servers, Register(s) \/ Shutdown(s) PROVE Judged'
  BY <1>3 DEF Register, Shutdown
<1>4. ASSUME NEW r \in Rebuilders, LinkLock(r) PROVE Judged'
  BY <1>4 DEF LinkLock
<1>5. ASSUME NEW r \in Rebuilders, ListMarkers(r) \/ OpenMarker(r) PROVE Judged'
  BY <1>5 DEF ListMarkers, OpenMarker
<1>6. ASSUME NEW r \in Rebuilders,
             ScanDone(r) \/ FindLegacy(r) \/ Decide(r) \/ EndRebuild(r) \/ Release(r)
      PROVE Judged'
  BY <1>6 DEF ScanDone, FindLegacy, Decide, EndRebuild, Release
<1>7. CASE UNCHANGED vars
  BY <1>7 DEF vars
<1> QED
  BY <1>1, <1>2, <1>3, <1>4, <1>5, <1>6, <1>7 DEF Next, ServerStep, RebuildStep

(* Only the owner of a marker, or a sweep that found it dead, removes it.  *)
LEMMA DiscoverableStep ==
  TypeOK /\ ServingIsDiscoverable /\ [Next]_vars => ServingIsDiscoverable'
<1> SUFFICES ASSUME TypeOK, ServingIsDiscoverable, [Next]_vars
             PROVE  ServingIsDiscoverable'
  OBVIOUS
<1> USE DEF TypeOK, ServingIsDiscoverable, Goto, Refuse, Registered, Holding
<1>1. ASSUME NEW p \in Procs, Launch(p) \/ Crash(p)
      PROVE ServingIsDiscoverable'
  BY <1>1 DEF Launch, Crash
<1>2. ASSUME NEW p \in Procs, NEW round \in {1, 2}, EnsureStep(p, round)
      PROVE ServingIsDiscoverable'
  <2>1. CASE ReadLock(p, round)
    BY <1>2, <2>1 DEF ReadLock, Passed
  <2>2. CASE JudgeOwner(p, round)
    BY <1>2, <2>2 DEF JudgeOwner
  <2>3. CASE UnlinkStale(p, round)
    BY <1>2, <2>3 DEF UnlinkStale, Passed
  <2> QED BY <1>2, <2>1, <2>2, <2>3 DEF EnsureStep
<1>3. ASSUME NEW s \in Servers, Register(s) \/ Shutdown(s)
      PROVE ServingIsDiscoverable'
  BY <1>3 DEF Register, Shutdown
<1>4. ASSUME NEW r \in Rebuilders, OpenMarker(r) PROVE ServingIsDiscoverable'
  BY <1>4 DEF OpenMarker, Alive, Running
<1>5. ASSUME NEW r \in Rebuilders,
             \/ LinkLock(r) \/ ListMarkers(r) \/ ScanDone(r) \/ FindLegacy(r)
             \/ Decide(r) \/ EndRebuild(r) \/ Release(r)
      PROVE ServingIsDiscoverable'
  BY <1>5 DEF LinkLock, ListMarkers, ScanDone, FindLegacy, Decide, EndRebuild, Release
<1>6. CASE UNCHANGED vars
  BY <1>6 DEF vars
<1> QED
  BY <1>1, <1>2, <1>3, <1>4, <1>5, <1>6 DEF Next, ServerStep, RebuildStep

(* The lock file names its holder until somebody unlinks it blindly.       *)
LEMMA HeldStep ==
  TypeOK /\ Judged /\ LockHeld /\ [Next]_vars /\ ~clobbered' => LockHeld'
<1> SUFFICES ASSUME TypeOK, Judged, LockHeld, [Next]_vars, ~clobbered'
             PROVE  LockHeld'
  OBVIOUS
<1> USE DEF TypeOK, LockHeld, Goto, Refuse, Holding, Registered
<1>1. ASSUME NEW p \in Procs, Launch(p) \/ Crash(p) PROVE LockHeld'
  BY <1>1 DEF Launch, Crash
<1>2. ASSUME NEW p \in Procs, NEW round \in {1, 2}, EnsureStep(p, round)
      PROVE LockHeld'
  <2>1. CASE ReadLock(p, round)
    BY <1>2, <2>1 DEF ReadLock, Passed
  <2>2. CASE JudgeOwner(p, round)
    BY <1>2, <2>2 DEF JudgeOwner
  <2>3. CASE UnlinkStale(p, round)
    <3>1. seen[p] \in Rebuilders /\ pc[seen[p]] \in Ended
      BY <1>2, <2>3 DEF UnlinkStale, Judged
    <3>2. lock \in {NoProc, seen[p]}
      BY <2>3 DEF UnlinkStale
    <3>3. \A r \in Rebuilders : pc[r] \notin Holding
      BY <3>1, <3>2 DEF Ended
    <3> QED BY <1>2, <2>3, <3>3 DEF UnlinkStale, Passed
  <2> QED BY <1>2, <2>1, <2>2, <2>3 DEF EnsureStep
<1>3. ASSUME NEW s \in Servers, Register(s) \/ Shutdown(s) PROVE LockHeld'
  BY <1>3 DEF Register, Shutdown
<1>4. ASSUME NEW r \in Rebuilders, LinkLock(r) PROVE LockHeld'
  BY <1>4 DEF LinkLock
<1>5. ASSUME NEW r \in Rebuilders,
             \/ ListMarkers(r) \/ OpenMarker(r) \/ ScanDone(r) \/ FindLegacy(r)
             \/ Decide(r) \/ EndRebuild(r) \/ Release(r)
      PROVE LockHeld'
  BY <1>5 DEF ListMarkers, OpenMarker, ScanDone, FindLegacy, Decide, EndRebuild, Release
<1>6. CASE UNCHANGED vars
  BY <1>6 DEF vars
<1> QED
  BY <1>1, <1>2, <1>3, <1>4, <1>5, <1>6 DEF Next, ServerStep, RebuildStep

(* The marker is written before the second look at the lock and the lock   *)
(* before the markers are listed, so one of the two sees the other.        *)
LEMMA HandshakeStep ==
  TypeOK /\ Judged /\ ServingIsDiscoverable /\ LockHeld /\ Handshake
    /\ [Next]_vars /\ ~clobbered' => Handshake'
<1> SUFFICES ASSUME TypeOK, Judged, ServingIsDiscoverable, LockHeld, Handshake,
                    [Next]_vars, ~clobbered'
             PROVE  Handshake'
  OBVIOUS
<1> USE DEF TypeOK, Handshake, Goto, Refuse
<1>1. ASSUME NEW p \in Procs, Launch(p) \/ Crash(p) PROVE Handshake'
  BY <1>1 DEF Launch, Crash
<1>2. ASSUME NEW p \in Procs, NEW round \in {1, 2}, EnsureStep(p, round)
      PROVE Handshake'
  <2>1. CASE ReadLock(p, round)
    <3>1. CASE lock = NoProc
      <4>1. \A r \in Rebuilders : pc[r] \notin Holding
        BY <3>1 DEF LockHeld
      <4> QED BY <1>2, <2>1, <3>1, <4>1 DEF ReadLock, Passed, Holding
    <3>2. CASE lock # NoProc
      BY <1>2, <2>1, <3>2 DEF ReadLock
    <3> QED BY <3>1, <3>2
  <2>2. CASE JudgeOwner(p, round)
    BY <1>2, <2>2 DEF JudgeOwner
  <2>3. CASE UnlinkStale(p, round)
    <3>1. seen[p] \in Rebuilders /\ pc[seen[p]] \in Ended
      BY <1>2, <2>3 DEF UnlinkStale, Judged
    <3>2. lock \in {NoProc, seen[p]}
      BY <2>3 DEF UnlinkStale
    <3>3. \A r \in Rebuilders : pc[r] \notin Holding
      BY <3>1, <3>2 DEF Ended, Holding, LockHeld
    <3> QED BY <1>2, <2>3, <3>3 DEF UnlinkStale, Passed, Holding
  <2> QED BY <1>2, <2>1, <2>2, <2>3 DEF EnsureStep
<1>3. ASSUME NEW s \in Servers, Register(s) \/ Shutdown(s) PROVE Handshake'
  BY <1>3 DEF Register, Shutdown
<1>4. ASSUME NEW r \in Rebuilders, LinkLock(r) PROVE Handshake'
  BY <1>4 DEF LinkLock
<1>5. ASSUME NEW r \in Rebuilders, ListMarkers(r) PROVE Handshake'
  BY <1>5 DEF ListMarkers, ServingIsDiscoverable, Registered
<1>6. ASSUME NEW r \in Rebuilders, OpenMarker(r) PROVE Handshake'
  <2>1. PICK m \in todo[r] :
          /\ todo' = [todo EXCEPT ![r] = @ \ {m}]
          /\ liveSeen' = [liveSeen EXCEPT ![r] = @ \/ (m \in markers /\ Alive(m))]
    BY <1>6 DEF OpenMarker
  <2>2. UNCHANGED pc
    BY <1>6 DEF OpenMarker
  <2>3. ASSUME NEW q \in Rebuilders, NEW s \in Servers, pc[s] = "serving",
               pc[q] = "scan"
        PROVE  s \in todo'[q] \/ liveSeen'[q]
    <3>1. s \in todo[q] \/ liveSeen[q]
      BY <2>3
    <3>2. CASE q # r
      BY <2>1, <3>1, <3>2
    <3>3. CASE q = r /\ s = m
      <4>1. m \in markers /\ Alive(m)
        BY <2>3, <3>3 DEF ServingIsDiscoverable, Registered, Alive, Running
      <4>2. liveSeen'[r]
        BY <2>1, <4>1, Zenon
      <4> QED BY <3>1, <3>3, <4>2
    <3>4. CASE q = r /\ s # m
      <4>1. liveSeen[r] => liveSeen'[r]
        BY <2>1, Zenon
      <4>2. s \in todo[r] => s \in todo'[r]
        BY <2>1, <3>4
      <4> QED BY <3>1, <3>4, <4>1, <4>2
    <3> QED BY <3>2, <3>3, <3>4
  <2>4. ASSUME NEW q \in Rebuilders, NEW s \in Servers, pc[s] = "serving",
               pc[q] \in {"ps", "decide", "rebuild"}
        PROVE  pc[q] = "ps" /\ liveSeen'[q]
    <3>1. pc[q] = "ps" /\ liveSeen[q]
      BY <2>4
    <3>2. q # r
      BY <1>6, <3>1 DEF OpenMarker
    <3> QED BY <2>1, <3>1, <3>2
  <2> QED BY <2>2, <2>3, <2>4
<1>7. ASSUME NEW r \in Rebuilders,
             ScanDone(r) \/ FindLegacy(r) \/ Decide(r) \/ EndRebuild(r) \/ Release(r)
      PROVE Handshake'
  BY <1>7 DEF ScanDone, FindLegacy, Decide, EndRebuild, Release
<1>8. CASE UNCHANGED vars
  BY <1>8 DEF vars
<1> QED
  BY <1>1, <1>2, <1>3, <1>4, <1>5, <1>6, <1>7, <1>8
     DEF Next, ServerStep, RebuildStep

-----------------------------------------------------------------------------
(* A ghost that never goes back: the invariant below needs it.             *)
LEMMA ClobberedStays == TypeOK /\ [Next]_vars /\ clobbered => clobbered'
  BY DEF TypeOK, Next, vars, ServerStep, RebuildStep, EnsureStep, Launch, Crash,
         ReadLock, JudgeOwner, UnlinkStale, Register, Shutdown, LinkLock,
         ListMarkers, OpenMarker, ScanDone, FindLegacy, Decide, EndRebuild, Release

LEMMA IInvInit == Init => IInv
<1> SUFFICES ASSUME Init PROVE IInv
  OBVIOUS
<1>1. TypeOK
  BY TypeInit
<1> QED
  BY <1>1 DEF Init, IInv, Judged, ServingIsDiscoverable, LockHeld, Handshake,
              Holding, Registered

LEMMA IInvStep == IInv /\ [Next]_vars => IInv'
  BY TypeStep, JudgedStep, DiscoverableStep, HeldStep, HandshakeStep,
     ClobberedStays DEF IInv

THEOREM IInvHolds == Spec => []IInv
<1> QED BY IInvInit, IInvStep, PTL DEF Spec

(* Every server that polls can be found by a rebuilder's marker scan, for  *)
(* any number of processes and whatever crashes.                           *)
THEOREM Discoverable == Spec => []ServingIsDiscoverable
<1>1. IInv => ServingIsDiscoverable
  BY DEF IInv
<1> QED BY <1>1, IInvHolds, PTL

(* The handshake keeps rebuilders apart from servers and from each other   *)
(* for any number of processes and whatever crashes, unless a lock was     *)
(* unlinked that had not been judged stale.                                *)
THEOREM ExclusionTheorem == Spec => []ExclusionUnlessClobbered
<1>1. IInv => ExclusionUnlessClobbered
  BY DEF IInv, ExclusionUnlessClobbered, Exclusion, RebuildSingleHolder,
         LockHeld, Handshake, Holding
<1> QED BY <1>1, IInvHolds, PTL

-----------------------------------------------------------------------------
(* The calls of internal-status, answered between the steps above.         *)

RequestTypes == [step : {"none", "list1", "open1", "list2", "open2", "answer"},
                 last : {"none", "recent", "old", "unknown"},
                 left : SUBSET Servers, live : SUBSET Servers,
                 running : BOOLEAN, peers : SUBSET Servers]

Captures == {"none", "unknown", "process-down", "permissions-missing", "idle", "ok"}

StatusTyped == /\ request \in [Servers -> RequestTypes]
               /\ report \in [Servers -> [capture : Captures, peers : SUBSET Servers]]
               /\ lastFrame \in {"none", "recent", "old"}

(* The servers that were registered when the call of s began and still are. *)
StillThere(s) == {p \in request[s].peers : pc[p] \in Registered}

(* A server once registered is registered until it has ended for good.     *)
PeersEnd == \A s \in Servers : \A p \in request[s].peers :
              p # s /\ pc[p] \in Registered \cup Ended

(* A sweep has listed every one of them, and not found it dead.            *)
Swept == \A s \in Servers : request[s].step \in {"open1", "open2"} =>
           StillThere(s) \subseteq request[s].left \cup request[s].live

(* After the first sweep the registry looks empty only if they have ended. *)
Noticed == \A s \in Servers :
             /\ request[s].step \in {"list2", "open2", "answer"} /\ request[s].last # "unknown"
                  => request[s].running \/ StillThere(s) = {}
             /\ request[s].last = "unknown" => request[s].step = "answer"

PInv == /\ TypeOK /\ ServingIsDiscoverable
        /\ StatusTyped /\ PeersEnd /\ Swept /\ Noticed
        /\ PeersAreSeen

USE StatusAssumption

(* Registered is left for Ended only, and Ended never.                     *)
LEMMA RegisteredStep ==
  ASSUME TypeOK, [Next]_vars, NEW p \in Servers, pc[p] \in Registered \cup Ended
  PROVE  /\ pc'[p] \in Registered \cup Ended
         /\ pc'[p] \in Registered => pc[p] \in Registered
<1> USE DEF TypeOK, Goto, Refuse, Registered, Ended, Holding
<1>1. ASSUME NEW q \in Procs, Launch(q) \/ Crash(q)
      PROVE /\ pc'[p] \in Registered \cup Ended
            /\ pc'[p] \in Registered => pc[p] \in Registered
  BY <1>1 DEF Launch, Crash, Alive, Running
<1>2. ASSUME NEW q \in Procs, NEW round \in {1, 2}, EnsureStep(q, round)
      PROVE /\ pc'[p] \in Registered \cup Ended
            /\ pc'[p] \in Registered => pc[p] \in Registered
  BY <1>2 DEF EnsureStep, ReadLock, JudgeOwner, UnlinkStale, Passed
<1>3. ASSUME NEW q \in Servers, Register(q) \/ Shutdown(q)
      PROVE /\ pc'[p] \in Registered \cup Ended
            /\ pc'[p] \in Registered => pc[p] \in Registered
  BY <1>3 DEF Register, Shutdown
<1>4. ASSUME NEW r \in Rebuilders,
             \/ LinkLock(r) \/ ListMarkers(r) \/ OpenMarker(r) \/ ScanDone(r)
             \/ FindLegacy(r) \/ Decide(r) \/ EndRebuild(r) \/ Release(r)
      PROVE /\ pc'[p] \in Registered \cup Ended
            /\ pc'[p] \in Registered => pc[p] \in Registered
  BY <1>4 DEF LinkLock, ListMarkers, OpenMarker, ScanDone, FindLegacy, Decide,
              EndRebuild, Release
<1>5. CASE UNCHANGED vars
  BY <1>5 DEF vars
<1> QED
  BY <1>1, <1>2, <1>3, <1>4, <1>5 DEF Next, ServerStep, RebuildStep

LEMMA PInvInit == Init /\ StatusInit => PInv
<1> SUFFICES ASSUME Init, StatusInit PROVE PInv
  OBVIOUS
<1>1. TypeOK /\ ServingIsDiscoverable
  BY TypeInit DEF Init, ServingIsDiscoverable, Registered
<1>2. StatusTyped
  BY DEF StatusInit, StatusTyped, RequestTypes, Captures, NoRequest, NoReport
<1>3. PeersEnd /\ Swept /\ Noticed /\ PeersAreSeen
  BY DEF StatusInit, PeersEnd, Swept, Noticed, PeersAreSeen, NoRequest, NoReport
<1> QED BY <1>1, <1>2, <1>3 DEF PInv

(* The registry moves between two steps of the call.                       *)
LEMMA AroundStep == PInv /\ [Next]_vars /\ UNCHANGED statusVars => PInv'
<1> SUFFICES ASSUME PInv, [Next]_vars, UNCHANGED statusVars PROVE PInv'
  OBVIOUS
<1>1. TypeOK' /\ ServingIsDiscoverable'
  BY TypeStep, DiscoverableStep DEF PInv
<1>2. UNCHANGED <<request, report, lastFrame>>
  BY DEF statusVars
<1>3. StatusTyped' /\ PeersAreSeen'
  BY <1>2 DEF PInv, StatusTyped, PeersAreSeen
<1>4. \A s \in Servers : request[s].peers \subseteq Servers
  BY DEF PInv, StatusTyped, RequestTypes
<1>5. ASSUME NEW s \in Servers, NEW p \in request[s].peers
      PROVE  /\ p # s /\ pc'[p] \in Registered \cup Ended
             /\ pc'[p] \in Registered => pc[p] \in Registered
  <2>1. p \in Servers /\ p # s /\ pc[p] \in Registered \cup Ended
    BY <1>4, <1>5 DEF PInv, PeersEnd
  <2> QED BY <2>1, RegisteredStep DEF PInv
<1>6. PeersEnd'
  BY <1>2, <1>5 DEF PeersEnd
<1>7. \A s \in Servers : StillThere(s)' \subseteq StillThere(s)
  BY <1>2, <1>5 DEF StillThere
<1>8. Swept' /\ Noticed'
  BY <1>2, <1>7 DEF PInv, Swept, Noticed
<1> QED BY <1>1, <1>3, <1>6, <1>8 DEF PInv

LEMMA SweepTyped ==
  ASSUME NEW r \in RequestTypes, NEW l \in SUBSET Servers, NEW v \in SUBSET Servers,
         NEW q, q = [r EXCEPT !.left = l, !.live = v]
  PROVE  q \in RequestTypes
BY DEF RequestTypes

(* One step of the call.                                                   *)
LEMMA CallStep == ASSUME PInv, NEW s \in Servers, StatusStep(s) PROVE PInv'
<1>0. /\ request \in [Servers -> RequestTypes] /\ request[s] \in RequestTypes
      /\ markers \subseteq Servers
  BY DEF PInv, StatusTyped, TypeOK
<1> USE DEF PInv, StatusTyped
<1>1. TypeOK' /\ pc' = pc /\ UNCHANGED lastFrame
  BY DEF StatusStep, AskStatus, ListRecords, OpenRecord, RecordsRead, Answer, TypeOK, vars
<1>2. ServingIsDiscoverable'
  BY <1>1 DEF StatusStep, AskStatus, ListRecords, OpenRecord, RecordsRead, Answer, vars,
              ServingIsDiscoverable, Alive, Running
<1>3. CASE AskStatus(s)
  <2>1. StatusTyped' /\ PeersAreSeen'
    BY <1>1, <1>3 DEF AskStatus, NoRequest, NoReport, Captures, PeersAreSeen, RequestTypes
  <2>2. PeersEnd'
    BY <1>1, <1>3 DEF AskStatus, PeersEnd, NoRequest
  <2>3. Swept' /\ Noticed'
    BY <1>1, <1>3 DEF AskStatus, Swept, Noticed, StillThere, NoRequest
  <2> QED BY <1>1, <1>2, <2>1, <2>2, <2>3
<1>4. CASE ListRecords(s)
  <2>1. StatusTyped' /\ PeersAreSeen'
    <3>1. /\ request' = [request EXCEPT ![s] = request'[s]]
          /\ request'[s] = [request[s] EXCEPT !.left = markers, !.live = {},
                              !.step = IF @ = "list1" THEN "open1" ELSE "open2"]
      BY <1>0, <1>4 DEF ListRecords
    <3>2. request'[s] \in RequestTypes
      BY <1>0, <3>1 DEF RequestTypes
    <3> QED BY <1>0, <1>1, <1>4, <3>1, <3>2 DEF ListRecords, PeersAreSeen
  <2>2. PeersEnd'
    BY <1>1, <1>4 DEF ListRecords, PeersEnd
  <2>3. Swept' /\ Noticed'
    BY SMTT(30), <1>1, <1>4 DEF ListRecords, Swept, Noticed, StillThere, ServingIsDiscoverable, RequestTypes
  <2> QED BY <1>1, <1>2, <2>1, <2>2, <2>3
<1>5. CASE OpenRecord(s)
  <2>1. PICK m \in request[s].left :
          request' = [request EXCEPT ![s].left = @ \ {m},
             ![s].live = IF m \in markers /\ Alive(m) THEN @ \cup {m} ELSE @]
    BY <1>5 DEF OpenRecord
  <2>2. UNCHANGED report
    BY <1>5 DEF OpenRecord
  <2>3. StatusTyped' /\ PeersAreSeen'
    <3>1. /\ request' = [request EXCEPT ![s] = request'[s]]
          /\ request'[s] = [request[s] EXCEPT !.left = @ \ {m},
                !.live = IF m \in markers /\ Alive(m) THEN @ \cup {m} ELSE @]
      BY <1>0, <2>1
    <3> DEFINE l == request[s].left \ {m}
               v == IF m \in markers /\ Alive(m) THEN request[s].live \cup {m}
                    ELSE request[s].live
    <3>2. l \in SUBSET Servers /\ v \in SUBSET Servers
      BY <1>0 DEF RequestTypes
    <3>3. request'[s] \in RequestTypes
      <4>1. request'[s] = [request[s] EXCEPT !.left = l, !.live = v]
        BY <3>1
      <4> HIDE DEF l, v
      <4> QED BY <1>0, <3>2, <4>1, SweepTyped
    <3> QED BY <1>0, <1>1, <2>2, <3>1, <3>3 DEF PeersAreSeen
  <2>4. PeersEnd' /\ Noticed'
    BY <1>1, <2>1 DEF PeersEnd, Noticed, StillThere
  <2>5. m \in Servers /\ pc[m] \in Registered => m \in markers /\ Alive(m)
    BY DEF ServingIsDiscoverable, Registered, Alive, Running
  <2>6. Swept'
    BY <1>1, <2>1, <2>5 DEF Swept, StillThere, RequestTypes
  <2> QED BY <1>1, <1>2, <2>3, <2>4, <2>6
<1>6. CASE RecordsRead(s)
  <2>1. StatusTyped' /\ PeersAreSeen'
    <3>1. /\ request' = [request EXCEPT ![s] = request'[s]]
          /\ request'[s] = [request[s] EXCEPT
                !.step = IF @ = "open1" THEN "list2" ELSE "answer",
                !.running = IF request[s].step = "open1" THEN Others(s) # {} ELSE @]
      BY <1>0, <1>6 DEF RecordsRead
    <3>2. request'[s] \in RequestTypes
      BY <1>0, <3>1 DEF RequestTypes
    <3> QED BY <1>0, <1>1, <1>6, <3>1, <3>2 DEF RecordsRead, PeersAreSeen
  <2>2. PeersEnd' /\ Swept'
    BY <1>1, <1>6 DEF RecordsRead, PeersEnd, Swept, StillThere
  <2>3. request[s].step = "open1" => (Others(s) # {} \/ StillThere(s) = {})
    BY <1>6 DEF RecordsRead, Swept, PeersEnd, StillThere, Others
  <2>4. Noticed'
    BY <1>1, <1>6, <2>3 DEF RecordsRead, Noticed, StillThere, RequestTypes
  <2> QED BY <1>1, <1>2, <2>1, <2>2, <2>4
<1>7. CASE Answer(s)
  <2>1. PICK inGrace \in BOOLEAN :
          report' = [report EXCEPT ![s] =
            [capture |-> CaptureState(request[s].last # "unknown", request[s].last,
                                      request[s].running, inGrace),
             peers   |-> StillThere(s)]]
    BY <1>7 DEF Answer, StillThere
  <2>2. request[s].step = "answer" /\ request' = [request EXCEPT ![s] = NoRequest]
    BY <1>7 DEF Answer
  <2>3. CaptureState(request[s].last # "unknown", request[s].last,
                     request[s].running, inGrace) = "process-down"
          => request[s].last # "unknown" /\ ~request[s].running
    BY DEF CaptureState, RequestTypes
  <2>4. CaptureState(request[s].last # "unknown", request[s].last,
                     request[s].running, inGrace) \in Captures
    BY DEF CaptureState, Captures, RequestTypes
  <2>5. StatusTyped'
    BY <1>1, <2>1, <2>2, <2>4 DEF StillThere, NoRequest, RequestTypes
  <2>6. PeersAreSeen'
    BY <2>1, <2>2, <2>3 DEF PeersAreSeen, Noticed
  <2>7. PeersEnd' /\ Swept' /\ Noticed'
    BY <1>1, <2>2 DEF PeersEnd, Swept, Noticed, StillThere, NoRequest
  <2> QED BY <1>1, <1>2, <2>5, <2>6, <2>7
<1> QED BY <1>3, <1>4, <1>5, <1>6, <1>7 DEF StatusStep

LEMMA PInvStep == PInv /\ [StatusNext]_<<vars, statusVars>> => PInv'
<1> SUFFICES ASSUME PInv, [StatusNext]_<<vars, statusVars>> PROVE PInv'
  OBVIOUS
<1>1. ASSUME NEW s \in Asking, StatusStep(s) PROVE PInv'
  BY <1>1, CallStep
<1>2. CASE (\E s \in Servers : GraceEnds(s)) \/ RecorderChanges
  <2>1. UNCHANGED <<vars, request, report>>
    BY <1>2 DEF GraceEnds, RecorderChanges, vars
  <2>2. lastFrame' \in {"none", "recent", "old"}
    BY <1>2 DEF GraceEnds, RecorderChanges, PInv, StatusTyped
  <2>3. TypeOK' /\ ServingIsDiscoverable'
    BY <2>1, TypeStep, DiscoverableStep DEF PInv
  <2>4. UNCHANGED pc
    BY <2>1 DEF vars
  <2>5. PeersEnd' /\ Swept' /\ Noticed' /\ PeersAreSeen'
    BY <2>1, <2>4 DEF PInv, PeersEnd, Swept, Noticed, PeersAreSeen, StillThere
  <2> QED BY <2>1, <2>2, <2>3, <2>5 DEF PInv, StatusTyped
<1>3. CASE Next /\ UNCHANGED statusVars
  BY <1>3, AroundStep
<1>4. CASE UNCHANGED <<vars, statusVars>>
  BY <1>4, AroundStep
<1> QED BY <1>1, <1>2, <1>3, <1>4 DEF StatusNext

(* A server that is there throughout a call of internal-status is seen by  *)
(* it, for any number of servers, calls and sweeps and whatever crashes.   *)
THEOREM PeersTheorem == StatusSpec => []PeersAreSeen
<1>1. PInv => PeersAreSeen
  BY DEF PInv
<1> QED BY <1>1, PInvInit, PInvStep, PTL DEF StatusSpec

-----------------------------------------------------------------------------
Calling == {c \in Callers : slot[c] = "calling"}
Queued  == {c \in Callers : slot[c] = "waiting"}

(* The queue names each waiting caller once.                               *)
Queue == /\ \A i \in 1..Len(waiting) : slot[waiting[i]] = "waiting"
         /\ \A c \in Callers : slot[c] = "waiting" => \E i \in 1..Len(waiting) : waiting[i] = c
         /\ \A i, j \in 1..Len(waiting) : waiting[i] = waiting[j] => i = j

Limited ==
  /\ slot \in [Callers -> {"idle", "waiting", "calling", "answered"}]
  /\ waiting \in Seq(Callers) /\ active \in Nat
  /\ IsFiniteSet(Calling) /\ IsFiniteSet(Queued)
  /\ Queue
  /\ Len(waiting) = Cardinality(Queued)
  /\ Limit = 0 => waiting = <<>>
  /\ Limit > 0 => /\ active = Cardinality(Calling) /\ active <= Limit
                  /\ waiting # <<>> => active = Limit

-----------------------------------------------------------------------------
LEMMA LimitedInit == CallsInit => Limited
<1> SUFFICES ASSUME CallsInit PROVE Limited
  OBVIOUS
<1>1. /\ slot = [c \in Callers |-> "idle"] /\ active = 0 /\ waiting = <<>>
  BY DEF CallsInit
<1>2. Calling = {} /\ Queued = {}
  BY <1>1 DEF Calling, Queued
<1>3. IsFiniteSet({}) /\ Cardinality({}) = 0
  BY FS_EmptySet
<1>4. waiting \in Seq(Callers) /\ Len(waiting) = 0
  BY <1>1
<1>5. Queue
  BY <1>1, <1>4 DEF Queue
<1> QED
  BY <1>1, <1>2, <1>3, <1>4, <1>5, CallAssumption DEF Limited

(* A caller that begins is counted or queued.                              *)
LEMMA AcquireLimited ==
  ASSUME Limited, NEW c \in Callers, slot[c] = "idle", Acquire(c)
  PROVE  /\ Limited'
         /\ slot'[c] \in {"waiting", "calling"}
         /\ \A d \in Callers : d # c => slot'[d] = slot[d]
<1> USE DEF Limited
<1>0. Limit \in Nat
  BY CallAssumption
<1>1. CASE Limit = 0 \/ active < Limit
  <2>1. /\ slot' = [slot EXCEPT ![c] = "calling"]
        /\ active' = IF Limit = 0 THEN active ELSE active + 1
        /\ waiting' = waiting
    BY <1>1 DEF Acquire
  <2>2. Calling' = Calling \cup {c} /\ c \notin Calling
    BY <2>1 DEF Calling
  <2>3. Queued' = Queued
    BY <2>1 DEF Queued
  <2>4. IsFiniteSet(Calling') /\ Cardinality(Calling') = Cardinality(Calling) + 1
    BY <2>2, FS_AddElement
  <2>5. waiting # <<>> => Limit # 0 /\ active = Limit
    BY <1>0
  <2>6. waiting = <<>>
    BY <1>0, <1>1, <2>5
  <2>7. Queue'
    BY <2>1, <2>6 DEF Queue
  <2>8. slot' \in [Callers -> {"idle", "waiting", "calling", "answered"}]
    BY <2>1
  <2>9. /\ slot'[c] \in {"waiting", "calling"}
        /\ \A d \in Callers : d # c => slot'[d] = slot[d]
    BY <2>1
  <2>10. /\ active' \in Nat
         /\ Limit > 0 => active' = Cardinality(Calling') /\ active' <= Limit
    BY <1>0, <1>1, <2>1, <2>4
  <2> QED
    BY <2>1, <2>3, <2>4, <2>6, <2>7, <2>8, <2>9, <2>10
<1>2. CASE ~(Limit = 0 \/ active < Limit)
  <2>1. /\ slot' = [slot EXCEPT ![c] = "waiting"]
        /\ waiting' = Append(waiting, c)
        /\ active' = active
    BY <1>2 DEF Acquire
  <2>2. Calling' = Calling
    BY <2>1 DEF Calling
  <2>3. Queued' = Queued \cup {c} /\ c \notin Queued
    BY <2>1 DEF Queued
  <2>4. IsFiniteSet(Queued') /\ Cardinality(Queued') = Cardinality(Queued) + 1
    BY <2>3, FS_AddElement
  <2>5. /\ waiting' \in Seq(Callers) /\ Len(waiting') = Len(waiting) + 1
        /\ \A i \in 1..Len(waiting) : waiting'[i] = waiting[i] /\ waiting[i] \in Callers
        /\ waiting'[Len(waiting) + 1] = c
    BY <2>1
  <2>6. \A i \in 1..Len(waiting) : waiting[i] # c
    BY DEF Queue
  <2>7. Queue'
    <3>1. \A i \in 1..Len(waiting') : i \in 1..Len(waiting) \/ i = Len(waiting) + 1
      BY <2>5
    <3>2. \A i \in 1..Len(waiting') : slot'[waiting'[i]] = "waiting"
      BY <2>1, <2>5, <3>1 DEF Queue
    <3>3. \A d \in Callers : slot'[d] = "waiting" => \E i \in 1..Len(waiting') : waiting'[i] = d
      <4> SUFFICES ASSUME NEW d \in Callers, slot'[d] = "waiting"
                   PROVE  \E i \in 1..Len(waiting') : waiting'[i] = d
        OBVIOUS
      <4>1. CASE d = c
        BY <2>5, <4>1
      <4>2. CASE d # c
        <5>1. PICK i \in 1..Len(waiting) : waiting[i] = d
          BY <2>1, <4>2 DEF Queue
        <5> QED
          BY <2>5, <5>1
      <4> QED
        BY <4>1, <4>2
    <3>4. \A i, j \in 1..Len(waiting') : waiting'[i] = waiting'[j] => i = j
      BY <2>5, <2>6, <3>1 DEF Queue
    <3> QED
      BY <3>2, <3>3, <3>4 DEF Queue
  <2>8. slot' \in [Callers -> {"idle", "waiting", "calling", "answered"}]
    BY <2>1
  <2>9. /\ slot'[c] \in {"waiting", "calling"}
        /\ \A d \in Callers : d # c => slot'[d] = slot[d]
    BY <2>1
  <2>10. Limit > 0 /\ active' = Limit
    BY <1>0, <1>2, <2>1
  <2> QED
    BY <1>0, <2>1, <2>2, <2>4, <2>5, <2>7, <2>8, <2>9, <2>10
<1> QED
  BY <1>1, <1>2

(* A caller that ends gives its place to the first in the queue, or back.  *)
LEMMA GiveBackLimited ==
  ASSUME Limited, NEW c \in Callers, slot[c] = "calling", NEW after \in {"idle", "answered"},
         GiveBack(c, after)
  PROVE  /\ Limited'
         /\ slot'[c] = after
         /\ \A d \in Callers : d # c => \/ slot'[d] = slot[d]
                                        \/ slot[d] = "waiting" /\ slot'[d] = "calling"
<1> USE DEF Limited
<1>0. Limit \in Nat
  BY CallAssumption
<1>1. CASE Limit = 0 \/ waiting = <<>>
  <2>1. /\ slot' = [slot EXCEPT ![c] = after]
        /\ active' = IF Limit = 0 THEN active ELSE active - 1
        /\ waiting' = waiting /\ waiting = <<>>
    BY <1>1 DEF GiveBack
  <2>2. Calling' = Calling \ {c} /\ c \in Calling
    BY <2>1 DEF Calling
  <2>3. Queued' = Queued
    BY <2>1 DEF Queued
  <2>4. IsFiniteSet(Calling') /\ Cardinality(Calling') = Cardinality(Calling) - 1
    BY <2>2, FS_RemoveElement
  <2>5. Cardinality(Calling') \in Nat
    BY <2>4, FS_CardinalityType
  <2>6. Queue'
    BY <2>1 DEF Queue
  <2>7. slot' \in [Callers -> {"idle", "waiting", "calling", "answered"}]
    BY <2>1
  <2>8. slot'[c] = after /\ \A d \in Callers : d # c => slot'[d] = slot[d]
    BY <2>1
  <2>9. /\ active' \in Nat
        /\ Limit > 0 => active' = Cardinality(Calling') /\ active' <= Limit
    BY <1>0, <2>1, <2>4, <2>5
  <2> QED
    BY <2>1, <2>3, <2>4, <2>6, <2>7, <2>8, <2>9
<1>2. CASE ~(Limit = 0 \/ waiting = <<>>)
  <2> DEFINE h == Head(waiting)
  <2>1. /\ slot' = [slot EXCEPT ![c] = after, ![h] = "calling"]
        /\ waiting' = Tail(waiting)
        /\ active' = active
    BY <1>2 DEF GiveBack
  <2>2. /\ Len(waiting) \in Nat \ {0} /\ h = waiting[1] /\ h \in Callers
        /\ waiting' \in Seq(Callers) /\ Len(waiting') = Len(waiting) - 1
        /\ \A i \in 1..Len(waiting') : waiting'[i] = waiting[i + 1]
    BY <1>2, <2>1
  <2> HIDE DEF h
  <2>3. slot[h] = "waiting" /\ h # c
    BY <2>2 DEF Queue
  <2>4. /\ slot'[c] = after /\ slot'[h] = "calling"
        /\ \A d \in Callers : d # c /\ d # h => slot'[d] = slot[d]
        /\ slot' \in [Callers -> {"idle", "waiting", "calling", "answered"}]
    BY <2>1, <2>2, <2>3
  <2>5. Queued' = Queued \ {h} /\ h \in Queued
    BY <2>2, <2>3, <2>4 DEF Queued
  <2>6. IsFiniteSet(Queued') /\ Cardinality(Queued') = Cardinality(Queued) - 1
    BY <2>5, FS_RemoveElement
  <2>7. /\ Calling' = (Calling \ {c}) \cup {h}
        /\ c \in Calling /\ h \notin Calling \ {c}
    BY <2>2, <2>3, <2>4 DEF Calling
  <2>8. IsFiniteSet(Calling') /\ Cardinality(Calling') = Cardinality(Calling)
    <3>1. IsFiniteSet(Calling \ {c}) /\ Cardinality(Calling \ {c}) = Cardinality(Calling) - 1
      BY <2>7, FS_RemoveElement
    <3>2. IsFiniteSet(Calling') /\ Cardinality(Calling') = Cardinality(Calling \ {c}) + 1
      BY <2>7, <3>1, FS_AddElement
    <3>3. Cardinality(Calling) \in Nat
      BY FS_CardinalityType
    <3> QED
      BY <3>1, <3>2, <3>3
  <2>9. Queue'
    <3>1. \A i \in 1..Len(waiting') : i + 1 \in 1..Len(waiting) /\ i + 1 # 1
      BY <2>2
    <3>2. \A i \in 1..Len(waiting') : waiting[i + 1] # h
      BY <2>2, <3>1 DEF Queue
    <3>3. \A i \in 1..Len(waiting') : waiting[i + 1] \in Callers /\ slot[waiting[i + 1]] = "waiting"
      BY <3>1 DEF Queue
    <3>4. \A i \in 1..Len(waiting') : slot'[waiting'[i]] = "waiting"
      BY <2>2, <2>4, <3>2, <3>3
    <3>5. \A d \in Callers : slot'[d] = "waiting" => \E i \in 1..Len(waiting') : waiting'[i] = d
      <4> SUFFICES ASSUME NEW d \in Callers, slot'[d] = "waiting"
                   PROVE  \E i \in 1..Len(waiting') : waiting'[i] = d
        OBVIOUS
      <4>1. d # h /\ slot[d] = "waiting"
        BY <2>4
      <4>2. PICK k \in 1..Len(waiting) : waiting[k] = d
        BY <4>1 DEF Queue
      <4>3. k # 1 /\ k - 1 \in 1..Len(waiting')
        BY <2>2, <4>1, <4>2
      <4>4. waiting'[k - 1] = waiting[(k - 1) + 1] /\ (k - 1) + 1 = k
        BY <2>2, <4>3
      <4> QED
        BY <4>2, <4>3, <4>4
    <3>6. \A i, j \in 1..Len(waiting') : waiting'[i] = waiting'[j] => i = j
      <4> SUFFICES ASSUME NEW i \in 1..Len(waiting'), NEW j \in 1..Len(waiting'),
                          waiting'[i] = waiting'[j]
                   PROVE  i = j
        OBVIOUS
      <4>1. waiting[i + 1] = waiting[j + 1]
        BY <2>2
      <4>2. i + 1 = j + 1
        BY <3>1, <4>1 DEF Queue
      <4> QED
        BY <2>2, <4>2
    <3> QED
      BY <3>4, <3>5, <3>6 DEF Queue
  <2>10. Limit > 0 /\ active' = Limit /\ active' = Cardinality(Calling')
    BY <1>0, <1>2, <2>1, <2>8
  <2>11. Len(waiting') = Cardinality(Queued')
    BY <2>2, <2>6
  <2> QED
    BY <1>0, <2>1, <2>2, <2>3, <2>4, <2>6, <2>8, <2>9, <2>10, <2>11
<1> QED
  BY <1>1, <1>2

LEMMA LimitedAccounts == Limited => SlotsAccounted
<1> SUFFICES ASSUME Limited, Limit > 0 PROVE SlotsAccounted
  BY DEF SlotsAccounted
<1>1. Queued = {waiting[i] : i \in 1..Len(waiting)}
  BY DEF Limited, Queue, Queued
<1> QED
  BY <1>1 DEF Limited, SlotsAccounted, Calling, Queued

-----------------------------------------------------------------------------
(* The pool: what has come back for a frame is what is owed to it, frames  *)
(* the pool has not come to are out of the limiter's hands, and the cache  *)
(* never forgets.                                                          *)
Texts == {Text[f] : f \in Indexed}
Emb   == [text : Texts \cup {NoText}, model : EmbeddingModels \cup {NoText, "failed"}]

Made(f, e) == e.text = Text[f] /\ (e.model \in used \/ cache[Text[f]] = e)

BatchTypes ==
  /\ model \in EmbeddingModels /\ model \in used
  /\ batch \in [pc : {"idle", "pool"}, next : Nat \ {0}, result : [Indexed -> Emb]]
  /\ covered \in 0..Batch
  /\ cache \in [Texts -> Emb] /\ embedded \in [Indexed -> Emb]

Hashed == \A t \in Texts : cache[t] # NoEmbedding => cache[t].text = t

InHand ==
  /\ \A f \in Indexed : slot[f] # "answered"
  /\ batch.pc = "idle" => \A f \in Indexed : slot[f] = "idle"
  /\ batch.pc = "pool" => \A f \in Indexed : f >= batch.next => slot[f] = "idle"

Owed ==
  batch.pc = "pool" =>
    \A f \in Indexed :
      f > covered /\ f < batch.next /\ slot[f] = "idle" /\ Text[f] # NoText
        => batch.result[f] = Failed \/ Made(f, batch.result[f])

Batched == BatchTypes /\ Hashed /\ InHand /\ Owed /\ VectorsAccounted

LEMMA EmbFacts ==
  /\ NoEmbedding \in Emb /\ Failed \in Emb
  /\ NoEmbedding.text = NoText /\ Failed.text = NoText
  /\ \A f \in Indexed, m \in EmbeddingModels : [text |-> Text[f], model |-> m] \in Emb
  BY DEF NoEmbedding, Failed, Emb, Texts

LEMMA BatchedInit == CallsInit => Batched
<1> SUFFICES ASSUME CallsInit PROVE Batched
  OBVIOUS
<1>1. /\ model \in EmbeddingModels /\ used = {model} /\ covered = 0
      /\ slot = [c \in Callers |-> "idle"]
      /\ batch = NoBatch
      /\ cache = [t \in Texts |-> NoEmbedding]
      /\ embedded = [f \in Indexed |-> NoEmbedding]
  BY DEF CallsInit, Texts
<1>2. /\ batch.pc = "idle" /\ batch.next = 1
      /\ batch \in [pc : {"idle", "pool"}, next : Nat \ {0}, result : [Indexed -> Emb]]
  BY <1>1, EmbFacts DEF NoBatch
<1>3. BatchTypes /\ Hashed
  BY <1>1, <1>2, EmbFacts, CallAssumption DEF BatchTypes, Hashed
<1>4. InHand /\ Owed
  BY <1>1, <1>2 DEF InHand, Owed, Callers
<1>5. VectorsAccounted
  BY <1>1 DEF VectorsAccounted, Indexed
<1> QED
  BY <1>3, <1>4, <1>5 DEF Batched

LEMMA StartBatchBatched ==
  ASSUME Batched, StartBatch
  PROVE  Batched'
<1>1. /\ batch.pc = "idle" /\ covered < Batch
      /\ batch' = [NoBatch EXCEPT !.pc = "pool", !.next = covered + 1]
      /\ UNCHANGED <<model, used, slot, covered, cache, embedded>>
  BY DEF StartBatch
<1>2. /\ batch'.pc = "pool" /\ batch'.next = covered + 1
      /\ batch' \in [pc : {"idle", "pool"}, next : Nat \ {0}, result : [Indexed -> Emb]]
  <2>1. NoBatch = [pc |-> "idle", next |-> 1, result |-> NoBatch.result]
        /\ NoBatch.result \in [Indexed -> Emb]
    BY EmbFacts DEF NoBatch
  <2>2. batch' = [pc |-> "pool", next |-> covered + 1, result |-> NoBatch.result]
    BY <1>1, <2>1
  <2>3. covered + 1 \in Nat \ {0}
    BY CallAssumption DEF Batched, BatchTypes
  <2> QED
    BY <2>1, <2>2, <2>3
<1>3. BatchTypes' /\ Hashed' /\ VectorsAccounted'
  BY <1>1, <1>2 DEF Batched, BatchTypes, Hashed, VectorsAccounted
<1>4. InHand'
  BY <1>1, <1>2 DEF Batched, InHand
<1>5. Owed'
  BY <1>1, <1>2, CallAssumption DEF Batched, BatchTypes, Owed, Indexed
<1> QED
  BY <1>3, <1>4, <1>5 DEF Batched

LEMMA EmbedNextBatched ==
  ASSUME Limited, Batched, EmbedNext
  PROVE  Limited' /\ Batched'
<1>a. PICK f \in Indexed : f = batch.next
  BY CallAssumption DEF EmbedNext, Batched, BatchTypes, Indexed
<1> DEFINE launched == [batch EXCEPT !.next = @ + 1]
           hit == cache[Text[f]] # NoEmbedding
<1>0. /\ BatchTypes /\ Hashed /\ InHand /\ Owed /\ VectorsAccounted
      /\ batch.pc = "pool" /\ f = batch.next /\ f \in Callers
      /\ UNCHANGED <<model, used, covered, cache, embedded>>
  BY <1>a DEF EmbedNext, Batched, BatchTypes, Indexed, Callers
<1>1. slot[f] = "idle"
  BY <1>0 DEF InHand, BatchTypes
<1>2. /\ launched.pc = "pool" /\ launched.next = f + 1 /\ launched.result = batch.result
      /\ launched \in [pc : {"idle", "pool"}, next : Nat \ {0}, result : [Indexed -> Emb]]
  BY <1>0 DEF BatchTypes
<1>3. \/ /\ Text[f] = NoText
         /\ batch' = launched /\ UNCHANGED <<slot, active, waiting>>
      \/ /\ Text[f] # NoText /\ hit
         /\ batch' = [launched EXCEPT !.result[f] = cache[Text[f]]]
         /\ UNCHANGED <<slot, active, waiting>>
      \/ Text[f] # NoText /\ Acquire(f) /\ batch' = launched
  BY <1>a DEF EmbedNext
<1> HIDE DEF launched, hit
<1>4. /\ Hashed' /\ VectorsAccounted'
      /\ \A g \in Indexed : \A e : Made(g, e) => Made(g, e)'
  BY <1>0 DEF Hashed, VectorsAccounted, Made
<1>5. f \in Nat /\ \A g \in Indexed : g \in Nat
  BY <1>0, CallAssumption DEF Indexed
<1>6. CASE Text[f] = NoText /\ batch' = launched /\ UNCHANGED <<slot, active, waiting>>
  <2>1. Limited'
    BY <1>6 DEF Limited, Calling, Queued, Queue
  <2>2. BatchTypes'
    BY <1>0, <1>2, <1>6 DEF BatchTypes
  <2>3. InHand'
    BY <1>0, <1>2, <1>5, <1>6 DEF InHand
  <2>4. Owed'
    <3> SUFFICES ASSUME NEW g \in Indexed, g > covered, g < f + 1, slot[g] = "idle",
                        Text[g] # NoText
                 PROVE  batch.result[g] = Failed \/ Made(g, batch.result[g])'
      BY <1>0, <1>2, <1>6 DEF Owed
    <3>1. g < f
      BY <1>5, <1>6
    <3> QED
      BY <1>0, <1>2, <1>4, <1>6, <3>1 DEF Owed
  <2> QED
    BY <1>4, <2>1, <2>2, <2>3, <2>4 DEF Batched
<1>7. CASE /\ Text[f] # NoText /\ hit
           /\ batch' = [launched EXCEPT !.result[f] = cache[Text[f]]]
           /\ UNCHANGED <<slot, active, waiting>>
  <2>0. Text[f] \in Texts
    BY <1>0 DEF Texts
  <2>1. Limited'
    BY <1>7 DEF Limited, Calling, Queued, Queue
  <2>2. /\ batch'.pc = "pool" /\ batch'.next = f + 1
        /\ batch' \in [pc : {"idle", "pool"}, next : Nat \ {0}, result : [Indexed -> Emb]]
        /\ batch'.result[f] = cache[Text[f]]
        /\ \A g \in Indexed : g # f => batch'.result[g] = batch.result[g]
    BY <1>0, <1>2, <1>7, <2>0 DEF BatchTypes
  <2>3. BatchTypes'
    BY <1>0, <2>2 DEF BatchTypes
  <2>4. InHand'
    BY <1>0, <1>5, <1>7, <2>2 DEF InHand
  <2>5. Made(f, cache[Text[f]])'
    BY <1>0, <1>7, <2>0 DEF Made, Hashed, hit
  <2>6. Owed'
    <3> SUFFICES ASSUME NEW g \in Indexed, g > covered, g < f + 1, slot[g] = "idle",
                        Text[g] # NoText
                 PROVE  batch'.result[g] = Failed \/ Made(g, batch.result[g])'
      BY <1>0, <1>7, <2>2 DEF Owed
    <3>1. CASE g = f
      BY <1>0, <2>2, <2>5, <3>1 DEF Made
    <3>2. CASE g < f
      <4>1. batch.result[g] = Failed \/ Made(g, batch.result[g])
        BY <1>0, <3>2 DEF Owed
      <4> QED
        BY <1>0, <1>5, <2>2, <3>2, <4>1 DEF Made
    <3>3. g = f \/ g < f
      BY <1>5
    <3> QED
      BY <3>1, <3>2, <3>3
  <2> QED
    BY <1>4, <2>1, <2>3, <2>4, <2>6 DEF Batched
<1>8. CASE Text[f] # NoText /\ Acquire(f) /\ batch' = launched
  <2>1. /\ Limited'
        /\ slot'[f] \in {"waiting", "calling"}
        /\ \A d \in Callers : d # f => slot'[d] = slot[d]
    BY <1>0, <1>1, <1>8, AcquireLimited
  <2>2. \A g \in Indexed : g # f => slot'[g] = slot[g]
    BY <2>1 DEF Callers
  <2>3. BatchTypes'
    BY <1>0, <1>2, <1>8 DEF BatchTypes
  <2>4. InHand'
    BY <1>0, <1>2, <1>5, <1>8, <2>1, <2>2 DEF InHand
  <2>5. Owed'
    <3> SUFFICES ASSUME NEW g \in Indexed, g > covered, g < f + 1, slot'[g] = "idle",
                        Text[g] # NoText
                 PROVE  batch.result[g] = Failed \/ Made(g, batch.result[g])'
      BY <1>0, <1>2, <1>8 DEF Owed
    <3>1. g # f /\ g < f /\ slot[g] = "idle"
      BY <1>5, <2>1, <2>2
    <3> QED
      BY <1>0, <1>2, <1>4, <1>8, <3>1 DEF Owed
  <2> QED
    BY <1>4, <2>1, <2>3, <2>4, <2>5 DEF Batched
<1> QED
  BY <1>3, <1>6, <1>7, <1>8

(* A call that ends: its frame becomes idle with what came back, and the   *)
(* one the limiter wakes becomes a call.                                   *)
LEMMA EmbedSettlesBatched ==
  ASSUME Limited, Batched, NEW f \in Callers, EmbedSettles(f)
  PROVE  Limited' /\ Batched'
<1> DEFINE made == [text |-> Text[f], model |-> model]
<1>0. /\ BatchTypes /\ Hashed /\ InHand /\ Owed /\ VectorsAccounted
      /\ f \in Indexed /\ slot[f] = "calling" /\ GiveBack(f, "idle")
      /\ UNCHANGED <<model, used, covered, embedded>>
  BY DEF EmbedSettles, Batched
<1>1. /\ Limited' /\ slot'[f] = "idle"
      /\ \A d \in Callers : d # f => \/ slot'[d] = slot[d]
                                     \/ slot[d] = "waiting" /\ slot'[d] = "calling"
  BY <1>0, GiveBackLimited
<1>2. \A g \in Indexed : g # f => \/ slot'[g] = slot[g]
                                  \/ slot[g] = "waiting" /\ slot'[g] = "calling"
  BY <1>1 DEF Callers
<1>3. batch.pc = "pool" /\ f < batch.next
  BY <1>0, CallAssumption DEF InHand, BatchTypes, Indexed
<1>4. \E e \in {made, Failed} :
        /\ batch' = [batch EXCEPT !.result[f] = e]
        /\ \/ cache' = cache
           \/ e = made /\ cache[Text[f]] = NoEmbedding /\ cache' = [cache EXCEPT ![Text[f]] = made]
  BY DEF EmbedSettles, Embedded
<1>5. PICK e \in {made, Failed} :
        /\ batch' = [batch EXCEPT !.result[f] = e]
        /\ \/ cache' = cache
           \/ cache[Text[f]] = NoEmbedding /\ cache' = [cache EXCEPT ![Text[f]] = made]
  BY <1>4
<1>6. made \in Emb /\ made.text = Text[f] /\ made.model = model /\ Text[f] \in Texts
  BY <1>0, EmbFacts DEF BatchTypes, Texts
<1>7. e \in Emb
  BY <1>6, EmbFacts
<1> HIDE DEF made
<1>8. /\ batch'.pc = "pool" /\ batch'.next = batch.next
      /\ batch' \in [pc : {"idle", "pool"}, next : Nat \ {0}, result : [Indexed -> Emb]]
      /\ batch'.result[f] = e
      /\ \A g \in Indexed : g # f => batch'.result[g] = batch.result[g]
  <2>1. batch = [pc |-> batch.pc, next |-> batch.next, result |-> batch.result]
        /\ batch.result \in [Indexed -> Emb] /\ batch.next \in Nat \ {0}
    BY <1>0 DEF BatchTypes
  <2>2. batch' = [pc |-> batch.pc, next |-> batch.next, result |-> [batch.result EXCEPT ![f] = e]]
    BY <1>5, <2>1
  <2> QED
    BY <1>0, <1>3, <1>7, <2>1, <2>2
<1>9. /\ cache' \in [Texts -> Emb] /\ Hashed'
      /\ \A t \in Texts : cache[t] # NoEmbedding => cache'[t] = cache[t]
  BY <1>0, <1>5, <1>6 DEF BatchTypes, Hashed
<1>10. BatchTypes'
  BY <1>0, <1>8, <1>9 DEF BatchTypes
<1>11. InHand'
  <2>1. \A g \in Indexed : g >= batch.next => g # f /\ slot[g] = "idle"
    BY <1>0, <1>3, CallAssumption DEF InHand, Indexed, BatchTypes
  <2>2. \A g \in Indexed : slot'[g] # "answered"
    BY <1>0, <1>1, <1>2 DEF InHand
  <2>3. \A g \in Indexed : g >= batch.next => slot'[g] = "idle"
    BY <1>2, <2>1
  <2> QED
    BY <1>8, <2>2, <2>3 DEF InHand
<1>12. Owed'
  <2> SUFFICES ASSUME NEW g \in Indexed, g > covered, g < batch.next, slot'[g] = "idle",
                      Text[g] # NoText
               PROVE  batch'.result[g] = Failed \/ Made(g, batch.result[g])'
    BY <1>0, <1>8 DEF Owed
  <2>1. CASE g = f
    BY <1>0, <1>6, <1>8, <2>1 DEF Made, BatchTypes
  <2>2. CASE g # f
    <3>1. slot[g] = "idle"
      BY <1>2, <2>2
    <3>2. batch.result[g] = Failed \/ Made(g, batch.result[g])
      BY <1>0, <1>3, <3>1 DEF Owed
    <3>3. Text[g] \in Texts /\ (Made(g, batch.result[g]) => batch.result[g] # NoEmbedding)
      BY EmbFacts DEF Texts, Made
    <3> QED
      BY <1>0, <1>8, <1>9, <2>2, <3>2, <3>3 DEF Made
  <2> QED
    BY <2>1, <2>2
<1>13. VectorsAccounted'
  <2>1. \A g \in Indexed : Text[g] \in Texts
    BY DEF Texts
  <2> QED
    BY <1>0, <1>9, <2>1 DEF VectorsAccounted
<1> QED
  BY <1>1, <1>9, <1>10, <1>11, <1>12, <1>13 DEF Batched

LEMMA LeastNumber ==
  ASSUME NEW S \in SUBSET Nat, S # {}
  PROVE  \E x \in S : \A y \in S : x <= y
<1>1. PICK x \in S : \A y \in S : <<y, x>> \notin OpToRel(<, Nat)
  BY NatLessThanWellFounded, WFMin
<1>2. \A y \in S : ~(y < x)
  BY <1>1 DEF OpToRel
<1> QED
  BY <1>2

(* The end of a batch: what is behind the new checkpoint was stored, now   *)
(* or before.                                                              *)
LEMMA EndBatchBatched ==
  ASSUME Limited, Batched, EndBatch
  PROVE  Batched'
<1>0. /\ BatchTypes /\ Hashed /\ InHand /\ Owed /\ VectorsAccounted
      /\ batch.pc = "pool" /\ batch.next > Batch /\ InFlight = {} /\ batch' = NoBatch
      /\ UNCHANGED <<model, used, slot, cache>>
  BY DEF EndBatch, Batched
<1> DEFINE pending == {f \in Indexed : f > covered}
<1>1. PICK stored \in BOOLEAN :
        LET behind == {f \in pending : NotStored(f, stored)}
        IN  /\ embedded' = [f \in Indexed |->
                 IF stored /\ f \in pending /\ Text[f] # NoText /\ batch.result[f] # Failed
                 THEN batch.result[f] ELSE embedded[f]]
            /\ covered' = IF behind = {} THEN Batch
                          ELSE (CHOOSE f \in behind : \A g \in behind : f <= g) - 1
  BY DEF EndBatch
<1> DEFINE behind == {f \in pending : NotStored(f, stored)}
<1>2. Batch \in Nat /\ \A f \in Indexed : f \in Nat /\ 1 <= f /\ f <= Batch
  BY CallAssumption DEF Indexed
<1>3. covered' \in 0..Batch /\ \A f \in Indexed : f <= covered' => f \notin behind
  <2>1. CASE behind = {}
    BY <1>1, <1>2, <2>1
  <2>2. CASE behind # {}
    <3> DEFINE least == CHOOSE f \in behind : \A g \in behind : f <= g
    <3>1. \E f \in behind : \A g \in behind : f <= g
      BY <1>2, <2>2, LeastNumber
    <3>2. least \in behind /\ \A g \in behind : least <= g
      BY <3>1
    <3>3. covered' = least - 1
      BY <1>1, <2>2
    <3>4. least \in Indexed
      BY <3>2
    <3> HIDE DEF least, behind
    <3> QED
      BY <1>2, <3>2, <3>3, <3>4
  <2> QED
    BY <2>1, <2>2
<1>4. \A f \in Indexed : slot[f] = "idle"
  <2>1. \A f \in Indexed : slot[f] \notin {"waiting", "calling"}
    BY <1>0 DEF InFlight
  <2>2. \A f \in Indexed : slot[f] \in {"idle", "waiting", "calling", "answered"}
    BY DEF Limited, Callers
  <2> QED
    BY <1>0, <2>1, <2>2 DEF InHand
<1>5. /\ batch'.pc = "idle" /\ batch'.next = 1 /\ batch'.result \in [Indexed -> Emb]
      /\ batch' \in [pc : {"idle", "pool"}, next : Nat \ {0}, result : [Indexed -> Emb]]
  BY <1>0, EmbFacts DEF NoBatch
<1>6. \A f \in Indexed :
        \/ /\ f > covered /\ stored /\ Text[f] # NoText /\ batch.result[f] # Failed
           /\ embedded'[f] = batch.result[f]
        \/ embedded'[f] = embedded[f] /\ ~(f > covered /\ stored /\ Text[f] # NoText /\ batch.result[f] # Failed)
  BY <1>1
<1>7. embedded' \in [Indexed -> Emb]
  <2>1. batch.result \in [Indexed -> Emb] /\ embedded \in [Indexed -> Emb]
    BY <1>0 DEF BatchTypes
  <2> QED
    BY <1>1, <2>1
<1>8. BatchTypes'
  BY <1>0, <1>3, <1>5, <1>7 DEF BatchTypes
<1>9. Hashed' /\ InHand' /\ Owed'
  BY <1>0, <1>4, <1>5 DEF Hashed, InHand, Owed
<1>10. \A f \in Indexed : Text[f] # NoText /\ f > covered /\ batch.result[f] # Failed
                            => Made(f, batch.result[f])
  <2>1. \A f \in Indexed : f < batch.next
    BY <1>0, <1>2 DEF BatchTypes
  <2> QED
    BY <1>0, <1>4, <2>1 DEF Owed
<1>11. covered \in Nat /\ covered' \in Nat
  BY <1>0, <1>2, <1>3 DEF BatchTypes
<1>12. \A f \in Indexed : f <= covered' /\ Text[f] # NoText => embedded'[f].text = Text[f]
  <2> SUFFICES ASSUME NEW f \in Indexed, f <= covered', Text[f] # NoText
               PROVE  embedded'[f].text = Text[f]
    OBVIOUS
  <2>1. CASE f > covered
    <3>1. ~NotStored(f, stored)
      BY <1>3, <2>1
    <3>2. batch.result[f] # Failed /\ stored
      BY <3>1 DEF NotStored
    <3> QED
      BY <1>6, <1>10, <2>1, <3>2 DEF Made
  <2>2. CASE f <= covered
    <3>1. embedded'[f] = embedded[f]
      BY <1>2, <1>6, <1>11, <2>2
    <3> QED
      BY <1>0, <2>2, <3>1 DEF VectorsAccounted
  <2> QED
    BY <1>2, <1>11, <2>1, <2>2
<1>13. \A f \in Indexed : embedded'[f] # NoEmbedding => Made(f, embedded'[f])
  <2>1. \A f \in Indexed : embedded[f] # NoEmbedding => Made(f, embedded[f])
    BY <1>0 DEF VectorsAccounted, Made
  <2> QED
    BY <1>6, <1>10, <2>1
<1>14. VectorsAccounted'
  BY <1>0, <1>12, <1>13 DEF VectorsAccounted, Made
<1> QED
  BY <1>8, <1>9, <1>14 DEF Batched

LEMMA EmbedQueryBatched ==
  ASSUME Limited, Batched, NEW q \in Callers, EmbedQuery(q)
  PROVE  Limited' /\ Batched'
<1>1. /\ q \in Queries /\ slot[q] = "idle" /\ Acquire(q)
      /\ UNCHANGED <<model, used, batch, covered, cache, embedded>>
  BY DEF EmbedQuery
<1>2. Limited' /\ \A d \in Callers : d # q => slot'[d] = slot[d]
  BY <1>1, AcquireLimited
<1>3. \A g \in Indexed : slot'[g] = slot[g]
  BY <1>1, <1>2, CallAssumption DEF Callers
<1> QED
  BY <1>1, <1>2, <1>3 DEF Batched, BatchTypes, Hashed, InHand, Owed, Made, VectorsAccounted

LEMMA QuerySettlesBatched ==
  ASSUME Limited, Batched, NEW q \in Callers, QuerySettles(q)
  PROVE  Limited' /\ Batched'
<1>1. /\ q \in Queries /\ slot[q] = "calling" /\ GiveBack(q, "answered")
      /\ UNCHANGED <<model, used, batch, covered, cache, embedded>>
  BY DEF QuerySettles
<1>2. /\ Limited'
      /\ \A d \in Callers : d # q => \/ slot'[d] = slot[d]
                                     \/ slot[d] = "waiting" /\ slot'[d] = "calling"
  BY <1>1, GiveBackLimited
<1>3. \A g \in Indexed : \/ slot'[g] = slot[g]
                         \/ slot[g] = "waiting" /\ slot'[g] = "calling"
  BY <1>1, <1>2, CallAssumption DEF Callers
<1>4. \A g \in Indexed : (slot'[g] = "idle" <=> slot[g] = "idle")
                         /\ (slot[g] # "answered" => slot'[g] # "answered")
  BY <1>3
<1> QED
  BY <1>1, <1>2, <1>4 DEF Batched, BatchTypes, Hashed, InHand, Owed, Made, VectorsAccounted

(* A restart: whatever was in hand is gone, what was stored is kept or all *)
(* of it goes.                                                             *)
LEMMA RestartBatched ==
  ASSUME Limited, Batched, RestartServer
  PROVE  Limited' /\ Batched'
<1>0. BatchTypes /\ Hashed /\ VectorsAccounted
  BY DEF Batched
<1>1. /\ model' \in EmbeddingModels
      /\ slot' = [c \in Callers |-> "idle"] /\ active' = 0 /\ waiting' = <<>>
      /\ batch' = NoBatch /\ cache' = cache
  BY DEF RestartServer, Restart
<1>2. Limited'
  <2>1. Calling' = {} /\ Queued' = {}
    BY <1>1 DEF Calling, Queued
  <2>2. IsFiniteSet({}) /\ Cardinality({}) = 0
    BY FS_EmptySet
  <2>3. waiting' \in Seq(Callers) /\ Len(waiting') = 0
    BY <1>1
  <2>4. Queue'
    BY <1>1, <2>3 DEF Queue
  <2> QED
    BY <1>1, <2>1, <2>2, <2>3, <2>4, CallAssumption DEF Limited
<1>3. /\ batch'.pc = "idle"
      /\ batch' \in [pc : {"idle", "pool"}, next : Nat \ {0}, result : [Indexed -> Emb]]
  BY <1>1, EmbFacts DEF NoBatch
<1>4. Hashed' /\ InHand' /\ Owed'
  BY <1>0, <1>1, <1>3 DEF Hashed, InHand, Owed, Callers
<1>5. CASE ResetIndex
  <2>1. BatchTypes'
    BY <1>0, <1>1, <1>3, <1>5, EmbFacts, CallAssumption DEF ResetIndex, BatchTypes
  <2>2. VectorsAccounted'
    BY <1>5 DEF ResetIndex, VectorsAccounted, Indexed
  <2> QED
    BY <1>2, <1>4, <2>1, <2>2 DEF Batched
<1>6. CASE KeepIndex
  <2>1. BatchTypes'
    BY <1>0, <1>1, <1>3, <1>6 DEF KeepIndex, BatchTypes
  <2>2. VectorsAccounted'
    BY <1>0, <1>1, <1>6 DEF KeepIndex, VectorsAccounted
  <2> QED
    BY <1>2, <1>4, <2>1, <2>2 DEF Batched
<1> QED
  BY <1>5, <1>6 DEF RestartServer

(* The summaries leave the embeddings alone.                               *)
LEMMA EmbeddingKept ==
  ASSUME Limited, Batched, UNCHANGED embedding
  PROVE  Limited' /\ Batched'
<1>1. UNCHANGED <<model, slot, active, waiting, batch, covered, cache, embedded, used>>
  BY DEF embedding
<1>2. Limited'
  BY <1>1 DEF Limited, Calling, Queued, Queue
<1>3. Batched'
  BY <1>1 DEF Batched, BatchTypes, Hashed, InHand, Owed, Made, VectorsAccounted
<1> QED
  BY <1>2, <1>3

LEMMA EmbeddingsInductive ==
  ASSUME Limited, Batched, [CallsNext]_callVars
  PROVE  Limited' /\ Batched'
<1>1. CASE EmbeddingNext
  <2>1. CASE StartBatch
    <3>1. Limited'
      BY <2>1 DEF StartBatch, Limited, Calling, Queued, Queue
    <3> QED
      BY <2>1, <3>1, StartBatchBatched
  <2>2. CASE EmbedNext
    BY <2>2, EmbedNextBatched
  <2>3. CASE EndBatch
    <3>1. Limited'
      BY <2>3 DEF EndBatch, Limited, Calling, Queued, Queue
    <3> QED
      BY <2>3, <3>1, EndBatchBatched
  <2>4. ASSUME NEW c \in Callers, EmbedSettles(c) PROVE Limited' /\ Batched'
    BY <2>4, EmbedSettlesBatched
  <2>5. ASSUME NEW c \in Callers, EmbedQuery(c) PROVE Limited' /\ Batched'
    BY <2>5, EmbedQueryBatched
  <2>6. ASSUME NEW c \in Callers, QuerySettles(c) PROVE Limited' /\ Batched'
    BY <2>6, QuerySettlesBatched
  <2> QED
    BY <1>1, <2>1, <2>2, <2>3, <2>4, <2>5, <2>6 DEF EmbeddingNext
<1>2. CASE SummaryNext
  <2>1. UNCHANGED embedding
    BY <1>2 DEF SummaryNext, SummaryOnly, PauseOrResume, EnsureSummary, SelectProvider,
                HeadersArrive, BodyArrives, RequestFails, TimerFires, DeleteSession
  <2> QED
    BY <2>1, EmbeddingKept
<1>3. CASE RestartServer
  BY <1>3, RestartBatched
<1>4. CASE UNCHANGED callVars
  BY <1>4, EmbeddingKept DEF callVars
<1> QED
  BY <1>1, <1>2, <1>3, <1>4 DEF CallsNext

LEMMA EmbeddingsAccounted == CallsSpec => [](Limited /\ Batched)
<1>1. CallsInit => Limited /\ Batched
  BY LimitedInit, BatchedInit
<1>2. Limited /\ Batched /\ [CallsNext]_callVars => Limited' /\ Batched'
  BY EmbeddingsInductive
<1> QED
  BY <1>1, <1>2, PTL DEF CallsSpec

(* The limiter's count, its queue and its limit agree for any number of    *)
(* frames and searches, whatever the limit and the pool: no wake-up is     *)
(* lost and none is one too many (provider-factory.ts).                    *)
THEOREM SlotsTheorem == CallsSpec => []SlotsAccounted
  BY EmbeddingsAccounted, LimitedAccounts, PTL

(* Up to the checkpoint every frame with a text has the vector of that     *)
(* text, whatever the order in which the calls of a pool of any size end,  *)
(* whatever fails and however often the server starts again                *)
(* (indexing-service.ts, embedding-service.ts, hash-index.ts).             *)
THEOREM VectorsTheorem == CallsSpec => []VectorsAccounted
<1>1. Batched => VectorsAccounted
  BY DEF Batched
<1> QED
  BY <1>1, EmbeddingsAccounted, PTL

-----------------------------------------------------------------------------
(* The readers: between the privacy state and the request there is no      *)
(* pause that the whole call lies in.                                      *)
ReaderTypes ==
  /\ reader \in [Readers -> [pc : {"idle", "select", "headers", "body"}, session : Sessions \cup {"none"}]]
  /\ pausedNow \in BOOLEAN

Asked ==
  \A r \in Readers :
    /\ reader[r].pc = "select" /\ ~pausedNow => r \in atLiberty
    /\ reader[r].pc \in {"headers", "body"} => r \in atLiberty

LEMMA AskedInductive ==
  ASSUME ReaderTypes, Asked, [CallsNext]_callVars
  PROVE  ReaderTypes' /\ Asked'
<1> USE DEF ReaderTypes, Asked
<1>1. CASE UNCHANGED summaries
  BY <1>1 DEF summaries
<1>2. ASSUME NEW r \in Readers, NEW s \in Sessions, EnsureSummary(r, s)
      PROVE  ReaderTypes' /\ Asked'
  <2>1. pausedNow' = pausedNow
    BY <1>2 DEF EnsureSummary
  <2>2. CASE UNCHANGED <<reader, atLiberty>>
    BY <2>1, <2>2
  <2>3. CASE /\ reader' = [reader EXCEPT ![r] = [pc |-> "select", session |-> s]]
             /\ atLiberty' = IF pausedNow THEN atLiberty \ {r} ELSE atLiberty \cup {r}
    <3>1. \A q \in Readers : q # r => reader'[q] = reader[q] /\ (q \in atLiberty' <=> q \in atLiberty)
      BY <2>3
    <3>2. reader'[r].pc = "select" /\ (~pausedNow => r \in atLiberty')
      BY <2>3
    <3>3. ReaderTypes'
      BY <2>1, <2>3
    <3> QED
      BY <2>1, <3>1, <3>2, <3>3
  <2> QED
    BY <1>2, <2>2, <2>3 DEF EnsureSummary
<1>3. ASSUME NEW r \in Readers, UNCHANGED <<pausedNow, atLiberty>>,
             \/ Ends(r)
             \/ reader[r].pc = "select" /\ ~pausedNow /\ Goes(r, "headers")
             \/ reader[r].pc = "headers" /\ Goes(r, "body")
      PROVE  ReaderTypes' /\ Asked'
  <2>1. \A q \in Readers : q # r => reader'[q] = reader[q]
    BY <1>3 DEF Ends, Goes
  <2>2. CASE Ends(r)
    BY <1>3, <2>1, <2>2 DEF Ends, NoReader
  <2>3. CASE reader[r].pc = "select" /\ ~pausedNow /\ Goes(r, "headers")
    <3>1. reader'[r].pc = "headers" /\ r \in atLiberty'
      BY <1>3, <2>3 DEF Goes
    <3>2. ReaderTypes'
      BY <1>3, <2>3 DEF Goes
    <3> QED
      BY <1>3, <2>1, <3>1, <3>2
  <2>4. CASE reader[r].pc = "headers" /\ Goes(r, "body")
    <3>1. reader'[r].pc = "body" /\ r \in atLiberty'
      BY <1>3, <2>4 DEF Goes
    <3>2. ReaderTypes'
      BY <1>3, <2>4 DEF Goes
    <3> QED
      BY <1>3, <2>1, <3>1, <3>2
  <2> QED
    BY <1>3, <2>2, <2>3, <2>4
<1>4. ASSUME NEW r \in Readers, SelectProvider(r)
      PROVE  ReaderTypes' /\ Asked'
  <2>1. \/ Ends(r)
        \/ reader[r].pc = "select" /\ ~pausedNow /\ Goes(r, "headers")
    BY <1>4 DEF SelectProvider, MayLeave
  <2> QED
    BY <1>3, <1>4, <2>1 DEF SelectProvider
<1>5. ASSUME NEW r \in Readers, HeadersArrive(r) \/ BodyArrives(r) \/ RequestFails(r) \/ TimerFires(r)
      PROVE  ReaderTypes' /\ Asked'
  <2>1. /\ UNCHANGED <<pausedNow, atLiberty>>
        /\ Ends(r) \/ (reader[r].pc = "headers" /\ Goes(r, "body"))
    BY <1>5 DEF HeadersArrive, BodyArrives, RequestFails, TimerFires, Degrade
  <2> QED
    BY <1>3, <2>1
<1>6. CASE PauseOrResume
  <2>1. /\ pausedNow' = ~pausedNow /\ reader' = reader
        /\ atLiberty' = IF pausedNow THEN {r \in Readers : reader[r].pc # "idle"} \cup atLiberty ELSE atLiberty
    BY <1>6 DEF PauseOrResume
  <2> QED
    BY <2>1
<1>7. ASSUME NEW s \in Sessions, DeleteSession(s) PROVE ReaderTypes' /\ Asked'
  BY <1>7 DEF DeleteSession
<1>8. CASE SummaryNext
  BY <1>2, <1>4, <1>5, <1>6, <1>7, <1>8 DEF SummaryNext
<1>9. CASE EmbeddingNext
  <2>1. UNCHANGED summaries
    BY <1>9 DEF EmbeddingNext, StartBatch, EmbedNext, EndBatch, EmbedSettles, EmbedQuery, QuerySettles
  <2> QED
    BY <1>1, <2>1
<1>10. CASE RestartServer
  BY <1>10 DEF RestartServer, Restart, NoReader
<1>11. CASE UNCHANGED callVars
  BY <1>1, <1>11 DEF callVars
<1> QED
  BY <1>8, <1>9, <1>10, <1>11 DEF CallsNext

(* W27 for any number of requests and sessions: no request leaves for a    *)
(* language model on behalf of a call all of which fell in a pause         *)
(* (summary/worker.ts).                                                    *)
THEOREM OutboundTheorem == CallsSpec => []NoOutboundWhenPaused
<1>1. CallsInit => ReaderTypes /\ Asked
  <2> SUFFICES ASSUME CallsInit PROVE ReaderTypes /\ Asked
    OBVIOUS
  <2>1. pausedNow = FALSE /\ reader = [r \in Readers |-> NoReader]
    BY DEF CallsInit
  <2>2. \A r \in Readers : reader[r].pc = "idle"
    BY <2>1 DEF NoReader
  <2>3. reader \in [Readers -> [pc : {"idle", "select", "headers", "body"}, session : Sessions \cup {"none"}]]
    BY <2>1 DEF NoReader
  <2> QED
    BY <2>1, <2>2, <2>3 DEF ReaderTypes, Asked
<1>2. ReaderTypes /\ Asked /\ [CallsNext]_callVars => (ReaderTypes /\ Asked)'
  BY AskedInductive
<1>3. Asked => NoOutboundWhenPaused
  BY DEF Asked, NoOutboundWhenPaused
<1> QED
  BY <1>1, <1>2, <1>3, PTL DEF CallsSpec
=================================================================================
