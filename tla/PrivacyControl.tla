--------------------------- MODULE PrivacyControl ---------------------------
(***************************************************************************)
(* privacy-state.json and everything that rewrites it: the requests that   *)
(* DefaultPrivacyControlService.execute serves (MCP clients, the dashboard *)
(* and the CLI may have several under way), its reconciliation of failed   *)
(* cascades, and the retention pass of trim-service.ts, which appends a    *)
(* tombstone when its cascade fails.                                       *)
(*                                                                         *)
(* Every writer reads the whole file, computes a new one and replaces it   *)
(* by way of one temporary file whose name all of them share: writeFile    *)
(* opens and truncates it, then fills it, and rename moves it, under the   *)
(* hands of whoever still has it open.  A tick is the clock's resolution   *)
(* and stands for the frames captured in it as well.  A file that does not *)
(* exist reads as the default state.                                       *)
(***************************************************************************)
EXTENDS Integers, FiniteSets

CONSTANTS Clients,     \* requests that may be under way together
          Trims,       \* retention passes: one per server at most
          Apps,        \* applications a user excludes
          PrivacyRequests,    \* the requests users make
          Hour,        \* the length of last_1h, in ticks
          MaxClock, MaxRequests   \* bounds

ASSUME PrivacyAssumption ==
  /\ Trims \cap Clients = {}
  /\ Hour \in Nat /\ MaxClock \in Nat /\ MaxRequests \in Nat
  /\ PrivacyRequests \subseteq [kind : {"pause", "resume", "last_1h", "wider", "reconcile"}]
                           \cup [kind : {"exclude", "remove"}, app : Apps]

StateWriters == Clients \cup Trims

VARIABLES clock, state, tmp,
          pc, req, snap, out,  \* per writer: step, request, state read, state to write
          since,               \* per writer: the instant its request is dated
          fd,                  \* per writer: the file its descriptor leads to
          calls,
          told, hidden,        \* ghosts: a pause is in force; the ticks it covers
          deleted,             \* ghost: ticks a confirmed last_1h has covered
          wanted,              \* ghost: apps whose exclusion was confirmed
          buried,              \* ghost: tombstones whose writer was answered
          outdated,            \* ghost: writers whose state read has been replaced since
          lost                 \* ghost: a write replaced a state it was not computed from
files  == <<state, tmp>>
local  == <<pc, req, snap, out, since, fd>>
ghosts == <<told, hidden, deleted, wanted, buried>>
marks  == <<outdated, lost>>
privacyVars == <<clock, files, local, calls, ghosts, marks>>

Ticks   == 0..MaxClock
NoPauseStart == -1
Absent  == [contents |-> "none"]     \* there is no such file
Torn    == [contents |-> "partial"]  \* truncated, not filled yet

DefaultState == [paused |-> FALSE, start |-> NoPauseStart, excluded |-> {}, ranges |-> {}]

-----------------------------------------------------------------------------
(* What a state blocks (indexing-service.ts): isSuppressed pays no         *)
(* attention to the reason of a range or to its being resolved.            *)
Blocked(s) ==
  {t \in Ticks : \/ \E r \in s.ranges : r.from <= t /\ t <= r.to
                 \/ s.paused /\ s.start # NoPauseStart /\ s.start <= t}

AppendSuppressedRange(s, r) == [s EXCEPT !.start = NoPauseStart, !.ranges = @ \cup {r}]

(* createSuppressedRange: the end is exclusive, but never before the start.*)
PauseRange(from, now) ==
  [from |-> from, to |-> IF now - 1 < from THEN from ELSE now - 1,
   reason |-> "pause", resolved |-> FALSE]

LastHourFrom(now) == IF now < Hour THEN 0 ELSE now - Hour

LastHourRange(now) ==
  [from |-> LastHourFrom(now), to |-> now, reason |-> "delete-range", resolved |-> FALSE]

(* What retention deletes is older than every tick but 0.                  *)
Tombstone(kind, now) ==
  [from |-> IF kind = "last_1h" THEN LastHourFrom(now) ELSE 0,
   to |-> IF kind = "retention" THEN 0 ELSE now,
   reason |-> "cascade-failure", resolved |-> FALSE]

Unresolved(s) == {r \in s.ranges : r.reason = "cascade-failure" /\ ~r.resolved}

Resolve(s, R) ==
  [s EXCEPT !.ranges = (@ \ R) \cup {[r EXCEPT !.resolved = TRUE] : r \in R}]

-----------------------------------------------------------------------------
PrivacyInit ==
        /\ clock = 0 /\ state = DefaultState /\ tmp = Absent
        /\ pc = [w \in StateWriters |-> "idle"]
        /\ req = [w \in StateWriters |-> [kind |-> "pause"]]
        /\ snap = [w \in StateWriters |-> DefaultState]
        /\ out = [w \in StateWriters |-> DefaultState]
        /\ since = [w \in StateWriters |-> 0]
        /\ fd = [w \in StateWriters |-> "none"]
        /\ calls = 0
        /\ told = FALSE /\ hidden = {} /\ deleted = {} /\ wanted = {} /\ buried = {}
        /\ outdated = {} /\ lost = FALSE

Tick == /\ clock < MaxClock
        /\ clock' = clock + 1
        /\ hidden' = IF told THEN hidden \cup {clock} ELSE hidden
        /\ UNCHANGED <<files, local, calls, told, deleted, wanted, buried, marks>>

Goto(w, l) == pc' = [pc EXCEPT ![w] = l]

(* Ghosts: what a request takes back.  A last_1h deletion drops the start  *)
(* of a pause, and with it all its effect (see PausedReportIsTrue).        *)
EndsPause(k) == k.kind \in {"resume", "last_1h"}
EndsExclusion(k, a) == k = [kind |-> "remove", app |-> a]

UnderWay == {req[w] : w \in {x \in StateWriters : pc[x] # "idle"}}

(* execute() reads the file, and rejects the request if it cannot be       *)
(* parsed.  What the user asks to take back is no longer promised.         *)
Call(c, k) ==
  /\ pc[c] = "idle" /\ calls < MaxRequests
  /\ calls' = calls + 1
  /\ IF state = Torn
     THEN UNCHANGED <<pc, req, snap, told, hidden, wanted, outdated>>
     ELSE /\ req' = [req EXCEPT ![c] = k]
          /\ snap' = [snap EXCEPT ![c] = state]
          /\ Goto(c, "compute")
          /\ outdated' = outdated \ {c}
          /\ told' = (told /\ ~EndsPause(k))
          /\ hidden' = IF k.kind = "last_1h" THEN {} ELSE hidden
          /\ wanted' = {a \in wanted : ~EndsExclusion(k, a)}
  /\ UNCHANGED <<clock, files, out, since, fd, deleted, buried, lost>>

(* The retention pass has deleted frames upstream, and its cascade fails.  *)
RetentionFails(t) ==
  /\ pc[t] = "idle" /\ calls < MaxRequests
  /\ calls' = calls + 1
  /\ req' = [req EXCEPT ![t] = [kind |-> "retention"]]
  /\ Goto(t, "bury")
  /\ UNCHANGED <<clock, files, snap, out, since, fd, ghosts, marks>>

(* The answer a request gives, and what the user may rely on from then on, *)
(* unless a request under way takes it back.                               *)
Answered(k) ==
  /\ told' = (told \/ (k.kind = "pause" /\ \A o \in UnderWay : ~EndsPause(o)))
  /\ wanted' = wanted \cup
       {a \in Apps : /\ k = [kind |-> "exclude", app |-> a]
                     /\ \A o \in UnderWay : ~EndsExclusion(o, a)}
  /\ UNCHANGED <<hidden, deleted, buried>>

Return(w) == Goto(w, "idle") /\ Answered(req[w])

-----------------------------------------------------------------------------
(* Each handler computes from the state that was read, at the instant      *)
(* `now`; WriteState is the answer "store this state".                          *)

WriteState(w, s, at) == /\ out' = [out EXCEPT ![w] = s]
                   /\ since' = [since EXCEPT ![w] = at]
                   /\ Goto(w, "write")
                   /\ UNCHANGED ghosts

(* Nothing to store: the answer reports the state that was read, which     *)
(* promises something only if that is still the state of the file.         *)
NoWrite(w) ==
  /\ IF w \notin outdated THEN Return(w) ELSE Goto(w, "idle") /\ UNCHANGED ghosts
  /\ UNCHANGED <<out, since>>

Pause(w, s) ==
  /\ req[w].kind = "pause"
  /\ IF s.paused /\ s.start # NoPauseStart
     THEN NoWrite(w)
     ELSE WriteState(w, [s EXCEPT !.paused = TRUE, !.start = clock], clock)

(* Mutant: the start of the pause is forgotten before the range is built.  *)
ResumeWithoutRange(w, s) ==
  /\ req[w].kind = "resume"
  /\ IF ~s.paused
     THEN NoWrite(w)
     ELSE WriteState(w, [s EXCEPT !.paused = FALSE, !.start = NoPauseStart], clock)

Resume(w, s) ==
  /\ req[w].kind = "resume"
  /\ IF ~s.paused
     THEN NoWrite(w)
     ELSE WriteState(w,
            [IF s.start = NoPauseStart THEN s
             ELSE AppendSuppressedRange(s, PauseRange(s.start, clock))
             EXCEPT !.paused = FALSE, !.start = NoPauseStart], clock)

ExcludeApp(w, s) ==
  /\ req[w].kind = "exclude"
  /\ WriteState(w, [s EXCEPT !.excluded = @ \cup {req[w].app}], clock)

RemoveExcludedApp(w, s) ==
  /\ req[w].kind = "remove"
  /\ IF req[w].app \in s.excluded
     THEN WriteState(w, [s EXCEPT !.excluded = @ \ {req[w].app}], clock)
     ELSE NoWrite(w)

(* A confirmed delete-range: only last_1h writes a range before it deletes.*)
DeleteRange(w, s) ==
  \/ /\ req[w].kind = "last_1h"
     /\ WriteState(w, AppendSuppressedRange(s, LastHourRange(clock)), clock)
  \/ /\ req[w].kind = "wider"
     /\ since' = [since EXCEPT ![w] = clock]
     /\ Goto(w, "delete")
     /\ UNCHANGED <<out, ghosts>>

(* Mutant: a failed retry is counted as resolved.                          *)
ReconcileAlways(w, s) ==
  /\ req[w].kind = "reconcile"
  /\ \E R \in SUBSET Unresolved(s) :
       /\ out' = [out EXCEPT ![w] = Resolve(s, Unresolved(s))]
       /\ buried' = buried \ R
  /\ since' = [since EXCEPT ![w] = clock]
  /\ Goto(w, IF s.ranges = {} THEN "idle" ELSE "write")
  /\ UNCHANGED <<told, hidden, deleted, wanted>>

(* reconcileCascadeFailures retries each open tombstone; R are the cascades*)
(* that succeed this time.                                                 *)
Reconcile(w, s) ==
  /\ req[w].kind = "reconcile"
  /\ \E R \in SUBSET Unresolved(s) :
       /\ out' = [out EXCEPT ![w] = Resolve(s, R)]
       /\ buried' = buried \ R
  /\ since' = [since EXCEPT ![w] = clock]
  /\ Goto(w, IF s.ranges = {} THEN "idle" ELSE "write")
  /\ UNCHANGED <<told, hidden, deleted, wanted>>

Compute(w) ==
  /\ pc[w] = "compute"
  /\ \/ Pause(w, snap[w]) \/ Resume(w, snap[w])
     \/ ExcludeApp(w, snap[w]) \/ RemoveExcludedApp(w, snap[w])
     \/ DeleteRange(w, snap[w]) \/ Reconcile(w, snap[w])
  /\ UNCHANGED <<clock, files, req, snap, fd, calls, marks>>

(* The upstream rows are deleted, then the cascade either succeeds or      *)
(* leaves derived rows behind.  An unavailable database is an error.       *)
Delete(w) ==
  /\ pc[w] = "delete"
  /\ since' = [since EXCEPT ![w] = clock]
  /\ \E l \in {"idle", "bury"} : Goto(w, l)
  /\ UNCHANGED <<clock, files, req, snap, out, fd, calls, ghosts, marks>>

(* A tombstone is appended to a state that is read again for it.           *)
Bury(w) ==
  /\ pc[w] = "bury"
  /\ IF state = Torn
     THEN Goto(w, "idle") /\ UNCHANGED <<snap, out, outdated>>
     ELSE /\ snap' = [snap EXCEPT ![w] = state]
          /\ out' = [out EXCEPT ![w] = [state EXCEPT !.ranges =
                       @ \cup {Tombstone(req[w].kind, since[w])}]]
          /\ Goto(w, "entomb")
          /\ outdated' = outdated \ {w}
  /\ UNCHANGED <<clock, files, req, since, fd, calls, ghosts, lost>>

-----------------------------------------------------------------------------
(* FilePrivacyStore.write: writeFile opens, then fills; rename publishes.  *)

Step(w, from, to) == \E tomb \in BOOLEAN :
  /\ pc[w] = from[tomb] /\ Goto(w, to[tomb])

Both(plain, tomb) == [b \in BOOLEAN |-> IF b THEN tomb ELSE plain]

OpenTmp(w) ==
  /\ Step(w, Both("write", "entomb"), Both("fill", "fill-tomb"))
  /\ tmp' = Torn
  /\ fd' = [fd EXCEPT ![w] = "tmp"]
  /\ UNCHANGED <<clock, state, req, snap, out, since, calls, ghosts, marks>>

(* Bytes written over another writer's may leave a tail of them.           *)
Overlay(old, w) == IF old = Torn THEN {out[w]} ELSE {out[w], Torn}

(* The bytes go wherever the descriptor leads by now.                      *)
Fill(w) ==
  /\ Step(w, Both("fill", "fill-tomb"), Both("rename", "rename-tomb"))
  /\ tmp'  \in IF fd[w] = "tmp"  THEN Overlay(tmp, w) ELSE {tmp}
  /\ state' \in IF fd[w] = "file" THEN Overlay(state, w) ELSE {state}
  /\ fd' = [fd EXCEPT ![w] = "none"]
  /\ lost' = (lost \/ fd[w] = "file")
  /\ outdated' = IF fd[w] = "file" THEN StateWriters ELSE outdated
  /\ UNCHANGED <<clock, req, snap, out, since, calls, ghosts>>

(* rename fails when another writer has renamed the file away: the request *)
(* is rejected, or, for a retention pass, the failure logged.              *)
RenameFails(w) ==
  /\ pc[w] \in {"rename", "rename-tomb"} /\ tmp = Absent
  /\ Goto(w, "idle")
  /\ UNCHANGED <<clock, files, req, snap, out, since, fd, calls, ghosts, marks>>

Published(w) ==
  /\ tmp # Absent
  /\ state' = tmp /\ tmp' = Absent
  /\ fd' = [x \in StateWriters |-> CASE fd[x] = "tmp"  -> "file"
                                [] fd[x] = "file" -> "gone"
                                [] OTHER          -> fd[x]]
  /\ lost' = (lost \/ w \in outdated \/ tmp # out[w])
  /\ outdated' = StateWriters
  /\ UNCHANGED <<clock, req, snap, out, since, calls>>

RenameState(w) ==
  /\ pc[w] = "rename"
  /\ Published(w)
  /\ IF req[w].kind = "last_1h"
     THEN /\ Goto(w, "delete")
          /\ deleted' = deleted \cup (LastHourFrom(since[w])..since[w])
          /\ UNCHANGED <<told, hidden, wanted, buried>>
     ELSE Return(w)

RenameTombstone(w) ==
  /\ pc[w] = "rename-tomb"
  /\ Published(w)
  /\ Goto(w, "idle")
  /\ buried' = buried \cup {Tombstone(req[w].kind, since[w])}
  /\ UNCHANGED <<told, hidden, deleted, wanted>>

Handle(w) == \/ Compute(w) \/ Delete(w) \/ Bury(w) \/ OpenTmp(w) \/ Fill(w)
             \/ RenameState(w) \/ RenameTombstone(w) \/ RenameFails(w)

PrivacyNext ==
        \/ Tick
        \/ \E c \in Clients, k \in PrivacyRequests : Call(c, k)
        \/ \E t \in Trims : RetentionFails(t)
        \/ \E w \in StateWriters : Handle(w)

PrivacySpec == PrivacyInit /\ [][PrivacyNext]_privacyVars

-----------------------------------------------------------------------------
(* What was captured under a confirmed pause stays blocked, also once the  *)
(* collection has been resumed (unless a write was lost, see below).       *)
PauseHides == ~lost => state # Torn /\ hidden \subseteq Blocked(state)

(* What users were told (a last_1h range stays blocked, an exclusion lasts,*)
(* a tombstone stays until a retry has cleaned up after it) holds, unless  *)
(* some write replaced a state other than the one it was computed from.    *)
PromisesKeptUnlessLost ==
  ~lost => /\ state # Torn
           /\ deleted \subseteq Blocked(state)
           /\ wanted \subseteq state.excluded
           /\ buried \subseteq state.ranges

(* A state that reports the collection as paused blocks what is captured   *)
(* now.                                                                    *)
PausedReportIsTrue ==
  state # Torn /\ state.paused => clock \in Blocked(state)
=============================================================================
