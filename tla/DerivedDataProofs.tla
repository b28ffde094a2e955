-------------------------- MODULE DerivedDataProofs --------------------------
(***************************************************************************)
(* The rows of the sessions table stay sound, for any number of frames,    *)
(* any capture times, contexts and thresholds, and whatever is deleted,    *)
(* replayed, flushed, summarised or restarted in between.                  *)
(*                                                                         *)
(* The sessions are changed in five ways: flushed, extended or opened by a *)
(* frame, deleted with their frames, and summarised.  One lemma for each   *)
(* says that a sound table stays sound; the theorem is then one step per   *)
(* action.  That what was deleted stays gone is proved on top of it, from  *)
(* an invariant about the source, the run in hand and the tombstones.      *)
(*                                                                         *)
(* That the layer implements the history its readers see (WorkHistory) is  *)
(* the last part: every way the sessions change is one kind of step of it: *)
(* a flush closes, an extraction records, a deletion forgets, a summary    *)
(* tells; all other steps leave the history alone.  The rows are sound,    *)
(* which is what makes it true: ids tell sessions apart, a context has one *)
(* open session, and a late summary fits the session it is written to.     *)
(***************************************************************************)
EXTENDS DerivedData, WellFoundedInduction, TLAPS

(* A row that holds frames of C of one context, in order and without a     *)
(* gap, whose summary tells of nothing else.                               *)
RowSound(s, C) ==
  /\ s \in Session /\ s.evidence # <<>>
  /\ Elements(s.evidence) \subseteq C
  /\ s.summary.text \subseteq Elements(s.evidence)
  /\ \A i \in 1..Len(s.evidence) : Context[s.evidence[i]] = s.ctx
  /\ \A i \in 1..Len(s.evidence) - 1 :
       LET gap == Time[s.evidence[i + 1]] - Time[s.evidence[i]] IN 0 <= gap /\ gap <= Idle
  /\ s.active = EndedAt(s) - StartedAt(s)

IdsSound(S, n) ==
  /\ \A s \in S : s.id < n
  /\ \A s, t \in S : s.id = t.id => s = t

OneOpen(S) == \A s, t \in S : s.open /\ t.open /\ s.ctx = t.ctx => s = t

Sound(S, C, n) == /\ \A s \in S : RowSound(s, C)
                  /\ IdsSound(S, n)
                  /\ OneOpen(S)

(* What a summary under way was told is evidence of its session, if that   *)
(* still exists, and no later session takes its id.                        *)
CallFits ==
  call # NoCall =>
    /\ call.id < nextId
    /\ \A s \in sessions : s.id = call.id => call.text \subseteq Elements(s.evidence)

IInv == TypeOK /\ Sound(sessions, content, nextId) /\ CallFits

-----------------------------------------------------------------------------
LEMMA LeastNumber ==
  ASSUME NEW S \in SUBSET Nat, S # {}
  PROVE  \E x \in S : \A y \in S : x <= y
<1>1. PICK x \in S : \A y \in S : <<y, x>> \notin OpToRel(<, Nat)
  BY NatLessThanWellFounded, WFMin
<1>2. \A y \in S : ~(y < x)
  BY <1>1 DEF OpToRel
<1> QED
  BY <1>2

LEMMA LeastFrame ==
  ASSUME NEW S \in SUBSET Frames, S # {}
  PROVE  First(S) \in S
<1>1. PICK x \in S : \A y \in S : x <= y
  BY LeastNumber DEF Frames
<1> QED
  BY <1>1 DEF First

LEMMA GreatestExists ==
  ASSUME NEW S \in SUBSET (Frames \cup {0}), S # {}
  PROVE  \E x \in S : \A y \in S : y <= x
<1> DEFINE Distances == {n \in Nat : \E x \in S : n = N - x}
<1>1. \A x \in S : N - x \in Distances
  BY FrameAssumption DEF Frames
<1>2. PICK m \in Distances : \A n \in Distances : m <= n
  <2>1. Distances # {}
    BY <1>1
  <2> QED
    BY <2>1, LeastNumber
<1>3. PICK x \in S : m = N - x
  OBVIOUS
<1>4. \A y \in S : m <= N - y
  <2> HIDE DEF Distances
  <2> QED
    BY <1>1, <1>2
<1>5. \A y \in S : y <= x
  BY <1>3, <1>4, FrameAssumption DEF Frames
<1> QED
  BY <1>5

LEMMA GreatestFrame ==
  ASSUME NEW S \in SUBSET (Frames \cup {0}), S # {}
  PROVE  Newest(S) \in S /\ \A y \in S : y <= Newest(S)
BY GreatestExists DEF Newest

LEMMA ElementsOfAppend ==
  ASSUME NEW e \in Seq(Frames), NEW f \in Frames
  PROVE  Elements(Append(e, f)) = Elements(e) \cup {f}
<1>1. /\ Len(e) \in Nat /\ Len(Append(e, f)) = Len(e) + 1
      /\ \A i \in 1..Len(e) : Append(e, f)[i] = e[i]
      /\ Append(e, f)[Len(e) + 1] = f
  OBVIOUS
<1>2. 1..Len(e) + 1 = 1..Len(e) \cup {Len(e) + 1}
  BY <1>1
<1>3. Elements(Append(e, f)) = {Append(e, f)[i] : i \in 1..Len(e) \cup {Len(e) + 1}}
  BY <1>1, <1>2 DEF Elements
<1>4. ASSUME NEW x
      PROVE  x \in Elements(Append(e, f)) <=> x \in Elements(e) \/ x = f
  <2>1. x \in Elements(Append(e, f)) => x \in Elements(e) \/ x = f
    BY <1>1, <1>3 DEF Elements
  <2>2. x \in Elements(e) => x \in Elements(Append(e, f))
    BY <1>1, <1>3 DEF Elements
  <2>3. f \in Elements(Append(e, f))
    BY <1>1, <1>3
  <2> QED
    BY <2>1, <2>2, <2>3
<1> QED
  BY <1>4

LEMMA Times ==
  ASSUME NEW s \in Session, s.evidence # <<>>
  PROVE  /\ Len(s.evidence) \in Nat \ {0}
         /\ Head(s.evidence) = s.evidence[1] /\ Last(s.evidence) = s.evidence[Len(s.evidence)]
         /\ \A i \in 1..Len(s.evidence) : s.evidence[i] \in Frames
         /\ StartedAt(s) \in Nat /\ EndedAt(s) \in Nat
<1>1. s.evidence \in Seq(Frames)
  BY DEF Session
<1>2. /\ Len(s.evidence) \in Nat \ {0}
      /\ Head(s.evidence) = s.evidence[1] /\ Last(s.evidence) = s.evidence[Len(s.evidence)]
      /\ \A i \in 1..Len(s.evidence) : s.evidence[i] \in Frames
  BY <1>1 DEF Last
<1> QED
  BY <1>2, FrameAssumption DEF StartedAt, EndedAt

-----------------------------------------------------------------------------
(* Closing a row changes nothing that soundness speaks of.                 *)
Closed(s) == [s EXCEPT !.open = FALSE]

LEMMA ClosedRow ==
  ASSUME NEW C, NEW s, RowSound(s, C)
  PROVE  /\ RowSound(Closed(s), C)
         /\ Closed(s).id = s.id /\ Closed(s).ctx = s.ctx /\ Closed(s).evidence = s.evidence
         /\ Closed(s).open = FALSE
<1>1. /\ Closed(s) \in Session
      /\ Closed(s).id = s.id /\ Closed(s).ctx = s.ctx /\ Closed(s).evidence = s.evidence
      /\ Closed(s).active = s.active /\ Closed(s).summary = s.summary
      /\ Closed(s).open = FALSE
  BY DEF Closed, Session, RowSound
<1> QED
  BY <1>1 DEF RowSound, StartedAt, EndedAt

LEMMA FlushSound ==
  ASSUME NEW S, NEW C, NEW n \in Nat, Sound(S, C, n)
  PROVE  /\ Sound(FlushIdle(S), C, n)
         /\ \A t \in FlushIdle(S) : \E s \in S : t.id = s.id /\ t.evidence = s.evidence
<1>1. \A t \in FlushIdle(S) : \E s \in S : t = s \/ t = Closed(s)
  BY DEF FlushIdle, Closed
<1>2. \A t \in FlushIdle(S) : \E s \in S :
         /\ RowSound(t, C) /\ t.id = s.id /\ t.ctx = s.ctx /\ t.evidence = s.evidence
         /\ (t.open => t = s)
  <2> SUFFICES ASSUME NEW t \in FlushIdle(S), NEW s \in S, t = s \/ t = Closed(s)
               PROVE  /\ RowSound(t, C) /\ t.id = s.id /\ t.ctx = s.ctx /\ t.evidence = s.evidence
                      /\ (t.open => t = s)
    BY <1>1
  <2>1. RowSound(s, C)
    BY DEF Sound
  <2>2. /\ RowSound(Closed(s), C)
        /\ Closed(s).id = s.id /\ Closed(s).ctx = s.ctx /\ Closed(s).evidence = s.evidence
        /\ Closed(s).open = FALSE
    BY <2>1, ClosedRow
  <2> QED
    BY <2>1, <2>2
<1>3. \A s, t \in S : s.id = t.id => s = t
  BY DEF Sound, IdsSound
<1>4. IdsSound(FlushIdle(S), n)
  <2>1. \A s, t \in FlushIdle(S) : s.id = t.id => s = t
    <3> SUFFICES ASSUME NEW s \in FlushIdle(S), NEW t \in FlushIdle(S), s.id = t.id
                 PROVE  s = t
      OBVIOUS
    <3>1. PICK a \in S : s = IF EndedAt(a) < clock - Idle THEN Closed(a) ELSE a
      BY DEF FlushIdle, Closed
    <3>2. PICK b \in S : t = IF EndedAt(b) < clock - Idle THEN Closed(b) ELSE b
      BY DEF FlushIdle, Closed
    <3>3. s.id = a.id /\ t.id = b.id
      BY <3>1, <3>2, ClosedRow DEF Sound
    <3> QED
      BY <1>3, <3>1, <3>2, <3>3
  <2>2. \A t \in FlushIdle(S) : t.id < n
    BY <1>2 DEF Sound, IdsSound
  <2> QED
    BY <2>1, <2>2 DEF IdsSound
<1>5. OneOpen(FlushIdle(S))
  <2> SUFFICES ASSUME NEW s \in FlushIdle(S), NEW t \in FlushIdle(S),
                      s.open, t.open, s.ctx = t.ctx
               PROVE  s = t
    BY DEF OneOpen
  <2>1. s \in S /\ t \in S
    BY <1>2
  <2> QED
    BY <2>1 DEF Sound, OneOpen
<1> QED
  BY <1>2, <1>4, <1>5 DEF Sound

-----------------------------------------------------------------------------
(* A frame's row is written before its session is, so what the evidence    *)
(* can be resolved to only grows here.                                     *)
LEMMA RowGrows ==
  ASSUME NEW C, NEW D, C \subseteq D, NEW s, RowSound(s, C)
  PROVE  RowSound(s, D)
BY DEF RowSound

LEMMA ExtendedRow ==
  ASSUME NEW C, NEW s, RowSound(s, C), NEW f \in Frames,
         s.ctx = Context[f], CanExtend(s, f)
  PROVE  /\ RowSound(AppendFrame(s, f), C \cup {f})
         /\ AppendFrame(s, f).id = s.id /\ AppendFrame(s, f).ctx = s.ctx
         /\ Elements(s.evidence) \subseteq Elements(AppendFrame(s, f).evidence)
<1> DEFINE t == AppendFrame(s, f)
           n == Len(s.evidence)
<1>1. s \in Session /\ s.evidence \in Seq(Frames) /\ s.evidence # <<>> /\ s.active \in Nat
  BY DEF RowSound, Session
<1>2. /\ n \in Nat \ {0}
      /\ Head(s.evidence) = s.evidence[1] /\ Last(s.evidence) = s.evidence[n]
      /\ \A i \in 1..n : s.evidence[i] \in Frames
      /\ StartedAt(s) \in Nat /\ EndedAt(s) \in Nat
  BY <1>1, Times
<1>3. Time[f] \in Nat /\ Gap(s, f) \in Nat /\ Gap(s, f) <= Idle
  BY <1>2, FrameAssumption DEF CanExtend, Gap
<1>4. /\ t.id = s.id /\ t.ctx = s.ctx /\ t.open = s.open /\ t.summary = s.summary
      /\ t.evidence = Append(s.evidence, f) /\ t.active = s.active + Gap(s, f)
  BY <1>1 DEF AppendFrame, Session
<1>5. t \in Session
  <2>1. Append(s.evidence, f) \in Seq(Frames) /\ s.active + Gap(s, f) \in Nat
    BY <1>1, <1>3
  <2>2. t = [s EXCEPT !.evidence = Append(s.evidence, f), !.active = s.active + Gap(s, f)]
    BY <1>1 DEF AppendFrame, Session
  <2> HIDE DEF t
  <2> QED
    BY <1>1, <2>1, <2>2 DEF Session
<1>6. /\ t.evidence \in Seq(Frames) /\ Len(t.evidence) = n + 1 /\ t.evidence # <<>>
      /\ \A i \in 1..n : t.evidence[i] = s.evidence[i]
      /\ t.evidence[n + 1] = f
      /\ Head(t.evidence) = s.evidence[1] /\ Last(t.evidence) = f
  BY <1>1, <1>2, <1>4 DEF Last
<1>7. Elements(t.evidence) = Elements(s.evidence) \cup {f}
  BY <1>1, <1>4, ElementsOfAppend
<1>8. StartedAt(t) = StartedAt(s) /\ EndedAt(t) = Time[f]
  BY <1>2, <1>6 DEF StartedAt, EndedAt
<1>9. \A i \in 1..Len(t.evidence) : Context[t.evidence[i]] = t.ctx
  BY <1>2, <1>4, <1>6 DEF RowSound
<1>10. \A i \in 1..Len(t.evidence) - 1 :
         LET gap == Time[t.evidence[i + 1]] - Time[t.evidence[i]] IN 0 <= gap /\ gap <= Idle
  <2> SUFFICES ASSUME NEW i \in 1..n
               PROVE  LET gap == Time[t.evidence[i + 1]] - Time[t.evidence[i]]
                      IN  0 <= gap /\ gap <= Idle
    BY <1>2, <1>6
  <2>1. CASE i = n
    <3>1. Time[t.evidence[i + 1]] - Time[t.evidence[i]] = Gap(s, f)
      BY <2>1, <1>2, <1>6 DEF Gap, EndedAt
    <3> QED
      BY <3>1, <1>3
  <2>2. CASE i # n
    <3>1. /\ i \in 1..n - 1
          /\ t.evidence[i + 1] = s.evidence[i + 1] /\ t.evidence[i] = s.evidence[i]
      BY <2>2, <1>2, <1>6
    <3> QED
      BY <3>1 DEF RowSound
  <2> QED
    BY <2>1, <2>2
<1>11. t.active = EndedAt(t) - StartedAt(t)
  BY <1>2, <1>3, <1>4, <1>8 DEF RowSound, Gap
<1>12. /\ Elements(t.evidence) \subseteq C \cup {f}
       /\ t.summary.text \subseteq Elements(t.evidence)
  BY <1>4, <1>7 DEF RowSound
<1> HIDE DEF t, n
<1>13. RowSound(t, C \cup {f})
  BY <1>5, <1>6, <1>9, <1>10, <1>11, <1>12 DEF RowSound
<1> QED
  BY <1>4, <1>7, <1>13 DEF t

LEMMA CreatedRow ==
  ASSUME NEW C, NEW f \in Frames, nextId \in Nat \ {0}
  PROVE  /\ RowSound(CreateSession(f), C \cup {f})
         /\ CreateSession(f).id = nextId /\ CreateSession(f).ctx = Context[f]
<1> DEFINE t == CreateSession(f)
<1>1. /\ t.id = nextId /\ t.ctx = Context[f] /\ t.evidence = <<f>> /\ t.active = 0
      /\ t.summary.text = {}
  BY DEF CreateSession, NoSummary
<1>2. NoSummary \in Summary
  BY DEF NoSummary, Summary
<1>3. t \in Session
  BY <1>2 DEF CreateSession, Session
<1>4. /\ Len(t.evidence) = 1 /\ t.evidence[1] = f /\ t.evidence # <<>>
      /\ Head(t.evidence) = f /\ Last(t.evidence) = f /\ Elements(t.evidence) = {f}
  BY <1>1 DEF Last, Elements
<1>5. t.active = EndedAt(t) - StartedAt(t)
  BY <1>1, <1>4, FrameAssumption DEF EndedAt, StartedAt
<1> HIDE DEF t
<1>6. RowSound(t, C \cup {f})
  BY <1>1, <1>3, <1>4, <1>5 DEF RowSound
<1> QED
  BY <1>1, <1>6 DEF t

LEMMA HandleExtractionSound ==
  ASSUME NEW f \in Frames, nextId \in Nat \ {0},
         Sound(sessions, content, nextId), HandleExtraction(f)
  PROVE  /\ Sound(sessions', content \cup {f}, nextId')
         /\ nextId' \in Nat \ {0} /\ nextId <= nextId'
         /\ \A t \in sessions' :
              \/ t.id = nextId
              \/ \E s \in sessions : t.id = s.id /\ Elements(s.evidence) \subseteq Elements(t.evidence)
<1> DEFINE D == content \cup {f}
<1>1. \A s \in sessions : RowSound(s, content) /\ RowSound(s, D) /\ s.id < nextId
  BY RowGrows DEF Sound, IdsSound
<1>2. \A s, t \in sessions : s.id = t.id => s = t
  BY DEF Sound, IdsSound
<1>3. \A s, t \in sessions : s.open /\ t.open /\ s.ctx = t.ctx => s = t
  BY DEF Sound, OneOpen
<1>4. \A s \in OpenFor(f) : s \in sessions /\ s.open /\ s.ctx = Context[f]
  BY DEF OpenFor
<1>5. \A s \in sessions : s.id \in Nat
  BY <1>1 DEF RowSound, Session
<1>6. ASSUME NEW s \in OpenFor(f), CanExtend(s, f), nextId' = nextId,
             sessions' = (sessions \ {s}) \cup {AppendFrame(s, f)}
      PROVE  /\ Sound(sessions', D, nextId')
             /\ \A t \in sessions' : \E u \in sessions :
                  t.id = u.id /\ Elements(u.evidence) \subseteq Elements(t.evidence)
  <2> DEFINE a == AppendFrame(s, f)
  <2>1. /\ RowSound(a, D) /\ a.id = s.id /\ a.ctx = s.ctx
        /\ Elements(s.evidence) \subseteq Elements(a.evidence)
    BY <1>1, <1>4, <1>6, ExtendedRow
  <2> HIDE DEF a
  <2>2. s \in sessions /\ s.open /\ sessions' = (sessions \ {s}) \cup {a}
    BY <1>4, <1>6 DEF a
  <2>3. \A t \in sessions' : RowSound(t, D)
    BY <1>1, <2>1, <2>2
  <2>4. IdsSound(sessions', nextId')
    BY <1>1, <1>2, <1>6, <2>1, <2>2 DEF IdsSound
  <2>5. OneOpen(sessions')
    BY <1>3, <2>1, <2>2 DEF OneOpen
  <2> QED
    BY <2>1, <2>2, <2>3, <2>4, <2>5 DEF Sound
<1>7. ASSUME nextId' = nextId + 1,
             sessions' = (sessions \ OpenFor(f))
                           \cup {[s EXCEPT !.open = FALSE] : s \in OpenFor(f)}
                           \cup {CreateSession(f)}
      PROVE  /\ Sound(sessions', D, nextId')
             /\ \A t \in sessions' :
                  t.id = nextId \/ \E u \in sessions : t.id = u.id /\ t.evidence = u.evidence
  <2> DEFINE a == CreateSession(f)
  <2>1. RowSound(a, D) /\ a.id = nextId /\ a.ctx = Context[f]
    BY CreatedRow
  <2> HIDE DEF a
  <2>2. \A t \in sessions' : \/ t \in sessions \ OpenFor(f) \/ t = a
                            \/ \E s \in OpenFor(f) : t = Closed(s)
    BY <1>7 DEF a, Closed
  <2>3. \A s \in OpenFor(f) :
          /\ RowSound(Closed(s), D) /\ Closed(s).id = s.id
          /\ Closed(s).evidence = s.evidence /\ Closed(s).open = FALSE
    BY <1>1, <1>4, ClosedRow
  <2>4. \A t \in sessions' : RowSound(t, D)
    BY <1>1, <2>1, <2>2, <2>3
  <2>5. \A t \in sessions' : t.id = nextId \/ \E u \in sessions : t.id = u.id /\ t.evidence = u.evidence
    BY <1>4, <2>1, <2>2, <2>3
  <2>6. \A t \in sessions' : t.id < nextId'
    BY <1>1, <1>5, <1>7, <2>5
  <2>7. \A s, t \in sessions' : s.id = t.id => s = t
    BY <1>1, <1>2, <1>4, <1>5, <2>1, <2>2, <2>3
  <2>8. OneOpen(sessions')
    <3>1. \A t \in sessions' : t.open => t \in sessions \ OpenFor(f) \/ t = a
      BY <2>2, <2>3
    <3>2. \A s \in sessions : s.open /\ s.ctx = Context[f] => s \in OpenFor(f)
      <4> SUFFICES ASSUME NEW s \in sessions, s.open, s.ctx = Context[f]
                   PROVE  s \in OpenFor(f)
        OBVIOUS
      <4>1. \A t \in sessions : t.open /\ t.ctx = Context[f] => t = s
        BY <1>3
      <4>2. EndedAt(s) <= EndedAt(s)
        BY <1>1, Times DEF RowSound
      <4> QED
        BY <4>1, <4>2 DEF OpenFor
    <3> QED
      BY <1>3, <2>1, <3>1, <3>2 DEF OneOpen
  <2> QED
    BY <2>4, <2>5, <2>6, <2>7, <2>8 DEF Sound, IdsSound
<1>8. CASE \E s \in OpenFor(f) :
             /\ CanExtend(s, f) /\ nextId' = nextId
             /\ sessions' = (sessions \ {s}) \cup {AppendFrame(s, f)}
  <2> HIDE DEF D
  <2>1. nextId' = nextId
    BY <1>8
  <2>2. Sound(sessions', D, nextId')
    BY <1>6, <1>8
  <2>3. \A t \in sessions' : \E u \in sessions :
          t.id = u.id /\ Elements(u.evidence) \subseteq Elements(t.evidence)
    BY <1>6, <1>8
  <2> QED
    BY <2>1, <2>2, <2>3 DEF D
<1>9. CASE /\ nextId' = nextId + 1
           /\ sessions' = (sessions \ OpenFor(f))
                             \cup {[s EXCEPT !.open = FALSE] : s \in OpenFor(f)}
                             \cup {CreateSession(f)}
  <2> HIDE DEF D
  <2>1. Sound(sessions', D, nextId')
    BY <1>7, <1>9
  <2>2. \A t \in sessions' :
          t.id = nextId \/ \E u \in sessions : t.id = u.id /\ t.evidence = u.evidence
    BY <1>7, <1>9
  <2> QED
    BY <1>9, <2>1, <2>2 DEF D
<1> QED
  BY <1>8, <1>9 DEF HandleExtraction

-----------------------------------------------------------------------------
(* A deletion takes whole sessions with the rows they point at.            *)
LEMMA DeleteSound ==
  ASSUME NEW S, NEW C, NEW D, NEW n, Sound(S, C, n)
  PROVE  Sound({s \in S : ~Touches(s, D)}, C \ D, n)
<1> DEFINE K == {s \in S : ~Touches(s, D)}
<1>1. \A s \in K : RowSound(s, C \ D)
  BY DEF Sound, RowSound, Touches
<1>2. IdsSound(K, n) /\ OneOpen(K)
  BY DEF Sound, IdsSound, OneOpen
<1> QED
  BY <1>1, <1>2 DEF Sound

(* A late answer is written to the session it was asked for, or to none.   *)
LEMMA SummariseSound ==
  ASSUME NEW status \in {"ready", "degraded"}, NEW C, NEW n, Sound(sessions, C, n),
         call # NoCall, CallFits, call.text \subseteq Frames
  PROVE  Sound(Summarised(sessions, status), C, n)
<1> DEFINE W(s) == [s EXCEPT !.summary = [status |-> status, text |-> call.text]]
           S == Summarised(sessions, status)
<1>1. \A t \in S : \E s \in sessions : t = IF s.id = call.id THEN W(s) ELSE s
  BY DEF Summarised
<1>2. ASSUME NEW s \in sessions
      PROVE  /\ W(s) \in Session
             /\ W(s).id = s.id /\ W(s).ctx = s.ctx /\ W(s).evidence = s.evidence
             /\ W(s).active = s.active /\ W(s).open = s.open /\ W(s).summary.text = call.text
  <2>1. s \in Session
    BY DEF Sound, RowSound
  <2>2. [status |-> status, text |-> call.text] \in Summary
    BY DEF Summary
  <2> QED
    BY <2>1, <2>2 DEF Session
<1>3. ASSUME NEW s \in sessions, s.id = call.id
      PROVE  RowSound(W(s), C)
  <2>1. RowSound(s, C)
    BY DEF Sound
  <2>2. call.text \subseteq Elements(s.evidence)
    BY <1>3 DEF CallFits
  <2>3. StartedAt(W(s)) = StartedAt(s) /\ EndedAt(W(s)) = EndedAt(s)
    BY <1>2 DEF StartedAt, EndedAt
  <2> HIDE DEF W
  <2> QED
    BY <1>2, <2>1, <2>2, <2>3 DEF RowSound
<1> HIDE DEF W, S
<1>4. \A s \in sessions : RowSound(s, C)
  BY DEF Sound
<1>5. \A t \in S : \E s \in sessions :
        /\ RowSound(t, C) /\ t.id = s.id /\ t.ctx = s.ctx /\ t.open = s.open
        /\ t = IF s.id = call.id THEN W(s) ELSE s
  BY <1>1, <1>2, <1>3, <1>4
<1>6. IdsSound(S, n)
  BY <1>5 DEF Sound, IdsSound
<1>7. OneOpen(S)
  BY <1>5 DEF Sound, OneOpen
<1> QED
  BY <1>5, <1>6, <1>7 DEF Sound, S

-----------------------------------------------------------------------------
(* Types.  One step per action; what an action leaves alone keeps its type.*)
LEMMA TypeInit == Init => TypeOK
BY FrameAssumption, BoundAssumption DEF Init, TypeOK, NoDelete, NoCall, None, Frames

(* The sessions are typed because they are sound.                          *)
LEMMA SoundTypes ==
  ASSUME NEW S, NEW C, NEW n, Sound(S, C, n)
  PROVE  S \subseteq Session /\ \A s \in S : s.evidence # <<>>
BY DEF Sound, RowSound

LEMMA TypeStep ==
  ASSUME TypeOK, Next, sessions' \subseteq Session, \A s \in sessions' : s.evidence # <<>>,
         nextId' \in Nat \ {0}
  PROVE  TypeOK'
<1> USE DEF TypeOK
<1>1. faults < MaxFaults /\ faults' = faults + 1 => faults' \in 0..MaxFaults
  BY BoundAssumption
<1>2. NoRun => /\ pc' = "idle" /\ todo' \subseteq Frames /\ hand' \in Frames \cup {None}
               /\ prepared' \subseteq Frames /\ held' \subseteq Frames /\ failed' \subseteq prepared'
  BY DEF NoRun
<1>3. /\ NoDelete \in [pc : {"idle", "upstream", "rows", "vectors", "bury"}, from : Nat, to : Nat,
                       frames : SUBSET Frames, byRange : BOOLEAN]
      /\ NoCall \in [id : Nat, text : SUBSET Frames]
  BY DEF NoDelete, NoCall
<1>4. \A d : Within(d.from, d.to) \subseteq Frames
  BY DEF Within
<1>5. CASE Tick
  BY <1>5, BoundAssumption DEF Tick, privacy, derived, run, ghosts
<1>6. CASE Flush
  BY <1>6 DEF Flush, source, privacy, run, ghosts
<1>7. CASE StartRun
  BY <1>7 DEF StartRun, source, privacy, ghosts
<1>8. CASE Admit
  <2>1. First(todo) \in Frames /\ First(todo) \in todo
    BY <1>8, LeastFrame DEF Admit
  <2> QED
    BY <1>8, <2>1 DEF Admit, source, privacy, derived, ghosts
<1>9. CASE Store
  BY <1>9 DEF Store, source, privacy, ghosts, None
<1>10. CASE EmbedAndUpsert
  BY <1>1, <1>10 DEF EmbedAndUpsert, EmbedAndUpsertOf, Fault, source, privacy, ghosts
<1>11. CASE Finish
  <2>1. Newest({ckpt} \cup Reached) \in Frames \cup {0}
    <3>1. Reached \subseteq Frames
      BY DEF Reached
    <3> QED
      BY <3>1, GreatestFrame
  <2> QED
    BY <1>2, <1>11, <2>1 DEF Finish, FinishOf, source, privacy, derived, ghosts
<1>12. CASE Abort
  BY <1>1, <1>2, <1>12 DEF Abort, Fault, source, privacy, derived, ghosts
<1>13. CASE RequestDelete
  <2>1. Larger(0, clock - Hour) \in Nat
    BY BoundAssumption DEF Larger
  <2>2. Larger(0, clock - Hour)..clock \subseteq Nat
    BY <2>1
  <2>3. del' \in [pc : {"idle", "upstream", "rows", "vectors", "bury"}, from : Nat, to : Nat,
                 frames : SUBSET Frames, byRange : BOOLEAN]
    BY ZenonT(30), <1>3, <1>13, <2>1 DEF RequestDelete
  <2>4. suppressed' \subseteq Nat
    BY <1>13, <2>2 DEF RequestDelete
  <2>5. deletes' \in 0..MaxDeletes
    BY SMTT(30), <1>13, BoundAssumption DEF RequestDelete
  <2> QED
    BY <1>13, <2>3, <2>4, <2>5 DEF RequestDelete, source, derived, run, ghosts
<1>14. CASE DeleteUpstream
  BY <1>14 DEF DeleteUpstream, privacy, derived, run
<1>15. Target(del) \subseteq Frames
  BY <1>4 DEF Target
<1>16. CASE CascadeRows
  BY <1>16 DEF CascadeRows, DeleteRows, source, privacy, run, ghosts
<1>17. CASE CascadeVectors
  BY <1>3, <1>15, <1>17 DEF CascadeVectors, source, privacy, run
<1>18. CASE CascadeFails
  BY <1>1, <1>18 DEF CascadeFails, Fault, source, privacy, derived, run, ghosts
<1>19. CASE Bury
  BY <1>3, <1>15, <1>19 DEF Bury, source, derived, run
<1>20. CASE Reconcile
  BY <1>20 DEF Reconcile, DeleteRows, source, run, ghosts
<1>21. CASE Restart
  BY <1>1, <1>2, <1>3, <1>21 DEF Restart, Fault, source, privacy, derived, ghosts
<1>22. CASE AskSummary
  BY <1>22 DEF AskSummary, Session, source, privacy, derived, run, ghosts
<1>23. CASE WriteSummary
  BY <1>1, <1>3, <1>23 DEF WriteSummary, Fault, source, privacy, run, ghosts
<1> QED
  BY <1>5, <1>6, <1>7, <1>8, <1>9, <1>10, <1>11, <1>12, <1>13, <1>14, <1>16, <1>17, <1>18,
     <1>19, <1>20, <1>21, <1>22, <1>23
     DEF Next, RunStep, DeleteStep

-----------------------------------------------------------------------------
LEMMA SoundInit == Init => IInv
<1> SUFFICES ASSUME Init PROVE IInv
  OBVIOUS
<1>1. Sound(sessions, content, nextId)
  BY DEF Init, Sound, IdsSound, OneOpen
<1> QED
  BY <1>1, TypeInit DEF IInv, CallFits, Init

(* A summary under way still fits when rows only close, grow or go.        *)
LEMMA CallStillFits ==
  ASSUME CallFits, call' = call, nextId \in Nat, nextId' \in Nat, nextId <= nextId',
         call \in [id : Nat, text : SUBSET Frames],
         \A t \in sessions' :
           \/ t.id = nextId
           \/ \E s \in sessions : t.id = s.id /\ Elements(s.evidence) \subseteq Elements(t.evidence)
  PROVE  CallFits'
<1> SUFFICES ASSUME call # NoCall
             PROVE  /\ call.id < nextId'
                    /\ \A t \in sessions' : t.id = call.id => call.text \subseteq Elements(t.evidence)
  BY DEF CallFits, NoCall
<1>1. call.id \in Nat /\ call.id < nextId
  BY DEF CallFits
<1>2. \A s \in sessions : s.id = call.id => call.text \subseteq Elements(s.evidence)
  BY DEF CallFits
<1> QED
  BY <1>1, <1>2

LEMMA SoundStep ==
  ASSUME IInv, Next
  PROVE  /\ Sound(sessions', content', nextId')
         /\ CallFits'
         /\ nextId' \in Nat \ {0}
<1> DEFINE Goal == /\ Sound(sessions', content', nextId')
                   /\ CallFits'
                   /\ nextId' \in Nat \ {0}
<1>1. nextId \in Nat \ {0} /\ call \in [id : Nat, text : SUBSET Frames]
  BY DEF IInv, TypeOK
<1>2. Sound(sessions, content, nextId) /\ CallFits
  BY DEF IInv
<1>3. ASSUME UNCHANGED <<sessions, content, nextId, call>>
      PROVE  Goal
  BY <1>1, <1>2, <1>3 DEF CallFits
<1>4. \/ Tick \/ Admit \/ EmbedAndUpsert \/ Finish \/ Abort \/ RequestDelete
      \/ DeleteUpstream \/ CascadeVectors \/ CascadeFails \/ Bury
      => UNCHANGED <<sessions, content, nextId, call>>
  BY DEF Tick, Admit, EmbedAndUpsert, EmbedAndUpsertOf, Finish, FinishOf, Abort, RequestDelete,
         DeleteUpstream, CascadeVectors, CascadeFails, Bury, derived
<1>5. CASE Flush \/ StartRun
  <2>1. /\ sessions' = FlushIdle(sessions)
        /\ content' = content /\ nextId' = nextId /\ call' = call
    BY <1>5 DEF Flush, StartRun
  <2>2. /\ Sound(sessions', content', nextId')
        /\ \A t \in sessions' : \E s \in sessions : t.id = s.id /\ t.evidence = s.evidence
    BY <1>1, <1>2, <2>1, FlushSound
  <2>3. CallFits'
    BY <1>1, <1>2, <2>1, <2>2, CallStillFits
  <2> QED
    BY <1>1, <2>1, <2>2, <2>3
<1>6. CASE Store
  <2>1. /\ hand \in Frames /\ content' = content \cup {hand} /\ call' = call
        /\ HandleExtraction(hand)
    BY <1>6 DEF Store, IInv, TypeOK, None
  <2>2. /\ Sound(sessions', content', nextId')
        /\ nextId' \in Nat \ {0} /\ nextId <= nextId'
        /\ \A t \in sessions' :
             \/ t.id = nextId
             \/ \E s \in sessions :
                  t.id = s.id /\ Elements(s.evidence) \subseteq Elements(t.evidence)
    BY <1>1, <1>2, <2>1, HandleExtractionSound
  <2>3. CallFits'
    BY <1>1, <1>2, <2>1, <2>2, CallStillFits
  <2> QED
    BY <2>2, <2>3
<1>7. ASSUME NEW D, DeleteRows(D), nextId' = nextId, call' = call
      PROVE  Goal
  <2>1. /\ sessions' = {s \in sessions : ~Touches(s, D)} /\ content' = content \ D
    BY <1>7 DEF DeleteRows
  <2>2. Sound(sessions', content', nextId')
    BY <1>2, <1>7, <2>1, DeleteSound
  <2>3. CallFits'
    BY <1>1, <1>2, <1>7, <2>1, CallStillFits
  <2> QED
    BY <1>1, <1>7, <2>2, <2>3
<1>8. CASE CascadeRows
  BY <1>7, <1>8 DEF CascadeRows
<1>9. CASE Reconcile
  BY <1>7, <1>9 DEF Reconcile
<1>10. CASE Restart
  BY <1>1, <1>2, <1>10 DEF Restart, derived, CallFits
<1>11. CASE AskSummary
  <2>1. /\ sessions' = sessions /\ content' = content /\ nextId' = nextId
    BY <1>11 DEF AskSummary, derived
  <2>2. PICK s \in sessions :
          call' = [id |-> s.id, text |-> Elements(s.evidence) \cap content]
    BY <1>11 DEF AskSummary
  <2>3. /\ s.id < nextId
        /\ \A t \in sessions : t.id = s.id => t = s
    BY <1>2 DEF Sound, IdsSound
  <2>4. CallFits'
    BY <2>1, <2>2, <2>3 DEF CallFits
  <2> QED
    BY <1>1, <1>2, <2>1, <2>4
<1>12. CASE WriteSummary
  <2>1. /\ call # NoCall /\ call' = NoCall /\ content' = content /\ nextId' = nextId
        /\ sessions' = Summarised(sessions, "ready") \/ sessions' = Summarised(sessions, "degraded")
    BY <1>12 DEF WriteSummary
  <2>2. Sound(sessions', content', nextId')
    BY <1>1, <1>2, <2>1, SummariseSound
  <2> QED
    BY <1>1, <2>1, <2>2 DEF CallFits
<1> QED
  BY <1>3, <1>4, <1>5, <1>6, <1>8, <1>9, <1>10, <1>11, <1>12 DEF Next, RunStep, DeleteStep

LEMMA InvariantStep ==
  ASSUME IInv, Next
  PROVE  IInv'
<1>1. /\ Sound(sessions', content', nextId')
      /\ CallFits'
      /\ nextId' \in Nat \ {0}
  BY SoundStep
<1>2. sessions' \subseteq Session /\ \A s \in sessions' : s.evidence # <<>>
  BY <1>1, SoundTypes
<1>3. TypeOK'
  BY <1>1, <1>2, TypeStep DEF IInv
<1>4. Sound(sessions, content, nextId)'
  BY <1>1 DEF Sound, IdsSound, OneOpen, RowSound, StartedAt, EndedAt, Elements, Last
<1> QED
  BY <1>1, <1>3, <1>4 DEF IInv

LEMMA Invariant == Spec => []IInv
<1>1. IInv /\ UNCHANGED vars => IInv'
  BY DEF IInv, TypeOK, Sound, IdsSound, OneOpen, CallFits, vars, source, privacy, derived,
         run, ghosts
<1> QED
  BY SoundInit, InvariantStep, <1>1, PTL DEF Spec

(* Every variable has its type, and no session is without evidence, in     *)
(* every configuration.                                                    *)
THEOREM TypeCorrect == Spec => []TypeOK
<1>1. IInv => TypeOK
  BY DEF IInv
<1> QED
  BY Invariant, <1>1, PTL

(* Whatever a cascade deletes, a run replays or a model answers late, every*)
(* session's evidence has its row and its summary tells only of that       *)
(* evidence (deleteDerivedByFrameIds, SummaryWorker.ensureSummary).        *)
THEOREM EvidenceTheorem == Spec => []EvidenceHasContent
<1>1. IInv => EvidenceHasContent
  BY DEF IInv, Sound, RowSound, EvidenceHasContent
<1> QED
  BY Invariant, <1>1, PTL

(* A frame always finds at most one open session of its context            *)
(* (SessionAggregator.handleExtraction, findOpenSessionFor).               *)
THEOREM OneOpenTheorem == Spec => []OneOpenPerContext
<1>1. IInv => OneOpenPerContext
  BY DEF IInv, Sound, OneOpen, OneOpenPerContext
<1> QED
  BY Invariant, <1>1, PTL

(* Sessions hold frames of one context, in capture order, without a gap    *)
(* above the idle threshold, and count each gap once, for any capture times*)
(* and threshold (SessionAggregator, Idle_Closure).                        *)
THEOREM ContinuityTheorem == Spec => []SessionsContinuous
<1>1. IInv => SessionsContinuous
  BY DEF IInv, Sound, RowSound, SessionsContinuous
<1> QED
  BY Invariant, <1>1, PTL

-----------------------------------------------------------------------------
(* A deletion: a deleted frame is out of the source, so only a run that    *)
(* had it before can bring it back; what is left of it when the request is *)
(* answered lies in the window of a tombstone, and with it the whole of    *)
(* any session that has the frame.                                         *)
Covers(t) == Target(t) \subseteq Within(t.from, t.to) /\ t.to <= clock

Hidden(f) == f \in content \cup vectors => \E t \in tombstones : f \in Target(t)

Deleting ==
  /\ del.pc # "idle" => Covers(del)
  /\ del.pc \in {"rows", "vectors", "bury"} => Target(del) \cap upstream = {}
  /\ del.pc = "vectors" => Target(del) \cap content \subseteq late

DeletionInv ==
  /\ \A f \in upstream : Time[f] <= clock
  /\ \A f \in gone : Time[f] <= clock
  /\ gone \cap upstream = {}
  /\ InHand \subseteq upstream \cup late
  /\ \A t \in tombstones : Covers(t)
  /\ \A f \in gone \ late : Hidden(f)
  /\ Deleting

(* The frames of a session lie between its first and its last.             *)
LEMMA Between ==
  ASSUME NEW s, NEW C, RowSound(s, C), NEW f \in Elements(s.evidence)
  PROVE  StartedAt(s) <= Time[f] /\ Time[f] <= EndedAt(s)
<1> DEFINE at(i) == Time[s.evidence[i]]
           n == Len(s.evidence)
<1>1. /\ n \in Nat \ {0} /\ \A i \in 1..n : s.evidence[i] \in Frames
      /\ StartedAt(s) = at(1) /\ EndedAt(s) = at(n)
  BY Times DEF RowSound, StartedAt, EndedAt
<1>2. \A i \in 1..n : at(i) \in Nat
  BY <1>1, FrameAssumption
<1>3. \A i \in 1..n - 1 : at(i) <= at(i + 1)
  <2> SUFFICES ASSUME NEW i \in 1..n - 1 PROVE at(i) <= at(i + 1)
    OBVIOUS
  <2>1. i \in 1..n /\ i + 1 \in 1..n
    BY <1>1
  <2>2. 0 <= at(i + 1) - at(i)
    BY DEF RowSound
  <2> HIDE DEF at
  <2> QED
    BY <1>2, <2>1, <2>2
<1> HIDE DEF at, n
<1>4. ASSUME NEW i \in 1..n PROVE at(1) <= at(i)
  <2> DEFINE early == {j \in 1..n : at(j) < at(1)}
  <2> SUFFICES early = {}
    BY <1>1, <1>2, <1>4
  <2> SUFFICES ASSUME early # {} PROVE FALSE
    OBVIOUS
  <2>0. early \in SUBSET Nat
    OBVIOUS
  <2>1. PICK j \in early : \A k \in early : j <= k
    <3> HIDE DEF early
    <3> QED
      BY <2>0, LeastNumber
  <2>2. j \in 1..n /\ at(j) < at(1) /\ j # 1
    BY <1>1, <1>2
  <2>3. j - 1 \in 1..n - 1 /\ (j - 1) + 1 = j /\ j - 1 \in 1..n
    BY <1>1, <2>2
  <2>4. at(j - 1) <= at(j)
    BY <1>3, <2>3
  <2>5. j - 1 \in early
    BY <1>1, <1>2, <2>2, <2>3, <2>4
  <2> QED
    BY <2>1, <2>2, <2>5
<1>5. ASSUME NEW i \in 1..n PROVE at(i) <= at(n)
  <2> DEFINE far == {d \in 0..n - 1 : at(n - d) > at(n)}
  <2> SUFFICES ASSUME at(i) > at(n) PROVE FALSE
    BY <1>1, <1>2
  <2>0. far \in SUBSET Nat /\ n - i \in far
    <3>1. n - i \in 0..n - 1 /\ n - (n - i) = i
      BY <1>1
    <3> QED
      BY <1>1, <3>1
  <2>1. PICK d \in far : \A k \in far : d <= k
    <3> HIDE DEF far
    <3> QED
      BY <2>0, LeastNumber
  <2>2. d \in 0..n - 1 /\ at(n - d) > at(n) /\ d # 0
    BY <1>1, <1>2
  <2>3. n - d \in 1..n - 1 /\ (n - d) + 1 = n - (d - 1) /\ d - 1 \in 0..n - 1 /\ n - d \in 1..n /\ n - (d - 1) \in 1..n
    BY <1>1, <2>2
  <2>4. at(n - d) <= at(n - (d - 1))
    BY <1>3, <2>3
  <2>5. d - 1 \in far
    BY <1>1, <1>2, <2>2, <2>3, <2>4
  <2> QED
    BY <2>1, <2>2, <2>5
<1>6. PICK i \in 1..n : s.evidence[i] = f
  BY DEF Elements, n
<1> QED
  BY <1>1, <1>4, <1>5, <1>6 DEF at

LEMMA DeletionHides == IInv /\ DeletionInv => DeletedStaysGone
<1> SUFFICES ASSUME IInv, DeletionInv, NEW f \in gone \ late, f \in Shown PROVE FALSE
  BY DEF DeletedStaysGone
<1>0. /\ \A s \in sessions : RowSound(s, content)
      /\ Hidden(f) /\ \A t \in tombstones : Covers(t)
  BY DEF IInv, Sound, DeletionInv
<1>1. CASE f \in content \cup vectors /\ Visible(f)
  BY <1>0, <1>1 DEF Hidden, Covers, Visible, Within
<1>2. ASSUME NEW s \in sessions, VisibleSession(s), f \in Elements(s.evidence) \cup s.summary.text
      PROVE  FALSE
  <2>1. f \in Elements(s.evidence) /\ f \in content
    BY <1>0, <1>2 DEF RowSound
  <2>2. StartedAt(s) <= Time[f] /\ Time[f] <= EndedAt(s)
    BY <1>0, <2>1, Between
  <2>3. PICK t \in tombstones : f \in Target(t)
    BY <1>0, <2>1 DEF Hidden
  <2>4. t.from <= Time[f] /\ Time[f] <= t.to /\ f \in Frames
    BY <1>0, <2>3 DEF Covers, Within
  <2>5. StartedAt(s) \in Nat /\ EndedAt(s) \in Nat /\ Time[f] \in Nat /\ t.from \in Nat /\ t.to \in Nat
    BY <1>0, <2>4, Times, FrameAssumption DEF RowSound, IInv, TypeOK
  <2>6. t.from <= EndedAt(s) /\ StartedAt(s) <= t.to
    BY <2>2, <2>4, <2>5
  <2> QED
    BY <1>2, <2>6 DEF VisibleSession
<1> QED
  BY <1>1, <1>2 DEF Shown

LEMMA DeletionInit == Init => DeletionInv
<1> SUFFICES ASSUME Init PROVE DeletionInv
  OBVIOUS
<1>1. del.pc = "idle" /\ \A f \in upstream : Time[f] = clock /\ clock = 0
  BY DEF Init, NoDelete
<1>2. InHand = {}
  BY DEF Init, InHand
<1> QED
  BY <1>1, <1>2 DEF Init, DeletionInv, Deleting

LEMMA DeletionStep ==
  ASSUME IInv, IInv', DeletionInv, Next
  PROVE  DeletionInv'
<1> USE DEF DeletionInv
<1>1. TypeOK
  BY DEF IInv
<1>2. /\ clock \in Nat /\ upstream \subseteq Frames /\ \A f \in Frames : Time[f] \in Nat
      /\ prepared \subseteq Frames /\ todo \subseteq Frames
  BY <1>1, FrameAssumption DEF TypeOK
(* Nothing here is new in the run, the source or the derived layer.        *)
<1>3. ASSUME UNCHANGED <<clock, upstream, tombstones, del, gone>>,
             InHand' \subseteq InHand, late' = late,
             content' \subseteq content, vectors' \subseteq vectors
      PROVE  DeletionInv'
  BY <1>3 DEF Covers, Hidden, Deleting, Target
<1>4. CASE Tick
  <2>1. /\ clock' = clock + 1 /\ upstream' = upstream \cup {f \in Frames : Time[f] = clock + 1}
        /\ UNCHANGED <<privacy, derived, run, del, ghosts>>
    BY <1>4 DEF Tick
  <2>2. InHand' = InHand
    BY <2>1 DEF InHand, privacy, run
  <2>3. \A f \in upstream' : Time[f] <= clock'
    BY <1>2, <2>1
  <2>4. gone' = gone /\ gone \subseteq Frames /\ \A f \in gone : Time[f] <= clock' /\ Time[f] # clock + 1
    BY <1>1, <1>2, <2>1 DEF TypeOK, ghosts
  <2>5. ASSUME NEW t, Covers(t), t.to \in Nat PROVE Covers(t)' /\ \A f \in Target(t) : Time[f] # clock + 1
    BY <1>2, <2>1, <2>5 DEF Covers, Target, Within
  <2>6. \A t \in tombstones : t.to \in Nat
    BY <1>1 DEF TypeOK
  <2>7. del.to \in Nat
    BY <1>1 DEF TypeOK
  <2>8. Deleting'
    <3>0. PICK d : d = del
      OBVIOUS
    <3>1. del.pc # "idle" => Covers(d)' /\ \A f \in Target(d) : Time[f] # clock + 1
      BY <2>5, <2>7, <3>0 DEF Deleting
    <3> QED
      BY <2>1, <3>0, <3>1 DEF Deleting, derived, ghosts, Target, Covers
  <2> QED
    BY <2>1, <2>2, <2>3, <2>4, <2>5, <2>6, <2>8 DEF privacy, derived, ghosts, Hidden, Covers, Target
<1>5. CASE Flush \/ Finish \/ Abort \/ Restart \/ AskSummary \/ WriteSummary
  <2>1. /\ UNCHANGED <<clock, upstream, tombstones, gone, late, content, vectors, suppressed>>
        /\ \/ UNCHANGED <<pc, todo, hand, prepared, held, failed>> \/ NoRun
        /\ del' = del \/ del' = NoDelete
    BY <1>5 DEF Flush, Finish, FinishOf, Abort, Restart, AskSummary, WriteSummary, source, privacy,
                derived, ghosts, run
  <2>2. InHand' \subseteq InHand
    BY <2>1 DEF InHand, NoRun
  <2>3. CASE del' = del
    BY <1>3, <2>1, <2>2, <2>3
  <2>4. CASE del' = NoDelete
    BY <2>1, <2>2, <2>4 DEF Covers, Hidden, Deleting, Target, NoDelete
  <2> QED
    BY <2>1, <2>3, <2>4
<1>6. CASE StartRun
  <2>1. /\ todo' = {f \in upstream : f > ckpt}
        /\ UNCHANGED <<source, privacy, content, vectors, hand, prepared, del, ghosts>>
    BY <1>6 DEF StartRun
  <2>2. InHand' \subseteq upstream \cup late
    BY <2>1 DEF InHand, privacy
  <2> QED
    BY <2>1, <2>2 DEF source, privacy, ghosts, Covers, Hidden, Deleting, Target
<1>7. CASE Admit
  <2>1. /\ pc = "extract" /\ hand = None /\ todo # {}
        /\ LET f == First(todo)
           IN  /\ todo' = todo \ {f}
               /\ IF Time[f] \in suppressed THEN UNCHANGED hand ELSE hand' = f
        /\ UNCHANGED <<source, privacy, derived, prepared, del, ghosts>>
    BY <1>7 DEF Admit
  <2>2. First(todo) \in todo
    BY <1>2, <2>1, LeastFrame
  <2>3. InHand' \subseteq InHand
    BY <2>1, <2>2 DEF InHand, privacy
  <2> QED
    BY <1>3, <2>1, <2>3 DEF source, privacy, derived, ghosts
<1>8. CASE Store
  <2>1. /\ hand # None /\ content' = content \cup {hand} /\ prepared' = prepared \cup {hand}
        /\ hand' = None
        /\ UNCHANGED <<source, privacy, vectors, todo, del, ghosts>>
    BY <1>8 DEF Store
  <2>2. InHand' \subseteq InHand /\ hand \in InHand
    BY <2>1 DEF InHand, privacy
  <2>3. hand \in gone => hand \in late
    BY <2>2
  <2>4. del.pc = "vectors" => Target(del) \cap content' \subseteq late
    BY <2>1, <2>2 DEF Deleting
  <2> QED
    BY <2>1, <2>2, <2>3, <2>4 DEF source, privacy, ghosts, Covers, Hidden, Deleting, Target
<1>9. CASE EmbedAndUpsert
  <2>1. /\ vectors' \subseteq vectors \cup prepared
        /\ UNCHANGED <<source, privacy, content, todo, hand, prepared, del, ghosts>>
    BY <1>9 DEF EmbedAndUpsert, EmbedAndUpsertOf
  <2>2. InHand' = InHand /\ prepared \subseteq InHand
    BY <2>1 DEF InHand, privacy
  <2>3. \A f \in prepared : f \in gone => f \in late
    BY <2>2
  <2> QED
    BY <2>1, <2>2, <2>3 DEF source, privacy, ghosts, Covers, Hidden, Deleting, Target
<1>10. CASE RequestDelete
  <2>1. /\ UNCHANGED <<source, tombstones, derived, run, ghosts>> /\ suppressed \subseteq suppressed'
        /\ del'.pc = "upstream" /\ del'.to = clock /\ del'.frames = {} /\ del'.byRange = FALSE
    BY <1>10 DEF RequestDelete, NoDelete
  <2>2. InHand' \subseteq InHand
    BY <2>1 DEF InHand, run
  <2>3. Deleting'
    BY <1>2, <2>1 DEF Deleting, Covers, Target, source
  <2> QED
    BY <2>1, <2>2, <2>3 DEF source, derived, ghosts, Covers, Hidden, Target
<1>11. CASE DeleteUpstream
  <2> DEFINE ids == upstream \cap Within(del.from, del.to)
  <2>1. /\ del.pc = "upstream"
        /\ upstream' = upstream \ ids /\ late' = late \cup (ids \cap InHand)
        /\ del' = [del EXCEPT !.pc = "rows", !.frames = ids, !.byRange = (ids = {})]
        /\ UNCHANGED <<clock, privacy, derived, run, gone>>
    BY <1>11 DEF DeleteUpstream
  <2>2. InHand' = InHand
    BY <2>1 DEF InHand, privacy, run
  <2>3. InHand' \subseteq upstream' \cup late'
    BY <2>1, <2>2
  <2>4. /\ del'.pc = "rows" /\ del'.frames = ids /\ del'.byRange = (ids = {})
        /\ del'.from = del.from /\ del'.to = del.to /\ del.to <= clock
    BY <1>1, <2>1 DEF TypeOK, Deleting, Covers
  <2>5. Target(del)' \subseteq Within(del.from, del.to) /\ Target(del)' \cap upstream' = {}
    BY <2>1, <2>4 DEF Target
  <2>6. Deleting'
    BY <2>1, <2>4, <2>5 DEF Deleting, Covers
  <2> HIDE DEF ids
  <2> QED
    BY <2>1, <2>3, <2>6 DEF privacy, derived, Covers, Hidden, Target
<1>12. CASE CascadeRows
  <2>1. /\ del.pc = "rows" /\ content' = content \ RowsOf(del)
        /\ del' = [del EXCEPT !.pc = "vectors"]
        /\ UNCHANGED <<source, privacy, vectors, run, ghosts>>
    BY <1>12 DEF CascadeRows, DeleteRows
  <2>2. /\ del'.pc = "vectors" /\ Target(del)' = Target(del) /\ del'.from = del.from /\ del'.to = del.to
    BY <1>1, <2>1 DEF TypeOK, Target
  <2>3. Target(del) \cap content' = {}
    BY <2>1 DEF RowsOf
  <2>4. Deleting'
    BY <2>1, <2>2, <2>3 DEF Deleting, Covers, source
  <2> QED
    BY <2>1, <2>4 DEF source, privacy, run, ghosts, InHand, Covers, Hidden, Target
<1>13. CASE CascadeVectors
  <2>1. /\ del.pc = "vectors" /\ vectors' = vectors \ Target(del) /\ gone' = gone \cup Target(del)
        /\ del' = NoDelete
        /\ UNCHANGED <<source, privacy, content, run, late>>
    BY <1>13 DEF CascadeVectors
  <2>2. /\ Target(del) \cap upstream = {} /\ Target(del) \cap content \subseteq late
        /\ Target(del) \subseteq Within(del.from, del.to) /\ del.to <= clock /\ del.to \in Nat
    BY <1>1, <2>1 DEF Deleting, Covers, TypeOK
  <2>3. \A f \in Target(del) : Time[f] <= clock
    BY <1>2, <2>2 DEF Within
  <2>4. Deleting'
    BY <2>1 DEF Deleting, NoDelete
  <2>5. \A f \in gone' \ late' : Hidden(f)'
    BY <2>1, <2>2 DEF privacy, Hidden, Target
  <2>6. InHand' = InHand
    BY <2>1 DEF InHand, privacy, run
  <2> QED
    BY <2>1, <2>2, <2>3, <2>4, <2>5, <2>6 DEF source, privacy, Covers, Target
<1>14. CASE CascadeFails
  <2>1. /\ del.pc \in {"rows", "vectors"} /\ del' = [del EXCEPT !.pc = "bury"]
        /\ UNCHANGED <<source, privacy, derived, run, ghosts>>
    BY <1>14 DEF CascadeFails
  <2>2. del'.pc = "bury" /\ Target(del)' = Target(del) /\ del'.from = del.from /\ del'.to = del.to
    BY <1>1, <2>1 DEF TypeOK, Target
  <2>3. Deleting'
    BY <2>1, <2>2 DEF Deleting, Covers, source
  <2> QED
    BY <2>1, <2>3 DEF source, privacy, derived, run, ghosts, InHand, Covers, Hidden, Target
<1>15. CASE Bury
  <2> DEFINE new == [from |-> del.from, to |-> del.to, frames |-> del.frames, byRange |-> del.byRange]
  <2>1. /\ del.pc = "bury" /\ tombstones' = tombstones \cup {new}
        /\ gone' = gone \cup Target(del) /\ del' = NoDelete
        /\ UNCHANGED <<source, suppressed, derived, run, late>>
    BY <1>15 DEF Bury
  <2>2. Target(new) = Target(del) /\ (Covers(del) => Covers(new))
    BY DEF Target, Covers
  <2>3. /\ Target(del) \cap upstream = {} /\ Covers(del) /\ del.to \in Nat
    BY <1>1, <2>1 DEF Deleting, TypeOK
  <2>4. \A f \in Target(del) : Time[f] <= clock
    BY <1>2, <2>3 DEF Within, Covers
  <2>5. Deleting'
    BY <2>1 DEF Deleting, NoDelete
  <2> HIDE DEF new
  <2>6. \A f \in gone' \ late' : Hidden(f)'
    BY <2>1, <2>2 DEF derived, Hidden, Target
  <2>7. InHand' = InHand
    BY <2>1 DEF InHand, run
  <2>8. \A t \in tombstones' : Covers(t)'
    BY <2>1, <2>2, <2>3 DEF source, Covers, Target
  <2> QED
    BY <2>1, <2>3, <2>4, <2>5, <2>6, <2>7, <2>8 DEF source
<1>16. CASE Reconcile
  <2>1. PICK t \in tombstones :
          /\ content' = content \ RowsOf(t) /\ vectors' = vectors \ Target(t)
          /\ tombstones' = tombstones \ {t}
    BY <1>16 DEF Reconcile, DeleteRows
  <2>2. UNCHANGED <<source, suppressed, run, del, ghosts>>
    BY <1>16 DEF Reconcile
  <2>3. \A f \in gone' \ late' : Hidden(f)'
    <3> SUFFICES ASSUME NEW f \in gone \ late, f \in content' \cup vectors'
                 PROVE  \E u \in tombstones' : f \in Target(u)
      BY <2>2 DEF Hidden, Target, ghosts
    <3>1. PICK u \in tombstones : f \in Target(u)
      BY <2>1 DEF Hidden
    <3>2. u # t
      BY <2>1, <3>1 DEF RowsOf
    <3> QED
      BY <2>1, <3>1, <3>2
  <2>4. InHand' = InHand
    BY <2>2 DEF InHand, run
  <2> QED
    BY <2>1, <2>2, <2>3, <2>4 DEF source, ghosts, Covers, Deleting, Target
<1> QED
  BY <1>4, <1>5, <1>6, <1>7, <1>8, <1>9, <1>10, <1>11, <1>12, <1>13, <1>14, <1>15, <1>16
     DEF Next, RunStep, DeleteStep

LEMMA DeletionStutter == DeletionInv /\ UNCHANGED vars => DeletionInv'
  BY DEF vars, source, privacy, derived, run, ghosts, DeletionInv, InHand, Covers, Hidden, Deleting, Target

(* delete-range keeps its word, for any number of frames, deletions,       *)
(* failing cascades, tombstones and restarts: what was deleted is not      *)
(* found, recalled or summarised again unless a run was past its privacy   *)
(* check for it (privacy-control-service.ts, cascade-delete-coordinator.ts,*)
(* indexing-service.ts).                                                   *)
THEOREM DeletionTheorem == Spec => []DeletedStaysGone
<1>1. IInv /\ IInv' /\ DeletionInv /\ [Next]_vars => DeletionInv'
  BY DeletionStep, DeletionStutter
<1>2. Spec => []DeletionInv
  BY <1>1, DeletionInit, Invariant, PTL DEF Spec
<1> QED
  BY <1>2, Invariant, DeletionHides, PTL

-----------------------------------------------------------------------------
(* What a reader sees of the sessions.                                     *)
Seen(S) == {Told(s) : s \in S}

LEMMA ToldFields ==
  ASSUME NEW s
  PROVE  /\ Told(s).id = s.id /\ Told(s).ctx = s.ctx /\ Told(s).open = s.open
         /\ Told(s).frames = Elements(s.evidence) /\ Told(s).told = s.summary.text
BY DEF Told

(* No two sessions of the table look the same to a reader.                 *)
LEMMA ToldOnce ==
  ASSUME NEW S, NEW C, NEW n, Sound(S, C, n), NEW s \in S, NEW t \in S, Told(s) = Told(t)
  PROVE  s = t
BY ToldFields DEF Sound, IdsSound

(* What a row that is closed, grown or summarised looks like.              *)
LEMMA ToldClosed ==
  ASSUME NEW C, NEW s, RowSound(s, C)
  PROVE  Told(Closed(s)) = [Told(s) EXCEPT !.open = FALSE]
<1>1. /\ Closed(s).id = s.id /\ Closed(s).ctx = s.ctx /\ Closed(s).evidence = s.evidence
      /\ Closed(s).open = FALSE /\ Closed(s).summary = s.summary
  BY DEF Closed, RowSound, Session
<1>2. Told(Closed(s)) = [id |-> s.id, ctx |-> s.ctx, frames |-> Elements(s.evidence),
                         open |-> FALSE, told |-> s.summary.text]
  BY <1>1, Zenon DEF Told
<1>3. ASSUME NEW b \in BOOLEAN
      PROVE  [Told(s) EXCEPT !.open = b]
               = [id |-> s.id, ctx |-> s.ctx, frames |-> Elements(s.evidence),
                  open |-> b, told |-> s.summary.text]
  BY DEF Told
<1> QED
  BY <1>2, <1>3

LEMMA ToldOpen ==
  ASSUME NEW C, NEW s, RowSound(s, C)
  PROVE  /\ s.open \in BOOLEAN
         /\ Told(s) = [Told(s) EXCEPT !.open = s.open]
BY DEF RowSound, Session, Told

LEMMA ToldGrown ==
  ASSUME NEW C, NEW s, RowSound(s, C), NEW f \in Frames
  PROVE  Told(AppendFrame(s, f)) = [Told(s) EXCEPT !.frames = @ \cup {f}]
<1> DEFINE a == AppendFrame(s, f)
<1>1. /\ a.id = s.id /\ a.ctx = s.ctx /\ a.open = s.open /\ a.summary = s.summary
      /\ a.evidence = Append(s.evidence, f)
  BY DEF AppendFrame, RowSound, Session
<1>2. Elements(a.evidence) = Elements(s.evidence) \cup {f}
  <2>1. s.evidence \in Seq(Frames)
    BY DEF RowSound, Session
  <2> HIDE DEF a
  <2> QED
    BY <1>1, <2>1, ElementsOfAppend
<1> HIDE DEF a
<1>3. Told(a) = [id |-> s.id, ctx |-> s.ctx, frames |-> Elements(s.evidence) \cup {f},
                 open |-> s.open, told |-> s.summary.text]
  BY <1>1, <1>2, Zenon DEF Told
<1>4. @ = [Told(s) EXCEPT !.frames = @ \cup {f}]
  BY DEF Told
<1> QED
  BY <1>3, <1>4 DEF a

-----------------------------------------------------------------------------
(* Flushing closes: the sessions idle for too long, and no other.          *)
LEMMA FlushCloses ==
  ASSUME NEW S, NEW C, NEW n, Sound(S, C, n)
  PROVE  \E K \in SUBSET Seen(S) :
           Seen(FlushIdle(S)) = {[h EXCEPT !.open = @ /\ h \notin K] : h \in Seen(S)}
<1> DEFINE Old(s) == EndedAt(s) < clock - Idle
           Shut(s) == IF Old(s) THEN Closed(s) ELSE s
           K == {Told(s) : s \in {s \in S : Old(s)}}
<1>1. FlushIdle(S) = {Shut(s) : s \in S}
  BY DEF FlushIdle, Closed
<1>2. \A s \in S : Told(s) \in K <=> Old(s)
  <2> SUFFICES ASSUME NEW s \in S, Told(s) \in K PROVE Old(s)
    OBVIOUS
  <2>1. PICK t \in S : Old(t) /\ Told(t) = Told(s)
    OBVIOUS
  <2>2. t = s
    BY <2>1, ToldOnce
  <2> QED
    BY <2>1, <2>2
<1>3. \A s \in S : Told(Shut(s)) = [Told(s) EXCEPT !.open = @ /\ Told(s) \notin K]
  <2> SUFFICES ASSUME NEW s \in S
               PROVE  Told(Shut(s)) = [Told(s) EXCEPT !.open = Told(s).open /\ Told(s) \notin K]
    OBVIOUS
  <2>1. RowSound(s, C)
    BY DEF Sound
  <2>2. CASE Old(s)
    <3>1. (Told(s).open /\ Told(s) \notin K) = FALSE
      BY <1>2, <2>2
    <3>2. Told(Shut(s)) = [Told(s) EXCEPT !.open = FALSE]
      BY <2>1, <2>2, ToldClosed
    <3> QED
      BY <3>1, <3>2
  <2>3. CASE ~Old(s)
    <3>1. (Told(s).open /\ Told(s) \notin K) = s.open
      BY <1>2, <2>1, <2>3, ToldFields, ToldOpen
    <3>2. Told(Shut(s)) = [Told(s) EXCEPT !.open = s.open]
      BY <2>1, <2>3, ToldOpen
    <3> QED
      BY <3>1, <3>2
  <2> QED
    BY <2>2, <2>3
<1> HIDE DEF K, Shut
<1>4. Seen(FlushIdle(S)) = {[h EXCEPT !.open = @ /\ h \notin K] : h \in Seen(S)}
  BY <1>1, <1>3 DEF Seen
<1>5. K \in SUBSET Seen(S)
  BY DEF K, Seen
<1> QED
  BY <1>4, <1>5

(* An extraction records: it extends the one open session of its context,  *)
(* or begins another and closes it.                                        *)
LEMMA ExtractionRecords ==
  ASSUME NEW f \in Frames, Sound(sessions, content, nextId), HandleExtraction(f),
         content' = content \cup {f}
  PROVE  History!Record(f)
<1>1. \A s \in sessions : RowSound(s, content)
  BY DEF Sound
<1>2. \A s, t \in sessions : s.open /\ t.open /\ s.ctx = t.ctx => s = t
  BY DEF Sound, OneOpen
<1>3. OpenFor(f) = {s \in sessions : s.open /\ s.ctx = Context[f]}
  <2>1. \A s \in OpenFor(f) : s \in sessions /\ s.open /\ s.ctx = Context[f]
    BY DEF OpenFor
  <2>2. ASSUME NEW s \in sessions, s.open, s.ctx = Context[f]
        PROVE  s \in OpenFor(f)
    <3>1. \A t \in sessions : t.open /\ t.ctx = Context[f] => t = s
      BY <1>2, <2>2
    <3>2. EndedAt(s) <= EndedAt(s)
      BY <1>1, Times DEF RowSound
    <3> QED
      BY <2>2, <3>1, <3>2 DEF OpenFor
  <2> QED
    BY <2>1, <2>2
<1>4. ASSUME NEW s \in OpenFor(f), nextId' = nextId,
             sessions' = (sessions \ {s}) \cup {AppendFrame(s, f)}
      PROVE  /\ Told(s) \in Seen(sessions) /\ Told(s).open /\ Told(s).ctx = Context[f]
             /\ Seen(sessions') = (Seen(sessions) \ {Told(s)})
                                    \cup {[Told(s) EXCEPT !.frames = @ \cup {f}]}
  <2>1. s \in sessions /\ s.open /\ s.ctx = Context[f]
    BY <1>3, <1>4
  <2>2. Told(AppendFrame(s, f)) = [Told(s) EXCEPT !.frames = @ \cup {f}]
    BY <1>1, <2>1, ToldGrown
  <2>3. Seen(sessions \ {s}) = Seen(sessions) \ {Told(s)}
    <3>1. \A t \in sessions : Told(t) = Told(s) => t = s
      BY <2>1, ToldOnce
    <3> QED
      BY <2>1, <3>1 DEF Seen
  <2>4. Seen(sessions') = Seen(sessions \ {s}) \cup {Told(AppendFrame(s, f))}
    BY <1>4 DEF Seen
  <2> QED
    BY <2>1, <2>2, <2>3, <2>4, ToldFields DEF Seen
<1>5. ASSUME nextId' = nextId + 1,
             sessions' = (sessions \ OpenFor(f))
                           \cup {[s EXCEPT !.open = FALSE] : s \in OpenFor(f)}
                           \cup {CreateSession(f)}
      PROVE  Seen(sessions') = {[h EXCEPT !.open = @ /\ h.ctx # Context[f]] : h \in Seen(sessions)}
                                 \cup {History!NewSession(f)}
  <2> DEFINE Shut(s) == IF s \in OpenFor(f) THEN Closed(s) ELSE s
             Left(h) == [h EXCEPT !.open = h.open /\ h.ctx # Context[f]]
  <2>1. sessions' = {Shut(s) : s \in sessions} \cup {CreateSession(f)}
    BY <1>3, <1>5 DEF Closed
  <2>2. \A s \in sessions : Told(Shut(s)) = Left(Told(s))
    <3> SUFFICES ASSUME NEW s \in sessions PROVE Told(Shut(s)) = Left(Told(s))
      OBVIOUS
    <3>1. CASE s \in OpenFor(f)
      <4>1. (Told(s).open /\ Told(s).ctx # Context[f]) = FALSE
        BY <1>3, <3>1, ToldFields
      <4>2. Told(Shut(s)) = [Told(s) EXCEPT !.open = FALSE]
        BY <1>1, <3>1, ToldClosed
      <4> QED
        BY <4>1, <4>2
    <3>2. CASE s \notin OpenFor(f)
      <4>1. (Told(s).open /\ Told(s).ctx # Context[f]) = s.open
        BY <1>1, <1>3, <3>2, ToldFields, ToldOpen
      <4>2. Told(Shut(s)) = [Told(s) EXCEPT !.open = s.open]
        BY <1>1, <3>2, ToldOpen
      <4> QED
        BY <4>1, <4>2
    <3> QED
      BY <3>1, <3>2
  <2>3. Told(CreateSession(f)) = History!NewSession(f)
    <3>1. Elements(<<f>>) = {f}
      BY DEF Elements
    <3> QED
      BY <3>1 DEF Told, CreateSession, NoSummary, History!NewSession
  <2> HIDE DEF Shut, Left
  <2>4. Seen(sessions') = {Left(h) : h \in Seen(sessions)} \cup {History!NewSession(f)}
    BY <2>1, <2>2, <2>3 DEF Seen
  <2> QED
    BY <2>4 DEF Left
<1>6. CASE \E s \in OpenFor(f) :
             /\ nextId' = nextId
             /\ sessions' = (sessions \ {s}) \cup {AppendFrame(s, f)}
  <2>1. \E h \in Seen(sessions) :
          /\ h.open /\ h.ctx = Context[f]
          /\ Seen(sessions') = (Seen(sessions) \ {h}) \cup {[h EXCEPT !.frames = @ \cup {f}]}
    BY <1>4, <1>6
  <2> QED
    BY <1>6, <2>1 DEF History!Record, Seen
<1>7. CASE /\ nextId' = nextId + 1
           /\ sessions' = (sessions \ OpenFor(f))
                             \cup {[s EXCEPT !.open = FALSE] : s \in OpenFor(f)}
                             \cup {CreateSession(f)}
  BY <1>5, <1>7 DEF History!Record, Seen
<1> QED
  BY <1>6, <1>7 DEF HandleExtraction

(* A deletion forgets: sessions that touch a deleted frame are exactly     *)
(* those whose frames are no longer all kept.                              *)
LEMMA DeletionForgets ==
  ASSUME NEW D, Sound(sessions, content, nextId), DeleteRows(D), nextId' = nextId
  PROVE  History!Forget
<1>1. content' = content \ D /\ sessions' = {s \in sessions : ~Touches(s, D)}
  BY DEF DeleteRows
<1>2. \A s \in sessions : ~Touches(s, D) <=> Told(s).frames \subseteq content'
  BY <1>1, ToldFields DEF Sound, RowSound, Touches
<1>3. Seen(sessions') = {h \in Seen(sessions) : h.frames \subseteq content'}
  BY <1>1, <1>2 DEF Seen
<1> QED
  BY <1>1, <1>3 DEF History!Forget, Seen

(* A summary tells, of the session it was asked for and from its frames;   *)
(* if that session has gone, the late answer changes nothing.              *)
LEMMA SummaryTells ==
  ASSUME NEW status \in {"ready", "degraded"}, Sound(sessions, content, nextId),
         call # NoCall, CallFits, sessions' = Summarised(sessions, status),
         content' = content, nextId' = nextId
  PROVE  History!Tell \/ Seen(sessions') = Seen(sessions)
<1> DEFINE W(s) == [s EXCEPT !.summary = [status |-> status, text |-> call.text]]
<1>1. sessions' = {IF s.id = call.id THEN W(s) ELSE s : s \in sessions}
  BY DEF Summarised
<1>2. \A s \in sessions : Told(W(s)) = [Told(s) EXCEPT !.told = call.text]
  <2> SUFFICES ASSUME NEW s \in sessions
               PROVE  Told(W(s)) = [Told(s) EXCEPT !.told = call.text]
    OBVIOUS
  <2>1. /\ W(s).id = s.id /\ W(s).ctx = s.ctx /\ W(s).evidence = s.evidence
        /\ W(s).open = s.open /\ W(s).summary.text = call.text
    BY DEF Sound, RowSound, Session
  <2> HIDE DEF W
  <2> QED
    BY <2>1 DEF Told
<1> HIDE DEF W
<1>3. CASE \A s \in sessions : s.id # call.id
  BY <1>1, <1>3
<1>4. ASSUME NEW s \in sessions, s.id = call.id
      PROVE  History!Tell
  <2>1. \A t \in sessions : t.id = call.id <=> t = s
    BY <1>4 DEF Sound, IdsSound
  <2>2. call.text \subseteq Told(s).frames
    BY <1>4, ToldFields DEF CallFits
  <2>3. sessions' = (sessions \ {s}) \cup {W(s)}
    BY <1>1, <2>1
  <2>4. Seen(sessions') = (Seen(sessions) \ {Told(s)}) \cup {[Told(s) EXCEPT !.told = call.text]}
    <3>1. \A t \in sessions : Told(t) = Told(s) => t = s
      BY <1>4, ToldOnce
    <3>2. Seen(sessions \ {s}) = Seen(sessions) \ {Told(s)}
      BY <1>4, <3>1 DEF Seen
    <3>3. Seen(sessions') = Seen(sessions \ {s}) \cup {Told(W(s))}
      BY <2>3 DEF Seen
    <3> QED
      BY <1>2, <3>2, <3>3
  <2>5. Told(s) \in Seen(sessions)
    BY DEF Seen
  <2> QED
    BY <2>2, <2>4, <2>5 DEF History!Tell, Seen
<1> QED
  BY <1>3, <1>4

-----------------------------------------------------------------------------
LEMMA HistoryStarts == Init => History!HistoryInit
BY DEF Init, History!HistoryInit

LEMMA HistoryMoves ==
  ASSUME IInv, Next
  PROVE  [History!HistoryNext]_History!historyVars
<1>1. Sound(sessions, content, nextId) /\ CallFits
  BY DEF IInv
<1>2. ASSUME content' = content, nextId' = nextId, Seen(sessions') = Seen(sessions)
      PROVE  UNCHANGED History!historyVars
  BY <1>2 DEF History!historyVars, Seen
<1>3. CASE UNCHANGED <<sessions, content, nextId>>
  BY <1>2, <1>3
<1>4. \/ Tick \/ Admit \/ EmbedAndUpsert \/ Finish \/ Abort \/ RequestDelete
      \/ DeleteUpstream \/ CascadeVectors \/ CascadeFails \/ Bury \/ Restart \/ AskSummary
      => UNCHANGED <<sessions, content, nextId>>
  BY DEF Tick, Admit, EmbedAndUpsert, EmbedAndUpsertOf, Finish, FinishOf, Abort, RequestDelete,
         DeleteUpstream, CascadeVectors, CascadeFails, Bury, Restart, AskSummary, derived
<1>5. CASE Flush \/ StartRun
  <2>1. sessions' = FlushIdle(sessions) /\ content' = content /\ nextId' = nextId
    BY <1>5 DEF Flush, StartRun
  <2>2. \E K \in SUBSET Seen(sessions) :
          Seen(sessions') = {[h EXCEPT !.open = @ /\ h \notin K] : h \in Seen(sessions)}
    BY <1>1, <2>1, FlushCloses
  <2>3. History!Close
    BY <2>1, <2>2 DEF History!Close, Seen
  <2> QED
    BY <2>3 DEF History!HistoryNext
<1>6. CASE Store
  <2>1. hand \in Frames /\ content' = content \cup {hand} /\ HandleExtraction(hand)
    BY <1>6 DEF Store, IInv, TypeOK, None
  <2>2. History!Record(hand)
    BY <1>1, <2>1, ExtractionRecords
  <2> QED
    BY <2>1, <2>2 DEF History!HistoryNext
<1>7. CASE CascadeRows
  BY <1>1, <1>7, DeletionForgets DEF CascadeRows, History!HistoryNext
<1>8. CASE Reconcile
  <2>1. PICK t \in tombstones : DeleteRows(RowsOf(t))
    BY <1>8 DEF Reconcile
  <2>2. nextId' = nextId
    BY <1>8 DEF Reconcile
  <2> QED
    BY <1>1, <2>1, <2>2, DeletionForgets DEF History!HistoryNext
<1>9. CASE WriteSummary
  <2>1. /\ call # NoCall /\ content' = content /\ nextId' = nextId
        /\ sessions' = Summarised(sessions, "ready") \/ sessions' = Summarised(sessions, "degraded")
    BY <1>9 DEF WriteSummary
  <2>2. History!Tell \/ Seen(sessions') = Seen(sessions)
    BY <1>1, <2>1, SummaryTells
  <2> QED
    BY <1>2, <2>1, <2>2 DEF History!HistoryNext
<1> QED
  BY <1>3, <1>4, <1>5, <1>6, <1>7, <1>8, <1>9 DEF Next, RunStep, DeleteStep

(* The derived layer implements WorkHistory, whatever run, cascade, reader,*)
(* late summary, failure or restart steps in between: a closed session     *)
(* neither grows nor opens again, an id is used once, a deletion takes     *)
(* every session it touches, and what is told of a session is its own      *)
(* (SessionAggregator, CascadeDeleteCoordinator, SummaryWorker).           *)
THEOREM RefinementTheorem == Spec => ImplementsHistory
<1>1. IInv /\ [Next]_vars => [History!HistoryNext]_History!historyVars
  <2> SUFFICES ASSUME IInv, [Next]_vars
               PROVE  [History!HistoryNext]_History!historyVars
    OBVIOUS
  <2>1. CASE Next
    BY <2>1, HistoryMoves
  <2>2. CASE UNCHANGED vars
    BY <2>2 DEF vars, derived, History!historyVars
  <2> QED
    BY <2>1, <2>2
<1> QED
  BY Invariant, HistoryStarts, <1>1, PTL DEF Spec, ImplementsHistory, History!HistorySpec
===============================================================================
