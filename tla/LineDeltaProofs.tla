---------------------------- MODULE LineDeltaProofs ----------------------------
(***************************************************************************)
(* The lines that indexing keeps (work-activity/extraction/universal.ts),  *)
(* for any number of frames, contexts and lines, any threshold, and any    *)
(* failures, restarts, exclusions and deletions.                           *)
(*                                                                         *)
(* That no line is lost rests on what an entry of the deduplicator may     *)
(* claim: only lines that are stored near the frame it was last updated by *)
(* (Backed).  This holds of what the contexts have shown, of the working   *)
(* contexts of a run, and of every operation with those before it, which   *)
(* is what makes a partial commit safe (Backing).                          *)
(*                                                                         *)
(* That a session repeats no line rests on the converse, what an entry     *)
(* must know: of every open session whose frames came in order either its  *)
(* lines, or that it is over (Remembers).  The replay of a run from what   *)
(* was seen to the working contexts keeps that from the last operation of  *)
(* the session's context on (Transaction), which is what a commit, a late  *)
(* release and a failed run fall back on; a restart recovers it from the   *)
(* rows (HydrateRemembers).                                                *)
(***************************************************************************)
EXTENDS LineDelta, DerivedDataProofs

(* Up to a tick, frames of C in context c leave no pause.                  *)
Gapless(C, c, from, to) ==
  \A t \in from..to : t + Idle < to => \E h \in C : Context[h] = c /\ t < Time[h] /\ Time[h] <= t + Idle

(* Frames of K in the stretch of c that ends at u, and their lines; and an *)
(* entry of the deduplicator that claims nothing but those.                *)
Near(C, K, c, u) == {g \in K : Context[g] = c /\ Time[g] <= u /\ Gapless(C, c, Time[g], u)}
LinesNear(C, R, K, c, u) == UNION {R[g] : g \in Near(C, K, c, u)}
Backed(C, R, K, c, e) ==
  e.lines \subseteq LinesNear(C, R, K, c, e.last) /\ \E g \in K : Context[g] = c /\ Time[g] = e.last
AllBacked(C, R, K, W, a) == \A c \in DOMAIN a \cap W : Backed(C, R, K, c, a[c])

Of(C, c) == {f \in C : Context[f] = c}

Entries == [last : Nat, lines : SUBSET Lines]
Maps == UNION {[C -> Entries] : C \in SUBSET Contexts}

LEMMA MapEntries ==
  ASSUME NEW a \in Maps
  PROVE  DOMAIN a \in SUBSET Contexts /\ \A c \in DOMAIN a : a[c].last \in Nat /\ a[c].lines \in SUBSET Lines
<1>1. PICK C \in SUBSET Contexts : a \in [C -> Entries]
  BY DEF Maps
<1> QED
  BY <1>1 DEF Entries

LEMMA FrameFacts ==
  ASSUME NEW f \in Frames
  PROVE  Time[f] \in Nat /\ Context[f] \in Contexts /\ Text[f] \in SUBSET Lines /\ f \in Nat /\ f # 0
BY FrameAssumption DEF Frames, Contexts, Lines

LEMMA StretchGrows ==
  ASSUME NEW c, NEW C, NEW D, NEW K, NEW L, Of(C, c) \subseteq D, Of(K, c) \subseteq L, NEW u
  PROVE  Near(C, K, c, u) \subseteq Near(D, L, c, u)
<1>1. \A from : Gapless(C, c, from, u) => Gapless(D, c, from, u)
  BY DEF Gapless, Of
<1> QED
  BY <1>1 DEF Near, Of

LEMMA Longer ==
  ASSUME NEW C, NEW c, NEW from \in Nat, NEW mid \in Nat, NEW to \in Nat, from <= mid, mid <= to,
         NEW h \in C, Context[h] = c, Time[h] = mid,
         Gapless(C, c, from, mid), Gapless(C, c, mid, to)
  PROVE  Gapless(C, c, from, to)
<1> SUFFICES ASSUME NEW t \in from..to, t + Idle < to
             PROVE  \E k \in C : Context[k] = c /\ t < Time[k] /\ Time[k] <= t + Idle
  BY DEF Gapless
<1>1. Idle \in Nat /\ t \in Nat
  BY BoundAssumption
<1>2. CASE t >= mid
  <2>1. t \in mid..to
    BY <1>1, <1>2
  <2> QED
    BY <2>1 DEF Gapless
<1>3. CASE t < mid /\ t + Idle < mid
  <2>1. t \in from..mid
    BY <1>1, <1>3
  <2> QED
    BY <1>3, <2>1 DEF Gapless
<1>4. CASE t < mid /\ t + Idle >= mid
  BY <1>1, <1>4
<1> QED
  BY <1>1, <1>2, <1>3, <1>4

LEMMA Short ==
  ASSUME NEW C, NEW c, NEW from \in Nat, NEW to \in Nat, to <= from + Idle
  PROVE  Gapless(C, c, from, to)
<1>1. Idle \in Nat
  BY BoundAssumption
<1>2. \A t \in from..to : ~(t + Idle < to)
  BY <1>1
<1> QED
  BY <1>2 DEF Gapless

(* More frames, and rows that are left alone, back what was backed.        *)
LEMMA StaysBacked ==
  ASSUME NEW C, NEW R, NEW K, NEW D, NEW Q, NEW L, NEW c, NEW e,
         Of(C, c) \subseteq D, Of(K, c) \subseteq L, \A g \in Of(K, c) : Q[g] = R[g],
         Backed(C, R, K, c, e)
  PROVE  Backed(D, Q, L, c, e)
<1>1. Near(C, K, c, e.last) \subseteq Near(D, L, c, e.last)
  BY StretchGrows
<1>2. Near(C, K, c, e.last) \subseteq Of(K, c)
  BY DEF Near, Of
<1>3. LinesNear(C, R, K, c, e.last) \subseteq LinesNear(D, Q, L, c, e.last)
  BY <1>1, <1>2 DEF LinesNear
<1> QED
  BY <1>3 DEF Backed, Of

LEMMA KnownIsShown ==
  ASSUME NEW C, NEW R, NEW K \in SUBSET C, C \subseteq Frames, NEW W, NEW a \in Maps, AllBacked(C, R, K, W, a),
         NEW f \in Frames, Context[f] \in W
  PROVE  Known(a, f) \subseteq LinesNear(C, R, K, Context[f], Time[f])
<1> DEFINE c == Context[f]
           u == Time[f]
<1> SUFFICES ASSUME NEW x \in Known(a, f) PROVE x \in LinesNear(C, R, K, c, u)
  OBVIOUS
<1>1. c \in DOMAIN a /\ ~(u - a[c].last > Idle) /\ a[c].last <= u /\ x \in a[c].lines
  BY DEF Known, PruneExpired, Without
<1>2. Backed(C, R, K, c, a[c])
  BY <1>1 DEF AllBacked
<1>3. a[c].last \in Nat /\ u \in Nat /\ Idle \in Nat /\ \A g \in K : Time[g] \in Nat
  BY <1>1, MapEntries, FrameFacts, BoundAssumption
<1>4. PICK h \in K : Context[h] = c /\ Time[h] = a[c].last
  BY <1>2 DEF Backed
<1>5. PICK g \in Near(C, K, c, a[c].last) : x \in R[g]
  BY <1>1, <1>2 DEF Backed, LinesNear
<1>6. Gapless(C, c, a[c].last, u)
  BY <1>1, <1>3, Short
<1>7. Context[g] = c /\ g \in K /\ Time[g] <= a[c].last /\ Gapless(C, c, Time[g], a[c].last)
  BY <1>5 DEF Near
<1>8. Gapless(C, c, Time[g], u)
  BY <1>1, <1>3, <1>4, <1>6, <1>7, Longer
<1>9. g \in Near(C, K, c, u)
  BY <1>1, <1>3, <1>7, <1>8 DEF Near
<1> QED
  BY <1>5, <1>9 DEF LinesNear

LEMMA DeltaBacked ==
  ASSUME NEW C, NEW R, NEW K \in SUBSET C, C \subseteq Frames, NEW W, NEW a \in Maps, AllBacked(C, R, K, W, a),
         NEW f \in Frames, NEW lines \in SUBSET Lines,
         Context[f] \in W => f \in K /\ lines \subseteq LinesNear(C, R, K, Context[f], Time[f])
  PROVE  ApplyLineDelta(a, f, lines) \in Maps /\ AllBacked(C, R, K, W, ApplyLineDelta(a, f, lines))
<1> DEFINE p == PruneExpired(a, Time[f])
           b == ApplyLineDelta(a, f, lines)
           entry == [last |-> Time[f], lines |-> Known(a, f) \cup lines]
<1>1. f \in Frames /\ Time[f] \in Nat /\ Context[f] \in Contexts
  BY FrameFacts
<1>2. DOMAIN p \subseteq DOMAIN a /\ \A c \in DOMAIN p : p[c] = a[c]
  BY DEF PruneExpired, Without
<1>3. b = [c \in DOMAIN p \cup {Context[f]} |-> IF c = Context[f] THEN entry ELSE p[c]]
  BY DEF ApplyLineDelta
<1>4. Known(a, f) \in SUBSET Lines
  <2>1. \A c \in DOMAIN p : p[c].lines \in SUBSET Lines
    BY <1>2, MapEntries
  <2> QED
    BY <2>1 DEF Known
<1>5. b \in Maps
  <2>1. DOMAIN p \cup {Context[f]} \in SUBSET Contexts
    BY <1>1, <1>2, MapEntries
  <2>2. entry \in Entries
    BY <1>1, <1>4 DEF Entries
  <2>3. \A c \in DOMAIN p : p[c] \in Entries
    <3>1. PICK D \in SUBSET Contexts : a \in [D -> Entries]
      BY DEF Maps
    <3> QED
      BY <1>2, <3>1
  <2> HIDE DEF entry, p, b
  <2>4. b \in [DOMAIN p \cup {Context[f]} -> Entries]
    BY <1>3, <2>2, <2>3
  <2> QED
    BY <2>1, <2>4 DEF Maps
<1>6. ASSUME NEW c \in DOMAIN b \cap W PROVE Backed(C, R, K, c, b[c])
  <2>1. CASE c = Context[f]
    <3>1. b[c].last = Time[f] /\ b[c].lines = Known(a, f) \cup lines
      BY <1>3, <2>1
    <3>2. Known(a, f) \subseteq LinesNear(C, R, K, c, Time[f])
      BY <1>1, <1>6, <2>1, KnownIsShown
    <3> QED
      BY <1>6, <2>1, <3>1, <3>2 DEF Backed
  <2>2. CASE c # Context[f]
    <3>1. c \in DOMAIN a \cap W /\ b[c] = a[c]
      BY <1>2, <1>3, <1>6, <2>2
    <3> QED
      BY <3>1 DEF AllBacked
  <2> QED
    BY <2>1, <2>2
<1> QED
  BY <1>5, <1>6 DEF AllBacked

-----------------------------------------------------------------------------
(* What is the same of every step.  W are the contexts that no frame has   *)
(* been erased of.                                                         *)
Intact == {c \in Contexts : \A g \in erased : Context[g] # c}
InRun == {f \in content : f <= ckpt \/ f \in prepared}
UpTo(i) == {f \in content : f <= ckpt \/ \E j \in 1..i : f = ops[j]}

LinesTyped ==
  /\ content \subseteq Frames /\ upstream \subseteq Frames /\ ckpt \in Frames \cup {0}
  /\ rows \in [Frames -> SUBSET Lines] /\ \A f \in Frames : rows[f] \subseteq Text[f]
  /\ seen \in Maps /\ work \in Maps
  /\ erased \subseteq Frames
  /\ ops \in Seq(Frames) /\ prepared = Elements(ops)

(* The frames of a run are ahead of the checkpoint, and in one place.      *)
RunApart ==
  /\ todo \cup held \cup prepared \cup ({hand} \ {None}) \subseteq {f \in Frames : f > ckpt}
  /\ todo \cap held = {} /\ todo \cap prepared = {} /\ held \cap prepared = {}
  /\ hand \notin todo \cup held \cup prepared
  /\ pc = "idle" => todo = {} /\ held = {} /\ prepared = {} /\ hand = None /\ ops = <<>>

(* The lines of a frame are stored near it, and neither what the contexts  *)
(* have shown, nor what the run's transaction has, nor what the operations *)
(* up to one of them add claims a line that is not.                        *)
FramesBacked ==
  \A f \in content : Context[f] \in Intact =>
    Text[f] \subseteq LinesNear(content, rows, content, Context[f], Time[f])

OpsBacked ==
  \A i \in 1..Len(ops) : Context[ops[i]] \in Intact =>
    /\ ops[i] \in content
    /\ Text[ops[i]] \subseteq LinesNear(content, rows, UpTo(i), Context[ops[i]], Time[ops[i]])

Backing ==
  /\ FramesBacked
  /\ AllBacked(content, rows, Durable, Intact, seen)
  /\ AllBacked(content, rows, InRun, Intact, work)
  /\ OpsBacked

LinesInv == LinesTyped /\ RunApart /\ Backing

LEMMA LinesNearGrow ==
  ASSUME NEW C, NEW R, NEW K, NEW D, NEW Q, NEW L, NEW c, NEW u,
         Of(C, c) \subseteq D, Of(K, c) \subseteq L, \A g \in Of(K, c) : Q[g] = R[g]
  PROVE  LinesNear(C, R, K, c, u) \subseteq LinesNear(D, Q, L, c, u)
<1>1. Near(C, K, c, u) \subseteq Near(D, L, c, u)
  BY StretchGrows
<1>2. Near(C, K, c, u) \subseteq Of(K, c)
  BY DEF Near, Of
<1> QED
  BY <1>1, <1>2 DEF LinesNear

LEMMA NothingIsBacked ==
  /\ Nothing \in Maps
  /\ \A C, R, K, W : AllBacked(C, R, K, W, Nothing)
<1>1. DOMAIN Nothing = {}
  BY DEF Nothing
<1>2. Nothing \in [{} -> Entries]
  BY DEF Nothing
<1> QED
  BY <1>1, <1>2 DEF Maps, AllBacked

(* A map without some of its contexts claims no more.                      *)
LEMMA WithoutBacked ==
  ASSUME NEW a \in Maps, NEW X
  PROVE  /\ Without(a, X) \in Maps
         /\ \A C, R, K, W : AllBacked(C, R, K, W, a) => AllBacked(C, R, K, W, Without(a, X))
<1>1. PICK D \in SUBSET Contexts : a \in [D -> Entries]
  BY DEF Maps
<1>2. DOMAIN Without(a, X) = D \ X /\ \A c \in D \ X : Without(a, X)[c] = a[c]
  BY <1>1 DEF Without
<1>3. Without(a, X) \in [D \ X -> Entries]
  BY <1>1 DEF Without
<1>4. D \ X \in SUBSET Contexts
  BY <1>1
<1> QED
  BY <1>1, <1>2, <1>3, <1>4 DEF Maps, AllBacked

(* A step that stores nothing, and takes rows away only of contexts it     *)
(* marks.                                                                  *)
LEMMA QuietStep ==
  ASSUME LinesInv, content' \subseteq content, content \ content' \subseteq erased', erased \subseteq erased',
         rows' = rows, ckpt' = ckpt, seen' \in {seen, Nothing},
         \/ work' = work /\ ops' = ops /\ prepared' = prepared
         \/ work' = Nothing /\ ops' = <<>>
  PROVE  Backing'
<1> USE DEF LinesInv, Backing
<1>1. \A c \in Intact' : c \in Intact /\ Of(content, c) \subseteq content'
  BY DEF Intact, Of
<1>2. \A c \in Intact' : Of(Durable, c) \subseteq Durable'
  BY <1>1 DEF Durable, Of
<1>3. \A c \in Intact' : \A u :
        LinesNear(content, rows, content, c, u) \subseteq LinesNear(content', rows', content', c, u)
  BY <1>1, LinesNearGrow DEF Of
<1>4. FramesBacked'
  BY <1>1, <1>3 DEF FramesBacked
<1>5. AllBacked(content', rows', Durable', Intact', seen')
  <2>1. CASE seen' = Nothing
    BY <2>1, NothingIsBacked
  <2>2. CASE seen' = seen
    <3> SUFFICES ASSUME NEW c \in DOMAIN seen \cap Intact' PROVE Backed(content', rows', Durable', c, seen[c])
      BY <2>2 DEF AllBacked
    <3>1. Backed(content, rows, Durable, c, seen[c])
      BY <1>1 DEF AllBacked
    <3> QED
      BY <1>1, <1>2, <3>1, StaysBacked
  <2> QED
    BY <2>1, <2>2
<1>6. CASE work' = Nothing /\ ops' = <<>>
  <2>1. OpsBacked'
    BY <1>6 DEF OpsBacked
  <2> QED
    BY <1>4, <1>5, <1>6, <2>1, NothingIsBacked
<1>7. CASE work' = work /\ ops' = ops /\ prepared' = prepared
  <2>1. AllBacked(content', rows', InRun', Intact', work')
    <3> SUFFICES ASSUME NEW c \in DOMAIN work \cap Intact' PROVE Backed(content', rows', InRun', c, work[c])
      BY <1>7 DEF AllBacked
    <3>1. Backed(content, rows, InRun, c, work[c])
      BY <1>1 DEF AllBacked
    <3>2. Of(InRun, c) \subseteq InRun'
      BY <1>1, <1>7 DEF InRun, Of
    <3> QED
      BY <1>1, <3>1, <3>2, StaysBacked
  <2>2. OpsBacked'
    <3> SUFFICES ASSUME NEW i \in 1..Len(ops), Context[ops[i]] \in Intact'
                 PROVE  /\ ops[i] \in content'
                        /\ Text[ops[i]] \subseteq
                             LinesNear(content', rows', UpTo(i)', Context[ops[i]], Time[ops[i]])
      BY <1>7 DEF OpsBacked
    <3>1. /\ ops[i] \in content
          /\ Text[ops[i]] \subseteq LinesNear(content, rows, UpTo(i), Context[ops[i]], Time[ops[i]])
      BY <1>1 DEF OpsBacked
    <3>2. ops[i] \in Of(content, Context[ops[i]])
      BY <3>1 DEF Of
    <3>3. Of(UpTo(i), Context[ops[i]]) \subseteq UpTo(i)'
      BY <1>1, <1>7 DEF UpTo, Of
    <3> QED
      BY <1>1, <3>1, <3>2, <3>3, LinesNearGrow
  <2> QED
    BY <1>4, <1>5, <2>1, <2>2
<1> QED
  BY <1>6, <1>7

-----------------------------------------------------------------------------
(* Replays are recursive functions.                                        *)

(* A set of numbers with 0, and with the next after each, has them all.    *)
LEMMA FromZero ==
  ASSUME NEW n \in Nat, NEW S, 0 \in S, \A k \in 0..n - 1 : k \in S => k + 1 \in S
  PROVE  \A k \in 0..n : k \in S
<1> DEFINE left == (0..n) \ S
<1> SUFFICES ASSUME left # {} PROVE FALSE
  OBVIOUS
<1>1. left \in SUBSET Nat
  OBVIOUS
<1>2. PICK k \in left : \A m \in left : k <= m
  <2> HIDE DEF left
  <2> QED
    BY <1>1, LeastNumber
<1>3. k \in 0..n /\ k # 0 /\ k \notin S
  OBVIOUS
<1>4. k - 1 \in 0..n - 1 /\ k - 1 \in 0..n /\ (k - 1) + 1 = k
  BY <1>3
<1>5. k - 1 \notin left
  <2>1. k \in Nat /\ k - 1 \in Nat
    BY <1>3, <1>4
  <2> HIDE DEF left
  <2> QED
    BY <1>2, <2>1
<1> QED
  BY <1>3, <1>4, <1>5

(* What is defined step by step from 0 to n exists.                        *)
Defines(n, D, start, step) ==
  \E f \in [0..n -> D] : f[0] = start /\ \A k \in 1..n : f[k] = step[k][f[k - 1]]

LEMMA Recursion ==
  ASSUME NEW n \in Nat, NEW D, NEW start \in D, NEW step \in [1..n -> [D -> D]]
  PROVE  Defines(n, D, start, step)
<1> DEFINE Runs(m, f) == f[0] = start /\ \A k \in 1..m : f[k] = step[k][f[k - 1]]
           done == {m \in 0..n : \E f \in [0..m -> D] : Runs(m, f)}
<1>1. 0 \in done
  <2>1. [k \in 0..0 |-> start] \in [0..0 -> D] /\ Runs(0, [k \in 0..0 |-> start])
    OBVIOUS
  <2> HIDE DEF Runs
  <2> QED
    BY <2>1
<1>2. ASSUME NEW m \in 0..n - 1, m \in done PROVE m + 1 \in done
  <2>1. PICK f \in [0..m -> D] : Runs(m, f)
    BY <1>2
  <2>2. m \in Nat /\ m + 1 \in 1..n /\ m + 1 \in 0..n /\ m \in 0..m
    OBVIOUS
  <2> DEFINE g == [k \in 0..m + 1 |-> IF k = m + 1 THEN step[m + 1][f[m]] ELSE f[k]]
  <2>3. f[m] \in D
    BY <2>2
  <2>4. step[m + 1][f[m]] \in D
    BY <2>2, <2>3
  <2>5. g \in [0..m + 1 -> D]
    <3>1. ASSUME NEW k \in 0..m + 1 PROVE (IF k = m + 1 THEN step[m + 1][f[m]] ELSE f[k]) \in D
      <4>1. k # m + 1 => k \in 0..m
        BY <2>2
      <4> QED
        BY <2>4, <4>1
    <3> QED
      BY <3>1
  <2>6. ASSUME NEW k \in 1..m + 1 PROVE g[k] = step[k][g[k - 1]]
    <3>1. CASE k = m + 1
      <4>1. k - 1 = m /\ k \in 0..m + 1 /\ m \in 0..m + 1 /\ m # m + 1
        BY <2>2, <3>1
      <4>2. g[k] = step[m + 1][f[m]] /\ g[k - 1] = f[m]
        BY <3>1, <4>1
      <4> HIDE DEF g
      <4> QED
        BY <3>1, <4>2
    <3>2. CASE k # m + 1
      <4>1. k \in 1..m /\ k \in 0..m + 1 /\ k - 1 \in 0..m + 1 /\ k - 1 # m + 1
        BY <2>2, <3>2
      <4>2. g[k] = f[k] /\ g[k - 1] = f[k - 1]
        BY <3>2, <4>1
      <4>3. f[k] = step[k][f[k - 1]]
        BY <2>1, <4>1
      <4> HIDE DEF g
      <4> QED
        BY <4>2, <4>3
    <3> QED
      BY <3>1, <3>2
  <2>7. g[0] = start
    <3>1. 0 \in 0..m + 1 /\ 0 # m + 1
      BY <2>2
    <3> QED
      BY <2>1, <3>1
  <2>8. Runs(m + 1, g)
    <3> HIDE DEF g
    <3> QED
      BY <2>6, <2>7
  <2> HIDE DEF Runs, g
  <2> QED
    BY <2>2, <2>5, <2>8
<1>3. n \in done
  <2>1. n \in 0..n
    OBVIOUS
  <2> HIDE DEF done
  <2> QED
    BY <1>1, <1>2, <2>1, FromZero
<1> QED
  BY <1>3 DEF Defines

LEMMA DeltaTyped ==
  ASSUME NEW a \in Maps, NEW f \in Frames, NEW lines \in SUBSET Lines
  PROVE  ApplyLineDelta(a, f, lines) \in Maps
<1>1. PICK W : W = {}
  OBVIOUS
<1>2. AllBacked(Frames, rows, Frames, W, a)
  BY <1>1 DEF AllBacked
<1>3. Context[f] \notin W
  BY <1>1
<1>4. ApplyLineDelta(a, f, lines) \in Maps /\ AllBacked(Frames, rows, Frames, W, ApplyLineDelta(a, f, lines))
  BY <1>2, <1>3, DeltaBacked
<1> QED
  BY <1>4

(* Hydration replays the stored lines of frames behind the checkpoint.     *)
HydrateTo(a, f) == IF f \in Hydratable THEN ApplyLineDelta(a, f, rows[f]) ELSE a
Hydrates(a, g) ==
  /\ g \in [0..N -> Maps] /\ g[0] = a /\ \A k \in 1..N : g[k] = HydrateTo(g[k - 1], k)
  /\ Hydrate(a) = g[N]

LEMMA HydrateTyped ==
  ASSUME LinesTyped, NEW a \in Maps, NEW f \in 1..N
  PROVE  HydrateTo(a, f) \in Maps
<1>1. f \in Frames /\ rows[f] \in SUBSET Lines
  BY DEF LinesTyped, Frames
<1> QED
  BY <1>1, DeltaTyped DEF HydrateTo

LEMMA HydrateFunction ==
  ASSUME LinesTyped, NEW a \in Maps
  PROVE  \E g : Hydrates(a, g)
<1> DEFINE step == [f \in 1..N |-> [b \in Maps |-> HydrateTo(b, f)]]
           after == CHOOSE g : g = [f \in 0..N |-> IF f = 0 THEN a ELSE HydrateTo(g[f - 1], f)]
<1>1. N \in Nat /\ \A k \in 1..N : k - 1 \in 0..N
  BY FrameAssumption
<1>2. step \in [1..N -> [Maps -> Maps]]
  BY HydrateTyped
<1>3. PICK g \in [0..N -> Maps] : g[0] = a /\ \A k \in 1..N : g[k] = step[k][g[k - 1]]
  <2> HIDE DEF step
  <2>1. Defines(N, Maps, a, step)
    BY <1>1, <1>2, Recursion
  <2> QED
    BY <2>1 DEF Defines
<1>4. ASSUME NEW k \in 1..N PROVE g[k] = HydrateTo(g[k - 1], k)
  <2>1. g[k - 1] \in Maps
    BY <1>1, <1>3
  <2> QED
    BY <1>3, <2>1
<1>5. g = [f \in 0..N |-> IF f = 0 THEN a ELSE HydrateTo(g[f - 1], f)]
  <2>1. \A k \in 0..N : k = 0 \/ k \in 1..N
    BY <1>1
  <2> QED
    BY <1>3, <1>4, <2>1
<1>6. after = [f \in 0..N |-> IF f = 0 THEN a ELSE HydrateTo(after[f - 1], f)]
  BY <1>5
<1> HIDE DEF after
<1>7. /\ after[0] = a /\ \A k \in 1..N : after[k] = HydrateTo(after[k - 1], k)
      /\ after = [k \in 0..N |-> after[k]]
  <2>1. 0 \in 0..N /\ \A k \in 1..N : k \in 0..N /\ k # 0
    BY <1>1
  <2>2. after[0] = a
    BY <1>6, <2>1
  <2>3. \A k \in 1..N : after[k] = HydrateTo(after[k - 1], k)
    BY <1>6, <2>1
  <2>4. DOMAIN after = 0..N
    BY <1>6
  <2> QED
    BY <1>6, <2>2, <2>3, <2>4
<1>8. \A k \in 0..N : k \in {m \in 0..N : after[m] \in Maps}
  <2> DEFINE S == {m \in 0..N : after[m] \in Maps}
  <2>1. 0 \in S
    BY <1>1, <1>7
  <2>2. ASSUME NEW k \in 0..N - 1, k \in S PROVE k + 1 \in S
    <3>1. k + 1 \in 1..N /\ k + 1 \in 0..N /\ (k + 1) - 1 = k
      BY <1>1
    <3> QED
      BY <1>7, <2>2, <3>1, HydrateTyped
  <2> HIDE DEF S
  <2>3. \A k \in 0..N : k \in S
    BY <1>1, <2>1, <2>2, FromZero
  <2> QED
    BY <2>3 DEF S
<1>9. after \in [0..N -> Maps]
  BY <1>7, <1>8
<1>10. Hydrate(a) = after[N]
  BY DEF Hydrate, HydrateTo, after
<1> QED
  BY <1>7, <1>9, <1>10 DEF Hydrates

LEMMA HydrateBacked ==
  ASSUME LinesTyped, NEW W, NEW a \in Maps, AllBacked(content, rows, Durable, W, a)
  PROVE  Hydrate(a) \in Maps /\ AllBacked(content, rows, Durable, W, Hydrate(a))
<1>1. PICK g : Hydrates(a, g)
  BY HydrateFunction
<1>2. N \in Nat
  BY FrameAssumption
<1> DEFINE S == {k \in 0..N : AllBacked(content, rows, Durable, W, g[k])}
<1>3. 0 \in S
  BY <1>1, <1>2 DEF Hydrates
<1>4. ASSUME NEW k \in 0..N - 1, k \in S PROVE k + 1 \in S
  <2>1. k + 1 \in 1..N /\ k + 1 \in 0..N /\ (k + 1) - 1 = k /\ k \in 0..N
    BY <1>2
  <2> DEFINE f == k + 1
  <2>2. g[k] \in Maps /\ g[f] = HydrateTo(g[k], f)
    BY <1>1, <2>1 DEF Hydrates
  <2> HIDE DEF f
  <2>3. CASE f \in Hydratable
    <3>1. f \in Durable /\ f \in Frames /\ Durable \in SUBSET content /\ content \subseteq Frames
      BY <2>3 DEF Hydratable, Durable, LinesTyped
    <3>2. rows[f] \in SUBSET Lines
      BY <3>1 DEF LinesTyped
    <3>3. rows[f] \subseteq LinesNear(content, rows, Durable, Context[f], Time[f])
      <4>1. Time[f] \in Nat /\ Idle \in Nat
        BY <3>1, FrameFacts, BoundAssumption
      <4>2. Gapless(content, Context[f], Time[f], Time[f])
        BY <4>1, Short
      <4> QED
        BY <3>1, <4>1, <4>2 DEF Near, LinesNear
    <3>4. AllBacked(content, rows, Durable, W, g[k])
      BY <1>4
    <3>5. AllBacked(content, rows, Durable, W, ApplyLineDelta(g[k], f, rows[f]))
      BY <2>2, <3>1, <3>2, <3>3, <3>4, DeltaBacked
    <3> QED
      BY <2>1, <2>2, <2>3, <3>5 DEF HydrateTo, f
  <2>4. CASE f \notin Hydratable
    BY <1>4, <2>1, <2>2, <2>4 DEF HydrateTo, f
  <2> QED
    BY <2>3, <2>4
<1>5. N \in S
  <2>1. N \in 0..N
    BY <1>2
  <2> HIDE DEF S
  <2> QED
    BY <1>2, <1>3, <1>4, <2>1, FromZero
<1> QED
  BY <1>1, <1>2, <1>5 DEF Hydrates

(* A frame that is stored again leaves out only what stays stored near it. *)
LEMMA ProcessStep ==
  ASSUME LinesInv, NEW x \in Frames, x > ckpt, x \notin prepared, Process(x),
         content' = content \cup {x}, prepared' = prepared \cup {x}, ckpt' = ckpt
  PROVE  /\ Backing'
         /\ rows' \in [Frames -> SUBSET Lines] /\ \A f \in Frames : rows'[f] \subseteq Text[f]
         /\ work' \in Maps /\ ops' \in Seq(Frames) /\ prepared' = Elements(ops')
<1> DEFINE c == Context[x]
           u == Time[x]
<1>1. /\ content \subseteq Frames /\ ckpt \in Frames \cup {0} /\ ops \in Seq(Frames) /\ prepared = Elements(ops)
      /\ rows \in [Frames -> SUBSET Lines] /\ work \in Maps
      /\ \A f \in Frames : rows[f] \subseteq Text[f]
  BY DEF LinesInv, LinesTyped
<1>2. /\ AllBacked(content, rows, Durable, Intact, seen) /\ AllBacked(content, rows, InRun, Intact, work)
      /\ FramesBacked /\ OpsBacked
  BY DEF LinesInv, Backing
<1>3. c \in Contexts /\ u \in Nat /\ Text[x] \in SUBSET Lines /\ x \in Nat /\ Idle \in Nat /\ ckpt \in Nat
  BY <1>1, FrameFacts, BoundAssumption
<1>4. /\ rows' = [rows EXCEPT ![x] = Text[x] \ Known(work, x)]
      /\ work' = ApplyLineDelta(work, x, Text[x]) /\ ops' = Append(ops, x)
      /\ seen' = seen /\ erased' = erased /\ Intact' = Intact
  BY DEF Process, Delta, Intact
<1>5. /\ rows'[x] = Text[x] \ Known(work, x) /\ \A g \in Frames \ {x} : rows'[g] = rows[g]
      /\ rows' \in [Frames -> SUBSET Lines]
  BY <1>1, <1>3, <1>4
<1>6. /\ Len(ops) \in Nat /\ Len(ops') = Len(ops) + 1 /\ ops'[Len(ops) + 1] = x /\ ops' \in Seq(Frames)
      /\ \A i \in 1..Len(ops) : ops'[i] = ops[i] /\ ops[i] \in Frames
      /\ Elements(ops') = Elements(ops) \cup {x}
  BY <1>1, <1>4, ElementsOfAppend
<1>0. ~(x <= ckpt)
  BY <1>3
<1>7. x \notin InRun /\ x \notin Durable /\ InRun \subseteq Frames /\ Durable \subseteq Frames
  <2>1. x \notin InRun /\ x \notin Durable
    BY <1>0, Zenon DEF InRun, Durable
  <2> QED
    BY <1>1, <2>1 DEF InRun, Durable
<1>8. InRun' = InRun \cup {x} /\ Durable' = Durable
  BY <1>1, <1>3 DEF InRun, Durable
<1>9. InRun' \subseteq content' /\ content' \subseteq Frames /\ Durable \subseteq content'
  BY <1>1 DEF InRun, Durable
<1>10. AllBacked(content', rows', InRun', Intact, work)
  <2> SUFFICES ASSUME NEW d \in DOMAIN work \cap Intact PROVE Backed(content', rows', InRun', d, work[d])
    BY DEF AllBacked
  <2>1. Backed(content, rows, InRun, d, work[d])
    BY <1>2 DEF AllBacked
  <2>2. \A g \in Of(InRun, d) : rows'[g] = rows[g]
    BY <1>5, <1>7 DEF Of
  <2>3. Of(content, d) \subseteq content' /\ Of(InRun, d) \subseteq InRun'
    BY <1>8 DEF Of
  <2> QED
    BY <2>1, <2>2, <2>3, StaysBacked
<1>11. ASSUME c \in Intact PROVE Text[x] \subseteq LinesNear(content', rows', InRun', c, u)
  <2>1. Known(work, x) \subseteq LinesNear(content', rows', InRun', c, u)
    BY <1>1, <1>9, <1>10, <1>11, KnownIsShown
  <2>2. x \in Near(content', InRun', c, u)
    <3>1. Gapless(content', c, u, u)
      BY <1>3, Short
    <3> QED
      BY <1>3, <1>8, <3>1 DEF Near
  <2>3. rows'[x] \subseteq LinesNear(content', rows', InRun', c, u)
    BY <2>2 DEF LinesNear
  <2> QED
    BY <1>5, <2>1, <2>3
<1>12. work' \in Maps /\ AllBacked(content', rows', InRun', Intact, work')
  <2>1. x \in InRun' /\ InRun' \in SUBSET content'
    BY <1>8, <1>9
  <2>2. Context[x] \in Intact => Text[x] \subseteq LinesNear(content', rows', InRun', Context[x], Time[x])
    BY <1>11
  <2>3. work \in Maps /\ content' \subseteq Frames /\ Text[x] \in SUBSET Lines
    BY <1>1, <1>3, <1>9
  <2> HIDE DEF c, u
  <2>4. /\ ApplyLineDelta(work, x, Text[x]) \in Maps
        /\ AllBacked(content', rows', InRun', Intact, ApplyLineDelta(work, x, Text[x]))
    BY <1>10, <2>1, <2>2, <2>3, DeltaBacked
  <2> QED
    BY <1>4, <2>4
<1>13. AllBacked(content', rows', Durable, Intact, seen)
  <2> SUFFICES ASSUME NEW d \in DOMAIN seen \cap Intact PROVE Backed(content', rows', Durable, d, seen[d])
    BY DEF AllBacked
  <2>1. Backed(content, rows, Durable, d, seen[d])
    BY <1>2 DEF AllBacked
  <2>2. \A g \in Of(Durable, d) : rows'[g] = rows[g]
    BY <1>5, <1>7 DEF Of
  <2>3. Of(content, d) \subseteq content' /\ Of(Durable, d) \subseteq Durable
    BY DEF Of
  <2> QED
    BY <2>1, <2>2, <2>3, StaysBacked
<1>14. FramesBacked'
  <2> SUFFICES ASSUME NEW f \in content', Context[f] \in Intact, NEW line \in Text[f]
               PROVE  line \in LinesNear(content', rows', content', Context[f], Time[f])
    BY <1>4 DEF FramesBacked
  <2>1. CASE f = x
    <3>1. PICK g \in Near(content', InRun', c, u) : line \in rows'[g]
      BY ZenonT(30), <1>11, <2>1 DEF LinesNear
    <3>2. g \in Near(content', content', c, u)
      BY <1>9, <3>1 DEF Near
    <3> QED
      BY <2>1, <3>1, <3>2 DEF LinesNear
  <2>2. CASE f # x
    <3>1. f \in content
      BY <2>2
    <3>2. PICK g \in Near(content, content, Context[f], Time[f]) : line \in rows[g]
      BY <1>2, <3>1 DEF FramesBacked, LinesNear
    <3>3. g \in Near(content', content', Context[f], Time[f])
      <4>1. Of(content, Context[f]) \subseteq content'
        BY DEF Of
      <4> QED
        BY <3>2, <4>1, StretchGrows
    <3>4. CASE g # x
      <4>1. g \in Frames
        BY <1>1, <3>2 DEF Near
      <4>2. line \in rows'[g]
        BY <1>5, <3>2, <3>4, <4>1
      <4> QED
        BY <3>3, <4>2 DEF LinesNear
    <3>5. CASE g = x
      <4>1. Context[f] = c /\ u <= Time[f] /\ Gapless(content', c, u, Time[f]) /\ line \in Text[x]
        BY <1>1, <3>2, <3>3, <3>5 DEF Near
      <4>2. PICK h \in Near(content', InRun', c, u) : line \in rows'[h]
        BY <1>11, <4>1 DEF LinesNear
      <4>3. /\ h \in content' /\ h \in Frames /\ Context[h] = c /\ Time[h] <= u
            /\ Gapless(content', c, Time[h], u)
        BY <1>9, <4>2 DEF Near
      <4>4. Time[h] \in Nat /\ Time[f] \in Nat /\ x \in content'
        BY <1>8, <1>9, <4>3, FrameFacts
      <4>5. Gapless(content', c, Time[h], Time[f])
        BY <1>3, <4>1, <4>3, <4>4, Longer
      <4>6. Time[h] <= Time[f]
        BY <1>3, <4>1, <4>3, <4>4
      <4>7. h \in Near(content', content', c, Time[f])
        BY <4>3, <4>5, <4>6 DEF Near
      <4> QED
        BY <4>1, <4>2, <4>7 DEF LinesNear
    <3> QED
      BY <3>4, <3>5
  <2> QED
    BY <2>1, <2>2
<1>15. OpsBacked'
  <2> SUFFICES ASSUME NEW i \in 1..Len(ops'), Context[ops'[i]] \in Intact
               PROVE  /\ ops'[i] \in content'
                      /\ Text[ops'[i]] \subseteq
                           LinesNear(content', rows', UpTo(i)', Context[ops'[i]], Time[ops'[i]])
    BY <1>4 DEF OpsBacked
  <2>1. CASE i = Len(ops) + 1
    <3>1. ops'[i] = x /\ 1..Len(ops') = 1..i
      BY <1>6, <2>1
    <3>2. InRun' \subseteq UpTo(i)'
      <4>1. \A f \in prepared' : \E j \in 1..Len(ops') : f = ops'[j]
        BY <1>1, <1>6 DEF Elements
      <4> QED
        BY <3>1, <4>1 DEF InRun, UpTo
    <3>3. \A d : Of(InRun', d) \subseteq UpTo(i)' /\ Of(content', d) \subseteq content'
      BY <3>2 DEF Of
    <3>4. LinesNear(content', rows', InRun', c, u) \subseteq LinesNear(content', rows', UpTo(i)', c, u)
      BY <3>3, LinesNearGrow
    <3>5. Text[x] \subseteq LinesNear(content', rows', InRun', c, u)
      BY <1>11, <2>1, <3>1
    <3> QED
      BY <3>1, <3>4, <3>5
  <2>2. CASE i # Len(ops) + 1
    <3>1. i \in 1..Len(ops) /\ ops'[i] = ops[i] /\ ops[i] \in Frames
      BY <1>6, <2>2
    <3>2. /\ ops[i] \in content
          /\ Text[ops[i]] \subseteq LinesNear(content, rows, UpTo(i), Context[ops[i]], Time[ops[i]])
      BY <1>2, <3>1 DEF OpsBacked
    <3>3. \A j \in 1..i : j \in 1..Len(ops) /\ ops'[j] = ops[j]
      BY <1>6, <3>1
    <3>4. UpTo(i) \subseteq UpTo(i)'
      BY <3>3 DEF UpTo
    <3>5. x \notin UpTo(i) /\ UpTo(i) \subseteq Frames
      <4>1. \A j \in 1..i : ops[j] # x
        BY <1>1, <3>3 DEF Elements
      <4> QED
        <5>1. x \notin UpTo(i)
          BY <1>0, <4>1, Zenon DEF UpTo
        <5> QED
          BY <1>1, <5>1 DEF UpTo
    <3>6. \A d : /\ Of(content, d) \subseteq content' /\ Of(UpTo(i), d) \subseteq UpTo(i)'
                 /\ \A g \in Of(UpTo(i), d) : rows'[g] = rows[g]
      BY <1>5, <3>4, <3>5 DEF Of
    <3>7. LinesNear(content, rows, UpTo(i), Context[ops[i]], Time[ops[i]])
            \subseteq LinesNear(content', rows', UpTo(i)', Context[ops[i]], Time[ops[i]])
      BY <3>6, LinesNearGrow
    <3> QED
      BY <3>1, <3>2, <3>7
  <2> QED
    BY <2>1, <2>2
<1>16. \A f \in Frames : rows'[f] \subseteq Text[f]
  BY <1>1, <1>5
<1>17. Backing'
  BY <1>4, <1>8, <1>12, <1>13, <1>14, <1>15 DEF Backing
<1> QED
  BY <1>1, <1>5, <1>6, <1>12, <1>16, <1>17

(* A commit replays the operations.                                        *)
Replays == [contexts : Maps, blocked : SUBSET Contexts]
Commits(g) ==
  /\ g \in [0..Len(ops) -> Replays]
  /\ g[0].contexts = seen /\ g[0].blocked = {}
  /\ \A k \in 1..Len(ops) : g[k] = Replay(Accepted, g[k - 1], ops[k])
  /\ Commit(Accepted) = g[Len(ops)].contexts

LEMMA ReplayCases ==
  ASSUME NEW acc, NEW f
  PROVE  \/ /\ f \notin Accepted /\ Text[f] # {}
            /\ Replay(Accepted, acc, f) = [acc EXCEPT !.blocked = @ \cup {Context[f]}]
         \/ /\ f \in Accepted /\ Context[f] \notin acc.blocked
            /\ Replay(Accepted, acc, f) = [acc EXCEPT !.contexts = ApplyLineDelta(@, f, Text[f])]
         \/ /\ \/ f \notin Accepted /\ Text[f] = {}
               \/ f \in Accepted /\ Context[f] \in acc.blocked
            /\ Replay(Accepted, acc, f) = acc
BY DEF Replay

LEMMA ReplayTyped ==
  ASSUME NEW acc \in Replays, NEW f \in Frames
  PROVE  Replay(Accepted, acc, f) \in Replays
<1>1. /\ Context[f] \in Contexts /\ Text[f] \in SUBSET Lines
      /\ acc.contexts \in Maps /\ acc.blocked \in SUBSET Contexts
  BY FrameFacts DEF Replays
<1>2. ApplyLineDelta(acc.contexts, f, Text[f]) \in Maps
  BY <1>1, DeltaTyped
<1> QED
  BY <1>1, <1>2, ReplayCases DEF Replays

LEMMA CommitFunction ==
  ASSUME LinesTyped
  PROVE  \E g : Commits(g)
<1> DEFINE L == Len(ops)
           start == [contexts |-> seen, blocked |-> {}]
           step == [i \in 1..L |-> [acc \in Replays |-> Replay(Accepted, acc, ops[i])]]
           after == CHOOSE g : g = [i \in 0..L |-> IF i = 0 THEN start ELSE Replay(Accepted, g[i - 1], ops[i])]
<1>1. L \in Nat /\ \A k \in 1..L : k - 1 \in 0..L /\ ops[k] \in Frames
  BY DEF LinesTyped
<1>2. start \in Replays
  BY DEF Replays, LinesTyped
<1>3. step \in [1..L -> [Replays -> Replays]]
  <2> HIDE DEF L
  <2> QED
    BY <1>1, ReplayTyped
<1>4. PICK g \in [0..L -> Replays] : g[0] = start /\ \A k \in 1..L : g[k] = step[k][g[k - 1]]
  <2> HIDE DEF step, start, L
  <2>1. Defines(L, Replays, start, step)
    BY <1>1, <1>2, <1>3, Recursion
  <2> QED
    BY <2>1 DEF Defines
<1>5. ASSUME NEW k \in 1..L PROVE g[k] = Replay(Accepted, g[k - 1], ops[k])
  <2>1. g[k - 1] \in Replays
    <3> HIDE DEF L
    <3> QED
      BY <1>1, <1>4
  <2>2. g[k] = step[k][g[k - 1]]
    <3> HIDE DEF L, step
    <3> QED
      BY <1>4
  <2> HIDE DEF L
  <2> QED
    BY <2>1, <2>2
<1>6. g = [i \in 0..L |-> IF i = 0 THEN start ELSE Replay(Accepted, g[i - 1], ops[i])]
  <2> HIDE DEF L, start, step
  <2>1. \A k \in 0..L : k = 0 \/ k \in 1..L
    BY <1>1
  <2> QED
    BY <1>4, <1>5, <2>1
<1>7. after = [i \in 0..L |-> IF i = 0 THEN start ELSE Replay(Accepted, after[i - 1], ops[i])]
  <2> HIDE DEF L, start, step
  <2> QED
    BY <1>6
<1>8. Commit(Accepted) = after[L].contexts
  BY DEF Commit
<1> HIDE DEF after, L, step, start
<1>9. after[0] = start /\ \A k \in 1..L : after[k] = Replay(Accepted, after[k - 1], ops[k])
  <2>1. 0 \in 0..L /\ \A k \in 1..L : k \in 0..L /\ k # 0
    BY <1>1
  <2> QED
    BY <1>7, <2>1
<1>10. \A k \in 0..L : k \in {m \in 0..L : after[m] \in Replays}
  <2> DEFINE S == {m \in 0..L : after[m] \in Replays}
  <2>1. 0 \in S
    BY <1>1, <1>2, <1>9
  <2>2. ASSUME NEW k \in 0..L - 1, k \in S PROVE k + 1 \in S
    <3>1. k + 1 \in 1..L /\ k + 1 \in 0..L /\ (k + 1) - 1 = k
      BY <1>1
    <3>2. after[k] \in Replays /\ ops[k + 1] \in Frames
      BY <1>1, <2>2, <3>1
    <3>3. after[k + 1] = Replay(Accepted, after[k], ops[k + 1])
      BY <1>9, <3>1
    <3> QED
      BY <3>1, <3>2, <3>3, ReplayTyped
  <2> HIDE DEF S
  <2>3. \A k \in 0..L : k \in S
    BY <1>1, <2>1, <2>2, FromZero
  <2> QED
    BY <2>3 DEF S
<1>11. after \in [0..L -> Replays]
  BY <1>7, <1>10
<1>12. after[0].contexts = seen /\ after[0].blocked = {}
  BY <1>9 DEF start
<1> QED
  BY <1>8, <1>9, <1>11, <1>12 DEF Commits, L

(* What the deduplicator takes up of a run is stored behind the checkpoint *)
(* n that the run sets: a frame that is not blocked has lost no line to one *)
(* that is not accepted.                                                   *)
LEMMA CommitBacked ==
  ASSUME LinesInv, NEW n \in Frames \cup {0}, ckpt <= n, \A f \in Accepted : f <= n
  PROVE  /\ Commit(Accepted) \in Maps
         /\ AllBacked(content, rows, {f \in content : f <= n}, Intact, Commit(Accepted))
<1> DEFINE L == Len(ops)
           K == {f \in content : f <= n}
           Fine(i, acc) ==
             /\ AllBacked(content, rows, K, Intact, acc.contexts)
             /\ \A j \in 1..i : ops[j] \notin Accepted /\ Text[ops[j]] # {} => Context[ops[j]] \in acc.blocked
<1>1. /\ content \subseteq Frames /\ ckpt \in Nat /\ n \in Nat /\ ops \in Seq(Frames) /\ prepared = Elements(ops)
      /\ rows \in [Frames -> SUBSET Lines] /\ seen \in Maps /\ \A f \in Frames : rows[f] \subseteq Text[f]
  <2>1. Frames \subseteq Nat
    BY DEF Frames
  <2> QED
    BY <2>1 DEF LinesInv, LinesTyped
<1>2. L \in Nat /\ \A i \in 1..L : ops[i] \in Frames
  BY <1>1
<1>3. AllBacked(content, rows, Durable, Intact, seen) /\ OpsBacked
  BY DEF LinesInv, Backing
<1>4. ASSUME NEW i \in 1..L, NEW acc \in Replays, Fine(i - 1, acc) PROVE Fine(i, Replay(Accepted, acc, ops[i]))
  <2> DEFINE f == ops[i]
             c == Context[f]
             u == Time[f]
  <2>1. f \in Frames /\ c \in Contexts /\ acc.contexts \in Maps /\ acc.blocked \in SUBSET Contexts
    BY <1>2, FrameFacts DEF Replays
  <2>2. /\ \A j \in 1..i : j = i \/ j \in 1..i - 1
        /\ \A j \in 1..i : j \in 1..L
    BY <1>2
  <2>3. CASE f \notin Accepted /\ Replay(Accepted, acc, ops[i]) = [acc EXCEPT !.blocked = @ \cup {c}]
    <3>1. Replay(Accepted, acc, ops[i]).contexts = acc.contexts /\ Replay(Accepted, acc, ops[i]).blocked = acc.blocked \cup {c}
      BY <2>3
    <3> HIDE DEF K
    <3> QED
      BY <1>4, <2>2, <3>1
  <2>4. CASE /\ f \in Accepted /\ c \notin acc.blocked
             /\ Replay(Accepted, acc, ops[i]) = [acc EXCEPT !.contexts = ApplyLineDelta(@, f, Text[f])]
    <3>1. /\ Replay(Accepted, acc, ops[i]).contexts = ApplyLineDelta(acc.contexts, f, Text[f])
          /\ Replay(Accepted, acc, ops[i]).blocked = acc.blocked
      BY <2>4
    <3>2. ASSUME c \in Intact PROVE f \in K /\ Text[f] \subseteq LinesNear(content, rows, K, c, u)
      <4>1. f \in content /\ Text[f] \subseteq LinesNear(content, rows, UpTo(i), c, u)
        BY <1>3, <3>2 DEF OpsBacked
      <4>2. f \in K
        BY <2>4, <4>1
      <4>3. ASSUME NEW line \in Text[f] PROVE line \in LinesNear(content, rows, K, c, u)
        <5>1. PICK g \in Near(content, UpTo(i), c, u) : line \in rows[g]
          BY <4>1 DEF LinesNear
        <5>2. /\ g \in content /\ g \in Frames /\ Context[g] = c /\ Time[g] <= u /\ Gapless(content, c, Time[g], u)
              /\ g <= ckpt \/ \E j \in 1..i : g = ops[j]
          BY <1>1, <5>1 DEF Near, UpTo
        <5>3. Text[g] # {}
          BY <1>1, <5>1, <5>2
        <5>4. g <= n
          <6>1. CASE g <= ckpt
            <7>1. g \in Nat
              BY <5>2 DEF Frames
            <7> QED
              BY <1>1, <6>1, <7>1
          <6>2. CASE g \in Accepted
            BY <6>2
          <6>3. CASE ~(g <= ckpt) /\ g \notin Accepted
            <7>1. PICK j \in 1..i : g = ops[j]
              BY <5>2, <6>3
            <7>2. j \in 1..i - 1
              BY <2>2, <2>4, <6>3, <7>1
            <7>3. Context[ops[j]] \in acc.blocked
              BY <1>4, <5>3, <6>3, <7>1, <7>2
            <7> QED
              BY <2>4, <5>2, <7>1, <7>3
          <6> QED
            BY <6>1, <6>2, <6>3
        <5>5. g \in Near(content, K, c, u)
          BY <5>2, <5>4 DEF Near
        <5> QED
          BY <5>1, <5>5 DEF LinesNear
      <4> QED
        BY <4>2, <4>3
    <3>3. AllBacked(content, rows, K, Intact, ApplyLineDelta(acc.contexts, f, Text[f]))
      <4>1. K \in SUBSET content /\ content \subseteq Frames /\ Text[f] \in SUBSET Lines
        BY <1>1, <2>1, FrameFacts
      <4>2. AllBacked(content, rows, K, Intact, acc.contexts)
        BY <1>4
      <4>3. Context[f] \in Intact => f \in K /\ Text[f] \subseteq LinesNear(content, rows, K, Context[f], Time[f])
        BY <3>2
      <4> HIDE DEF K, f, c, u
      <4> QED
        BY <2>1, <4>1, <4>2, <4>3, DeltaBacked
    <3> HIDE DEF K
    <3> QED
      BY <1>4, <2>2, <2>4, <3>1, <3>3
  <2>5. CASE /\ f \in Accepted \/ Text[f] = {}
             /\ Replay(Accepted, acc, ops[i]) = acc
    <3> HIDE DEF K
    <3> QED
      BY <1>4, <2>2, <2>5
  <2> QED
    BY <2>3, <2>4, <2>5, ReplayCases
<1>5. AllBacked(content, rows, K, Intact, seen)
  <2>1. ASSUME NEW c \in DOMAIN seen \cap Intact PROVE Backed(content, rows, K, c, seen[c])
    <3>1. Backed(content, rows, Durable, c, seen[c])
      BY <1>3 DEF AllBacked
    <3>2. Of(Durable, c) \subseteq K
      <4>1. \A g \in content : g \in Nat
        <5>1. Frames \subseteq Nat
          BY DEF Frames
        <5> QED
          BY <1>1, <5>1
      <4>2. \A g \in content : g <= ckpt => g <= n
        <5> HIDE DEF K
        <5> QED
          BY <1>1, <4>1
      <4> QED
        BY <4>2 DEF Durable, Of
    <3>3. Of(content, c) \subseteq content
      BY DEF Of
    <3> HIDE DEF K
    <3> QED
      BY <3>1, <3>2, <3>3, StaysBacked
  <2> QED
    BY <2>1 DEF AllBacked
<1>6. PICK g : Commits(g)
  BY CommitFunction DEF LinesInv
<1>7. /\ g \in [0..L -> Replays] /\ g[0].contexts = seen /\ Commit(Accepted) = g[L].contexts
      /\ \A k \in 1..L : g[k] = Replay(Accepted, g[k - 1], ops[k])
  BY <1>6 DEF Commits
<1> DEFINE S == {k \in 0..L : Fine(k, g[k])}
<1>8. 0 \in S
  <2>1. Fine(0, g[0])
    BY <1>5, <1>7
  <2> HIDE DEF Fine, L
  <2> QED
    BY <1>2, <2>1
<1>9. ASSUME NEW k \in 0..L - 1, k \in S PROVE k + 1 \in S
  <2>1. k + 1 \in 1..L /\ k + 1 \in 0..L /\ (k + 1) - 1 = k /\ k \in 0..L
    BY <1>2
  <2>2. g[k] \in Replays /\ g[k + 1] = Replay(Accepted, g[k], ops[k + 1])
    <3> HIDE DEF L
    <3> QED
      BY <1>7, <2>1
  <2>3. Fine((k + 1) - 1, g[k])
    <3> HIDE DEF Fine, L
    <3> QED
      BY <1>9, <2>1
  <2> HIDE DEF Fine, L
  <2>4. Fine(k + 1, g[k + 1])
    BY <1>4, <2>1, <2>2, <2>3
  <2> QED
    BY <2>1, <2>4
<1>10. L \in S
  <2>1. L \in 0..L
    BY <1>2
  <2> HIDE DEF S, L
  <2> QED
    BY <1>2, <1>8, <1>9, <2>1, FromZero
<1>11. Fine(L, g[L]) /\ g[L] \in Replays
  <2>1. L \in 0..L
    BY <1>2
  <2> HIDE DEF Fine, L
  <2> QED
    BY <1>7, <1>10, <2>1
<1> QED
  BY <1>7, <1>11 DEF Replays

-----------------------------------------------------------------------------
(* The actions.                                                            *)

LEMMA NoOps == <<>> \in Seq(Frames) /\ Elements(<<>>) = {} /\ Len(<<>>) = 0
BY DEF Elements

LEMMA LinesStart == LineInit => LinesInv
<1> SUFFICES ASSUME LineInit PROVE LinesInv
  OBVIOUS
<1>1. Init /\ rows = [f \in Frames |-> {}] /\ seen = Nothing /\ work = Nothing /\ ops = <<>> /\ erased = {}
  BY DEF LineInit
<1>2. /\ content = {} /\ upstream \subseteq Frames /\ ckpt = 0 /\ todo = {} /\ held = {} /\ prepared = {}
      /\ hand = None /\ pc = "idle"
  BY <1>1 DEF Init
<1>3. LinesTyped
  BY <1>1, <1>2, NoOps, NothingIsBacked DEF LinesTyped
<1>4. RunApart
  BY <1>1, <1>2 DEF RunApart
<1>5. Backing
  BY <1>1, <1>2, NoOps, NothingIsBacked DEF Backing, FramesBacked, OpsBacked
<1> QED
  BY <1>3, <1>4, <1>5 DEF LinesInv

LEMMA StartKeeps ==
  ASSUME LinesInv, StartLines
  PROVE  LinesInv'
<1>1. /\ LinesTyped /\ RunApart /\ FramesBacked /\ AllBacked(content, rows, Durable, Intact, seen)
  BY DEF LinesInv, Backing
<1>2. /\ pc = "idle" /\ todo' = {f \in upstream : f > ckpt} /\ pc' = "extract"
      /\ UNCHANGED <<upstream, content, ckpt, hand, prepared, held, rows, erased>>
      /\ work' = seen' /\ ops' = <<>>
  BY DEF StartLines, StartRun, source, ghostsOfText
<1>3. todo = {} /\ held = {} /\ prepared = {} /\ hand = None
  BY <1>1, <1>2 DEF RunApart
<1>4. seen' \in Maps /\ AllBacked(content, rows, Durable, Intact, seen')
  <2> DEFINE kept == Without(seen, Stale)
  <2>1. kept \in Maps /\ AllBacked(content, rows, Durable, Intact, kept)
    BY <1>1, WithoutBacked DEF LinesTyped
  <2>2. Hydrate(kept) \in Maps /\ AllBacked(content, rows, Durable, Intact, Hydrate(kept))
    <3> HIDE DEF kept
    <3> QED
      BY <1>1, <2>1, HydrateBacked
  <2>3. seen' = kept \/ seen' = Hydrate(kept)
    BY DEF StartLines
  <2> HIDE DEF kept
  <2> QED
    BY <2>1, <2>2, <2>3
<1>5. LinesTyped'
  BY <1>1, <1>2, <1>3, <1>4, NoOps DEF LinesTyped
<1>6. RunApart'
  <2>1. todo' \subseteq {f \in Frames : f > ckpt}
    BY <1>1, <1>2 DEF LinesTyped
  <2>2. None \notin todo'
    BY <2>1 DEF None, Frames
  <2> QED
    BY <1>2, <1>3, <2>1, <2>2 DEF RunApart
<1>7. Backing'
  <2>1. Intact' = Intact /\ Durable' = Durable /\ InRun' = Durable
    BY <1>2, <1>3 DEF Intact, Durable, InRun
  <2>2. FramesBacked'
    BY <1>1, <1>2, <2>1 DEF FramesBacked
  <2>3. OpsBacked'
    BY <1>2, NoOps DEF OpsBacked
  <2> QED
    BY <1>2, <1>4, <2>1, <2>2, <2>3 DEF Backing
<1> QED
  BY <1>5, <1>6, <1>7 DEF LinesInv

LEMMA AdmitKeeps ==
  ASSUME LinesInv, AdmitUnlessExcluded
  PROVE  LinesInv'
<1>1. LinesTyped /\ RunApart
  BY DEF LinesInv
<1>2. /\ pc = "extract" /\ pc' = pc /\ hand = None /\ todo # {} /\ todo' = todo \ {First(todo)}
      /\ UNCHANGED <<upstream, content, ckpt, prepared, rows, seen, work, ops, erased>>
      /\ \/ held' = held \cup {First(todo)} /\ hand' = hand
         \/ hand' = First(todo) /\ held' = held
  BY DEF AdmitUnlessExcluded, source, derived, text, ghostsOfText
<1>3. First(todo) \in todo
  BY <1>1, <1>2, LeastFrame DEF RunApart
<1>4. LinesTyped'
  BY <1>1, <1>2 DEF LinesTyped
<1>5. RunApart'
  BY <1>1, <1>2, <1>3 DEF RunApart
<1>6. Backing'
  BY <1>2, QuietStep
<1> QED
  BY <1>4, <1>5, <1>6 DEF LinesInv

LEMMA StoreKeeps ==
  ASSUME LinesInv, StoreLines
  PROVE  LinesInv'
<1>1. LinesTyped /\ RunApart
  BY DEF LinesInv
<1>2. /\ hand # None /\ content' = content \cup {hand} /\ prepared' = prepared \cup {hand} /\ hand' = None
      /\ UNCHANGED <<upstream, ckpt, pc, todo, held>>
      /\ Process(hand)
  BY DEF StoreLines, Store, source
<1>3. UNCHANGED <<seen, erased>>
  BY <1>2 DEF Process
<1>4. hand \in Frames /\ hand > ckpt /\ hand \notin todo \cup held \cup prepared /\ pc # "idle"
  BY <1>1, <1>2 DEF RunApart
<1>5. /\ Backing'
      /\ rows' \in [Frames -> SUBSET Lines] /\ \A f \in Frames : rows'[f] \subseteq Text[f]
      /\ work' \in Maps /\ ops' \in Seq(Frames) /\ prepared' = Elements(ops')
  BY <1>2, <1>4, ProcessStep
<1>6. LinesTyped'
  BY <1>1, <1>2, <1>3, <1>4, <1>5 DEF LinesTyped
<1>7. RunApart'
  <2>1. None \notin todo \cup held \cup prepared'
    BY <1>1, <1>2, <1>4 DEF RunApart, None, Frames
  <2> QED
    BY <1>1, <1>2, <1>4, <2>1 DEF RunApart
<1> QED
  BY <1>5, <1>6, <1>7 DEF LinesInv

LEMMA ReleaseKeeps ==
  ASSUME LinesInv, Release
  PROVE  LinesInv'
<1>1. LinesTyped /\ RunApart
  BY DEF LinesInv
<1> DEFINE free == {f \in held : ~Blocked(f)}
           f == First(free)
<1>2. /\ pc = "finish" /\ free # {} /\ held' = held \ {f}
      /\ prepared' = prepared \cup {f} /\ content' = content \cup {f} /\ Process(f)
      /\ UNCHANGED <<upstream, ckpt, pc, todo, hand>>
  BY DEF Release, source
<1>3. UNCHANGED <<seen, erased>>
  BY <1>2 DEF Process
<1>4. f \in held
  <2>1. free \in SUBSET Frames /\ free \subseteq held
    BY <1>1 DEF RunApart
  <2> HIDE DEF free
  <2> QED
    BY <1>2, <2>1, LeastFrame
<1> HIDE DEF f
<1>5. f \in Frames /\ f > ckpt /\ f \notin todo \cup prepared /\ f # hand
  BY <1>1, <1>4 DEF RunApart
<1>6. /\ Backing'
      /\ rows' \in [Frames -> SUBSET Lines] /\ \A g \in Frames : rows'[g] \subseteq Text[g]
      /\ work' \in Maps /\ ops' \in Seq(Frames) /\ prepared' = Elements(ops')
  BY <1>2, <1>5, ProcessStep
<1>7. LinesTyped'
  BY <1>1, <1>2, <1>3, <1>5, <1>6 DEF LinesTyped
<1>8. RunApart'
  BY <1>1, <1>2, <1>4, <1>5 DEF RunApart
<1> QED
  BY <1>6, <1>7, <1>8 DEF LinesInv

LEMMA FinishKeeps ==
  ASSUME LinesInv, FinishLines
  PROVE  LinesInv'
<1>1. LinesTyped /\ RunApart /\ FramesBacked
  BY DEF LinesInv, Backing
<1>2. /\ pc' = "idle" /\ todo' = {} /\ hand' = None /\ prepared' = {} /\ held' = {}
      /\ work' = Nothing /\ ops' = <<>>
      /\ UNCHANGED <<upstream, content, rows, erased>>
  BY DEF FinishLines, FinishOf, NoRun, NoTransaction, source, derived
<1>3. \/ ckpt' = ckpt /\ seen' = seen
      \/ ckpt' = Newest({ckpt} \cup Reached) /\ seen' = Commit(Accepted)
  BY DEF FinishLines, FinishOf
<1>4. RunApart'
  BY <1>2 DEF RunApart
<1>5. CASE ckpt' = ckpt /\ seen' = seen
  <2>1. LinesTyped'
    BY <1>1, <1>2, <1>5, NoOps, NothingIsBacked DEF LinesTyped
  <2>2. Backing'
    BY <1>2, <1>5, QuietStep
  <2> QED
    BY <1>4, <2>1, <2>2 DEF LinesInv
<1>6. CASE ckpt' = Newest({ckpt} \cup Reached) /\ seen' = Commit(Accepted)
  <2>1. Accepted \subseteq Reached /\ Reached \subseteq Frames
    BY <1>1 DEF Accepted, Reached, RunApart
  <2>2. /\ ckpt' \in Frames \cup {0} /\ ckpt <= ckpt' /\ \A f \in Accepted : f <= ckpt'
    <3>1. {ckpt} \cup Reached \in SUBSET (Frames \cup {0})
      BY <1>1, <2>1 DEF LinesTyped
    <3>2. ckpt' \in {ckpt} \cup Reached /\ \A y \in {ckpt} \cup Reached : y <= ckpt'
      <4> DEFINE S == {ckpt} \cup Reached
      <4>1. S # {} /\ S \in SUBSET (Frames \cup {0})
        BY <3>1
      <4> HIDE DEF S
      <4>2. Newest(S) \in S /\ \A y \in S : y <= Newest(S)
        BY <4>1, GreatestFrame
      <4> QED
        BY <1>6, <4>2 DEF S
    <3> QED
      BY <2>1, <3>1, <3>2
  <2>3. seen' \in Maps /\ AllBacked(content, rows, {f \in content : f <= ckpt'}, Intact, seen')
    BY <1>6, <2>2, CommitBacked
  <2>4. LinesTyped'
    BY <1>1, <1>2, <2>2, <2>3, NoOps, NothingIsBacked DEF LinesTyped
  <2>5. Backing'
    <3>1. Intact' = Intact /\ Durable' = {f \in content : f <= ckpt'}
      BY <1>2 DEF Intact, Durable
    <3>2. FramesBacked'
      BY <1>1, <1>2, <3>1 DEF FramesBacked
    <3>3. OpsBacked'
      BY <1>2, NoOps DEF OpsBacked
    <3> QED
      BY <1>2, <2>3, <3>1, <3>2, <3>3, NothingIsBacked DEF Backing
  <2> QED
    BY <1>4, <2>4, <2>5 DEF LinesInv
<1> QED
  BY <1>3, <1>5, <1>6

(* A run that ends without storing its checkpoint.                         *)
LEMMA EndKeeps ==
  ASSUME LinesInv, NoRun, NoTransaction, seen' \in {seen, Nothing},
         UNCHANGED <<upstream, content, ckpt, rows, erased>>
  PROVE  LinesInv'
<1>1. LinesTyped
  BY DEF LinesInv
<1>2. work' = Nothing /\ ops' = <<>> /\ pc' = "idle" /\ todo' = {} /\ hand' = None /\ prepared' = {} /\ held' = {}
  BY DEF NoRun, NoTransaction
<1>3. LinesTyped'
  BY <1>1, <1>2, NoOps, NothingIsBacked DEF LinesTyped
<1>4. RunApart'
  BY <1>2 DEF RunApart
<1>5. Backing'
  BY <1>2, QuietStep
<1> QED
  BY <1>3, <1>4, <1>5 DEF LinesInv

(* Whatever leaves the run, the checkpoint and the lines alone.            *)
LEMMA OthersKeep ==
  ASSUME LinesInv, content' \subseteq content, content \ content' \subseteq erased',
         erased \subseteq erased', erased' \subseteq Frames, upstream' \subseteq Frames,
         UNCHANGED <<ckpt, pc, todo, hand, prepared, held, rows, seen, work, ops>>
  PROVE  LinesInv'
<1>1. LinesTyped /\ RunApart
  BY DEF LinesInv
<1>2. LinesTyped'
  BY <1>1 DEF LinesTyped
<1>3. RunApart'
  BY <1>1 DEF RunApart
<1>4. Backing'
  BY QuietStep
<1> QED
  BY <1>2, <1>3, <1>4 DEF LinesInv

LEMMA LinesStep ==
  ASSUME LinesInv, LineNext
  PROVE  LinesInv'
<1>1. content \subseteq Frames /\ upstream \subseteq Frames /\ erased \subseteq Frames
  BY DEF LinesInv, LinesTyped
<1>2. CASE EmbedLines
  <2>1. UNCHANGED <<upstream, content, erased, ckpt, todo, hand, prepared, held, rows, seen, work, ops>>
    BY <1>2 DEF EmbedLines, EmbedAndUpsertOf, SameText, source, text, ghostsOfText
  <2>2. pc = "extract" /\ pc' = "finish"
    BY <1>2 DEF EmbedLines, EmbedAndUpsertOf
  <2>3. LinesTyped /\ RunApart
    BY DEF LinesInv
  <2>4. LinesTyped'
    BY <2>1, <2>3 DEF LinesTyped
  <2>5. RunApart'
    BY <2>1, <2>2, <2>3 DEF RunApart
  <2>6. Backing'
    BY <2>1, QuietStep
  <2> QED
    BY <2>4, <2>5, <2>6 DEF LinesInv
<1>3. CASE AbortLines
  BY <1>3, EndKeeps DEF AbortLines, Abort, source, derived
<1>4. CASE RestartLines
  BY <1>4, EndKeeps DEF RestartLines, Restart, source, derived
<1>5. CASE Exclude
  BY <1>1, <1>5, OthersKeep DEF Exclude, vars, source, derived, run, ghostsOfText
<1>6. CASE Cascade
  <2>1. PICK S : /\ upstream' = upstream \ S /\ content' = content \ S
                 /\ erased' = erased \cup (content \cap S)
    BY <1>6 DEF Cascade, DeleteRows
  <2>2. UNCHANGED <<ckpt, pc, todo, hand, prepared, held, rows, seen, work, ops>>
    BY <1>6 DEF Cascade, run
  <2>3. /\ content' \subseteq content /\ content \ content' \subseteq erased'
        /\ erased \subseteq erased' /\ erased' \subseteq Frames /\ upstream' \subseteq Frames
    BY <1>1, <2>1
  <2> QED
    BY <2>2, <2>3, OthersKeep
<1>7. CASE OtherStep
  <2>1. UNCHANGED <<content, ckpt, pc, todo, hand, prepared, held, rows, seen, work, ops, erased>>
    BY <1>7 DEF OtherStep, Tick, Flush, SameText, derived, run, text, ghostsOfText
  <2>2. upstream' \subseteq Frames
    BY <1>1, <1>7 DEF OtherStep, Tick, Flush, source
  <2> QED
    BY <1>1, <2>1, <2>2, OthersKeep
<1> QED
  BY <1>2, <1>3, <1>4, <1>5, <1>6, <1>7, StartKeeps, AdmitKeeps, StoreKeeps, ReleaseKeeps, FinishKeeps
     DEF LineNext, LineRunStep

LEMMA LinesStutter == LinesInv /\ UNCHANGED <<vars, text>> => LinesInv'
<1> SUFFICES ASSUME LinesInv, UNCHANGED <<vars, text>> PROVE LinesInv'
  OBVIOUS
<1>1. content \subseteq Frames /\ upstream \subseteq Frames /\ erased \subseteq Frames
  BY DEF LinesInv, LinesTyped
<1>2. UNCHANGED <<upstream, content, ckpt, pc, todo, hand, prepared, held, rows, seen, work, ops, erased>>
  BY DEF vars, source, derived, run, text, ghostsOfText
<1> QED
  BY <1>1, <1>2, OthersKeep

LEMMA BackingKeepsLines == LinesInv => LinesKept
<1> SUFFICES ASSUME LinesInv, NEW f \in content, \A g \in erased : Context[g] # Context[f]
             PROVE  Text[f] \subseteq UNION {rows[g] : g \in Stretch(f)}
  BY DEF LinesKept
<1>1. Context[f] \in Intact
  <2>1. f \in Frames
    BY DEF LinesInv, LinesTyped
  <2> QED
    BY <2>1, FrameFacts DEF Intact
<1>2. Text[f] \subseteq LinesNear(content, rows, content, Context[f], Time[f])
  BY <1>1 DEF LinesInv, Backing, FramesBacked
<1>3. Stretch(f) = Near(content, content, Context[f], Time[f])
  BY DEF Stretch, NoPause, Near, Gapless
<1> QED
  BY <1>2, <1>3 DEF LinesNear

(* A line is left out of a stored frame only if a frame of the same        *)
(* stretch of activity that is no later has it in its row, unless a        *)
(* cascade has deleted of the context: what LineDeltaDeduplicator drops    *)
(* was shown, whatever runs failed, were retried or were cut by a restart. *)
THEOREM LinesTheorem == LineSpec => []LinesKept
<1>1. LinesInv /\ [LineNext]_<<vars, text>> => LinesInv'
  BY LinesStep, LinesStutter
<1>2. LineSpec => []LinesInv
  BY <1>1, LinesStart, PTL DEF LineSpec
<1> QED
  BY <1>2, BackingKeepsLines, PTL

-----------------------------------------------------------------------------
(* A map remembers a session of context c with evidence E when its entry   *)
(* has the lines of E, and is neither older than E nor newer than the      *)
(* frames H that have been passed; or when one of those is so late that no *)
(* frame after it extends the session.                                     *)
Carries(R, a, c, E, H) ==
  /\ c \in DOMAIN a
  /\ \A g \in E : R[g] \subseteq a[c].lines /\ Time[g] <= a[c].last
  /\ \E h \in H : a[c].last <= Time[h]
Over(E, H) == \E h \in H : \A g \in E : Time[g] + Idle < Time[h]
Remembers(R, a, c, E, H) == Carries(R, a, c, E, H) \/ Over(E, H)

LEMMA RemembersMore ==
  ASSUME NEW R, NEW Q, NEW a, NEW c, NEW E, NEW H, NEW J, H \subseteq J, \A g \in E : Q[g] = R[g],
         Remembers(R, a, c, E, H)
  PROVE  Remembers(Q, a, c, E, J)
BY DEF Remembers, Carries, Over

LEMMA EntryOf ==
  ASSUME NEW a \in Maps, NEW f \in Frames, NEW lines
  PROVE  /\ Context[f] \in DOMAIN ApplyLineDelta(a, f, lines)
         /\ ApplyLineDelta(a, f, lines)[Context[f]].last = Time[f]
         /\ ApplyLineDelta(a, f, lines)[Context[f]].lines = Known(a, f) \cup lines
<1> DEFINE p == PruneExpired(a, Time[f])
           entry == [last |-> Time[f], lines |-> Known(a, f) \cup lines]
<1>1. ApplyLineDelta(a, f, lines) =
        [c \in DOMAIN p \cup {Context[f]} |-> IF c = Context[f] THEN entry ELSE p[c]]
  BY DEF ApplyLineDelta
<1>2. entry.last = Time[f] /\ entry.lines = Known(a, f) \cup lines
  OBVIOUS
<1> HIDE DEF p, entry
<1>3. Context[f] \in DOMAIN p \cup {Context[f]}
  OBVIOUS
<1>4. ApplyLineDelta(a, f, lines)[Context[f]] = entry /\ Context[f] \in DOMAIN ApplyLineDelta(a, f, lines)
  BY <1>1, <1>3
<1> QED
  BY <1>2, <1>4

LEMMA OtherEntry ==
  ASSUME NEW a \in Maps, NEW f \in Frames, NEW lines, NEW c \in DOMAIN a, c # Context[f],
         ~(Time[f] - a[c].last > Idle)
  PROVE  c \in DOMAIN ApplyLineDelta(a, f, lines) /\ ApplyLineDelta(a, f, lines)[c] = a[c]
<1> DEFINE p == PruneExpired(a, Time[f])
<1>1. c \in DOMAIN p /\ p[c] = a[c]
  BY DEF PruneExpired, Without
<1> HIDE DEF p
<1> QED
  BY <1>1 DEF ApplyLineDelta, p

(* A frame of another context prunes an entry only when it is over.        *)
LEMMA OtherApplied ==
  ASSUME NEW R, NEW a \in Maps, NEW f \in Frames, NEW lines, NEW c, c # Context[f],
         NEW E \in SUBSET Frames, NEW H \in SUBSET Frames, Remembers(R, a, c, E, H)
  PROVE  Remembers(R, ApplyLineDelta(a, f, lines), c, E, H \cup {f})
<1> DEFINE b == ApplyLineDelta(a, f, lines)
<1>1. CASE Over(E, H)
  BY <1>1 DEF Remembers, Over
<1>2. CASE Carries(R, a, c, E, H)
  <2>1. c \in DOMAIN a /\ a[c].last \in Nat
    BY <1>2, MapEntries DEF Carries
  <2>2. CASE Time[f] - a[c].last > Idle
    <3>1. \A g \in E : Time[g] \in Nat /\ Time[g] <= a[c].last
      BY <1>2, FrameFacts DEF Carries
    <3>2. Time[f] \in Nat /\ Idle \in Nat
      BY FrameFacts, BoundAssumption
    <3>3. \A g \in E : Time[g] + Idle < Time[f]
      BY <2>1, <2>2, <3>1, <3>2
    <3> QED
      BY <3>3 DEF Remembers, Over
  <2>3. CASE ~(Time[f] - a[c].last > Idle)
    <3>1. c \in DOMAIN b /\ b[c] = a[c]
      BY <2>1, <2>3, OtherEntry
    <3> HIDE DEF b
    <3>2. Carries(R, b, c, E, H \cup {f})
      BY <1>2, <3>1 DEF Carries
    <3> QED
      BY <3>2 DEF Remembers, b
  <2> QED
    BY <2>2, <2>3
<1> QED
  BY <1>1, <1>2 DEF Remembers

(* A frame that continues the session finds the lines of its evidence.     *)
LEMMA SameKnown ==
  ASSUME NEW R, NEW a \in Maps, NEW f \in Frames, NEW E \in SUBSET Frames, NEW H \in SUBSET Frames,
         Remembers(R, a, Context[f], E, H), \A h \in H : h <= f,
         NEW g \in E, Time[f] <= Time[g] + Idle
  PROVE  \A k \in E : R[k] \subseteq Known(a, f)
<1> DEFINE c == Context[f]
<1>1. Time[f] \in Nat /\ Idle \in Nat /\ Time[g] \in Nat
  BY FrameFacts, BoundAssumption
<1>2. \A h \in H : Time[h] \in Nat /\ Time[h] <= Time[f]
  <2> SUFFICES ASSUME NEW h \in H PROVE Time[h] \in Nat /\ Time[h] <= Time[f]
    OBVIOUS
  <2>1. h \in Nat /\ f \in Nat /\ Time[h] \in Nat /\ h \in Frames /\ h <= f
    BY FrameFacts
  <2>2. h < f => Time[h] <= Time[f]
    BY <2>1, FrameAssumption
  <2> QED
    BY <1>1, <2>1, <2>2
<1>3. ~Over(E, H)
  BY <1>1, <1>2 DEF Over
<1>4. Carries(R, a, c, E, H)
  BY <1>3 DEF Remembers
<1>5. c \in DOMAIN a /\ a[c].last \in Nat /\ Time[g] <= a[c].last
  BY <1>4, MapEntries DEF Carries
<1>6. a[c].last <= Time[f]
  <2>1. PICK h \in H : a[c].last <= Time[h]
    BY <1>4 DEF Carries
  <2> QED
    BY <1>1, <1>2, <1>5, <2>1
<1>7. ~(Time[f] - a[c].last > Idle)
  BY <1>1, <1>5
<1>8. a[c].lines \subseteq Known(a, f)
  BY <1>5, <1>6, <1>7 DEF Known, PruneExpired, Without
<1> QED
  BY <1>4, <1>8 DEF Carries

(* What an applied frame leaves, for the evidence it ends.                 *)
LEMMA SameApplied ==
  ASSUME NEW R, NEW a \in Maps, NEW f \in Frames, NEW lines, NEW E \in SUBSET Frames, NEW H,
         f \in H, \A k \in E : Time[k] <= Time[f] /\ R[k] \subseteq Known(a, f) \cup lines
  PROVE  Remembers(R, ApplyLineDelta(a, f, lines), Context[f], E, H)
<1>1. Time[f] <= Time[f]
  BY FrameFacts
<1>2. Carries(R, ApplyLineDelta(a, f, lines), Context[f], E, H)
  BY <1>1, EntryOf DEF Carries
<1> QED
  BY <1>2 DEF Remembers

-----------------------------------------------------------------------------
(* What a frame does to the sessions.                                      *)

LEMMA SessionsAfter ==
  ASSUME NEW f \in Frames, Sound(sessions, content, nextId), HandleExtraction(f), NEW t \in sessions'
  PROVE  \/ t \in sessions /\ ~(t.open /\ t.ctx = Context[f])
         \/ \E s \in sessions : t = Closed(s)
         \/ \E s \in sessions : s.open /\ s.ctx = Context[f] /\ CanExtend(s, f) /\ t = AppendFrame(s, f)
         \/ t = CreateSession(f)
<1>1. \A s \in OpenFor(f) : s \in sessions /\ s.open /\ s.ctx = Context[f]
  BY DEF OpenFor
<1>2. \A s, u \in sessions : s.open /\ u.open /\ s.ctx = u.ctx => s = u
  BY DEF Sound, OneOpen
<1>3. ASSUME NEW s \in sessions, s.open, s.ctx = Context[f] PROVE s \in OpenFor(f)
  <2>1. EndedAt(s) \in Nat
    BY Times DEF Sound, RowSound
  <2>2. \A u \in sessions : u.open /\ u.ctx = Context[f] => u = s
    BY <1>2, <1>3
  <2> QED
    BY <1>3, <2>1, <2>2 DEF OpenFor
<1>4. ASSUME NEW s \in OpenFor(f), CanExtend(s, f), sessions' = (sessions \ {s}) \cup {AppendFrame(s, f)},
             t # AppendFrame(s, f)
      PROVE  t \in sessions /\ ~(t.open /\ t.ctx = Context[f])
  <2>1. t \in sessions /\ t # s
    BY <1>4
  <2> QED
    BY <1>1, <1>2, <1>4, <2>1
<1>5. CASE \E s \in OpenFor(f) : CanExtend(s, f) /\ sessions' = (sessions \ {s}) \cup {AppendFrame(s, f)}
  BY <1>1, <1>4, <1>5
<1>6. CASE sessions' = (sessions \ OpenFor(f)) \cup {[s EXCEPT !.open = FALSE] : s \in OpenFor(f)}
                         \cup {CreateSession(f)}
  <2>1. \/ t \in sessions \ OpenFor(f) \/ t = CreateSession(f)
        \/ \E s \in OpenFor(f) : t = Closed(s)
    BY <1>6 DEF Closed
  <2> QED
    BY <1>1, <1>3, <2>1
<1> QED
  BY <1>5, <1>6 DEF HandleExtraction

(* The frames of a session stand in the order they were captured in.       *)
Rises(s) == \A i \in 1..Len(s.evidence) - 1 : s.evidence[i] < s.evidence[i + 1]

(* A frame of a rising session that is not its first continues an earlier  *)
(* one.                                                                    *)
LEMMA Continued ==
  ASSUME NEW s, NEW C, RowSound(s, C), Rises(s), NEW f \in Elements(s.evidence)
  PROVE  \/ f = s.evidence[1]
         \/ \E g \in Elements(s.evidence) : g < f /\ Time[f] <= Time[g] + Idle
<1>1. /\ Len(s.evidence) \in Nat \ {0} /\ \A i \in 1..Len(s.evidence) : s.evidence[i] \in Frames
  BY Times DEF RowSound
<1>2. PICK i \in 1..Len(s.evidence) : f = s.evidence[i]
  BY DEF Elements
<1>3. CASE i # 1
  <2>1. i - 1 \in 1..Len(s.evidence) - 1 /\ i - 1 \in 1..Len(s.evidence) /\ (i - 1) + 1 = i
    BY <1>1, <1>3
  <2> DEFINE g == s.evidence[i - 1]
  <2>2. g < f
    BY <1>2, <2>1 DEF Rises
  <2>3. Time[f] - Time[g] <= Idle
    BY <1>2, <2>1 DEF RowSound
  <2>4. g \in Elements(s.evidence) /\ g \in Frames /\ f \in Frames
    BY <1>1, <1>2, <2>1 DEF Elements
  <2>5. Time[f] \in Nat /\ Time[g] \in Nat /\ Idle \in Nat
    BY <2>4, FrameFacts, BoundAssumption
  <2> QED
    BY <2>2, <2>3, <2>4, <2>5
<1> QED
  BY <1>2, <1>3

LEMMA ContextApplied ==
  ASSUME NEW R, NEW a \in Maps, NEW f \in Frames, NEW lines,
         NEW E \in SUBSET Frames, NEW H \in SUBSET Frames, Remembers(R, a, Context[f], E, H),
         \A h \in H : h <= f, \A g \in E : Time[g] <= Time[f]
  PROVE  Remembers(R, ApplyLineDelta(a, f, lines), Context[f], E, H \cup {f})
<1>1. CASE \E g \in E : Time[f] <= Time[g] + Idle
  <2>1. \A k \in E : R[k] \subseteq Known(a, f)
    BY <1>1, SameKnown
  <2>2. \A k \in E : Time[k] <= Time[f] /\ R[k] \subseteq Known(a, f) \cup lines
    BY <2>1
  <2>3. f \in H \cup {f}
    OBVIOUS
  <2> QED
    BY <2>2, <2>3, SameApplied
<1>2. CASE \A g \in E : ~(Time[f] <= Time[g] + Idle)
  <2>1. Time[f] \in Nat /\ Idle \in Nat /\ \A g \in E : Time[g] \in Nat
    BY FrameFacts, BoundAssumption
  <2>2. \A g \in E : Time[g] + Idle < Time[f]
    BY <1>2, <2>1
  <2> QED
    BY <2>2 DEF Remembers, Over
<1> QED
  BY <1>1, <1>2

(* Hydration takes up again what the open sessions have shown.             *)
LEMMA HydrateRemembers ==
  ASSUME LinesTyped, NEW a \in Maps, NEW s \in FlushIdle(sessions), s.open, RowSound(s, content), Rises(s),
         \A g \in Elements(s.evidence) : g <= ckpt
  PROVE  Remembers(rows, Hydrate(a), s.ctx, Elements(s.evidence), {h \in Frames : h <= ckpt})
<1> DEFINE c == s.ctx
           ev == Elements(s.evidence)
           E(k) == {g \in ev : g <= k}
           H(k) == {h \in Frames : h <= k /\ h <= ckpt}
<1>1. PICK r : Hydrates(a, r)
  BY HydrateFunction
<1>2. N \in Nat /\ content \subseteq Frames /\ ev \subseteq content
  BY FrameAssumption DEF LinesTyped, RowSound
<1>3. \A g \in ev : Context[g] = c /\ StartedAt(s) <= Time[g]
  <2>1. \A g \in ev : Context[g] = c
    BY DEF RowSound, Elements
  <2>2. \A g \in ev : StartedAt(s) <= Time[g]
    BY Between
  <2> QED
    BY <2>1, <2>2
<1>4. ev \subseteq Hydratable
  BY <1>2, <1>3 DEF Hydratable
<1> DEFINE S == {k \in 0..N : E(k) = {} \/ Remembers(rows, r[k], c, E(k), H(k))}
<1>5. 0 \in S
  <2>1. E(0) = {}
    <3>1. \A g \in ev : g \in Frames
      BY <1>2
    <3>2. \A g \in Frames : ~(g <= 0)
      BY DEF Frames
    <3> HIDE DEF ev
    <3> QED
      BY <3>1, <3>2
  <2> HIDE DEF E
  <2> QED
    BY <1>2, <2>1
<1>6. ASSUME NEW k \in 0..N - 1, k \in S PROVE k + 1 \in S
  <2>1. k + 1 \in 1..N /\ k + 1 \in 0..N /\ (k + 1) - 1 = k /\ k \in 0..N /\ k \in Nat
    BY <1>2
  <2> DEFINE f == k + 1
  <2>2. r[k] \in Maps /\ r[f] = HydrateTo(r[k], f) /\ f \in Frames
    BY <1>1, <2>1 DEF Hydrates, Frames
  <2>3. E(k) = {} \/ Remembers(rows, r[k], c, E(k), H(k))
    BY <1>6
  <2>4. /\ E(k) \subseteq Frames /\ H(k) \subseteq Frames /\ H(k) \subseteq H(f)
        /\ \A g \in E(k) : g < f /\ \A h \in H(k) : h <= f
    <3>1. \A g \in Frames : g \in Nat
      BY DEF Frames
    <3> QED
      BY <1>2, <2>1, <3>1
  <2>5. \A g \in E(k) : Time[g] <= Time[f]
    BY <2>2, <2>4, FrameAssumption
  <2>6. f \in ev => E(f) = E(k) \cup {f}
    <3>1. \A g \in ev : g \in Nat
      <4>1. \A g \in Frames : g \in Nat
        BY DEF Frames
      <4> HIDE DEF ev
      <4> QED
        BY <1>2, <4>1
    <3>2. \A g \in ev : g <= f <=> g <= k \/ g = f
      BY <2>1, <3>1
    <3> HIDE DEF f, ev
    <3> QED
      BY <3>2
  <2>7. f \notin ev => E(f) = E(k)
    <3>1. \A g \in ev : g \in Nat
      <4>1. \A g \in Frames : g \in Nat
        BY DEF Frames
      <4> HIDE DEF ev
      <4> QED
        BY <1>2, <4>1
    <3>2. \A g \in ev : g <= f <=> g <= k \/ g = f
      BY <2>1, <3>1
    <3> HIDE DEF f, ev
    <3> QED
      BY <3>2
  <2>8. f \in Hydratable => H(k) \cup {f} \subseteq H(f)
    BY <2>2, <2>4 DEF Hydratable
  <2> HIDE DEF f, E, H, ev, c
  <2>9. CASE f \notin Hydratable
    <3>1. r[f] = r[k] /\ E(f) = E(k)
      BY <1>4, <2>2, <2>7, <2>9 DEF HydrateTo
    <3>2. E(f) = {} \/ Remembers(rows, r[f], c, E(f), H(f))
      BY <2>3, <2>4, <3>1, RemembersMore
    <3> QED
      BY <2>1, <3>2 DEF f
  <2>10. CASE f \in Hydratable
    <3> DEFINE b == ApplyLineDelta(r[k], f, rows[f])
    <3>1. r[f] = b
      BY <2>2, <2>10 DEF HydrateTo
    <3> HIDE DEF b
    <3>2. CASE f \notin ev /\ E(k) # {}
      <4>1. Remembers(rows, b, c, E(k), H(k) \cup {f})
        <5>1. CASE Context[f] = c
          BY <2>2, <2>3, <2>4, <2>5, <3>2, <5>1, ContextApplied DEF b
        <5>2. CASE Context[f] # c
          BY <2>2, <2>3, <2>4, <3>2, <5>2, OtherApplied DEF b
        <5> QED
          BY <5>1, <5>2
      <4>2. Remembers(rows, b, c, E(k), H(f))
        BY <2>8, <2>10, <4>1, RemembersMore
      <4> QED
        BY <2>1, <2>7, <3>1, <3>2, <4>2 DEF f
    <3>3. CASE f \in ev
      <4>1. Context[f] = c
        BY <1>3, <3>3 DEF ev, c
      <4>2. \A e \in E(k) : rows[e] \subseteq Known(r[k], f)
        <5> SUFFICES ASSUME E(k) # {} PROVE \A e \in E(k) : rows[e] \subseteq Known(r[k], f)
          OBVIOUS
        <5>1. \E g \in E(k) : Time[f] <= Time[g] + Idle
          <6>1. CASE f = s.evidence[1]
            <7>1. PICK e \in E(k) : e \in ev /\ e \in Frames
              BY <2>4 DEF E
            <7>2. StartedAt(s) = Time[f]
              BY <6>1, Times DEF StartedAt, RowSound
            <7>3. Time[f] <= Time[e]
              BY <1>3, <7>1, <7>2 DEF ev
            <7>4. Time[f] \in Nat /\ Time[e] \in Nat /\ Idle \in Nat
              BY <2>2, <7>1, FrameFacts, BoundAssumption
            <7>5. Time[f] <= Time[e] + Idle
              BY <7>3, <7>4
            <7> QED
              BY <7>1, <7>5
          <6>2. CASE f # s.evidence[1]
            <7>1. PICK g \in ev : g < f /\ Time[f] <= Time[g] + Idle
              BY <3>3, <6>2, Continued DEF ev
            <7>2. g <= k
              BY <1>2, <2>1, <7>1 DEF Frames, f
            <7> QED
              BY <7>1, <7>2 DEF E
          <6> QED
            BY <6>1, <6>2
        <5>2. Remembers(rows, r[k], Context[f], E(k), H(k))
          BY <2>3, <4>1
        <5>3. PICK g \in E(k) : Time[f] <= Time[g] + Idle
          BY <5>1
        <5> QED
          BY <2>2, <2>4, <5>2, <5>3, SameKnown
      <4>3. f \in H(f) /\ E(f) \subseteq Frames /\ Time[f] <= Time[f]
        BY <2>2, <2>4, <2>6, <2>8, <2>10, <3>3, FrameFacts
      <4>4. \A e \in E(f) : Time[e] <= Time[f] /\ rows[e] \subseteq Known(r[k], f) \cup rows[f]
        BY <2>5, <2>6, <3>3, <4>2, <4>3
      <4>5. Remembers(rows, b, Context[f], E(f), H(f))
        BY <2>2, <4>3, <4>4, SameApplied DEF b
      <4> QED
        BY <2>1, <3>1, <4>1, <4>5 DEF f
    <3>4. CASE f \notin ev /\ E(k) = {}
      BY <2>1, <2>7, <3>4 DEF f
    <3> QED
      BY <3>2, <3>3, <3>4
  <2> QED
    BY <2>9, <2>10
<1>7. N \in S
  <2>1. N \in 0..N
    BY <1>2
  <2> HIDE DEF S
  <2> QED
    BY <1>2, <1>5, <1>6, <2>1, FromZero
<1>8. E(N) = ev /\ H(N) \subseteq {h \in Frames : h <= ckpt} /\ ev # {}
  <2>1. \A g \in Frames : g <= N
    BY <1>2 DEF Frames
  <2>2. s.evidence[1] \in ev
    BY Times DEF RowSound, Elements
  <2> QED
    BY <1>2, <2>1, <2>2
<1>9. Remembers(rows, r[N], c, ev, H(N))
  <2> HIDE DEF E, H, ev, c
  <2> QED
    BY <1>7, <1>8
<1>10. Remembers(rows, r[N], c, ev, {h \in Frames : h <= ckpt})
  <2> HIDE DEF E, H, ev, c
  <2> QED
    BY <1>8, <1>9, RemembersMore
<1> QED
  BY <1>1, <1>10 DEF Hydrates

-----------------------------------------------------------------------------
(* Regular sessions: none of their frames was released late or left by a   *)
(* failed run.                                                             *)
Regular(s) == Elements(s.evidence) \cap irregular = {}
RegularRise == \A s \in sessions : Regular(s) => Rises(s)

Passed(i) == {h \in Frames : h <= ckpt \/ \E j \in 1..i : h = ops[j]}
Silent(c, i) == \A j \in i + 1..Len(ops) : Context[ops[j]] # c

(* The frames that a run extracts come in order, and what is stored and    *)
(* neither behind the checkpoint nor of this run is irregular.             *)
RunInOrder ==
  /\ pc \in {"idle", "extract", "finish"}
  /\ pc # "idle" => hydrated
  /\ failed \subseteq prepared
  /\ pc # "extract" => todo = {} /\ hand = None
  /\ \A q \in todo \cup ({hand} \ {None}) : \A p \in prepared : p < q
  /\ hand # None => \A q \in todo : hand < q

Accounted == content \subseteq irregular \cup prepared \cup Durable

OpsInOrder == \A k \in 1..Len(ops) : ops[k] \notin irregular => \A j \in 1..k - 1 : ops[j] < ops[k]

(* The last frame that a run has stored of a context is in its open        *)
(* session.                                                                *)
OpenEnds ==
  \A s \in sessions : s.open =>
    \A i \in 1..Len(ops) : Context[ops[i]] = s.ctx /\ Silent(s.ctx, i) => ops[i] \in Elements(s.evidence)

(* The transaction goes from what was seen, operation by operation, to the *)
(* working contexts, and from the last operation of a context on remembers *)
(* its open session.                                                       *)
Transaction(m) ==
  /\ m \in [0..Len(ops) -> Maps] /\ m[0] = seen
  /\ \A i \in 1..Len(ops) : m[i] = ApplyLineDelta(m[i - 1], ops[i], Text[ops[i]])
  /\ pc # "idle" => work = m[Len(ops)]
  /\ hydrated => \A s \in sessions : s.open /\ Regular(s) =>
       \A i \in 0..Len(ops) : Silent(s.ctx, i) =>
         Remembers(rows, m[i], s.ctx, Elements(s.evidence), Passed(i))
Remembered == \E m : Transaction(m)

OnceInv ==
  /\ Sound(sessions, content, nextId) /\ nextId \in Nat \ {0} /\ irregular \subseteq Frames
  /\ RunInOrder /\ Accounted /\ OpsInOrder /\ OpenEnds /\ Remembered /\ RegularRise
  /\ OncePerSession

LEMMA EvidenceFacts ==
  ASSUME NEW s, NEW C \in SUBSET Frames, RowSound(s, C)
  PROVE  /\ Elements(s.evidence) \subseteq C /\ Elements(s.evidence) \subseteq Frames
         /\ Last(s.evidence) \in Elements(s.evidence) /\ Len(s.evidence) \in Nat \ {0}
         /\ s.evidence \in Seq(Frames)
         /\ \A i \in 1..Len(s.evidence) : s.evidence[i] \in Elements(s.evidence)
<1>1. Len(s.evidence) \in Nat \ {0} /\ Last(s.evidence) = s.evidence[Len(s.evidence)] /\ s.evidence \in Seq(Frames)
  BY Times DEF RowSound, Session
<1>2. Len(s.evidence) \in 1..Len(s.evidence)
  BY <1>1
<1> QED
  BY <1>1, <1>2 DEF RowSound, Elements

LEMMA ProcessOnce ==
  ASSUME LinesInv, OnceInv, NEW x \in Frames, x > ckpt, x \notin prepared, pc # "idle",
         Process(x), HandleExtraction(x),
         content' = content \cup {x}, prepared' = prepared \cup {x}, ckpt' = ckpt, pc' = pc,
         x \in held \/ \A p \in prepared : p < x
  PROVE  /\ Sound(sessions', content', nextId') /\ nextId' \in Nat \ {0} /\ irregular' \subseteq Frames
         /\ Accounted' /\ OpsInOrder' /\ OpenEnds' /\ Remembered' /\ RegularRise' /\ OncePerSession'
<1> DEFINE c == Context[x]
<1>0. PICK L : L = Len(ops)
  OBVIOUS
<1>1. /\ content \subseteq Frames /\ ckpt \in Frames \cup {0} /\ ops \in Seq(Frames) /\ prepared = Elements(ops)
      /\ rows \in [Frames -> SUBSET Lines] /\ work \in Maps /\ held \subseteq Frames
  BY DEF LinesInv, LinesTyped, RunApart
<1>2. /\ Sound(sessions, content, nextId) /\ nextId \in Nat \ {0} /\ irregular \subseteq Frames
      /\ RunInOrder /\ Accounted /\ OpsInOrder /\ OpenEnds /\ RegularRise /\ OncePerSession
  BY DEF OnceInv
<1>3. /\ Sound(sessions', content', nextId') /\ nextId' \in Nat \ {0}
  BY <1>2, HandleExtractionSound
<1>4. /\ rows' = [rows EXCEPT ![x] = Delta(x)] /\ work' = ApplyLineDelta(work, x, Text[x])
      /\ ops' = Append(ops, x) /\ irregular' = irregular \cup ({x} \cap held)
      /\ seen' = seen /\ hydrated' = hydrated /\ hydrated
  BY <1>2 DEF Process, RunInOrder
<1>5. irregular' \subseteq Frames /\ irregular \subseteq irregular'
  BY <1>1, <1>2, <1>4
<1>6. /\ L = Len(ops) /\ L \in Nat /\ Len(ops') = L + 1 /\ ops'[L + 1] = x
      /\ \A i \in 1..L : ops'[i] = ops[i] /\ ops[i] \in Frames /\ ops[i] \in prepared
  BY <1>0, <1>1, <1>4 DEF Elements
<1>7. x \in Nat /\ ckpt \in Nat /\ ~(x <= ckpt) /\ c \in Contexts /\ Text[x] \in SUBSET Lines
      /\ L \in Nat /\ L = Len(ops)
  <2>1. Frames \subseteq Nat
    BY DEF Frames
  <2> QED
    BY <1>1, <1>6, <2>1, FrameFacts
<1>8. rows'[x] = Text[x] \ Known(work, x) /\ \A g \in Frames \ {x} : rows'[g] = rows[g]
  BY <1>1, <1>4 DEF Delta
<1>9. x \notin irregular => x \notin content
  <2>1. x \notin Durable
    BY <1>7, Zenon DEF Durable
  <2> QED
    BY <1>2, <2>1 DEF Accounted
<1>10. Accounted'
  BY <1>2, <1>5 DEF Accounted, Durable
<1>11. OpsInOrder'
  <2> SUFFICES ASSUME NEW k \in 1..L + 1, ops'[k] \notin irregular', NEW j \in 1..k - 1
               PROVE  ops'[j] < ops'[k]
    BY <1>6 DEF OpsInOrder
  <2>1. CASE k = L + 1
    <3>1. x \notin held /\ j \in 1..L
      BY <1>4, <1>6, <2>1
    <3> QED
      BY <1>6, <2>1, <3>1
  <2>2. CASE k # L + 1
    <3>1. k \in 1..L /\ j \in 1..L
      BY <1>6, <2>2
    <3> QED
      BY <1>2, <1>5, <1>6, <3>1 DEF OpsInOrder
  <2> QED
    BY <2>1, <2>2
<1>12. \A s \in sessions : RowSound(s, content) /\ s.evidence \in Seq(Frames) /\ Elements(s.evidence) \subseteq content
  <2>1. \A s \in sessions : RowSound(s, content)
    BY <1>2 DEF Sound
  <2> QED
    BY <1>1, <2>1, EvidenceFacts
<1>13. ASSUME NEW t \in sessions', Regular(t)'
       PROVE  \/ \E s \in sessions : /\ Regular(s) /\ t.evidence = s.evidence /\ t.ctx = s.ctx
                                     /\ \A g \in Elements(s.evidence) : rows'[g] = rows[g]
                                     /\ t.open => s.open /\ s.ctx # c
              \/ /\ t.ctx = c /\ x \notin irregular /\ x \notin held
                 /\ \/ \E s \in sessions : /\ s.open /\ s.ctx = c /\ Regular(s) /\ CanExtend(s, x)
                                            /\ t.evidence = Append(s.evidence, x)
                    \/ t.evidence = <<x>>
  <2>1. Elements(t.evidence) \cap irregular' = {}
    BY <1>13 DEF Regular
  <2>2. ASSUME NEW s \in sessions, t.evidence = s.evidence
        PROVE  Regular(s) /\ \A g \in Elements(s.evidence) : rows'[g] = rows[g]
    <3>1. Elements(s.evidence) \cap irregular = {}
      BY <1>5, <2>1, <2>2
    <3>2. x \notin Elements(s.evidence) /\ Elements(s.evidence) \subseteq Frames
      BY <1>1, <1>9, <1>12, <3>1
    <3> QED
      BY <1>8, <3>1, <3>2 DEF Regular
  <2>3. CASE t \in sessions /\ ~(t.open /\ t.ctx = c)
    BY <2>2, <2>3
  <2>4. CASE \E s \in sessions : t = Closed(s)
    <3>1. PICK s \in sessions : t = Closed(s)
      BY <2>4
    <3>2. t.evidence = s.evidence /\ t.ctx = s.ctx /\ t.open = FALSE
      BY <1>12, <3>1, ClosedRow
    <3> QED
      BY <2>2, <3>2
  <2>5. CASE \E s \in sessions : s.open /\ s.ctx = c /\ CanExtend(s, x) /\ t = AppendFrame(s, x)
    <3>1. PICK s \in sessions : s.open /\ s.ctx = c /\ CanExtend(s, x) /\ t = AppendFrame(s, x)
      BY <2>5
    <3>2. t.evidence = Append(s.evidence, x) /\ t.ctx = s.ctx
      BY <1>12, <3>1 DEF AppendFrame, RowSound, Session
    <3>3. Elements(t.evidence) = Elements(s.evidence) \cup {x}
      BY <1>12, <3>2, ElementsOfAppend
    <3>4. x \notin irregular' /\ Regular(s)
      BY <1>5, <2>1, <3>3 DEF Regular
    <3>5. x \notin held /\ x \notin irregular
      BY <1>4, <3>4
    <3> QED
      BY <3>1, <3>2, <3>4, <3>5
  <2>6. CASE t = CreateSession(x)
    <3>1. t.evidence = <<x>> /\ t.ctx = c
      BY <2>6 DEF CreateSession
    <3>2. x \in Elements(t.evidence)
      BY <3>1 DEF Elements
    <3>3. x \notin held /\ x \notin irregular
      BY <1>4, <2>1, <3>2
    <3> QED
      BY <3>1, <3>3
  <2> HIDE DEF c
  <2>7. \/ t \in sessions /\ ~(t.open /\ t.ctx = c)
        \/ \E s \in sessions : t = Closed(s)
        \/ \E s \in sessions : s.open /\ s.ctx = c /\ CanExtend(s, x) /\ t = AppendFrame(s, x)
        \/ t = CreateSession(x)
    BY <1>2, SessionsAfter DEF c
  <2> QED
    BY <2>3, <2>4, <2>5, <2>6, <2>7
(* What the working contexts know of the session that x continues.         *)
<1>14. PICK m : Transaction(m)
  BY DEF OnceInv, Remembered
<1>15. /\ m \in [0..L -> Maps] /\ m[0] = seen /\ work = m[L]
       /\ \A i \in 1..L : m[i] = ApplyLineDelta(m[i - 1], ops[i], Text[ops[i]])
       /\ \A s \in sessions : s.open /\ Regular(s) =>
            \A i \in 0..L : Silent(s.ctx, i) =>
              Remembers(rows, m[i], s.ctx, Elements(s.evidence), Passed(i))
  BY <1>0, <1>4, <1>14 DEF Transaction
<1>16. ASSUME NEW s \in sessions, s.open, s.ctx = c, Regular(s), CanExtend(s, x), x \notin irregular, x \notin held
       PROVE  /\ Elements(Append(s.evidence, x)) = Elements(s.evidence) \cup {x} /\ Elements(s.evidence) \subseteq Frames
              /\ x \notin Elements(s.evidence)
              /\ Last(s.evidence) < x
              /\ \A g \in Elements(s.evidence) :
                   rows[g] \subseteq Known(work, x) /\ rows'[g] = rows[g] /\ Time[g] <= Time[x]
  <2>1. RowSound(s, content) /\ Elements(s.evidence) \subseteq content /\ Last(s.evidence) \in Elements(s.evidence)
    BY <1>1, <1>12, EvidenceFacts
  <2>2. x \notin Elements(s.evidence)
    BY <1>9, <1>16, <2>1
  <2>3. \A g \in Elements(s.evidence) : g < x
    <3> SUFFICES ASSUME NEW g \in Elements(s.evidence) PROVE g < x
      OBVIOUS
    <3>1. g \in content /\ g \notin irregular
      BY <1>16, <2>1 DEF Regular
    <3>2. g \in prepared \/ g <= ckpt
      BY <1>2, <3>1 DEF Accounted, Durable
    <3>3. g \in Nat
      BY <1>1, <3>1 DEF Frames
    <3> QED
      BY <1>7, <1>16, <3>2, <3>3
  <2>4. \A g \in Elements(s.evidence) : Time[g] <= Time[x]
    BY <1>1, <2>1, <2>3, FrameAssumption
  <2>5. \A h \in Passed(L) : h <= x
    <3> SUFFICES ASSUME NEW h \in Passed(L) PROVE h <= x
      OBVIOUS
    <3>1. h \in Frames /\ (h <= ckpt \/ h \in prepared)
      BY <1>6 DEF Passed
    <3>2. h \in Nat
      BY <3>1 DEF Frames
    <3> QED
      BY <1>7, <1>16, <3>1, <3>2
  <2>6. Remembers(rows, work, c, Elements(s.evidence), Passed(L))
    <3>1. L \in 0..L /\ Silent(c, L)
      BY <1>7 DEF Silent
    <3> QED
      BY <1>15, <1>16, <3>1
  <2>7. Time[x] <= Time[Last(s.evidence)] + Idle
    <3>1. Time[x] - Time[Last(s.evidence)] <= Idle
      BY <1>16 DEF CanExtend, Gap, EndedAt
    <3>2. Time[x] \in Nat /\ Time[Last(s.evidence)] \in Nat /\ Idle \in Nat
      BY <1>1, <2>1, FrameFacts, BoundAssumption
    <3> QED
      BY <3>1, <3>2
  <2>8. \A g \in Elements(s.evidence) : rows[g] \subseteq Known(work, x)
    <3>1. Elements(s.evidence) \in SUBSET Frames /\ Passed(L) \in SUBSET Frames
      BY <1>1, <2>1 DEF Passed
    <3> QED
      BY <1>1, <2>1, <2>5, <2>6, <2>7, <3>1, SameKnown
  <2>9. Elements(Append(s.evidence, x)) = Elements(s.evidence) \cup {x}
    BY <1>12, ElementsOfAppend
  <2> QED
    BY <1>1, <1>8, <2>1, <2>2, <2>3, <2>4, <2>8, <2>9
<1>17. Elements(<<x>>) = {x} /\ Len(<<x>>) = 1
  BY DEF Elements
<1> HIDE DEF c
<1>18. OncePerSession'
  <2> SUFFICES ASSUME NEW t \in sessions', Regular(t)',
                      NEW f \in Elements(t.evidence), NEW g \in Elements(t.evidence), f # g
               PROVE  rows'[f] \cap rows'[g] = {}
    BY DEF OncePerSession, Regular
  <2>1. CASE \E s \in sessions : /\ Regular(s) /\ t.evidence = s.evidence
                                 /\ \A k \in Elements(s.evidence) : rows'[k] = rows[k]
    BY <1>2, <2>1 DEF OncePerSession, Regular
  <2>2. CASE /\ x \notin irregular /\ x \notin held
             /\ \E s \in sessions : /\ s.open /\ s.ctx = c /\ Regular(s) /\ CanExtend(s, x)
                                    /\ t.evidence = Append(s.evidence, x)
    <3>1. PICK s \in sessions : /\ s.open /\ s.ctx = c /\ Regular(s) /\ CanExtend(s, x)
                                /\ t.evidence = Append(s.evidence, x)
      BY <2>2
    <3>2. /\ Elements(t.evidence) = Elements(s.evidence) \cup {x}
          /\ \A k \in Elements(s.evidence) : rows[k] \subseteq Known(work, x) /\ rows'[k] = rows[k]
      BY <1>16, <2>2, <3>1
    <3>3. \A k \in Elements(s.evidence) : rows'[x] \cap rows'[k] = {}
      BY <1>8, <3>2
    <3>4. f \in Elements(s.evidence) /\ g \in Elements(s.evidence) => rows[f] \cap rows[g] = {}
      BY <1>2, <3>1 DEF OncePerSession, Regular
    <3> QED
      BY <3>2, <3>3, <3>4
  <2>3. CASE t.evidence = <<x>>
    BY <1>17, <2>3
  <2> QED
    BY <1>13, <2>1, <2>2, <2>3
<1>19. RegularRise'
  <2> SUFFICES ASSUME NEW t \in sessions', Regular(t)' PROVE Rises(t)
    BY DEF RegularRise
  <2>1. CASE \E s \in sessions : Regular(s) /\ t.evidence = s.evidence
    BY <1>2, <2>1 DEF RegularRise, Rises
  <2>2. CASE /\ x \notin irregular /\ x \notin held
             /\ \E s \in sessions : /\ s.open /\ s.ctx = c /\ Regular(s) /\ CanExtend(s, x)
                                    /\ t.evidence = Append(s.evidence, x)
    <3>1. PICK s \in sessions : /\ s.open /\ s.ctx = c /\ Regular(s) /\ CanExtend(s, x)
                                /\ t.evidence = Append(s.evidence, x)
      BY <2>2
    <3>2. Rises(s) /\ Last(s.evidence) < x /\ s.evidence \in Seq(Frames)
      BY <1>2, <1>12, <1>16, <2>2, <3>1 DEF RegularRise
    <3> DEFINE n == Len(s.evidence)
    <3>3. /\ n \in Nat /\ Len(t.evidence) = n + 1 /\ t.evidence[n + 1] = x
          /\ \A i \in 1..n : t.evidence[i] = s.evidence[i]
          /\ Last(s.evidence) = s.evidence[n]
      BY <3>1, <3>2 DEF Last
    <3> HIDE DEF n
    <3> SUFFICES ASSUME NEW i \in 1..n PROVE t.evidence[i] < t.evidence[i + 1]
      BY <3>3 DEF Rises
    <3>4. CASE i = n
      BY <3>2, <3>3, <3>4
    <3>5. CASE i # n
      <4>1. i \in 1..n - 1 /\ i \in 1..n /\ i + 1 \in 1..n
        BY <3>3, <3>5
      <4>2. s.evidence[i] < s.evidence[i + 1]
        BY <3>2, <4>1 DEF Rises, n
      <4> QED
        BY <3>3, <4>1, <4>2
    <3> QED
      BY <3>4, <3>5
  <2>3. CASE t.evidence = <<x>>
    BY <2>3 DEF Rises
  <2> QED
    BY <1>13, <2>1, <2>2, <2>3
<1>20. ASSUME NEW t \in sessions', t.open
       PROVE  \/ t \in sessions /\ t.ctx # c
              \/ t.ctx = c /\ x \in Elements(t.evidence)
  <2>1. CASE \E s \in sessions : t = Closed(s)
    BY <1>12, <1>20, <2>1, ClosedRow
  <2>2. CASE \E s \in sessions : s.open /\ s.ctx = c /\ CanExtend(s, x) /\ t = AppendFrame(s, x)
    <3>1. PICK s \in sessions : s.open /\ s.ctx = c /\ CanExtend(s, x) /\ t = AppendFrame(s, x)
      BY <2>2
    <3>2. t.evidence = Append(s.evidence, x) /\ t.ctx = s.ctx
      BY <1>12, <3>1 DEF AppendFrame, RowSound, Session
    <3>3. Elements(t.evidence) = Elements(s.evidence) \cup {x}
      BY <1>12, <3>2, ElementsOfAppend
    <3> QED
      BY <3>1, <3>2, <3>3
  <2>3. CASE t = CreateSession(x)
    <3>1. t.evidence = <<x>> /\ t.ctx = c
      BY <2>3 DEF CreateSession, c
    <3> QED
      BY <1>17, <3>1
  <2>4. \/ t \in sessions /\ ~(t.open /\ t.ctx = c)
        \/ \E s \in sessions : t = Closed(s)
        \/ \E s \in sessions : s.open /\ s.ctx = c /\ CanExtend(s, x) /\ t = AppendFrame(s, x)
        \/ t = CreateSession(x)
    BY <1>2, SessionsAfter DEF c
  <2> QED
    BY <1>20, <2>1, <2>2, <2>3, <2>4
<1>21. ASSUME NEW d, NEW i \in 0..L, Silent(d, i)'
       PROVE  d # c /\ Silent(d, i)
  <2>1. \A j \in i + 1..L + 1 : Context[ops'[j]] # d
    BY <1>6, <1>21 DEF Silent
  <2>2. L + 1 \in i + 1..L + 1 /\ \A j \in i + 1..L : j \in i + 1..L + 1 /\ j \in 1..L
    BY <1>7
  <2>3. \A j \in i + 1..L : Context[ops[j]] # d
    BY <1>6, <2>1, <2>2
  <2>4. Context[x] # d
    BY <1>6, <2>1, <2>2
  <2> QED
    BY <1>7, <2>3, <2>4 DEF Silent, c
<1>22. OpenEnds'
  <2> SUFFICES ASSUME NEW t \in sessions', t.open, NEW i \in 1..L + 1, Context[ops'[i]] = t.ctx, Silent(t.ctx, i)'
               PROVE  ops'[i] \in Elements(t.evidence)
    BY <1>6 DEF OpenEnds
  <2>1. CASE i = L + 1
    BY <1>6, <1>20, <2>1 DEF c
  <2>2. CASE i # L + 1
    <3>1. i \in 1..L /\ i \in 0..L
      BY <1>7, <2>2
    <3>2. t.ctx # c /\ Silent(t.ctx, i)
      BY <1>21, <3>1
    <3>3. t \in sessions /\ ops'[i] = ops[i]
      BY <1>6, <1>20, <3>1, <3>2
    <3> QED
      BY <1>2, <1>7, <3>1, <3>2, <3>3 DEF OpenEnds
  <2> QED
    BY <2>1, <2>2
<1>23. Remembered'
  <2>0. PICK r : r = [i \in 0..L + 1 |-> IF i = L + 1 THEN ApplyLineDelta(work, x, Text[x]) ELSE m[i]]
    OBVIOUS
  <2>1. /\ r[L + 1] = work' /\ \A i \in 0..L : r[i] = m[i]
        /\ DOMAIN r = 0..L + 1
    <3>1. L + 1 \in 0..L + 1 /\ \A i \in 0..L : i \in 0..L + 1 /\ i # L + 1
      BY <1>7
    <3> QED
      BY <1>4, <2>0, <3>1
  <2>2. r = [i \in 0..L + 1 |-> r[i]]
    BY <2>0
  <2>3. work' \in Maps
    BY <1>1, <1>4, <1>7, DeltaTyped
  <2>4. r \in [0..Len(ops') -> Maps]
    <3>1. \A i \in 0..L + 1 : i = L + 1 \/ i \in 0..L
      BY <1>7
    <3>2. \A i \in 0..L + 1 : r[i] \in Maps
      <4> QED
        BY <1>15, <2>1, <2>3, <3>1
    <3> QED
      BY <1>6, <2>2, <3>2
  <2>5. r[0] = seen'
    <3>1. 0 \in 0..L
      BY <1>7
    <3> QED
      BY <1>4, <1>15, <2>1, <3>1
  <2>6. \A i \in 1..L + 1 : r[i] = ApplyLineDelta(r[i - 1], ops'[i], Text[ops'[i]])
    <3> SUFFICES ASSUME NEW i \in 1..L + 1 PROVE r[i] = ApplyLineDelta(r[i - 1], ops'[i], Text[ops'[i]])
      OBVIOUS
    <3>1. CASE i = L + 1
      <4>1. i - 1 = L /\ L \in 0..L
        BY <1>7, <3>1
      <4> QED
        BY <1>4, <1>6, <1>15, <2>1, <3>1, <4>1
    <3>2. CASE i # L + 1
      <4>1. i \in 1..L /\ i \in 0..L /\ i - 1 \in 0..L
        BY <1>7, <3>2
      <4> QED
        BY <1>6, <1>15, <2>1, <4>1
    <3> QED
      BY <3>1, <3>2
  <2>7. \A i \in 0..L : Passed(i)' = Passed(i)
    <3> SUFFICES ASSUME NEW i \in 0..L PROVE Passed(i)' = Passed(i)
      OBVIOUS
    <3>1. \A j \in 1..i : j \in 1..L
      BY <1>7
    <3>2. \A j \in 1..i : ops'[j] = ops[j]
      BY <1>6, <3>1
    <3> QED
      BY <3>2 DEF Passed
  <2>8. Passed(L) \cup {x} \subseteq Passed(L + 1)' /\ Passed(L) \subseteq Frames
    <3>1. \A j \in 1..L : j \in 1..L + 1
      BY <1>7
    <3>2. L + 1 \in 1..L + 1
      BY <1>7
    <3>3. \A h \in Passed(L) : h \in Passed(L + 1)'
      BY <1>6, <3>1 DEF Passed
    <3>4. x \in Passed(L + 1)'
      BY <1>6, <3>2 DEF Passed
    <3>5. Passed(L) \subseteq Frames
      BY DEF Passed
    <3> QED
      BY <3>3, <3>4, <3>5
  <2>9. ASSUME NEW t \in sessions', t.open, Regular(t)', NEW i \in 0..L + 1, Silent(t.ctx, i)'
        PROVE  Remembers(rows', r[i], t.ctx, Elements(t.evidence), Passed(i)')
    <3> DEFINE ev == Elements(t.evidence)
    <3>1. CASE t.ctx # c
      <4>1. t \in sessions
        BY <1>20, <2>9, <3>1
      <4>2. Regular(t) /\ \A g \in ev : rows'[g] = rows[g]
        <5>1. Regular(t)
          BY <1>5, <2>9 DEF Regular
        <5>2. x \notin ev /\ ev \subseteq Frames
          BY <1>1, <1>9, <1>12, <4>1, <5>1 DEF Regular
        <5> QED
          BY <1>8, <5>1, <5>2
      <4>3. CASE i = L + 1
        <5>1. L \in 0..L /\ Silent(t.ctx, L)
          BY <1>7 DEF Silent
        <5>2. Remembers(rows, work, t.ctx, ev, Passed(L))
          BY <1>15, <2>9, <4>1, <4>2, <5>1
        <5>3. ev \in SUBSET Frames /\ Passed(L) \in SUBSET Frames
          BY <1>1, <1>12, <2>8, <4>1
        <5> HIDE DEF ev
        <5>4. Remembers(rows, work', t.ctx, ev, Passed(L) \cup {x})
          BY <1>1, <1>4, <3>1, <5>2, <5>3, OtherApplied DEF c
        <5>5. Remembers(rows', work', t.ctx, ev, Passed(L + 1)')
          BY <2>8, <4>2, <5>4, RemembersMore
        <5>6. Passed(i)' = Passed(L + 1)' /\ r[i] = work'
          BY <2>1, <4>3
        <5> QED
          BY <5>5, <5>6 DEF ev
      <4>4. CASE i # L + 1
        <5>1. i \in 0..L
          BY <1>7, <4>4
        <5>2. Silent(t.ctx, i)
          BY <1>21, <2>9, <5>1
        <5>3. Remembers(rows, m[i], t.ctx, ev, Passed(i))
          BY <1>15, <2>9, <4>1, <4>2, <5>1, <5>2
        <5> HIDE DEF ev
        <5>4. Remembers(rows', m[i], t.ctx, ev, Passed(i))
          BY <4>2, <5>3, RemembersMore
        <5> QED
          BY <2>1, <2>7, <5>1, <5>4 DEF ev
      <4> QED
        BY <4>3, <4>4
    <3>2. CASE t.ctx = c
      <4>1. i = L + 1
        <5>1. i \notin 0..L
          BY <1>21, <2>9, <3>2
        <5> QED
          BY <1>7, <5>1
      <4>2. Time[x] <= Time[x] /\ x \in Passed(L + 1)'
        BY <2>8, FrameFacts
      <4>3. rows'[x] \subseteq Known(work, x) \cup Text[x]
        BY <1>8
      <4>4. ev \in SUBSET Frames /\ \A g \in ev : Time[g] <= Time[x] /\ rows'[g] \subseteq Known(work, x) \cup Text[x]
        <5>1. CASE /\ x \notin irregular /\ x \notin held
                   /\ \E s \in sessions : /\ s.open /\ s.ctx = c /\ Regular(s) /\ CanExtend(s, x)
                                          /\ t.evidence = Append(s.evidence, x)
          <6>1. PICK s \in sessions : /\ s.open /\ s.ctx = c /\ Regular(s) /\ CanExtend(s, x)
                                      /\ t.evidence = Append(s.evidence, x)
            BY <5>1
          <6>2. /\ ev = Elements(s.evidence) \cup {x} /\ Elements(s.evidence) \subseteq Frames
                /\ \A g \in Elements(s.evidence) :
                     rows[g] \subseteq Known(work, x) /\ rows'[g] = rows[g] /\ Time[g] <= Time[x]
            BY <1>16, <5>1, <6>1
          <6> HIDE DEF ev
          <6> QED
            BY <4>2, <4>3, <6>2
        <5>2. CASE t.evidence = <<x>>
          BY <1>17, <4>2, <4>3, <5>2
        <5> QED
          BY <1>13, <2>9, <3>2, <5>1, <5>2
      <4>5. Remembers(rows', work', t.ctx, ev, Passed(L + 1)')
        <5> HIDE DEF ev
        <5> QED
          BY <1>1, <1>4, <3>2, <4>2, <4>4, SameApplied DEF c
      <4>6. Passed(i)' = Passed(L + 1)' /\ r[i] = work'
        BY <2>1, <4>1
      <4> HIDE DEF ev
      <4> QED
        BY <4>5, <4>6 DEF ev
    <3> QED
      BY <3>1, <3>2
  <2>10. Transaction(r)'
    <3>1. pc' # "idle" => work' = r[Len(ops')]
      BY <1>6, <2>1
    <3>2. \A t \in sessions' : t.open /\ Regular(t)' => \A i \in 0..Len(ops') : Silent(t.ctx, i)' =>
            Remembers(rows', r[i], t.ctx, Elements(t.evidence), Passed(i)')
      BY <1>6, <2>9
    <3>3. \A i \in 1..Len(ops') : r[i] = ApplyLineDelta(r[i - 1], ops'[i], Text[ops'[i]])
      BY <1>6, <2>6
    <3> QED
      BY <2>4, <2>5, <3>1, <3>2, <3>3 DEF Transaction
  <2> QED
    BY <2>10 DEF Remembered
<1> QED
  BY <1>3, <1>5, <1>10, <1>11, <1>18, <1>19, <1>22, <1>23

-----------------------------------------------------------------------------
(* Steps that store no frame.                                              *)

LEMMA SameEvidence ==
  ASSUME OnceInv, rows' = rows, irregular \subseteq irregular',
         \A t \in sessions' : \E s \in sessions : t.evidence = s.evidence
  PROVE  RegularRise' /\ OncePerSession'
<1>1. \A t \in sessions' : Regular(t)' => \E s \in sessions : t.evidence = s.evidence /\ Regular(s)
  BY DEF Regular
<1>2. RegularRise'
  BY <1>1 DEF OnceInv, RegularRise, Rises
<1>3. OncePerSession'
  BY <1>1 DEF OnceInv, OncePerSession, Regular
<1> QED
  BY <1>2, <1>3

LEMMA FreshTransaction ==
  ASSUME ops' = <<>>, seen' \in Maps, pc' # "idle" => work' = seen',
         hydrated' => \A s \in sessions' : s.open /\ Regular(s)' =>
           Remembers(rows', seen', s.ctx, Elements(s.evidence), {h \in Frames : h <= ckpt'})
  PROVE  Remembered' /\ OpsInOrder' /\ OpenEnds'
<1>1. Len(ops') = 0 /\ 0..0 = {0} /\ 1..0 = {}
  BY NoOps
<1>2. PICK r : r = [i \in 0..0 |-> seen']
  OBVIOUS
<1>3. r \in [0..0 -> Maps] /\ r[0] = seen'
  BY <1>2
<1>4. Passed(0)' = {h \in Frames : h <= ckpt'}
  <2>1. \A j \in 1..0 : FALSE
    BY <1>1
  <2> QED
    BY <2>1 DEF Passed
<1>5. hydrated' => \A s \in sessions' : s.open /\ Regular(s)' =>
        \A i \in 0..0 : Silent(s.ctx, i)' =>
          Remembers(rows', r[i], s.ctx, Elements(s.evidence), Passed(i)')
  <2> SUFFICES ASSUME hydrated', NEW s \in sessions', s.open, Regular(s)', NEW i \in 0..0
               PROVE  Remembers(rows', r[i], s.ctx, Elements(s.evidence), Passed(i)')
    OBVIOUS
  <2>1. i = 0
    BY <1>1
  <2>2. Passed(i)' = {h \in Frames : h <= ckpt'} /\ r[i] = seen'
    BY <1>3, <1>4, <2>1
  <2> QED
    BY <2>2
<1>6. Transaction(r)'
  BY <1>1, <1>3, <1>5 DEF Transaction
<1> QED
  BY <1>1, <1>6 DEF Remembered, OpsInOrder, OpenEnds

(* Whatever else happens to sessions: they close, or are deleted.          *)
LEMMA OnceOthers ==
  ASSUME OnceInv, Sound(sessions', content', nextId'), nextId' = nextId, content' \subseteq content,
         RunInOrder', pc' # "idle" => pc # "idle",
         \A t \in sessions' : \E s \in sessions :
           t.evidence = s.evidence /\ t.ctx = s.ctx /\ (t.open => s.open),
         UNCHANGED <<irregular, ckpt, prepared, rows, seen, work, ops, hydrated>>
  PROVE  OnceInv'
<1>1. RegularRise' /\ OncePerSession'
  BY SameEvidence
<1>2. Accounted' /\ OpsInOrder'
  BY DEF OnceInv, Accounted, OpsInOrder, Durable
<1>3. OpenEnds'
  <2> SUFFICES ASSUME NEW t \in sessions', t.open, NEW i \in 1..Len(ops), Context[ops[i]] = t.ctx, Silent(t.ctx, i)'
               PROVE  ops[i] \in Elements(t.evidence)
    BY DEF OpenEnds
  <2>1. PICK s \in sessions : t.evidence = s.evidence /\ t.ctx = s.ctx /\ s.open
    OBVIOUS
  <2>2. Silent(s.ctx, i)
    BY <2>1 DEF Silent
  <2> QED
    BY <2>1, <2>2 DEF OnceInv, OpenEnds
<1>4. Remembered'
  <2>1. PICK m : Transaction(m)
    BY DEF OnceInv, Remembered
  <2>2. ASSUME hydrated, NEW t \in sessions', t.open, Regular(t)', NEW i \in 0..Len(ops), Silent(t.ctx, i)'
        PROVE  Remembers(rows, m[i], t.ctx, Elements(t.evidence), Passed(i)')
    <3>1. PICK s \in sessions : t.evidence = s.evidence /\ t.ctx = s.ctx /\ s.open
      BY <2>2
    <3>2. Silent(s.ctx, i) /\ Regular(s)
      BY <2>2, <3>1 DEF Silent, Regular
    <3>3. Remembers(rows, m[i], s.ctx, Elements(s.evidence), Passed(i))
      BY <2>1, <2>2, <3>1, <3>2 DEF Transaction
    <3>4. Passed(i)' = Passed(i)
      BY DEF Passed
    <3> QED
      BY <3>1, <3>3, <3>4
  <2>3. Transaction(m)'
    BY <2>1, <2>2 DEF Transaction
  <2> QED
    BY <2>3 DEF Remembered
<1> QED
  BY <1>1, <1>2, <1>3, <1>4 DEF OnceInv

LEMMA FlushCloses1 ==
  ASSUME NEW C, Sound(sessions, C, nextId), NEW t \in FlushIdle(sessions)
  PROVE  \E s \in sessions :
           /\ t.evidence = s.evidence /\ t.ctx = s.ctx
           /\ t.open => t = s /\ ~(EndedAt(s) < clock - Idle)
<1>1. PICK s \in sessions : t = IF EndedAt(s) < clock - Idle THEN Closed(s) ELSE s
  BY DEF FlushIdle, Closed
<1>2. RowSound(s, C)
  BY DEF Sound
<1>3. Closed(s).evidence = s.evidence /\ Closed(s).ctx = s.ctx /\ Closed(s).open = FALSE
  BY <1>2, ClosedRow
<1> QED
  BY <1>1, <1>3

(* The last operation of a context.                                        *)
LEMMA LastOp ==
  ASSUME LinesTyped, NEW d
  PROVE  Silent(d, 0) \/ \E i \in 1..Len(ops) : Context[ops[i]] = d /\ Silent(d, i)
<1> DEFINE left == {n \in Nat : \E i \in 1..Len(ops) : n = Len(ops) - i /\ Context[ops[i]] = d}
<1>1. Len(ops) \in Nat
  BY DEF LinesTyped
<1>2. CASE left = {}
  <2>1. \A i \in 1..Len(ops) : Len(ops) - i \in Nat
    BY <1>1
  <2>2. \A i \in 1..Len(ops) : Context[ops[i]] # d
    BY <1>2, <2>1
  <2>3. \A j \in 0 + 1..Len(ops) : j \in 1..Len(ops)
    BY <1>1
  <2> QED
    BY <2>2, <2>3 DEF Silent
<1>3. CASE left # {}
  <2>1. PICK n \in left : \A k \in left : n <= k
    <3>1. left \in SUBSET Nat
      OBVIOUS
    <3> HIDE DEF left
    <3> QED
      BY <1>3, <3>1, LeastNumber
  <2>2. PICK i \in 1..Len(ops) : n = Len(ops) - i /\ Context[ops[i]] = d
    BY <2>1
  <2>3. ASSUME NEW j \in i + 1..Len(ops) PROVE Context[ops[j]] # d
    <3>1. j \in 1..Len(ops) /\ Len(ops) - j \in Nat /\ ~(n <= Len(ops) - j)
      <4>1. PICK L : L = Len(ops)
        OBVIOUS
      <4>2. L \in Nat /\ i \in 1..L /\ j \in i + 1..L /\ n = L - i
        BY <1>1, <2>2, <4>1
      <4>3. j \in 1..L /\ L - j \in Nat /\ ~(n <= L - j)
        BY <4>2
      <4> QED
        BY <4>1, <4>3
    <3>2. Len(ops) - j \notin left
      <4> HIDE DEF left
      <4> QED
        BY <2>1, <3>1
    <3> QED
      BY <3>1, <3>2
  <2> QED
    BY <2>2, <2>3 DEF Silent
<1> QED
  BY <1>2, <1>3

(* A run that fails leaves what it prepared irregular.                     *)
LEMMA OnceEnd ==
  ASSUME LinesInv, OnceInv, NoRun, NoTransaction, irregular' = irregular \cup prepared,
         UNCHANGED <<sessions, nextId, content, ckpt, rows>>,
         \/ seen' = seen /\ hydrated' = hydrated
         \/ seen' = Nothing /\ hydrated' = FALSE
  PROVE  OnceInv'
<1>1. /\ ops' = <<>> /\ pc' = "idle" /\ todo' = {} /\ hand' = None /\ prepared' = {} /\ held' = {} /\ failed' = {}
  BY DEF NoRun, NoTransaction
<1>2. LinesTyped /\ seen \in Maps /\ prepared \subseteq Frames /\ ops \in Seq(Frames) /\ prepared = Elements(ops)
  BY DEF LinesInv, LinesTyped, RunApart
<1>3. RegularRise' /\ OncePerSession'
  BY SameEvidence
<1>4. RunInOrder' /\ Accounted'
  BY <1>1 DEF OnceInv, RunInOrder, Accounted, Durable
<1>5. seen' \in Maps
  BY <1>2, NothingIsBacked
<1>6. ASSUME hydrated', NEW s \in sessions, s.open, Regular(s)'
      PROVE  Remembers(rows, seen', s.ctx, Elements(s.evidence), {h \in Frames : h <= ckpt})
  <2>1. Regular(s) /\ Elements(s.evidence) \cap prepared = {} /\ hydrated /\ seen' = seen
    BY <1>6 DEF Regular
  <2>2. \A i \in 1..Len(ops) : ops[i] \in prepared
    BY <1>2 DEF Elements
  <2>3. Silent(s.ctx, 0)
    BY <1>2, <1>6, <2>1, <2>2, LastOp DEF OnceInv, OpenEnds
  <2>4. PICK m : Transaction(m)
    BY DEF OnceInv, Remembered
  <2>5. 0 \in 0..Len(ops)
    BY <1>2
  <2>6. Remembers(rows, m[0], s.ctx, Elements(s.evidence), Passed(0))
    BY <1>6, <2>1, <2>3, <2>4, <2>5 DEF Transaction
  <2>7. Passed(0) = {h \in Frames : h <= ckpt}
    <3>1. \A j \in 1..0 : FALSE
      OBVIOUS
    <3> QED
      BY <3>1 DEF Passed
  <2> QED
    BY <2>1, <2>4, <2>6, <2>7 DEF Transaction
<1>7. Remembered' /\ OpsInOrder' /\ OpenEnds'
  BY <1>1, <1>5, <1>6, FreshTransaction
<1>8. Sound(sessions', content', nextId') /\ nextId' \in Nat \ {0} /\ irregular' \subseteq Frames
  BY <1>2 DEF OnceInv
<1> QED
  BY <1>3, <1>4, <1>7, <1>8 DEF OnceInv

-----------------------------------------------------------------------------
(* A commit keeps what the transaction remembers of a session all of whose *)
(* frames are accepted, behind the checkpoint n that the run sets.         *)
LEMMA CommitRemembers ==
  ASSUME LinesInv, OnceInv, hydrated, NEW n \in Frames \cup {0}, ckpt <= n, \A f \in Accepted : f <= n,
         NEW s \in sessions, s.open, Regular(s), Elements(s.evidence) \cap prepared \subseteq Accepted
  PROVE  Remembers(rows, Commit(Accepted), s.ctx, Elements(s.evidence), {h \in Frames : h <= n})
<1>0. PICK L, H, ev : L = Len(ops) /\ H = {h \in Frames : h <= n} /\ ev = Elements(s.evidence)
  OBVIOUS
<1>1. /\ ops \in Seq(Frames) /\ prepared = Elements(ops) /\ content \subseteq Frames /\ ckpt \in Frames \cup {0}
      /\ failed \subseteq prepared /\ OpsInOrder /\ OpenEnds /\ LinesTyped
  BY DEF LinesInv, LinesTyped, OnceInv, RunInOrder
<1>2. L \in Nat /\ \A i \in 1..L : ops[i] \in Frames /\ ops[i] \in prepared
  BY <1>0, <1>1 DEF Elements
<1>3. Frames \subseteq Nat /\ ckpt \in Nat /\ n \in Nat /\ prepared \subseteq Frames
  <2>1. Frames \subseteq Nat
    BY DEF Frames
  <2>2. prepared \subseteq Frames
    BY <1>1 DEF Elements
  <2> QED
    BY <1>1, <2>1, <2>2
<1>4. ev \subseteq Frames /\ H \subseteq Frames /\ Accepted \subseteq H
  <2>1. RowSound(s, content)
    BY DEF OnceInv, Sound
  <2>2. ev \subseteq Frames
    BY <1>0, <1>1, <2>1, EvidenceFacts
  <2>3. Accepted \subseteq Frames
    BY <1>3 DEF Accepted
  <2> QED
    BY <1>0, <2>2, <2>3
<1>5. PICK k \in 0..L : /\ Silent(s.ctx, k)
                        /\ k # 0 => Context[ops[k]] = s.ctx
  <2>1. 0 \in 0..L /\ \A i \in 1..L : i \in 0..L
    BY <1>2
  <2> QED
    BY <1>0, <1>1, <2>1, LastOp
<1>6. \A i \in 1..k : ops[i] \in Accepted
  <2> SUFFICES ASSUME NEW i \in 1..k PROVE ops[i] \in Accepted
    OBVIOUS
  <2>1. k \in 1..L /\ i \in 1..L /\ k # 0 /\ (i = k \/ i \in 1..k - 1)
    BY <1>2
  <2>2. ops[k] \in ev
    BY <1>0, <1>1, <1>5, <2>1 DEF OpenEnds
  <2>3. ops[k] \in Accepted /\ ops[k] \notin irregular
    BY <1>0, <1>2, <2>1, <2>2 DEF Regular
  <2>4. CASE i \in 1..k - 1
    <3>1. ops[i] < ops[k]
      BY <1>0, <1>1, <2>1, <2>3, <2>4 DEF OpsInOrder
    <3>2. \A g \in failed : ops[k] < g
      BY <2>3 DEF Accepted
    <3>3. ops[i] \in Nat /\ ops[k] \in Nat /\ \A g \in failed : g \in Nat
      BY <1>1, <1>2, <1>3, <2>1
    <3>4. \A g \in failed : ops[i] < g
      BY <3>1, <3>2, <3>3
    <3>5. ops[i] \notin failed
      BY <3>3, <3>4
    <3> QED
      BY <1>2, <2>1, <3>4, <3>5 DEF Accepted
  <2> QED
    BY <2>1, <2>3, <2>4
<1>7. PICK m : Transaction(m)
  BY DEF OnceInv, Remembered
<1>8. PICK g : Commits(g)
  BY <1>1, CommitFunction
<1>9. /\ m[0] = seen /\ \A i \in 1..L : m[i] = ApplyLineDelta(m[i - 1], ops[i], Text[ops[i]])
      /\ Remembers(rows, m[k], s.ctx, ev, Passed(k))
  <2>1. /\ m[0] = seen /\ \A i \in 1..L : m[i] = ApplyLineDelta(m[i - 1], ops[i], Text[ops[i]])
    BY <1>0, <1>7 DEF Transaction
  <2>2. \A i \in 0..L : Silent(s.ctx, i) => Remembers(rows, m[i], s.ctx, ev, Passed(i))
    BY <1>0, <1>7 DEF Transaction
  <2> QED
    BY <1>5, <2>1, <2>2
<1>10. Passed(k) \subseteq H
  <2> SUFFICES ASSUME NEW h \in Passed(k) PROVE h \in H
    OBVIOUS
  <2>1. h \in Frames /\ (h <= ckpt \/ \E j \in 1..k : h = ops[j])
    BY DEF Passed
  <2>2. CASE h <= ckpt
    <3>1. h \in Nat
      BY <1>3, <2>1
    <3>2. h <= n
      BY <1>3, <2>2, <3>1
    <3> QED
      BY <1>0, <2>1, <3>2
  <2>3. CASE \E j \in 1..k : h = ops[j]
    BY <1>4, <1>6, <2>3
  <2> QED
    BY <2>1, <2>2, <2>3
<1>11. /\ g \in [0..L -> Replays] /\ g[0].contexts = seen /\ g[0].blocked = {}
       /\ \A i \in 1..L : g[i] = Replay(Accepted, g[i - 1], ops[i])
       /\ Commit(Accepted) = g[L].contexts
  BY <1>0, <1>8 DEF Commits
<1> DEFINE Follows(i) == i <= k => g[i].contexts = m[i] /\ g[i].blocked = {}
           Holds(i) == i >= k => Remembers(rows, g[i].contexts, s.ctx, ev, H)
           S == {i \in 0..L : Follows(i) /\ Holds(i)}
<1>12. Remembers(rows, m[k], s.ctx, ev, H)
  BY <1>9, <1>10, RemembersMore
<1>13. 0 \in S
  <2>1. 0 \in 0..L /\ (0 >= k => k = 0)
    BY <1>2
  <2> QED
    BY <1>9, <1>11, <1>12, <2>1
<1>14. ASSUME NEW i \in 0..L - 1, i \in S PROVE i + 1 \in S
  <2>0. PICK q, f : q = i + 1 /\ f = ops[q]
    OBVIOUS
  <2>1. q \in 1..L /\ q \in 0..L /\ q - 1 = i /\ i \in 0..L
    BY <1>2, <2>0
  <2>2. g[q] = Replay(Accepted, g[i], f) /\ m[q] = ApplyLineDelta(m[i], f, Text[f]) /\ g[i] \in Replays
    BY <1>9, <1>11, <2>0, <2>1
  <2>3. g[i].contexts \in Maps /\ f \in Frames /\ f \in prepared
    BY <1>2, <2>0, <2>1, <2>2 DEF Replays
  <2>4. Follows(q)
    <3> SUFFICES ASSUME q <= k PROVE g[q].contexts = m[q] /\ g[q].blocked = {}
      OBVIOUS
    <3>1. i <= k /\ q \in 1..k
      BY <2>1
    <3>2. g[i].contexts = m[i] /\ g[i].blocked = {}
      BY <1>14, <3>1
    <3>3. f \in Accepted
      BY <1>6, <2>0, <3>1
    <3>4. Replay(Accepted, g[i], f) = [g[i] EXCEPT !.contexts = ApplyLineDelta(@, f, Text[f])]
      BY <3>2, <3>3, ReplayCases
    <3>5. g[q].contexts = ApplyLineDelta(g[i].contexts, f, Text[f]) /\ g[q].blocked = g[i].blocked
      BY <2>2, <3>4 DEF Replays
    <3> QED
      BY <2>2, <3>2, <3>5
  <2>5. Holds(q)
    <3> SUFFICES ASSUME q >= k PROVE Remembers(rows, g[q].contexts, s.ctx, ev, H)
      OBVIOUS
    <3>1. CASE q = k
      <4>1. q <= k
        BY <2>1, <3>1
      <4>2. g[q].contexts = m[k]
        BY <2>4, <3>1, <4>1
      <4> QED
        BY <1>12, <4>2
    <3>2. CASE q # k
      <4>1. i >= k /\ q \in k + 1..L
        BY <2>1, <3>2
      <4>2. Remembers(rows, g[i].contexts, s.ctx, ev, H)
        BY <1>14, <4>1
      <4>3. Context[f] # s.ctx
        BY <1>0, <1>5, <2>0, <4>1 DEF Silent
      <4>4. CASE Replay(Accepted, g[i], f) = g[i]
        BY <2>2, <4>2, <4>4
      <4>5. CASE Replay(Accepted, g[i], f) = [g[i] EXCEPT !.blocked = @ \cup {Context[f]}]
        <5>1. g[q].contexts = g[i].contexts
          BY <2>2, <4>5 DEF Replays
        <5> QED
          BY <4>2, <5>1
      <4>6. CASE /\ f \in Accepted
                 /\ Replay(Accepted, g[i], f) = [g[i] EXCEPT !.contexts = ApplyLineDelta(@, f, Text[f])]
        <5>1. g[q].contexts = ApplyLineDelta(g[i].contexts, f, Text[f])
          BY <2>2, <4>6 DEF Replays
        <5>2. f \in H /\ H \cup {f} = H
          BY <1>4, <4>6
        <5>3. Remembers(rows, ApplyLineDelta(g[i].contexts, f, Text[f]), s.ctx, ev, H \cup {f})
          BY <1>4, <2>3, <4>2, <4>3, OtherApplied
        <5> QED
          BY <5>1, <5>2, <5>3
      <4> QED
        BY <4>4, <4>5, <4>6, ReplayCases
    <3> QED
      BY <3>1, <3>2
  <2> HIDE DEF Follows, Holds
  <2> QED
    BY <2>0, <2>1, <2>4, <2>5
<1>15. L \in S
  <2>1. L \in 0..L
    BY <1>2
  <2> HIDE DEF S
  <2> QED
    BY <1>2, <1>13, <1>14, <2>1, FromZero
<1>16. L >= k
  BY <1>2
<1> QED
  BY <1>0, <1>11, <1>15, <1>16

-----------------------------------------------------------------------------
(* The actions.                                                            *)

LEMMA FirstIsLeast ==
  ASSUME NEW S \in SUBSET Frames, S # {}
  PROVE  First(S) \in S /\ \A q \in S \ {First(S)} : First(S) < q
<1>1. \E x \in S : \A y \in S : x <= y
  BY LeastNumber DEF Frames
<1>2. First(S) \in S /\ \A y \in S : First(S) <= y
  BY <1>1 DEF First
<1>3. S \subseteq Nat
  BY DEF Frames
<1>4. ASSUME NEW q \in S \ {First(S)} PROVE First(S) < q
  <2>1. PICK x : x = First(S)
    OBVIOUS
  <2>2. x \in Nat /\ q \in Nat /\ x <= q /\ x # q
    BY <1>2, <1>3, <1>4, <2>1
  <2>3. x < q
    BY <2>2
  <2> QED
    BY <2>1, <2>3
<1> QED
  BY <1>2, <1>4

(* What is remembered between runs.                                        *)
LEMMA BetweenRuns ==
  ASSUME LinesInv, OnceInv, hydrated, NEW s \in sessions, s.open, Regular(s), Silent(s.ctx, 0)
  PROVE  Remembers(rows, seen, s.ctx, Elements(s.evidence), {h \in Frames : h <= ckpt})
<1>1. PICK m : Transaction(m)
  BY DEF OnceInv, Remembered
<1>2. 0 \in 0..Len(ops)
  BY DEF LinesInv, LinesTyped
<1>3. Remembers(rows, m[0], s.ctx, Elements(s.evidence), Passed(0)) /\ m[0] = seen
  BY <1>1, <1>2 DEF Transaction
<1>4. Passed(0) = {h \in Frames : h <= ckpt}
  <2>1. \A j \in 1..0 : FALSE
    OBVIOUS
  <2> QED
    BY <2>1 DEF Passed
<1> QED
  BY <1>3, <1>4

LEMMA OnceStart ==
  ASSUME LinesInv, OnceInv, StartLines
  PROVE  OnceInv'
<1>1. /\ pc = "idle" /\ pc' = "extract" /\ sessions' = FlushIdle(sessions)
      /\ hydrated' = TRUE /\ work' = seen' /\ ops' = <<>>
      /\ UNCHANGED <<content, nextId, ckpt, hand, prepared, failed, rows, irregular>>
  BY DEF StartLines, StartRun, ghostsOfText
<1>2. /\ LinesTyped /\ prepared = {} /\ hand = None /\ ops = <<>> /\ failed = {}
  BY <1>1 DEF LinesInv, RunApart, OnceInv, RunInOrder
<1>3. /\ Sound(sessions, content, nextId) /\ nextId \in Nat \ {0} /\ irregular \subseteq Frames
      /\ Accounted /\ RegularRise
  BY DEF OnceInv
<1>4. Sound(sessions', content', nextId') /\ nextId' \in Nat \ {0} /\ irregular' \subseteq Frames
  BY <1>1, <1>3, FlushSound
<1>5. \A t \in sessions' : \E s \in sessions :
        /\ t.evidence = s.evidence /\ t.ctx = s.ctx
        /\ t.open => t = s /\ ~(EndedAt(s) < clock - Idle)
  BY <1>1, <1>3, FlushCloses1
<1>6. RegularRise' /\ OncePerSession'
  BY <1>1, <1>5, SameEvidence
<1>7. RunInOrder' /\ Accounted'
  BY <1>1, <1>2, <1>3 DEF RunInOrder, Accounted, Durable
<1> DEFINE kept == Without(seen, Stale)
<1>8. kept \in Maps /\ seen \in Maps
  BY <1>2, WithoutBacked DEF LinesTyped
<1>9. Hydrate(kept) \in Maps
  <2>1. PICK W : W = {}
    OBVIOUS
  <2>2. AllBacked(content, rows, Durable, W, kept)
    BY <2>1 DEF AllBacked
  <2> HIDE DEF kept
  <2> QED
    BY <1>2, <1>8, <2>2, HydrateBacked
<1>10. seen' = IF hydrated THEN kept ELSE Hydrate(kept)
  BY DEF StartLines
<1>11. seen' \in Maps
  <2> HIDE DEF kept
  <2> QED
    BY <1>8, <1>9, <1>10
<1>12. ASSUME NEW t \in sessions', t.open, Regular(t)'
       PROVE  Remembers(rows', seen', t.ctx, Elements(t.evidence), {h \in Frames : h <= ckpt'})
  <2>1. t \in sessions /\ ~(EndedAt(t) < clock - Idle) /\ Regular(t)
    BY <1>1, <1>5, <1>12 DEF Regular
  <2>2. RowSound(t, content) /\ Rises(t)
    BY <1>3, <2>1 DEF Sound, RegularRise
  <2>3. CASE hydrated
    <3>1. Silent(t.ctx, 0)
      <4>1. \A j \in 0 + 1..Len(ops) : FALSE
        BY <1>2, NoOps
      <4> QED
        BY <4>1 DEF Silent
    <3>2. Remembers(rows, seen, t.ctx, Elements(t.evidence), {h \in Frames : h <= ckpt})
      BY <1>12, <2>1, <2>3, <3>1, BetweenRuns
    <3>3. t.ctx \notin Stale
      <4> SUFFICES ASSUME NEW s \in sessions, s.open, EndedAt(s) < clock - Idle, s.ctx = t.ctx PROVE FALSE
        BY DEF Stale
      <4>1. s = t
        BY <1>3, <1>12, <2>1 DEF Sound, OneOpen
      <4> QED
        BY <2>1, <4>1
    <3>4. seen' = kept
      BY <1>10, <2>3
    <3>5. t.ctx \in DOMAIN seen => t.ctx \in DOMAIN kept /\ kept[t.ctx] = seen[t.ctx]
      BY <3>3 DEF Without
    <3> HIDE DEF kept
    <3>6. Remembers(rows, kept, t.ctx, Elements(t.evidence), {h \in Frames : h <= ckpt})
      BY <3>2, <3>5 DEF Remembers, Carries
    <3> QED
      BY <1>1, <3>4, <3>6
  <2>4. CASE ~hydrated
    <3>1. \A g \in Elements(t.evidence) : g <= ckpt
      <4>1. Elements(t.evidence) \subseteq content
        BY <1>2, <2>2, EvidenceFacts DEF LinesTyped
      <4> QED
        BY <1>2, <1>3, <2>1, <4>1 DEF Accounted, Durable, Regular
    <3>2. t \in FlushIdle(sessions)
      BY <1>1
    <3> HIDE DEF kept
    <3>3. Remembers(rows, Hydrate(kept), t.ctx, Elements(t.evidence), {h \in Frames : h <= ckpt})
      BY <1>2, <1>8, <1>12, <2>2, <3>1, <3>2, HydrateRemembers
    <3> QED
      BY <1>1, <1>10, <2>4, <3>3
  <2> QED
    BY <2>3, <2>4
<1>13. Remembered' /\ OpsInOrder' /\ OpenEnds'
  BY <1>1, <1>11, <1>12, FreshTransaction
<1> QED
  BY <1>4, <1>6, <1>7, <1>13 DEF OnceInv

LEMMA OnceFinish ==
  ASSUME LinesInv, LinesInv', OnceInv, FinishLines
  PROVE  OnceInv'
<1>1. /\ pc = "finish" /\ NoRun /\ NoTransaction
      /\ UNCHANGED <<content, sessions, nextId, rows, hydrated>>
  BY DEF FinishLines, FinishOf, derived
<1>2. LinesTyped /\ prepared \subseteq Frames /\ hydrated
  BY <1>1 DEF LinesInv, RunApart, OnceInv, RunInOrder
<1>3. CASE Throws(Texts)
  <2>1. ckpt' = ckpt /\ seen' = seen /\ irregular' = irregular \cup prepared
    BY <1>3 DEF FinishLines, FinishOf
  <2> QED
    BY <1>1, <2>1, OnceEnd
<1>4. CASE ~Throws(Texts)
  <2>1. /\ ckpt' = Newest({ckpt} \cup Reached) /\ seen' = Commit(Accepted)
        /\ irregular' = irregular \cup (prepared \ Accepted)
    BY <1>4 DEF FinishLines, FinishOf
  <2>2. /\ ops' = <<>> /\ pc' = "idle" /\ todo' = {} /\ hand' = None /\ prepared' = {} /\ failed' = {}
    BY <1>1 DEF NoRun, NoTransaction
  <2>3. Accepted \subseteq Reached /\ Reached \subseteq Frames
    BY DEF Accepted, Reached, LinesInv, RunApart
  <2>4. ckpt' \in Frames \cup {0} /\ ckpt <= ckpt' /\ \A f \in Accepted : f <= ckpt'
    <3>1. {ckpt} \cup Reached \in SUBSET (Frames \cup {0})
      BY <1>2, <2>3 DEF LinesTyped
    <3>2. ckpt' \in {ckpt} \cup Reached /\ \A y \in {ckpt} \cup Reached : y <= ckpt'
      <4> DEFINE S == {ckpt} \cup Reached
      <4>1. S # {} /\ S \in SUBSET (Frames \cup {0})
        BY <3>1
      <4> HIDE DEF S
      <4>2. Newest(S) \in S /\ \A y \in S : y <= Newest(S)
        BY <4>1, GreatestFrame
      <4> QED
        BY <2>1, <4>2 DEF S
    <3> QED
      BY <2>3, <3>1, <3>2
  <2>5. seen' \in Maps
    BY DEF LinesInv, LinesTyped
  <2>6. RegularRise' /\ OncePerSession'
    BY <1>1, <2>1, SameEvidence
  <2>7. RunInOrder'
    BY <2>2 DEF RunInOrder
  <2>8. Accounted'
    <3>1. \A f \in content : f <= ckpt => f <= ckpt'
      <4>1. content \subseteq Nat /\ ckpt \in Nat /\ ckpt' \in Nat
        <5>1. Frames \subseteq Nat
          BY DEF Frames
        <5> QED
          BY <1>2, <2>4, <5>1 DEF LinesTyped
      <4> QED
        BY <2>4, <4>1
    <3>2. content \subseteq irregular \cup prepared \cup Durable
      BY DEF OnceInv, Accounted
    <3> QED
      BY <1>1, <2>1, <2>4, <3>1, <3>2 DEF Accounted, Durable
  <2>9. ASSUME NEW s \in sessions', s.open, Regular(s)'
        PROVE  Remembers(rows', seen', s.ctx, Elements(s.evidence), {h \in Frames : h <= ckpt'})
    <3>1. s \in sessions /\ Regular(s) /\ Elements(s.evidence) \cap prepared \subseteq Accepted
      BY <1>1, <2>1, <2>9 DEF Regular
    <3>2. Remembers(rows, Commit(Accepted), s.ctx, Elements(s.evidence), {h \in Frames : h <= ckpt'})
      BY <1>2, <2>4, <2>9, <3>1, CommitRemembers
    <3> QED
      BY <1>1, <2>1, <3>2
  <2>10. Remembered' /\ OpsInOrder' /\ OpenEnds'
    BY <2>2, <2>5, <2>9, FreshTransaction
  <2>11. Sound(sessions', content', nextId') /\ nextId' \in Nat \ {0} /\ irregular' \subseteq Frames
    BY <1>1, <1>2, <2>1 DEF OnceInv
  <2> QED
    BY <2>6, <2>7, <2>8, <2>10, <2>11 DEF OnceInv
<1> QED
  BY <1>3, <1>4

LEMMA OnceStore ==
  ASSUME LinesInv, OnceInv, StoreLines
  PROVE  OnceInv'
<1>1. /\ hand # None /\ content' = content \cup {hand} /\ prepared' = prepared \cup {hand} /\ hand' = None
      /\ HandleExtraction(hand) /\ Process(hand)
      /\ UNCHANGED <<ckpt, pc, todo, held, failed>>
  BY DEF StoreLines, Store, source
<1>2. hand \in Frames /\ hand > ckpt /\ hand \notin prepared /\ pc # "idle"
  BY <1>1 DEF LinesInv, RunApart
<1>3. RunInOrder /\ \A p \in prepared : p < hand
  BY <1>1 DEF OnceInv, RunInOrder
<1>4. RunInOrder'
  <2>1. hydrated' = hydrated
    BY <1>1 DEF Process
  <2> QED
    BY <1>1, <1>2, <1>3, <2>1 DEF RunInOrder
<1>5. /\ Sound(sessions', content', nextId') /\ nextId' \in Nat \ {0} /\ irregular' \subseteq Frames
      /\ Accounted' /\ OpsInOrder' /\ OpenEnds' /\ Remembered' /\ RegularRise' /\ OncePerSession'
  BY <1>1, <1>2, <1>3, ProcessOnce
<1> QED
  BY <1>4, <1>5 DEF OnceInv

LEMMA OnceRelease ==
  ASSUME LinesInv, OnceInv, Release
  PROVE  OnceInv'
<1> DEFINE free == {g \in held : ~Blocked(g)}
<1>1. PICK f : f = First(free)
  OBVIOUS
<1>2. /\ pc = "finish" /\ free # {} /\ prepared' = prepared \cup {f} /\ content' = content \cup {f}
      /\ HandleExtraction(f) /\ Process(f)
      /\ failed' \subseteq failed \cup {f}
      /\ UNCHANGED <<ckpt, pc, todo, hand>>
  BY <1>1 DEF Release, source
<1>3. f \in held
  <2>1. free \in SUBSET Frames /\ free \subseteq held
    BY DEF LinesInv, RunApart
  <2> HIDE DEF free
  <2> QED
    BY <1>1, <1>2, <2>1, LeastFrame
<1>4. f \in Frames /\ f > ckpt /\ f \notin prepared
  BY <1>3 DEF LinesInv, RunApart
<1> HIDE DEF free
<1>5. RunInOrder
  BY DEF OnceInv
<1>6. RunInOrder'
  <2>1. hydrated' = hydrated
    BY <1>2 DEF Process
  <2> QED
    BY <1>2, <1>5, <2>1 DEF RunInOrder
<1>7. /\ Sound(sessions', content', nextId') /\ nextId' \in Nat \ {0} /\ irregular' \subseteq Frames
      /\ Accounted' /\ OpsInOrder' /\ OpenEnds' /\ Remembered' /\ RegularRise' /\ OncePerSession'
  BY <1>2, <1>3, <1>4, ProcessOnce
<1> QED
  BY <1>6, <1>7 DEF OnceInv

LEMMA OnceAdmit ==
  ASSUME LinesInv, OnceInv, AdmitUnlessExcluded
  PROVE  OnceInv'
<1>1. /\ pc = "extract" /\ pc' = pc /\ hand = None /\ todo # {} /\ todo' = todo \ {First(todo)}
      /\ hand' \in {hand, First(todo)}
      /\ UNCHANGED <<content, sessions, nextId, ckpt, prepared, failed, rows, seen, work, ops, hydrated, irregular>>
  BY DEF AdmitUnlessExcluded, source, derived, text, ghostsOfText
<1>2. First(todo) \in todo /\ \A q \in todo' : First(todo) < q
  BY <1>1, FirstIsLeast DEF LinesInv, RunApart
<1>3. Sound(sessions, content, nextId) /\ RunInOrder
  BY DEF OnceInv
<1>4. RunInOrder'
  BY <1>1, <1>2, <1>3 DEF RunInOrder
<1> QED
  BY <1>1, <1>3, <1>4, OnceOthers

LEMMA OnceEmbed ==
  ASSUME LinesInv, OnceInv, EmbedLines
  PROVE  OnceInv'
<1>1. /\ pc = "extract" /\ pc' = "finish" /\ hand = None /\ todo = {} /\ failed' \subseteq Texts
      /\ UNCHANGED <<content, sessions, nextId, ckpt, todo, hand, prepared, rows, seen, work, ops,
                     hydrated, irregular>>
  BY DEF EmbedLines, EmbedAndUpsertOf, SameText, source, text, ghostsOfText
<1>2. Sound(sessions, content, nextId) /\ RunInOrder /\ Texts \subseteq prepared
  BY DEF OnceInv, Texts
<1>3. RunInOrder'
  BY <1>1, <1>2 DEF RunInOrder
<1> QED
  BY <1>1, <1>2, <1>3, OnceOthers

LEMMA OnceStep ==
  ASSUME LinesInv, LinesInv', OnceInv, LineNext
  PROVE  OnceInv'
<1>1. Sound(sessions, content, nextId) /\ RunInOrder /\ nextId \in Nat
  BY DEF OnceInv
<1>2. CASE AbortLines \/ RestartLines
  <2>1. /\ NoRun /\ NoTransaction /\ irregular' = irregular \cup prepared
        /\ UNCHANGED <<sessions, nextId, content, ckpt, rows>>
        /\ \/ seen' = seen /\ hydrated' = hydrated
           \/ seen' = Nothing /\ hydrated' = FALSE
    BY <1>2 DEF AbortLines, RestartLines, Abort, Restart, derived
  <2> QED
    BY <2>1, OnceEnd
<1>3. CASE Exclude
  <2>1. /\ UNCHANGED <<content, sessions, nextId, pc, todo, hand, failed>>
        /\ UNCHANGED <<irregular, ckpt, prepared, rows, seen, work, ops, hydrated>>
    BY <1>3 DEF Exclude, vars, derived, run, ghostsOfText
  <2>2. RunInOrder'
    BY <1>1, <2>1 DEF RunInOrder
  <2> QED
    BY <1>1, <2>1, <2>2, OnceOthers
<1>4. CASE Cascade
  <2>1. PICK S : content' = content \ S /\ sessions' = {s \in sessions : ~Touches(s, S)}
    BY <1>4 DEF Cascade, DeleteRows
  <2>2. /\ UNCHANGED <<nextId, pc, todo, hand, failed>>
        /\ UNCHANGED <<irregular, ckpt, prepared, rows, seen, work, ops, hydrated>>
    BY <1>4 DEF Cascade, run
  <2>3. RunInOrder'
    BY <1>1, <2>2 DEF RunInOrder
  <2>4. Sound(sessions', content', nextId')
    BY <1>1, <2>1, <2>2, DeleteSound
  <2> QED
    BY <2>1, <2>2, <2>3, <2>4, OnceOthers
<1>5. CASE OtherStep
  <2>1. /\ UNCHANGED <<content, nextId, pc, todo, hand, failed>>
        /\ UNCHANGED <<irregular, ckpt, prepared, rows, seen, work, ops, hydrated>>
        /\ sessions' \in {sessions, FlushIdle(sessions)}
    BY <1>5 DEF OtherStep, Tick, Flush, SameText, derived, run, text, ghostsOfText
  <2>2. RunInOrder'
    BY <1>1, <2>1 DEF RunInOrder
  <2>3. Sound(sessions', content', nextId')
    BY <1>1, <2>1, FlushSound
  <2>4. \A t \in sessions' : \E s \in sessions :
          t.evidence = s.evidence /\ t.ctx = s.ctx /\ (t.open => s.open)
    BY <1>1, <2>1, FlushCloses1
  <2> QED
    BY <2>1, <2>2, <2>3, <2>4, OnceOthers
<1> QED
  BY <1>2, <1>3, <1>4, <1>5, OnceStart, OnceAdmit, OnceStore, OnceEmbed, OnceRelease, OnceFinish
     DEF LineNext, LineRunStep

LEMMA OnceStutter ==
  ASSUME LinesInv, OnceInv, UNCHANGED <<vars, text>>
  PROVE  OnceInv'
<1>1. /\ UNCHANGED <<content, sessions, nextId, pc, todo, hand, failed>>
      /\ UNCHANGED <<irregular, ckpt, prepared, rows, seen, work, ops, hydrated>>
  BY DEF vars, derived, run, text, ghostsOfText
<1>2. Sound(sessions, content, nextId) /\ RunInOrder
  BY DEF OnceInv
<1>3. RunInOrder'
  BY <1>1, <1>2 DEF RunInOrder
<1> QED
  BY <1>1, <1>2, <1>3, OnceOthers

LEMMA OnceInitially == LineInit => OnceInv
<1> SUFFICES ASSUME LineInit PROVE OnceInv
  OBVIOUS
<1>1. /\ content = {} /\ sessions = {} /\ nextId = 1 /\ pc = "idle" /\ todo = {} /\ hand = None
      /\ prepared = {} /\ failed = {} /\ seen = Nothing /\ ops = <<>> /\ hydrated = FALSE /\ irregular = {}
  BY DEF LineInit, Init
<1>2. Sound(sessions, content, nextId)
  BY <1>1 DEF Sound, IdsSound, OneOpen
<1>3. RunInOrder /\ Accounted /\ RegularRise /\ OncePerSession /\ OpenEnds
  BY <1>1 DEF RunInOrder, Accounted, RegularRise, OncePerSession, OpenEnds
<1>4. OpsInOrder
  BY <1>1, NoOps DEF OpsInOrder
<1>5. Remembered
  <2>1. PICK m : m = [i \in 0..0 |-> Nothing]
    OBVIOUS
  <2>2. m \in [0..0 -> Maps] /\ m[0] = seen
    BY <1>1, <2>1, NothingIsBacked
  <2>3. Len(ops) = 0 /\ 1..0 = {}
    BY <1>1, NoOps
  <2>4. Transaction(m)
    BY <1>1, <2>2, <2>3 DEF Transaction
  <2> QED
    BY <2>4 DEF Remembered
<1> QED
  BY <1>1, <1>2, <1>3, <1>4, <1>5 DEF OnceInv

(* The rows of a session repeat no line, across runs, partial commits and  *)
(* restarts with hydration, unless one of its frames was released late or  *)
(* left by a run that did not accept it (indexing-service.ts, commit and   *)
(* rollback of the line transaction).                                      *)
THEOREM OnceTheorem == LineSpec => []OncePerSession
<1> DEFINE Inv == LinesInv /\ OnceInv
<1>1. LineInit => Inv
  BY LinesStart, OnceInitially
<1>2. Inv /\ [LineNext]_<<vars, text>> => Inv'
  BY LinesStep, LinesStutter, OnceStep, OnceStutter
<1>3. Inv => OncePerSession
  BY DEF OnceInv
<1> HIDE DEF Inv
<1> QED
  BY <1>1, <1>2, <1>3, PTL DEF LineSpec
================================================================================
