------------------------- MODULE DetectionProofs --------------------------
(***************************************************************************)
(* Proofs about detection, for any values of the constants: the sliding    *)
(* windows and the cooldown of the intelligence engine, the switches of the *)
(* alert rules and the results of the indicator search.  The loops of the  *)
(* models are recursive functions, and what they compute is proved by      *)
(* induction from the well-foundedness of < on the naturals.               *)
(***************************************************************************)
EXTENDS IntelligenceEngine, AlertRules, IocSearch, Integers, WellFoundedInduction, TLAPS

\* The provers a leaf is given when it names none, with time for a busy machine.
USE SMTT(30), ZenonT(30)

-----------------------------------------------------------------------------
(* Induction, and the loops that are written as recursive functions.         *)

Less == OpToRel(<, Nat)

LEMMA LessFacts ==
    /\ IsWellFoundedOn(Less, Nat)
    /\ \A m, n \in Nat : m < n => <<m, n>> \in Less
<1>1. IsWellFoundedOn(Less, Nat)
  BY NatLessThanWellFounded, Zenon DEF Less
<1>2. Less = {ss \in Nat \X Nat : ss[1] < ss[2]}
  BY DEF Less, OpToRel
<1> QED
  BY <1>1, <1>2

LEMMA Induction ==
    ASSUME NEW S, 0 \in S, \A n \in Nat : n \in S => n + 1 \in S
    PROVE  Nat \subseteq S
<1> DEFINE T == {n \in Nat : n \notin S}
<1>1. SUFFICES ASSUME T # {} PROVE FALSE
  OBVIOUS
<1>2. PICK n \in T : \A m \in T : ~(<<m, n>> \in Less)
  <2>1. T \subseteq Nat
    OBVIOUS
  <2> HIDE DEF T
  <2>2. IsWellFoundedOn(Less, Nat)
    BY LessFacts
  <2> QED
    BY <1>1, <2>1, <2>2, WFMin, ZenonT(30)
<1>3. n - 1 \in Nat /\ n - 1 < n
  BY <1>2
<1>4. n - 1 \in S
  BY <1>2, <1>3, LessFacts, Zenon
<1> QED
  BY <1>2, <1>3, <1>4

\* A loop of n steps over the values V, from v: step i makes F[i][x] of x.
IsBody(F, n, V) == F \in [1 .. n -> [V -> V]]

IsLoop(g, V, v, n, F) ==
    g \in [0 .. n -> V] /\ g[0] = v /\ \A i \in 1 .. n : g[i] = F[i][g[i - 1]]

\* It has a value after each of its steps.
LEMMA Recursion ==
    ASSUME NEW V, NEW v \in V, NEW n \in Nat, NEW F, IsBody(F, n, V)
    PROVE  \E g : IsLoop(g, V, v, n, F)
<1> DEFINE S == {m \in Nat : m <= n => \E g \in [0 .. m -> V] :
                     g[0] = v /\ \A i \in 1 .. m : g[i] = F[i][g[i - 1]]}
<1> USE DEF IsBody
<1>1. 0 \in S
  <2> DEFINE g == [i \in 0 .. 0 |-> v]
  <2>1. g \in [0 .. 0 -> V] /\ g[0] = v /\ \A i \in 1 .. 0 : g[i] = F[i][g[i - 1]]
    OBVIOUS
  <2> QED
    BY <2>1, Zenon
<1>2. ASSUME NEW m \in Nat, m \in S PROVE m + 1 \in S
  <2>1. SUFFICES ASSUME m + 1 <= n
                 PROVE  \E g \in [0 .. m + 1 -> V] :
                     g[0] = v /\ \A i \in 1 .. m + 1 : g[i] = F[i][g[i - 1]]
    BY <1>2
  <2>2. PICK g \in [0 .. m -> V] :
            g[0] = v /\ \A i \in 1 .. m : g[i] = F[i][g[i - 1]]
    BY <1>2, <2>1
  <2> DEFINE h == [i \in 0 .. m + 1 |-> IF i = m + 1 THEN F[m + 1][g[m]] ELSE g[i]]
  <2>3. F[m + 1][g[m]] \in V
    BY <2>1
  <2>4. h \in [0 .. m + 1 -> V]
    BY <2>3
  <2>5. h[0] = v
    BY <2>2
  <2>6. ASSUME NEW i \in 1 .. m + 1 PROVE h[i] = F[i][h[i - 1]]
    <3>1. h[i - 1] = g[i - 1]
      OBVIOUS
    <3>2. CASE i = m + 1
      BY <3>1, <3>2
    <3>3. CASE i # m + 1
      <4>1. i \in 1 .. m /\ h[i] = g[i]
        BY <3>3
      <4> QED
        BY <2>2, <3>1, <4>1
    <3> QED
      BY <3>2, <3>3
  <2> QED
    BY <2>4, <2>5, <2>6, Zenon
<1> HIDE DEF S
<1>3. n \in S
  BY <1>1, <1>2, Induction
<1> QED
  BY <1>3 DEF S, IsLoop

\* What begins and goes on like the loop has its values.
LEMMA LoopValues ==
    ASSUME NEW V, NEW v \in V, NEW n \in Nat, NEW F, IsBody(F, n, V),
           NEW f, f[0] = v, \A i \in 1 .. n : f[i - 1] \in V => f[i] = F[i][f[i - 1]]
    PROVE  \A i \in 0 .. n : f[i] \in V
<1> DEFINE S == {m \in Nat : m <= n => f[m] \in V}
<1>1. 0 \in S
  OBVIOUS
<1>2. ASSUME NEW m \in Nat, m \in S PROVE m + 1 \in S
  <2> SUFFICES ASSUME m + 1 <= n PROVE f[m + 1] \in V
    OBVIOUS
  <2>1. m + 1 \in 1 .. n /\ (m + 1) - 1 = m /\ f[m] \in V
    BY <1>2
  <2>2. F[m + 1][f[m]] \in V
    BY <2>1 DEF IsBody
  <2> QED
    BY <2>1, <2>2
<1> HIDE DEF S
<1>3. Nat \subseteq S
  BY <1>1, <1>2, Induction
<1> QED
  BY <1>3 DEF S

-----------------------------------------------------------------------------
(* Sequences.                                                                *)

Event == [tenant : Tenants, severity : {"INFO", "WARNING", "CRITICAL"}, at : Nat]

LEMMA ConcatFacts ==
    ASSUME NEW u \in Seq(Event), NEW v \in Seq(Event)
    PROVE  /\ u \o v \in Seq(Event) /\ Len(u \o v) = Len(u) + Len(v)
           /\ \A i \in 1 .. Len(u) : (u \o v)[i] = u[i]
           /\ \A i \in 1 .. Len(v) : (u \o v)[Len(u) + i] = v[i]
  OBVIOUS

LEMMA SameSeq ==
    ASSUME NEW u \in Seq(Event), NEW v \in Seq(Event), Len(u) = Len(v),
           \A i \in 1 .. Len(u) : u[i] = v[i]
    PROVE  u = v
  OBVIOUS

LEMMA ConcatAppend ==
    ASSUME NEW u \in Seq(Event), NEW v \in Seq(Event), NEW e \in Event
    PROVE  u \o Append(v, e) = Append(u \o v, e)
<1>1. u \o Append(v, e) \in Seq(Event) /\ Append(u \o v, e) \in Seq(Event)
  OBVIOUS
<1>2. Len(u \o Append(v, e)) = Len(Append(u \o v, e))
  OBVIOUS
<1>3. ASSUME NEW i \in 1 .. Len(u \o Append(v, e))
      PROVE  (u \o Append(v, e))[i] = Append(u \o v, e)[i]
  OBVIOUS
<1> QED
  BY <1>1, <1>2, <1>3, SameSeq

LEMMA ConcatAssoc ==
    ASSUME NEW u \in Seq(Event), NEW v \in Seq(Event), NEW w \in Seq(Event)
    PROVE  (u \o v) \o w = u \o (v \o w)
<1>1. (u \o v) \o w \in Seq(Event) /\ u \o (v \o w) \in Seq(Event)
  OBVIOUS
<1>2. Len((u \o v) \o w) = Len(u \o (v \o w))
  OBVIOUS
<1>3. ASSUME NEW i \in 1 .. Len((u \o v) \o w)
      PROVE  ((u \o v) \o w)[i] = (u \o (v \o w))[i]
  OBVIOUS
<1> QED
  BY <1>1, <1>2, <1>3, SameSeq

LEMMA ConcatHead ==
    ASSUME NEW u \in Seq(Event), NEW v \in Seq(Event), NEW e \in Event
    PROVE  u \o (<<e>> \o v) = Append(u, e) \o v
<1>1. u \o (<<e>> \o v) \in Seq(Event) /\ Append(u, e) \o v \in Seq(Event)
  OBVIOUS
<1>2. Len(u \o (<<e>> \o v)) = Len(Append(u, e) \o v)
  OBVIOUS
<1>3. ASSUME NEW i \in 1 .. Len(u \o (<<e>> \o v))
      PROVE  (u \o (<<e>> \o v))[i] = (Append(u, e) \o v)[i]
  OBVIOUS
<1> QED
  BY <1>1, <1>2, <1>3, SameSeq

\* A sequence that is not empty is its beginning and its last element.
LEMMA LastSplit ==
    ASSUME NEW n \in Nat, NEW s \in Seq(Event), Len(s) = n + 1
    PROVE  \E w \in Seq(Event), e \in Event : Len(w) = n /\ s = Append(w, e)
<1> DEFINE w == SubSeq(s, 1, n)
<1>1. w \in Seq(Event) /\ Len(w) = n /\ s[n + 1] \in Event
  OBVIOUS
<1>2. Append(w, s[n + 1]) \in Seq(Event) /\ Len(Append(w, s[n + 1])) = Len(s)
  BY <1>1
<1>3. ASSUME NEW i \in 1 .. Len(s) PROVE Append(w, s[n + 1])[i] = s[i]
  OBVIOUS
<1>4. s = Append(w, s[n + 1])
  BY <1>2, <1>3, SameSeq
<1> QED
  BY <1>1, <1>4, Zenon

-----------------------------------------------------------------------------
(* The events of a tenant.                                                   *)

\* The filter goes through the sequence one event at a time.
LEMMA OfSteps ==
    ASSUME NEW s \in Seq(Event), NEW t \in Tenants
    PROVE  \E g :
               /\ Of(t, s) = g[Len(s)] /\ g[0] = <<>>
               /\ \A i \in 0 .. Len(s) : g[i] \in Seq(Event)
               /\ \A i \in 1 .. Len(s) :
                      g[i] = IF s[i].tenant = t THEN Append(g[i - 1], s[i]) ELSE g[i - 1]
<1> DEFINE V == Seq(Event)
           n == Len(s)
           v == <<>>
           Step(q, i) == IF s[i].tenant = t THEN Append(q, s[i]) ELSE q
           F == [i \in 1 .. n |-> [q \in V |-> Step(q, i)]]
           Kept(f, i) == IF i = 0 THEN v ELSE Step(f[i - 1], i)
           kept == CHOOSE f : f = [i \in 0 .. n |-> Kept(f, i)]
<1>1. n \in Nat /\ v \in V /\ \A i \in 1 .. n, q \in V : Step(q, i) \in V
  OBVIOUS
<1>2. Of(t, s) = kept[n]
  BY DEF Of
<1> HIDE DEF V, n, v, Step
<1>3. IsBody(F, n, V)
  BY <1>1 DEF IsBody
<1>4. \A i \in 1 .. n, q \in V : F[i][q] = Step(q, i)
  OBVIOUS
<1> HIDE DEF F
<1>5. PICK g : IsLoop(g, V, v, n, F)
  BY <1>1, <1>3, Recursion
<1>6. \A i \in 0 .. n : kept[i] = Kept(kept, i)
  <2>1. ASSUME NEW i \in 0 .. n PROVE g[i] = Kept(g, i)
    BY <1>1, <1>4, <1>5 DEF IsLoop
  <2>2. g = [i \in 0 .. n |-> g[i]]
    BY <1>5 DEF IsLoop
  <2> HIDE DEF Kept
  <2>3. g = [i \in 0 .. n |-> Kept(g, i)]
    BY <2>1, <2>2
  <2>4. kept = [i \in 0 .. n |-> Kept(kept, i)]
    BY <2>3, Zenon
  <2> QED
    BY <2>4, Zenon
<1> HIDE DEF kept
<1>7. kept[0] = v /\ \A i \in 1 .. n : kept[i] = Step(kept[i - 1], i)
  BY <1>1, <1>6
<1>8. \A i \in 0 .. n : kept[i] \in V
  BY <1>1, <1>3, <1>4, <1>7, LoopValues
<1> QED
  BY <1>2, <1>7, <1>8 DEF n, v, V, Step

LEMMA OfType ==
    ASSUME NEW s \in Seq(Event), NEW t \in Tenants
    PROVE  Of(t, s) \in Seq(Event)
<1>1. Len(s) \in 0 .. Len(s)
  OBVIOUS
<1> QED
  BY <1>1, OfSteps

LEMMA OfAppend ==
    ASSUME NEW s \in Seq(Event), NEW e \in Event, NEW t \in Tenants
    PROVE  Of(t, Append(s, e)) =
               IF e.tenant = t THEN Append(Of(t, s), e) ELSE Of(t, s)
<1> DEFINE r == Append(s, e)
<1>0. r \in Seq(Event)
  OBVIOUS
<1>1. Len(r) = Len(s) + 1 /\ Len(s) \in Nat /\ r[Len(s) + 1] = e
      /\ \A i \in 1 .. Len(s) : r[i] = s[i]
  OBVIOUS
<1> HIDE DEF r
<1>2. PICK g :
          /\ Of(t, s) = g[Len(s)] /\ g[0] = <<>>
          /\ \A i \in 1 .. Len(s) :
                 g[i] = IF s[i].tenant = t THEN Append(g[i - 1], s[i]) ELSE g[i - 1]
  BY OfSteps
<1>3. PICK h :
          /\ Of(t, r) = h[Len(r)] /\ h[0] = <<>>
          /\ \A i \in 1 .. Len(r) :
                 h[i] = IF r[i].tenant = t THEN Append(h[i - 1], r[i]) ELSE h[i - 1]
  BY <1>0, OfSteps
<1> DEFINE S == {m \in Nat : m <= Len(s) => g[m] = h[m]}
<1>4. 0 \in S
  BY <1>2, <1>3
<1>5. ASSUME NEW m \in Nat, m \in S PROVE m + 1 \in S
  <2> SUFFICES ASSUME m + 1 <= Len(s) PROVE g[m + 1] = h[m + 1]
    OBVIOUS
  <2>1. m + 1 \in 1 .. Len(s) /\ m + 1 \in 1 .. Len(r) /\ (m + 1) - 1 = m
        /\ g[m] = h[m] /\ r[m + 1] = s[m + 1]
    BY <1>1, <1>5
  <2> QED
    BY <1>2, <1>3, <2>1
<1>6. Len(s) \in S
  <2> HIDE DEF S
  <2> QED
    BY <1>1, <1>4, <1>5, Induction
<1>7. Of(t, s) = h[Len(s)]
  BY <1>1, <1>2, <1>6
<1>8. h[Len(s) + 1] = IF e.tenant = t THEN Append(h[Len(s)], e) ELSE h[Len(s)]
  BY <1>1, <1>3
<1> QED
  BY <1>1, <1>3, <1>7, <1>8 DEF r

LEMMA OfEmpty ==
    ASSUME NEW t \in Tenants
    PROVE  Of(t, <<>>) = <<>>
<1> DEFINE s == <<>>
<1>1. s \in Seq(Event) /\ Len(s) = 0
  OBVIOUS
<1> HIDE DEF s
<1>2. PICK g :
          /\ Of(t, s) = g[Len(s)] /\ g[0] = <<>>
          /\ \A i \in 0 .. Len(s) : g[i] \in Seq(Event)
          /\ \A i \in 1 .. Len(s) :
                 g[i] = IF s[i].tenant = t THEN Append(g[i - 1], s[i]) ELSE g[i - 1]
  BY <1>1, OfSteps, Zenon
<1>3. Of(t, s) = <<>>
  BY <1>1, <1>2
<1> QED
  BY <1>3 DEF s

\* What Of keeps of two sequences on end.
LEMMA OfConcat ==
    ASSUME NEW u \in Seq(Event), NEW v \in Seq(Event), NEW t \in Tenants
    PROVE  Of(t, u \o v) = Of(t, u) \o Of(t, v)
<1> DEFINE S == {n \in Nat : \A w \in Seq(Event) :
                     Len(w) = n => Of(t, u \o w) = Of(t, u) \o Of(t, w)}
<1>0. Of(t, u) \in Seq(Event)
  BY OfType
<1>1. 0 \in S
  <2> SUFFICES ASSUME NEW w \in Seq(Event), Len(w) = 0
               PROVE  Of(t, u \o w) = Of(t, u) \o Of(t, w)
    OBVIOUS
  <2>1. w = <<>> /\ u \o w = u
    OBVIOUS
  <2> QED
    BY <1>0, <2>1, OfEmpty
<1>2. ASSUME NEW n \in Nat, n \in S PROVE n + 1 \in S
  <2> SUFFICES ASSUME NEW w \in Seq(Event), Len(w) = n + 1
               PROVE  Of(t, u \o w) = Of(t, u) \o Of(t, w)
    OBVIOUS
  <2>1. PICK x \in Seq(Event), e \in Event : Len(x) = n /\ w = Append(x, e)
    BY LastSplit, Zenon
  <2>2. Of(t, u \o x) = Of(t, u) \o Of(t, x)
    BY <1>2, <2>1
  <2>3. u \o w = Append(u \o x, e) /\ u \o x \in Seq(Event)
    BY <2>1, ConcatAppend, ConcatFacts
  <2>4. Of(t, u \o w) = IF e.tenant = t THEN Append(Of(t, u \o x), e) ELSE Of(t, u \o x)
    <3> DEFINE ux == u \o x
    <3>1. ux \in Seq(Event) /\ u \o w = Append(ux, e)
      BY <2>3
    <3> HIDE DEF ux
    <3>2. Of(t, u \o w) = IF e.tenant = t THEN Append(Of(t, ux), e) ELSE Of(t, ux)
      BY <3>1, OfAppend
    <3> QED
      BY <3>2 DEF ux
  <2>5. Of(t, w) = (IF e.tenant = t THEN Append(Of(t, x), e) ELSE Of(t, x))
        /\ Of(t, x) \in Seq(Event)
    BY <2>1, OfAppend, OfType
  <2>6. Of(t, u) \o Append(Of(t, x), e) = Append(Of(t, u) \o Of(t, x), e)
    BY <1>0, <2>5, ConcatAppend
  <2> QED
    BY <2>2, <2>4, <2>5, <2>6
<1> HIDE DEF S
<1>3. Len(v) \in Nat /\ Nat \subseteq S
  BY <1>1, <1>2, Induction
<1> QED
  BY <1>3 DEF S

-----------------------------------------------------------------------------
(* The queue.                                                                *)

\* The loop over the events of a request only appends to the queue.
LEMMA IngestAppends ==
    ASSUME NEW b \in Seq(Event), NEW events \in Seq(Event)
    PROVE  LET after == ingest_events(b, events)
           IN  after = b \o SubSeq(after, Len(b) + 1, Len(after))
               /\ SubSeq(after, Len(b) + 1, Len(after)) \in Seq(Event)
<1> DEFINE V == {q \in Seq(Event) : Len(b) <= Len(q) /\ \A k \in 1 .. Len(b) : q[k] = b[k]}
           n == Len(events)
           Step(q, i) == ingest_event(q, events[i])
           F == [i \in 1 .. n |-> [q \in V |-> Step(q, i)]]
           Values(f, i) == IF i = 0 THEN b ELSE Step(f[i - 1], i)
           after == CHOOSE f : f = [i \in 0 .. n |-> Values(f, i)]
<1>1. n \in Nat /\ b \in V
  OBVIOUS
<1>2. ASSUME NEW i \in 1 .. n, NEW q \in V PROVE Step(q, i) \in V
  <2> DEFINE e == events[i]
  <2>1. e \in Event
    OBVIOUS
  <2> HIDE DEF e
  <2>2. q \in Seq(Event) /\ Len(b) <= Len(q) /\ \A k \in 1 .. Len(b) : q[k] = b[k]
    OBVIOUS
  <2> DEFINE p == Append(q, e)
  <2>3. p \in Seq(Event) /\ Len(p) = Len(q) + 1 /\ \A k \in 1 .. Len(q) : p[k] = q[k]
    BY <2>1, <2>2
  <2> HIDE DEF p
  <2>4. p \in V
    BY <2>2, <2>3
  <2> QED
    BY <2>4 DEF ingest_event, e, p
<1>3. ingest_events(b, events) = after[n]
  BY DEF ingest_events
<1> HIDE DEF V, n, Step
<1>4. IsBody(F, n, V)
  BY <1>2 DEF IsBody
<1>5. \A i \in 1 .. n, q \in V : F[i][q] = Step(q, i)
  OBVIOUS
<1> HIDE DEF F
<1>6. PICK g : IsLoop(g, V, b, n, F)
  BY <1>1, <1>4, Recursion
<1>7. \A i \in 0 .. n : after[i] = Values(after, i)
  <2>1. ASSUME NEW i \in 0 .. n PROVE g[i] = Values(g, i)
    BY <1>1, <1>5, <1>6 DEF IsLoop
  <2>2. g = [i \in 0 .. n |-> g[i]]
    BY <1>6 DEF IsLoop
  <2> HIDE DEF Values
  <2>3. g = [i \in 0 .. n |-> Values(g, i)]
    BY <2>1, <2>2
  <2>4. after = [i \in 0 .. n |-> Values(after, i)]
    BY <2>3, Zenon
  <2> QED
    BY <2>4, Zenon
<1> HIDE DEF after
<1>8. after[0] = b /\ \A i \in 1 .. n : after[i] = Step(after[i - 1], i)
  BY <1>1, <1>7
<1>9. \A i \in 0 .. n : after[i] \in V
  BY <1>1, <1>4, <1>5, <1>8, LoopValues
<1> DEFINE a == ingest_events(b, events)
<1>10. a \in V
  BY <1>1, <1>3, <1>9
<1> HIDE DEF a
<1>11. a = b \o SubSeq(a, Len(b) + 1, Len(a)) /\ SubSeq(a, Len(b) + 1, Len(a)) \in Seq(Event)
  BY <1>10 DEF V
<1> QED
  BY <1>11 DEF a

\* w ends h, and it is full if h has more.
Recent(w, h) ==
    \E forgotten \in Seq(Event) :
        /\ h = forgotten \o w /\ Len(w) <= WindowSize
        /\ forgotten # <<>> => Len(w) = WindowSize

LEMMA RecentIntro ==
    ASSUME NEW f \in Seq(Event), NEW w \in Seq(Event), Len(w) <= WindowSize,
           f # <<>> => Len(w) = WindowSize
    PROVE  Recent(w, f \o w)
  BY DEF Recent

LEMMA RecentAppended ==
    ASSUME NEW w \in Seq(Event), NEW h \in Seq(Event), NEW e \in Event, Recent(w, h)
    PROVE  Recent(Appended(w, e), Append(h, e)) /\ Appended(w, e) \in Seq(Event)
<1>1. PICK f \in Seq(Event) :
          /\ h = f \o w /\ Len(w) <= WindowSize
          /\ f # <<>> => Len(w) = WindowSize
  BY DEF Recent
<1>2. WindowSize \in Nat /\ WindowSize > 0
  BY EngineAssumption
<1>3. CASE Len(w) < WindowSize
  <2>1. f = <<>>
    BY <1>1, <1>2, <1>3
  <2>2. Append(h, e) = f \o Append(w, e)
    BY <1>1, ConcatAppend, Zenon
  <2> DEFINE x == Append(w, e)
  <2>3. x \in Seq(Event) /\ Len(x) <= WindowSize
    BY <1>2, <1>3
  <2> HIDE DEF x
  <2>4. Recent(x, f \o x)
    BY <2>1, <2>3, RecentIntro, Zenon
  <2> QED
    BY <1>3, <2>2, <2>3, <2>4 DEF Appended, x
<1>4. CASE ~(Len(w) < WindowSize)
  <2> DEFINE v == Tail(w)
             g == Append(f, Head(w))
  <2>1. w # <<>> /\ v \in Seq(Event) /\ Head(w) \in Event /\ g \in Seq(Event)
        /\ Len(v) = Len(w) - 1
    BY <1>2, <1>4
  <2>2. f \o w = g \o v
    BY <2>1
  <2>l. Len(w) = WindowSize
    BY <1>1, <1>2, <1>4
  <2> HIDE DEF v, g
  <2>3. Append(v, e) \in Seq(Event) /\ Len(Append(v, e)) = WindowSize
    BY <1>2, <2>1, <2>l
  <2>4. g \o Append(v, e) = Append(g \o v, e)
    BY <2>1, ConcatAppend
  <2>5. Append(h, e) = g \o Append(v, e)
    BY <1>1, <2>2, <2>4
  <2>6. Recent(Append(v, e), Append(h, e))
    <3> DEFINE x == Append(v, e)
    <3>1. x \in Seq(Event) /\ Len(x) = WindowSize /\ Append(h, e) = g \o x
      BY <2>3, <2>5
    <3> HIDE DEF x
    <3>2. Recent(x, g \o x)
      BY <1>2, <2>1, <3>1, RecentIntro
    <3> QED
      BY <3>1, <3>2 DEF x
  <2> QED
    BY <1>4, <2>3, <2>6 DEF Appended, v
<1> QED
  BY <1>3, <1>4

-----------------------------------------------------------------------------
(* The engine.                                                               *)

\* The queue accepted past, which the loop has consumed, and then bus.
Split(past) ==
    /\ queued = past \o bus
    /\ \A t \in Tenants : Recent(window[t], Of(t, past))

EngineTypes ==
    /\ push \in [Requests -> [tenant : Tenants, batch : Batches] \cup {None}]
    /\ now \in Nat
    /\ bus \in Seq(Event)
    /\ window \in [Tenants -> Seq(Event)]
    /\ cooldown \in [Tenants -> Int]

\* The windows are related to what was accepted through what was consumed of it,
\* which the state does not hold.
EngineInv == EngineTypes /\ \E past \in Seq(Event) : Split(past)

LEMMA InitEngineInv == Init => EngineInv
<1> SUFFICES ASSUME Init PROVE EngineInv
  OBVIOUS
<1>1. EngineTypes
  BY EngineAssumption DEF Init, EngineTypes
<1>2. WindowSize \in Nat
  BY EngineAssumption
<1>3. \A t \in Tenants : Of(t, <<>>) = <<>>
  BY OfEmpty, Zenon
<1>4. Recent(<<>>, <<>>)
  <2> DEFINE f == <<>>
  <2>1. f \in Seq(Event) /\ Len(f) = 0 /\ f \o f = f /\ ~(f # <<>>)
    OBVIOUS
  <2> HIDE DEF f
  <2>2. Len(f) <= WindowSize
    BY <1>2, <2>1
  <2>3. Recent(f, f \o f)
    BY <2>1, <2>2, RecentIntro, Zenon
  <2> QED
    BY <2>1, <2>3 DEF f
<1>5. <<>> \in Seq(Event) /\ Split(<<>>)
  BY <1>3, <1>4 DEF Split, Init
<1> QED
  BY <1>1, <1>5, Zenon DEF EngineInv

LEMMA FeedEngineInv ==
    ASSUME EngineInv, NEW r \in Requests, push[r] # None, Feed(r), UNCHANGED window
    PROVE  bus' \in Seq(Event) /\ \E past \in Seq(Event) : Split(past)'
<1> DEFINE events == Enriched(push[r])
           after == ingest_events(bus, events)
           new == SubSeq(after, Len(bus) + 1, Len(after))
<1>1. PICK past \in Seq(Event) : Split(past)
  BY DEF EngineInv
<1>2. bus \in Seq(Event)
  BY DEF EngineInv, EngineTypes
<1>3. events \in Seq(Event)
  <2>1. push[r].tenant \in Tenants /\ push[r].batch \in Seq({"INFO", "WARNING", "CRITICAL"})
        /\ now \in Nat
    BY EngineAssumption DEF EngineInv, EngineTypes
  <2> QED
    BY <2>1 DEF Enriched, Event
<1> HIDE DEF events
<1>4. after = bus \o new /\ new \in Seq(Event)
  BY <1>2, <1>3, IngestAppends
<1>5. bus' = after /\ queued' = queued \o new
  BY DEF Feed, events
<1> HIDE DEF after, new
<1>6. bus' \in Seq(Event)
  BY <1>2, <1>4, <1>5
<1>7. queued' = past \o bus'
  BY <1>1, <1>2, <1>4, <1>5, ConcatAssoc DEF Split
<1>8. Split(past)'
  BY <1>1, <1>7 DEF Split
<1> QED
  BY <1>6, <1>8

LEMMA ConsumeEngineInv == EngineInv /\ Consume => EngineInv'
<1> SUFFICES ASSUME EngineInv, Consume PROVE EngineInv'
  OBVIOUS
<1>1. PICK past \in Seq(Event) : Split(past)
  BY DEF EngineInv
<1>2. bus \in Seq(Event) /\ bus # <<>> /\ window \in [Tenants -> Seq(Event)]
  BY DEF EngineInv, EngineTypes, Consume
<1>3. PICK e \in Event, rest \in Seq(Event) :
          e = Head(bus) /\ rest = Tail(bus) /\ bus = <<e>> \o rest
  <2>1. Head(bus) \in Event /\ Tail(bus) \in Seq(Event) /\ bus = <<Head(bus)>> \o Tail(bus)
    BY <1>2
  <2> QED
    BY <2>1, Zenon
<1>4. e.tenant \in Tenants
  BY <1>3 DEF Event
<1> DEFINE w == Appended(window[e.tenant], e)
           h == Append(past, e)
<1>5. bus' = rest /\ window' = [window EXCEPT ![e.tenant] = w] /\ queued' = queued
      /\ push' = push /\ now' = now
  BY <1>3 DEF Consume
<1>6. h \in Seq(Event) /\ \A t \in Tenants :
          Of(t, h) = IF e.tenant = t THEN Append(Of(t, past), e) ELSE Of(t, past)
  <2>1. h \in Seq(Event)
    OBVIOUS
  <2>2. \A t \in Tenants :
          Of(t, Append(past, e)) = IF e.tenant = t THEN Append(Of(t, past), e) ELSE Of(t, past)
    BY OfAppend
  <2> QED
    BY <2>1, <2>2
<1>7. queued' = h \o bus'
  BY <1>1, <1>3, <1>5, ConcatHead DEF Split
<1>8. Recent(w, Append(Of(e.tenant, past), e)) /\ w \in Seq(Event)
  <2> DEFINE o == Of(e.tenant, past)
             v == window[e.tenant]
  <2>1. Recent(v, o) /\ o \in Seq(Event) /\ v \in Seq(Event)
    BY <1>1, <1>2, <1>4, OfType DEF Split
  <2> HIDE DEF o, v
  <2>2. Recent(Appended(v, e), Append(o, e)) /\ Appended(v, e) \in Seq(Event)
    BY <1>3, <2>1, RecentAppended
  <2> QED
    BY <2>2 DEF o, v
<1> HIDE DEF w, h
<1>9. \A t \in Tenants : Recent(window'[t], Of(t, h))
  BY <1>1, <1>2, <1>4, <1>5, <1>6, <1>8, Zenon DEF Split
<1>10. Split(h)'
  BY <1>7, <1>9 DEF Split
<1>11. cooldown' \in [Tenants -> Int]
  <2>1. now \in Int /\ cooldown \in [Tenants -> Int]
    BY DEF EngineInv, EngineTypes
  <2> QED
    BY <1>4, <2>1 DEF Consume
<1>12. EngineTypes'
  BY <1>3, <1>5, <1>8, <1>11, Zenon DEF EngineInv, EngineTypes
<1> QED
  BY <1>6, <1>10, <1>12 DEF EngineInv

LEMMA NextEngineInv == EngineInv /\ [Next]_vars => EngineInv'
<1> SUFFICES ASSUME EngineInv, [Next]_vars PROVE EngineInv'
  OBVIOUS
<1>1. CASE UNCHANGED <<bus, window, queued>> /\ EngineTypes'
  BY <1>1 DEF EngineInv, Split
<1>2. ASSUME NEW r \in Requests, NEW t \in Tenants, NEW batch \in Batches,
             Push(r, t, batch)
      PROVE  EngineInv'
  BY <1>1, <1>2 DEF Push, EngineInv, EngineTypes
<1>3. ASSUME NEW r \in Requests, push[r] # None, Feed(r),
             push' = [push EXCEPT ![r] = None], UNCHANGED <<window, now, cooldown>>
      PROVE  EngineInv'
  <2>1. bus' \in Seq(Event) /\ \E past \in Seq(Event) : Split(past)'
    BY <1>3, FeedEngineInv
  <2>2. EngineTypes'
    BY <1>3, <2>1 DEF EngineInv, EngineTypes
  <2> QED
    BY <2>1, <2>2 DEF EngineInv
<1>4. ASSUME NEW r \in Requests, Forwarded(r) PROVE EngineInv'
  BY <1>3, <1>4, Zenon DEF Forwarded
<1>5. ASSUME NEW r \in Requests, ForwardFailed(r) PROVE EngineInv'
  <2>1. CASE environment = "development"
    BY <1>3, <1>5, <2>1, Zenon DEF ForwardFailed
  <2>2. CASE environment # "development"
    BY <1>1, <1>5, <2>2 DEF ForwardFailed, EngineInv, EngineTypes
  <2> QED
    BY <2>1, <2>2
<1>6. CASE Triaged \/ TriageFailed \/ Shutdown \/ Tick \/ UNCHANGED vars
  <2>1. UNCHANGED <<bus, window, queued, push, cooldown>>
    BY <1>6, Zenon DEF Triaged, TriageFailed, Shutdown, Tick, vars
  <2>2. now' = now \/ now' = now + 1
    BY <1>6, Zenon DEF Triaged, TriageFailed, Shutdown, Tick, vars
  <2>3. EngineTypes'
    BY <2>1, <2>2 DEF EngineInv, EngineTypes
  <2> QED
    BY <1>1, <2>1, <2>3, Zenon
<1>7. CASE Consume
  BY <1>7, ConsumeEngineInv
<1> QED
  BY <1>2, <1>4, <1>5, <1>6, <1>7 DEF Next, Loop

\* past is what the windows and what they forgot came from.
LEMMA EngineInvShows == EngineInv => WindowIsRecentHistory
<1> SUFFICES ASSUME EngineInv, NEW t \in Tenants
             PROVE  LET seen == window[t] \o Of(t, bus)
                    IN  /\ Ends(seen, Of(t, queued))
                        /\ Len(seen) < Len(Of(t, queued)) => Len(window[t]) = WindowSize
  BY Zenon DEF WindowIsRecentHistory
<1>1. PICK past \in Seq(Event) : Split(past)
  BY DEF EngineInv
<1> DEFINE w == window[t]
           b == Of(t, bus)
           all == Of(t, queued)
<1>2. PICK f \in Seq(Event) :
          /\ Of(t, past) = f \o w
          /\ f # <<>> => Len(w) = WindowSize
  BY <1>1, Zenon DEF Split, Recent
<1>3. bus \in Seq(Event) /\ w \in Seq(Event)
  BY DEF EngineInv, EngineTypes
<1>4. b \in Seq(Event)
  BY <1>3, OfType
<1>5. all = Of(t, past) \o b
  BY <1>1, <1>3, OfConcat DEF Split
<1> HIDE DEF w, b, all
<1>6. all = f \o (w \o b)
  <2>1. (f \o w) \o b = f \o (w \o b)
    BY <1>3, <1>4, ConcatAssoc, Zenon
  <2> QED
    BY <1>2, <1>5, <2>1, Zenon
<1> DEFINE seen == w \o b
<1>7. seen \in Seq(Event)
  BY <1>3, <1>4
<1>8. all = f \o seen
  BY <1>6
<1> HIDE DEF seen
<1>9. Len(all) = Len(f) + Len(seen) /\ Len(f) \in Nat /\ Len(seen) \in Nat
  BY <1>7, <1>8
<1>10. Ends(seen, all)
  <2> DEFINE end == SubSeq(all, Len(all) - Len(seen) + 1, Len(all))
  <2>1. end \in Seq(Event) /\ Len(end) = Len(seen)
        /\ \A i \in 1 .. Len(seen) : end[i] = all[Len(f) + i]
    BY <1>7, <1>8, <1>9
  <2> HIDE DEF end
  <2>2. \A i \in 1 .. Len(seen) : all[Len(f) + i] = seen[i]
    BY <1>7, <1>8
  <2>3. end = seen
    BY <1>7, <2>1, <2>2, SameSeq
  <2> QED
    BY <1>9, <2>3 DEF Ends, end
<1>11. Len(seen) < Len(all) => Len(w) = WindowSize
  BY <1>2, <1>9
<1> QED
  BY <1>10, <1>11 DEF seen, all, w, b

\* For any batches, queue and window sizes: between the queue that ingest_event
\* feeds and the window the engine's loop keeps of a tenant, no event is lost,
\* duplicated or reordered, and a window forgets only when it is full.
THEOREM EngineWindows == Spec => []WindowIsRecentHistory
  BY InitEngineInv, NextEngineInv, EngineInvShows, PTL DEF Spec

\* For any cooldown: the loop starts a triage for a tenant only when the cooldown
\* of its last one is over, and restarts it, whether that triage failed or not.
THEOREM EngineCooldown == Spec => NoAlertStorm
<1> DEFINE Fresh == \A t \in Tenants :
                        triage = None /\ triage' # None /\ triage'.tenant = t
                            => /\ cooldown'[t] = now
                               /\ now - cooldown[t] >= Cooldown
<1>1. EngineInv /\ [Next]_vars => [Fresh]_vars
  <2> SUFFICES ASSUME EngineInv, Next, NEW t \in Tenants,
                      triage = None, triage' # None, triage'.tenant = t
               PROVE  cooldown'[t] = now /\ now - cooldown[t] >= Cooldown
    OBVIOUS
  <2>1. Consume
    BY DEF Next, Loop, Push, Forwarded, ForwardFailed, Triaged, TriageFailed, Shutdown, Tick
  <2> DEFINE e == Head(bus)
             w == Appended(window[e.tenant], e)
  <2>2. /\ Cool(e.tenant) /\ cooldown' = [cooldown EXCEPT ![e.tenant] = now]
        /\ triage' = [tenant |-> e.tenant, events |-> w]
    BY <2>1, Zenon DEF Consume
  <2> HIDE DEF e, w
  <2>3. e.tenant = t
    BY <2>2
  <2>4. cooldown \in [Tenants -> Int]
    BY DEF EngineInv, EngineTypes
  <2> QED
    BY <2>2, <2>3, <2>4 DEF Cool
<1>2. Spec => []EngineInv
  BY InitEngineInv, NextEngineInv, PTL DEF Spec
<1>3. Spec => [][Fresh]_vars
  BY <1>1, <1>2, PTL DEF Spec
<1> QED
  BY <1>3 DEF NoAlertStorm

-----------------------------------------------------------------------------
(* IocSearchPage.                                                            *)

LEMMA OthersType ==
    ASSUME NEW s \in Seq(Queries), NEW q
    PROVE  Others(q, s) \in Seq(Queries)
<1> DEFINE V == Seq(Queries)
           n == Len(s)
           v == <<>>
           Step(p, i) == IF s[i] # q THEN Append(p, s[i]) ELSE p
           F == [i \in 1 .. n |-> [p \in V |-> Step(p, i)]]
           Values(f, i) == IF i = 0 THEN v ELSE Step(f[i - 1], i)
           others == CHOOSE f : f = [i \in 0 .. n |-> Values(f, i)]
<1>1. n \in Nat /\ v \in V /\ \A i \in 1 .. n, p \in V : Step(p, i) \in V
  OBVIOUS
<1>2. Others(q, s) = others[n]
  BY DEF Others
<1> HIDE DEF V, n, v, Step
<1>3. IsBody(F, n, V)
  BY <1>1 DEF IsBody
<1>4. \A i \in 1 .. n, p \in V : F[i][p] = Step(p, i)
  OBVIOUS
<1> HIDE DEF F
<1>5. PICK g : IsLoop(g, V, v, n, F)
  BY <1>1, <1>3, Recursion
<1>6. \A i \in 0 .. n : others[i] = Values(others, i)
  <2>1. ASSUME NEW i \in 0 .. n PROVE g[i] = Values(g, i)
    BY <1>1, <1>4, <1>5 DEF IsLoop
  <2>2. g = [i \in 0 .. n |-> g[i]]
    BY <1>5 DEF IsLoop
  <2> HIDE DEF Values
  <2>3. g = [i \in 0 .. n |-> Values(g, i)]
    BY <2>1, <2>2
  <2>4. others = [i \in 0 .. n |-> Values(others, i)]
    BY <2>3, Zenon
  <2> QED
    BY <2>4, Zenon
<1> HIDE DEF others
<1>7. others[0] = v /\ \A i \in 1 .. n : others[i] = Step(others[i - 1], i)
  BY <1>1, <1>6
<1>8. \A i \in 0 .. n : others[i] \in V
  BY <1>1, <1>3, <1>4, <1>7, LoopValues
<1> QED
  BY <1>1, <1>2, <1>8 DEF V

\* A search heads the list of recent ones.
LEMMA NewRecentsFacts ==
    ASSUME recentSearches \in Seq(Queries), NEW q \in Queries
    PROVE  /\ NewRecents(q) \in Seq(Queries)
           /\ NewRecents(q) # <<>> /\ NewRecents(q)[1] = q
<1> DEFINE all == <<q>> \o Others(q, recentSearches)
           n == IF Len(all) < RecentCap THEN Len(all) ELSE RecentCap
<1>1. Others(q, recentSearches) \in Seq(Queries)
  BY OthersType
<1>2. all \in Seq(Queries) /\ Len(all) >= 1 /\ all[1] = q
  BY <1>1
<1>3. NewRecents(q) = SubSeq(all, 1, n)
  BY DEF NewRecents
<1> HIDE DEF all
<1>4. n \in 1 .. Len(all)
  <2>1. RecentCap \in Nat /\ RecentCap >= 1 /\ Len(all) \in Nat
    BY <1>2, IocAssumption
  <2> QED
    BY <1>2, <2>1
<1> HIDE DEF n
<1> QED
  BY <1>2, <1>3, <1>4

IocTypes ==
    /\ query \in Queries \cup {NoQuery}
    /\ results \in Result \cup {NoResult}
    /\ searches \in Seq(Queries) /\ recentSearches \in Seq(Queries)
    /\ storedSearches = recentSearches
    /\ watches \in [WatchIds -> Result \cup {NoResult}]

\* The last search under way heads the list.
LastHeads == searches # <<>> => searches[Len(searches)] = recentSearches[1]

IocInv == IocTypes /\ LastHeads /\ LatestSearchShown

LEMMA InitIocInv == IocInit => IocInv
<1> SUFFICES ASSUME IocInit PROVE IocInv
  OBVIOUS
<1>1. IocTypes
  BY DEF IocInit, IocTypes
<1>2. LastHeads /\ LatestSearchShown
  BY Zenon DEF IocInit, LastHeads, LatestSearchShown
<1> QED
  BY <1>1, <1>2 DEF IocInv

LEMMA HandleSearchIocInv ==
    ASSUME IocInv, NEW q \in Queries, HandleSearch(q)
    PROVE  IocInv'
<1>1. searches \in Seq(Queries) /\ recentSearches \in Seq(Queries)
  BY DEF IocInv, IocTypes
<1>2. recentSearches' \in Seq(Queries) /\ recentSearches'[1] = q
  BY <1>1, NewRecentsFacts DEF HandleSearch
<1>3. searches' = Append(searches, q)
  BY DEF HandleSearch
<1>4. searches' \in Seq(Queries) /\ searches' # <<>> /\ searches'[Len(searches')] = q
  BY <1>1, <1>3
<1>5. IocTypes'
  BY <1>2, <1>4 DEF IocInv, IocTypes, HandleSearch
<1>6. LastHeads' /\ LatestSearchShown'
  BY <1>2, <1>4, Zenon DEF LastHeads, LatestSearchShown
<1> QED
  BY <1>5, <1>6 DEF IocInv

LEMMA SearchEndsIocInv ==
    ASSUME IocInv, SearchEnds
    PROVE  IocInv'
<1>1. PICK s \in Seq(Queries) : s = searches
  BY DEF IocInv, IocTypes
<1>2. s # <<>> /\ s[Len(s)] = recentSearches[1] /\ recentSearches' = recentSearches
  BY <1>1, Zenon DEF SearchEnds, IocInv, LastHeads
<1>3. /\ searches' = SubSeq(s, 1, 0) \o SubSeq(s, 2, Len(s))
      /\ results' = [q |-> s[1], watched |-> FALSE]
  BY <1>1 DEF SearchEnds, Due
<1>4. PICK n \in Nat : n = Len(s) /\ n > 0
  BY <1>2
<1>q. s[1] \in Queries
  BY <1>2
<1>5. SubSeq(s, 1, 0) = <<>> /\ SubSeq(s, 2, Len(s)) \in Seq(Queries)
  BY <1>4
<1>6. searches' \in Seq(Queries) /\ searches' = SubSeq(s, 2, n)
  BY <1>3, <1>4, <1>5
<1>7. Len(searches') = n - 1 /\ (n > 1 => searches'[n - 1] = s[n])
  BY <1>4, <1>6
<1>8. ASSUME searches' = <<>> PROVE results'.q = recentSearches'[1]
  <2>1. n - 1 = 0
    <3>1. Len(searches') = 0
      BY <1>8
    <3> QED
      BY <1>7, <3>1
  <2>2. n = 1
    BY <2>1
  <2>3. results'.q = s[1]
    BY <1>3
  <2> QED
    BY <1>2, <1>4, <2>2, <2>3
<1>9. searches' # <<>> => searches'[Len(searches')] = recentSearches'[1]
  BY <1>2, <1>4, <1>6, <1>7
<1>10. IocTypes'
  BY <1>q, <1>3, <1>6 DEF IocInv, IocTypes, SearchEnds, Result
<1> QED
  BY <1>8, <1>9, <1>10, Zenon DEF IocInv, LastHeads, LatestSearchShown

LEMMA WatchIocInv ==
    ASSUME IocInv, NEW w \in WatchIds, WatchSucceeds(w)
    PROVE  IocInv'
<1>1. watches[w] \in Result
  BY DEF WatchSucceeds, IocInv, IocTypes
<1>2. results' \in Result /\ results'.q = watches[w].q /\ watches[w].q \in Queries
  BY <1>1, Zenon DEF WatchSucceeds, Result
<1>3. UNCHANGED <<query, searches, recentSearches, storedSearches>>
  BY DEF WatchSucceeds
<1>4. watches' \in [WatchIds -> Result \cup {NoResult}]
  BY DEF WatchSucceeds, IocInv, IocTypes
<1>5. IocTypes'
  BY <1>2, <1>3, <1>4 DEF IocInv, IocTypes
<1>6. watches[w].q = results.q => results # NoResult
  BY <1>2, IocAssumption DEF NoResult
<1>7. ~overwritten' => ~overwritten /\ watches[w].q = results.q
  BY Zenon DEF WatchSucceeds
<1>8. LatestSearchShown'
  BY <1>2, <1>3, <1>6, <1>7, Zenon DEF LatestSearchShown, IocInv
<1> QED
  BY <1>3, <1>5, <1>8 DEF IocInv, LastHeads

LEMMA NextIocInv == IocInv /\ [IocNext]_iocVars => IocInv'
<1> SUFFICES ASSUME IocInv, [IocNext]_iocVars PROVE IocInv'
  OBVIOUS
<1>1. CASE Reopen
  <2>1. IocTypes'
    BY <1>1 DEF Reopen, Mount, IocInv, IocTypes
  <2>2. LastHeads' /\ LatestSearchShown'
    BY <1>1, Zenon DEF Reopen, Mount, LastHeads, LatestSearchShown
  <2> QED
    BY <2>1, <2>2 DEF IocInv
<1>2. CASE UNCHANGED <<searches, recentSearches, storedSearches, results, overwritten>>
           /\ query' \in Queries \cup {NoQuery}
           /\ watches' \in [WatchIds -> Result \cup {NoResult}]
  <2>1. IocTypes'
    BY <1>2 DEF IocInv, IocTypes
  <2>2. LastHeads' /\ LatestSearchShown'
    BY <1>2, Zenon DEF IocInv, LastHeads, LatestSearchShown
  <2> QED
    BY <2>1, <2>2 DEF IocInv
<1>3. ASSUME NEW q \in Queries \cup {NoQuery}, SetQuery(q) PROVE IocInv'
  BY <1>2, <1>3 DEF SetQuery, IocInv, IocTypes
<1>4. CASE HuntIocs
  <2>1. query \in Queries /\ HandleSearch(query)
    BY <1>4 DEF HuntIocs, HandleSearch, IocInv, IocTypes
  <2>2. PICK q \in Queries : q = query
    BY <2>1
  <2> QED
    BY <2>1, <2>2, HandleSearchIocInv
<1>5. ASSUME NEW i \in 1 .. RecentCap, RepeatSearch(i) PROVE IocInv'
  <2>1. i \in DOMAIN recentSearches /\ HandleSearch(recentSearches[i])
    BY <1>5, Zenon DEF RepeatSearch
  <2>2. recentSearches \in Seq(Queries)
    BY DEF IocInv, IocTypes
  <2>3. recentSearches[i] \in Queries
    BY <2>1, <2>2
  <2>4. PICK q \in Queries : q = recentSearches[i]
    BY <2>3
  <2> QED
    BY <2>1, <2>4, HandleSearchIocInv
<1>6. CASE SearchEnds
  BY <1>6, SearchEndsIocInv
<1>7. ASSUME NEW w \in WatchIds, ToggleWatchlist(w) \/ WatchFails(w) PROVE IocInv'
  BY <1>2, <1>7 DEF ToggleWatchlist, WatchFails, IocInv, IocTypes
<1>8. ASSUME NEW w \in WatchIds, WatchSucceeds(w) PROVE IocInv'
  BY <1>8, WatchIocInv
<1>9. CASE UNCHANGED iocVars
  BY <1>2, <1>9 DEF iocVars, IocInv, IocTypes
<1> QED
  BY <1>1, <1>3, <1>4, <1>5, <1>6, <1>7, <1>8, <1>9, Zenon DEF IocNext

\* For any queries, watch requests and length of the list: when no search is
\* under way the table answers the search that heads the recent ones, unless the
\* answer to a watch request put older results back.  Searches overlap when a
\* recent one is repeated, and their timers end in the order of the searches.
THEOREM IocLatest == IocSpec => []LatestSearchShown
<1>1. IocInv => LatestSearchShown
  BY DEF IocInv
<1> QED
  BY InitIocInv, NextIocInv, <1>1, PTL DEF IocSpec

-----------------------------------------------------------------------------
(* useAsyncState.                                                            *)

\* execute marks one free call as sent and shows the skeleton; the data stay.
LEMMA ExecuteFacts ==
    ASSUME NEW V, NEW h \in HookType(V), CanExecute(h)
    PROVE  /\ Execute(h) \in HookType(V)
           /\ Execute(h).data = h.data /\ Execute(h).loading = TRUE
           /\ \A f \in Answered(Execute(h)) :
                  f \in Answered(h) /\ Execute(h).calls[f] = h.calls[f]
<1>. DEFINE c == CHOOSE f \in Free(h) : TRUE
<1>1. c \in Free(h) /\ c \in FetchIds
  BY DEF CanExecute, Free
<1>. HIDE DEF c
<1>2. Execute(h) = [h EXCEPT !.loading = TRUE, !.error = FALSE, !.calls[c] = Sent]
  BY DEF Execute, c
<1>3. Sent \in [st : {"idle", "sent", "answered"}, v : V \cup {NoData}]
      /\ Sent.st = "sent"
  BY DEF Sent
<1>. HIDE DEF Sent
<1>4. /\ Execute(h) \in HookType(V)
      /\ Execute(h).data = h.data /\ Execute(h).loading = TRUE
  <2>1. Execute(h) = [data |-> h.data, loading |-> TRUE, error |-> FALSE,
                      calls |-> [h.calls EXCEPT ![c] = Sent]]
    BY <1>1, <1>2, ZenonT(30) DEF HookType
  <2>2. [h.calls EXCEPT ![c] = Sent] \in
          [FetchIds -> [st : {"idle", "sent", "answered"}, v : V \cup {NoData}]]
    BY <1>1, <1>3 DEF HookType
  <2>. QED
    BY <2>1, <2>2 DEF HookType
<1>5. \A f \in FetchIds : Execute(h).calls[f] = IF f = c THEN Sent ELSE h.calls[f]
  BY <1>1, <1>2 DEF HookType
<1>6. ASSUME NEW f \in Answered(Execute(h))
      PROVE  f \in Answered(h) /\ Execute(h).calls[f] = h.calls[f]
  <2>1. f \in FetchIds /\ Execute(h).calls[f].st = "answered"
    BY DEF Answered
  <2>2. f # c
    BY <2>1, <1>3, <1>5
  <2>. QED
    BY <2>1, <2>2, <1>5 DEF Answered
<1>. QED
  BY <1>4, <1>6

\* The hub's answer touches one call.
LEMMA ServedFacts ==
    ASSUME NEW V, NEW h \in HookType(V), NEW f \in FetchIds, NEW v \in V
    PROVE  /\ Served(h, f, v) \in HookType(V)
           /\ Served(h, f, v).data = h.data /\ Served(h, f, v).loading = h.loading
           /\ \A g \in FetchIds : Served(h, f, v).calls[g] =
                  IF g = f THEN [st |-> "answered", v |-> v] ELSE h.calls[g]
BY DEF Served, HookType

\* The end of execute, with an answer and without.
LEMMA SettledFacts ==
    ASSUME NEW V, NEW h \in HookType(V), NEW f \in FetchIds
    PROVE  /\ Resolve(h, f) \in HookType(V)
           /\ Resolve(h, f).data = h.calls[f].v /\ Resolve(h, f).loading = FALSE
           /\ Reject(h, f) \in HookType(V)
           /\ Reject(h, f).data = h.data
           /\ \A g \in FetchIds :
                  /\ Resolve(h, f).calls[g] = IF g = f THEN Idle ELSE h.calls[g]
                  /\ Reject(h, f).calls[g] = IF g = f THEN Idle ELSE h.calls[g]
BY ZenonT(30) DEF Resolve, Reject, HookType, Idle

LEMMA HookFlags ==
    ASSUME NEW V, NEW h \in HookType(V), NEW f \in FetchIds
    PROVE  Reject(h, f).loading = FALSE /\ Reject(h, f).error = TRUE
  BY DEF Reject, HookType

LEMMA SetDataFacts ==
    ASSUME NEW V, NEW h \in HookType(V), NEW v \in V
    PROVE  /\ SetData(h, v) \in HookType(V)
           /\ SetData(h, v).data = v /\ SetData(h, v).calls = h.calls
           /\ SetData(h, v).loading = h.loading
  BY DEF SetData, HookType

LEMMA MountedHook ==
    ASSUME NEW V
    PROVE  /\ Mounted \in HookType(V) /\ CanExecute(Mounted) /\ Answered(Mounted) = {}
           /\ InFlight(Mounted) = {} /\ Mounted.data = NoData
<1>1. Mounted \in HookType(V) /\ Mounted.data = NoData
  BY DEF Mounted, HookType, Idle
<1>2. \A f \in FetchIds : Mounted.calls[f].st = "idle"
  BY DEF Mounted, Idle
<1> QED
  BY <1>1, <1>2, RulesAssumption DEF CanExecute, Free, Answered, InFlight

-----------------------------------------------------------------------------
(* AlertRulesPage.                                                           *)

PatchType == {NoPatch} \cup
    [st : {"sent", "done"}, rule : Rules, body : BOOLEAN, original : Switches]

DialogType == {NoDialog} \cup [type : {"bulk-disable"}]
    \cup [type : {"toggle"}, rule : Rules, enabled : BOOLEAN]

RuleTypes ==
    /\ ruleStore \in Switches
    /\ rulesPage \in HookType(Switches)
    /\ patches \in [PatchIds -> PatchType]
    /\ ruleDialog \in DialogType

\* The list is fetched until it is there, one call at a time, and nothing can be
\* switched before: an answer on its way is what the hub still stores.
OneFetch ==
    /\ \A f \in InFlight(rulesPage) :
          /\ rulesPage.loading /\ rulesPage.data = NoData
          /\ \A g \in InFlight(rulesPage) : f = g
    /\ \A f \in Answered(rulesPage) : rulesPage.calls[f].v = ruleStore
    /\ rulesPage.data = NoData => UnderWay = {} /\ ruleDialog = NoDialog

\* The page shows what PATCH c asked for, and the hub stores what was shown
\* before it or, once it has applied c, the same.
Applied(c, shown, stored) ==
    /\ shown = [c.original EXCEPT ![c.rule] = c.body]
    /\ stored = IF c.st = "sent" THEN c.original ELSE shown

\* Switches used one by one: one PATCH at a time, and the dialog holds the flag
\* that is shown, or that was shown before the PATCH.
OneByOne ==
    /\ \A p, q \in UnderWay : p = q
    /\ UnderWay = {} /\ rulesPage.data # NoData => rulesPage.data = ruleStore
    /\ \A p \in UnderWay : Applied(patches[p], rulesPage.data, ruleStore)
    /\ ruleDialog # NoDialog =>
          /\ ruleDialog.type = "toggle"
          /\ UnderWay = {} => rulesPage.data[ruleDialog.rule] = ruleDialog.enabled
          /\ \A p \in UnderWay :
                patches[p].original[ruleDialog.rule] = ruleDialog.enabled

\* Types and fetches are as stated whatever was clicked; that the PATCH under
\* way explains the page and the hub needs the switches used one by one.
RuleInv == RuleTypes /\ OneFetch /\ (atRest => OneByOne)

\* execute with no call under way leaves one under way.
LEMMA FirstCall ==
    ASSUME NEW V, NEW h \in HookType(V), InFlight(h) = {}
    PROVE  /\ Execute(h) \in HookType(V)
           /\ Execute(h).data = h.data /\ Execute(h).loading = TRUE
           /\ Answered(Execute(h)) = {}
           /\ \A f, g \in InFlight(Execute(h)) : f = g
<1>1. \A f \in FetchIds : h.calls[f].st = "idle"
  BY DEF InFlight
<1>2. CanExecute(h) /\ Answered(h) = {}
  BY <1>1, RulesAssumption DEF CanExecute, Free, Answered
<1>3. /\ Execute(h) \in HookType(V)
      /\ Execute(h).data = h.data /\ Execute(h).loading = TRUE
      /\ \A f \in Answered(Execute(h)) : f \in Answered(h)
  BY <1>2, ExecuteFacts, ZenonT(30)
<1> DEFINE c == CHOOSE f \in Free(h) : TRUE
<1>4. c \in FetchIds
  BY <1>2 DEF CanExecute, Free
<1> HIDE DEF c
<1>5. Execute(h) = [h EXCEPT !.loading = TRUE, !.error = FALSE, !.calls[c] = Sent]
  BY DEF Execute, c
<1>6. \A f \in FetchIds : f # c => Execute(h).calls[f] = h.calls[f]
  BY <1>4, <1>5 DEF HookType
<1>7. \A f \in InFlight(Execute(h)) : f = c
  BY <1>1, <1>6, ZenonT(30) DEF InFlight
<1> QED
  BY <1>2, <1>3, <1>7

\* Until it is loaded nothing of the page can be switched.
LEMMA LoadedNoCalls ==
    ASSUME RuleInv, rulesPage.data # NoData
    PROVE  InFlight(rulesPage) = {} /\ Answered(rulesPage) = {}
<1>1. InFlight(rulesPage) = {}
  BY DEF RuleInv, OneFetch
<1> QED
  BY <1>1 DEF InFlight, Answered

LEMMA InitRuleInv == RulesInit => RuleInv
<1> SUFFICES ASSUME RulesInit PROVE RuleInv
  OBVIOUS
<1>1. /\ ruleStore = [r \in Rules |-> TRUE] /\ rulesPage = Execute(Mounted)
      /\ ruleDialog = NoDialog /\ patches = [p \in PatchIds |-> NoPatch]
  BY ZenonT(30) DEF RulesInit
<1>2. /\ rulesPage \in HookType(Switches)
      /\ rulesPage.data = NoData /\ rulesPage.loading = TRUE
      /\ Answered(rulesPage) = {} /\ \A f, g \in InFlight(rulesPage) : f = g
  BY <1>1, MountedHook, FirstCall, ZenonT(30)
<1>3. UnderWay = {}
  BY <1>1 DEF UnderWay
<1>4. RuleTypes
  BY <1>1, <1>2 DEF RuleTypes, Switches, PatchType, DialogType
<1>5. OneFetch
  BY <1>1, <1>2, <1>3 DEF OneFetch
<1>6. OneByOne
  BY <1>1, <1>2, <1>3 DEF OneByOne
<1> QED
  BY <1>4, <1>5, <1>6 DEF RuleInv

LEMMA RuleFetchInv ==
    ASSUME RuleInv, NEW f \in FetchIds, HubListsRules(f) \/ RulesFetchEnds(f)
    PROVE  RuleInv'
<1>1. /\ rulesPage \in HookType(Switches) /\ ruleStore \in Switches
      /\ UNCHANGED <<ruleStore, patches, ruleDialog, atRest>>
  BY DEF RuleInv, RuleTypes, HubListsRules, RulesFetchEnds
<1>2. UnderWay' = UnderWay
  BY <1>1 DEF UnderWay
<1>3. CASE HubListsRules(f)
  <2>1. rulesPage' = Served(rulesPage, f, ruleStore) /\ rulesPage.calls[f].st = "sent"
    BY <1>3, ZenonT(30) DEF HubListsRules
  <2>2. LET s == Served(rulesPage, f, ruleStore) IN
        /\ s \in HookType(Switches) /\ s.data = rulesPage.data
        /\ s.loading = rulesPage.loading
        /\ \A g \in FetchIds : s.calls[g] =
               IF g = f THEN [st |-> "answered", v |-> ruleStore] ELSE rulesPage.calls[g]
    BY <1>1, ServedFacts
  <2>3. /\ rulesPage' \in HookType(Switches) /\ rulesPage'.data = rulesPage.data
        /\ rulesPage'.loading = rulesPage.loading
        /\ \A g \in FetchIds : rulesPage'.calls[g] =
               IF g = f THEN [st |-> "answered", v |-> ruleStore] ELSE rulesPage.calls[g]
    BY <2>1, <2>2, Zenon
  <2>4. InFlight(rulesPage') = InFlight(rulesPage)
    <3>1. ASSUME NEW g \in FetchIds
          PROVE  rulesPage'.calls[g].st = "idle" <=> rulesPage.calls[g].st = "idle"
      <4>1. CASE g = f
        BY <2>1, <2>3, <4>1
      <4>2. CASE g # f
        BY <2>3, <4>2
      <4> QED
        BY <4>1, <4>2
    <3> QED
      BY <3>1 DEF InFlight
  <2>5. ASSUME NEW g \in Answered(rulesPage') PROVE rulesPage'.calls[g].v = ruleStore
    <3>1. CASE g = f
      BY <2>3, <3>1
    <3>2. CASE g # f
      <4>1. g \in FetchIds /\ rulesPage'.calls[g] = rulesPage.calls[g]
        BY <2>3, <3>2 DEF Answered
      <4>2. g \in Answered(rulesPage)
        BY <4>1 DEF Answered
      <4> QED
        BY <4>1, <4>2 DEF RuleInv, OneFetch
    <3> QED
      BY <3>1, <3>2
  <2>6. OneFetch'
    BY <1>1, <1>2, <2>3, <2>4, <2>5, ZenonT(30) DEF RuleInv, OneFetch
  <2>7. RuleTypes'
    BY <1>1, <2>3, ZenonT(30) DEF RuleInv, RuleTypes
  <2>8. atRest' => OneByOne'
    BY <1>1, <1>2, <2>3, ZenonT(30) DEF RuleInv, OneByOne, Applied
  <2> QED
    BY <2>6, <2>7, <2>8 DEF RuleInv
<1>4. CASE RulesFetchEnds(f)
  <2>1. f \in InFlight(rulesPage)
    BY <1>4, ZenonT(30) DEF RulesFetchEnds, Answered, InFlight
  <2>2. /\ rulesPage.data = NoData /\ UnderWay = {} /\ ruleDialog = NoDialog
        /\ \A g \in FetchIds : g # f => rulesPage.calls[g].st = "idle"
    BY <2>1, ZenonT(30) DEF RuleInv, OneFetch, InFlight
  <2>3. \/ f \in Answered(rulesPage) /\ rulesPage' = Resolve(rulesPage, f)
        \/ rulesPage' = Reject(rulesPage, f)
    BY <1>4 DEF RulesFetchEnds
  <2>4. /\ Reject(rulesPage, f) \in HookType(Switches)
        /\ Resolve(rulesPage, f) \in HookType(Switches)
        /\ Reject(rulesPage, f).data = NoData
        /\ Resolve(rulesPage, f).data = rulesPage.calls[f].v
        /\ \A g \in FetchIds :
             /\ Reject(rulesPage, f).calls[g] = IF g = f THEN Idle ELSE rulesPage.calls[g]
             /\ Resolve(rulesPage, f).calls[g] = IF g = f THEN Idle ELSE rulesPage.calls[g]
    BY <1>1, <2>2, SettledFacts, ZenonT(30)
  <2>5. /\ rulesPage' \in HookType(Switches)
        /\ rulesPage'.data \in {NoData, ruleStore}
        /\ \A g \in FetchIds : rulesPage'.calls[g] = IF g = f THEN Idle ELSE rulesPage.calls[g]
    BY <2>3, <2>4, ZenonT(30) DEF RuleInv, OneFetch
  <2>6. InFlight(rulesPage') = {} /\ Answered(rulesPage') = {}
    <3>1. Idle.st = "idle"
      BY DEF Idle
    <3>2. ASSUME NEW g \in FetchIds PROVE rulesPage'.calls[g].st = "idle"
      BY <2>2, <2>5, <3>1
    <3> QED
      BY <3>2 DEF InFlight, Answered
  <2>7. RuleTypes'
    BY <1>1, <2>5 DEF RuleInv, RuleTypes
  <2>8. OneFetch'
    BY <1>1, <1>2, <2>2, <2>6 DEF OneFetch
  <2>9. OneByOne'
    BY <1>1, <1>2, <2>2, <2>5, ZenonT(30) DEF OneByOne
  <2> QED
    BY <2>7, <2>8, <2>9 DEF RuleInv
<1> QED
  BY <1>3, <1>4

LEMMA RuleRetryInv == RuleInv /\ RetryRules => RuleInv'
<1> SUFFICES ASSUME RuleInv, RetryRules PROVE RuleInv'
  OBVIOUS
<1>1. /\ rulesPage \in HookType(Switches) /\ rulesPage.data = NoData
      /\ rulesPage' = Execute(rulesPage)
      /\ UNCHANGED <<ruleStore, patches, ruleDialog, atRest>>
  BY DEF RuleInv, RuleTypes, RetryRules
<1>2. InFlight(rulesPage) = {}
  BY DEF RuleInv, OneFetch, RetryRules
<1>3. /\ rulesPage' \in HookType(Switches)
      /\ rulesPage'.data = NoData /\ rulesPage'.loading = TRUE
      /\ Answered(rulesPage') = {} /\ \A f, g \in InFlight(rulesPage') : f = g
  BY <1>1, <1>2, FirstCall, ZenonT(30)
<1>4. UnderWay' = UnderWay
  BY <1>1 DEF UnderWay
<1>5. RuleTypes'
  BY <1>1, <1>3 DEF RuleInv, RuleTypes
<1>6. OneFetch'
  BY <1>1, <1>3, <1>4 DEF RuleInv, OneFetch
<1>7. atRest' => OneByOne'
  <2>1. UnderWay = {} /\ ruleDialog = NoDialog
    BY <1>1 DEF RuleInv, OneFetch
  <2> QED
    BY <1>1, <1>3, <1>4, <2>1, ZenonT(30) DEF OneByOne
<1> QED
  BY <1>5, <1>6, <1>7 DEF RuleInv

\* A step on a loaded list that keeps it loaded starts and ends no fetch.
LEMMA StaysLoaded ==
    ASSUME RuleInv, rulesPage.data # NoData,
           rulesPage'.calls = rulesPage.calls, rulesPage'.data # NoData
    PROVE  OneFetch'
<1>1. InFlight(rulesPage') = {} /\ Answered(rulesPage') = {}
  BY LoadedNoCalls DEF InFlight, Answered
<1> QED
  BY <1>1 DEF OneFetch

\* A PATCH under way carries its closure.
LEMMA PatchFacts ==
    ASSUME RuleTypes, NEW p \in PatchIds,
           patches[p] # NoPatch \/ patches[p].st \in {"sent", "done"}
    PROVE  /\ p \in UnderWay
           /\ patches[p] \in [st : {"sent", "done"}, rule : Rules, body : BOOLEAN,
                              original : Switches]
<1>1. patches[p] # NoPatch
  BY DEF NoPatch
<1> QED
  BY <1>1 DEF RuleTypes, PatchType, UnderWay

\* performToggle up to its await, from the table or from the dialog.
LEMMA PerformToggleInv ==
    ASSUME RuleInv, NEW p \in PatchIds, NEW r \in Rules, NEW enabled \in BOOLEAN,
           rulesPage.data # NoData, PerformToggle(p, r, enabled),
           UNCHANGED <<ruleStore, ruleDialog>>,
           atRest' => atRest /\ UnderWay = {} /\ rulesPage.data[r] = enabled
    PROVE  RuleInv'
<1> DEFINE d == [rulesPage.data EXCEPT ![r] = ~@]
           c == [st |-> "sent", rule |-> r, body |-> ~enabled, original |-> rulesPage.data]
<1>1. rulesPage \in HookType(Switches) /\ rulesPage.data \in Switches
  BY DEF RuleInv, RuleTypes, HookType
<1>2. d \in Switches
  BY <1>1 DEF Switches
<1>3. c \in PatchType
  BY <1>1 DEF PatchType
<1>4. c # NoPatch
  BY DEF NoPatch
<1>5. /\ rulesPage' = SetData(rulesPage, d) /\ patches' = [patches EXCEPT ![p] = c]
      /\ patches[p] = NoPatch /\ patches \in [PatchIds -> PatchType]
  BY ZenonT(30) DEF PerformToggle, RuleInv, RuleTypes
<1>6. d # NoData
  BY <1>2, RulesAssumption, ZenonT(30)
<1>7. c.st = "sent" /\ c.rule = r /\ c.body = ~enabled /\ c.original = rulesPage.data
  BY ZenonT(30)
<1>8. atRest' => d = [c.original EXCEPT ![c.rule] = c.body]
  BY <1>7, ZenonT(30)
<1> HIDE DEF c, d
<1>9. /\ rulesPage' \in HookType(Switches)
      /\ rulesPage'.data = d /\ rulesPage'.calls = rulesPage.calls
  <2>1. /\ SetData(rulesPage, d) \in HookType(Switches)
        /\ SetData(rulesPage, d).data = d /\ SetData(rulesPage, d).calls = rulesPage.calls
    BY <1>1, <1>2, SetDataFacts, ZenonT(30)
  <2> QED
    BY <1>5, <2>1, ZenonT(30)
<1>10. /\ patches' \in [PatchIds -> PatchType] /\ patches'[p] = c
       /\ \A q \in PatchIds : q # p => patches'[q] = patches[q]
  BY <1>3, <1>5
<1>11. RuleTypes'
  BY <1>9, <1>10, ZenonT(30) DEF RuleInv, RuleTypes
<1>12. OneFetch'
  BY <1>6, <1>9, StaysLoaded
<1>13. ASSUME atRest' PROVE OneByOne'
  <2>1. atRest /\ UnderWay = {} /\ rulesPage.data[r] = enabled
    BY <1>13
  <2>2. UnderWay' = {p}
    BY <1>4, <1>10, <2>1 DEF UnderWay
  <2>3. Applied(c, d, ruleStore)
    BY <1>7, <1>8, <1>13, <2>1 DEF RuleInv, OneByOne, Applied
  <2>4. ruleDialog # NoDialog =>
            ruleDialog.type = "toggle" /\ c.original[ruleDialog.rule] = ruleDialog.enabled
    BY <1>7, <2>1 DEF RuleInv, OneByOne
  <2> QED
    BY <1>9, <1>10, <2>2, <2>3, <2>4, ZenonT(30) DEF OneByOne
<1> QED
  BY <1>11, <1>12, <1>13 DEF RuleInv

LEMMA ToggleRuleInv ==
    ASSUME RuleInv, NEW p \in PatchIds, NEW r \in Rules, ToggleRule(p, r)
    PROVE  RuleInv'
<1>1. /\ rulesPage.data # NoData /\ ruleDialog = NoDialog
      /\ UNCHANGED ruleStore /\ (atRest' => atRest /\ UnderWay = {})
  BY ZenonT(30) DEF ToggleRule, TableReachable
<1>2. rulesPage.data \in Switches
  BY <1>1 DEF RuleInv, RuleTypes, HookType
<1>3. rulesPage.data[r] \in BOOLEAN
  BY <1>2 DEF Switches
<1>4. CASE NeedsTwoKey(r)
  <2> DEFINE dg == [type |-> "toggle", rule |-> r, enabled |-> rulesPage.data[r]]
  <2>1. ruleDialog' = dg /\ UNCHANGED <<rulesPage, patches>>
    BY <1>4 DEF ToggleRule
  <2>2. dg \in DialogType
    BY <1>3 DEF DialogType
  <2>3. dg.type = "toggle" /\ dg.rule = r /\ dg.enabled = rulesPage.data[r]
    OBVIOUS
  <2> HIDE DEF dg
  <2>4. RuleTypes'
    BY <1>1, <2>1, <2>2 DEF RuleInv, RuleTypes
  <2>5. OneFetch'
    BY <1>1, <2>1, StaysLoaded
  <2>6. UnderWay' = UnderWay
    BY <2>1 DEF UnderWay
  <2>7. atRest' => OneByOne'
    BY <1>1, <2>1, <2>3, <2>6, ZenonT(30) DEF RuleInv, OneByOne
  <2> QED
    BY <2>4, <2>5, <2>7 DEF RuleInv
<1>5. CASE ~NeedsTwoKey(r)
  <2>1. PerformToggle(p, r, rulesPage.data[r]) /\ UNCHANGED ruleDialog
    BY <1>5 DEF ToggleRule
  <2> QED
    BY <1>1, <1>3, <2>1, PerformToggleInv
<1> QED
  BY <1>4, <1>5

LEMMA HubPatchesInv ==
    ASSUME RuleInv, NEW p \in PatchIds, HubPatches(p)
    PROVE  RuleInv'
<1> DEFINE c == patches[p]
           e == [patches[p] EXCEPT !.st = "done"]
<1>1. /\ c.st = "sent" /\ ruleStore' = [ruleStore EXCEPT ![c.rule] = c.body]
      /\ UNCHANGED <<rulesPage, ruleDialog, atRest>>
  BY DEF HubPatches
<1>2. /\ p \in UnderWay
      /\ c \in [st : {"sent", "done"}, rule : Rules, body : BOOLEAN, original : Switches]
  BY <1>1, PatchFacts DEF RuleInv
<1>3. patches' = [patches EXCEPT ![p] = e] /\ patches \in [PatchIds -> PatchType]
  BY DEF HubPatches, RuleInv, RuleTypes
<1>4. e = [st |-> "done", rule |-> c.rule, body |-> c.body, original |-> c.original]
  BY <1>2
<1>5. e \in PatchType /\ e # NoPatch
  BY <1>2, <1>4 DEF PatchType, NoPatch
<1>6. e.st = "done" /\ e.rule = c.rule /\ e.body = c.body /\ e.original = c.original
  BY <1>4
<1>7. ruleStore' \in Switches
  BY <1>1, <1>2 DEF RuleInv, RuleTypes, Switches
<1>8. rulesPage.data # NoData
  BY <1>2 DEF RuleInv, OneFetch
<1> HIDE DEF e
<1>9. /\ patches' \in [PatchIds -> PatchType] /\ patches'[p] = e
      /\ \A q \in PatchIds : q # p => patches'[q] = patches[q]
  BY <1>3, <1>5
<1>10. UnderWay' = UnderWay
  BY <1>2, <1>5, <1>9 DEF UnderWay
<1>11. RuleTypes'
  BY <1>1, <1>7, <1>9 DEF RuleInv, RuleTypes
<1>12. OneFetch'
  BY <1>1, <1>8, StaysLoaded
<1>13. ASSUME atRest' PROVE OneByOne'
  <2>1. OneByOne /\ UnderWay = {p}
    BY <1>1, <1>2, <1>13, ZenonT(30) DEF RuleInv, OneByOne
  <2>2. rulesPage.data = [c.original EXCEPT ![c.rule] = c.body] /\ ruleStore = c.original
    BY <1>1, <2>1 DEF OneByOne, Applied
  <2>3. Applied(e, rulesPage.data, ruleStore')
    BY <1>1, <1>6, <2>2 DEF Applied
  <2> QED
    BY <1>1, <1>6, <1>9, <1>10, <2>1, <2>3, ZenonT(30) DEF OneByOne
<1> QED
  BY <1>11, <1>12, <1>13 DEF RuleInv

\* performToggle after its await.
LEMMA PatchSucceedsInv ==
    ASSUME RuleInv, NEW p \in PatchIds, PatchSucceeds(p)
    PROVE  RuleInv'
<1>1. /\ patches[p].st = "done" /\ patches' = [patches EXCEPT ![p] = NoPatch]
      /\ ruleDialog' = NoDialog /\ UNCHANGED <<ruleStore, rulesPage, atRest>>
  BY ZenonT(30) DEF PatchSucceeds
<1>2. p \in UnderWay
  BY <1>1, PatchFacts DEF RuleInv
<1>3. rulesPage.data # NoData
  BY <1>2 DEF RuleInv, OneFetch
<1>4. /\ patches' \in [PatchIds -> PatchType] /\ patches'[p] = NoPatch
      /\ \A q \in PatchIds : q # p => patches'[q] = patches[q]
  BY <1>1 DEF RuleInv, RuleTypes, PatchType
<1>5. RuleTypes'
  BY <1>1, <1>4 DEF RuleInv, RuleTypes, DialogType
<1>6. OneFetch'
  BY <1>1, <1>3, StaysLoaded
<1>7. ASSUME atRest' PROVE OneByOne'
  <2>1. OneByOne
    BY <1>1, <1>7 DEF RuleInv
  <2>2. UnderWay' = {}
    BY <1>2, <1>4, <2>1 DEF OneByOne, UnderWay
  <2>3. rulesPage.data = ruleStore
    BY <1>1, <1>2, <2>1, ZenonT(30) DEF OneByOne, Applied
  <2> QED
    BY <1>1, <2>2, <2>3 DEF OneByOne
<1> QED
  BY <1>5, <1>6, <1>7 DEF RuleInv

LEMMA PatchFailsInv ==
    ASSUME RuleInv, NEW p \in PatchIds, PatchFails(p)
    PROVE  RuleInv'
<1> DEFINE o == patches[p].original
<1>1. /\ patches[p] # NoPatch /\ patches' = [patches EXCEPT ![p] = NoPatch]
      /\ rulesPage' = SetData(rulesPage, o) /\ UNCHANGED <<ruleStore, ruleDialog>>
      /\ atRest' => atRest /\ patches[p].st = "sent"
  BY ZenonT(30) DEF PatchFails
<1>2. p \in UnderWay /\ o \in Switches
  BY <1>1, PatchFacts, ZenonT(30) DEF RuleInv
<1>3. rulesPage \in HookType(Switches) /\ rulesPage.data # NoData /\ o # NoData
  BY <1>2, RulesAssumption, Zenon DEF RuleInv, RuleTypes, OneFetch
<1> HIDE DEF o
<1>4. /\ rulesPage' \in HookType(Switches)
      /\ rulesPage'.data = o /\ rulesPage'.calls = rulesPage.calls
  BY <1>1, <1>2, <1>3, SetDataFacts
<1>5. /\ patches' \in [PatchIds -> PatchType] /\ patches'[p] = NoPatch
      /\ \A q \in PatchIds : q # p => patches'[q] = patches[q]
  BY <1>1 DEF RuleInv, RuleTypes, PatchType
<1>6. RuleTypes'
  BY <1>1, <1>4, <1>5 DEF RuleInv, RuleTypes
<1>7. OneFetch'
  BY <1>3, <1>4, StaysLoaded
<1>8. ASSUME atRest' PROVE OneByOne'
  <2>1. OneByOne /\ patches[p].st = "sent"
    BY <1>1, <1>8, ZenonT(30) DEF RuleInv
  <2>2. UnderWay' = {}
    BY <1>2, <1>5, <2>1 DEF OneByOne, UnderWay
  <2>3. ruleStore = o
    BY <1>2, <2>1, ZenonT(30) DEF OneByOne, Applied, o
  <2>4. ruleDialog # NoDialog =>
            ruleDialog.type = "toggle" /\ o[ruleDialog.rule] = ruleDialog.enabled
    BY <1>2, <2>1 DEF OneByOne, o
  <2> QED
    BY <1>1, <1>4, <2>2, <2>3, <2>4, ZenonT(30) DEF OneByOne
<1> QED
  BY <1>6, <1>7, <1>8 DEF RuleInv

\* The bulk operations change what is shown and nothing the hub stores; after
\* one of them atRest is over.
LEMMA BulkInv ==
    ASSUME RuleInv, rulesPage.data # NoData, NEW on \in BOOLEAN,
           \/ UNCHANGED rulesPage
           \/ rulesPage' = SetData(rulesPage, Switched(on)),
           ruleDialog' \in {ruleDialog, NoDialog, [type |-> "bulk-disable"]},
           UNCHANGED <<ruleStore, patches>>, ~atRest'
    PROVE  RuleInv'
<1> DEFINE d == Switched(on)
<1>1. rulesPage \in HookType(Switches) /\ rulesPage.data \in Switches
  BY DEF RuleInv, RuleTypes, HookType
<1>2. d \in Switches /\ d # NoData
  <2>1. d \in Switches
    BY <1>1 DEF Switched, Switches
  <2> QED
    BY <2>1, RulesAssumption
<1>3. rulesPage' = rulesPage \/ rulesPage' = SetData(rulesPage, d)
  OBVIOUS
<1> HIDE DEF d
<1>4. /\ rulesPage' \in HookType(Switches)
      /\ rulesPage'.data # NoData /\ rulesPage'.calls = rulesPage.calls
  BY <1>1, <1>2, <1>3, SetDataFacts
<1>5. RuleTypes'
  <2>1. RuleTypes /\ [type |-> "bulk-disable"] \in DialogType /\ NoDialog \in DialogType
    BY ZenonT(30) DEF RuleInv, DialogType
  <2>2. ruleDialog' \in DialogType
    BY <2>1 DEF RuleTypes
  <2> QED
    BY <1>4, <2>1, <2>2 DEF RuleTypes
<1>6. OneFetch'
  BY <1>4, StaysLoaded
<1> QED
  BY <1>5, <1>6 DEF RuleInv

LEMMA OnConfirmInv ==
    ASSUME RuleInv, NEW p \in PatchIds, OnConfirm(p)
    PROVE  RuleInv'
<1>1. /\ ruleDialog # NoDialog /\ UNCHANGED ruleStore
      /\ atRest' => atRest /\ UnderWay = {}
  BY ZenonT(30) DEF OnConfirm
<1>2. rulesPage.data # NoData
  BY <1>1 DEF RuleInv, OneFetch
<1>3. CASE ruleDialog.type = "toggle"
  <2>1. /\ PerformToggle(p, ruleDialog.rule, ruleDialog.enabled)
        /\ UNCHANGED ruleDialog
    BY <1>3 DEF OnConfirm
  <2>2. ruleDialog.rule \in Rules /\ ruleDialog.enabled \in BOOLEAN
    BY <1>1, <1>3 DEF RuleInv, RuleTypes, DialogType
  <2>3. atRest' => rulesPage.data[ruleDialog.rule] = ruleDialog.enabled
    BY <1>1 DEF RuleInv, OneByOne
  <2> QED
    BY <1>1, <1>2, <2>1, <2>2, <2>3, PerformToggleInv, ZenonT(30)
<1>4. CASE ruleDialog.type # "toggle"
  <2>1. ~atRest'
    BY <1>1, <1>4 DEF RuleInv, OneByOne
  <2>2. PerformBulkDisable /\ UNCHANGED patches
    BY <1>4 DEF OnConfirm
  <2> QED
    BY <1>1, <1>2, <2>1, <2>2, BulkInv, ZenonT(30) DEF PerformBulkDisable
<1> QED
  BY <1>3, <1>4

LEMMA NextRuleInv == RuleInv /\ (RulesNext \/ UNCHANGED ruleVars) => RuleInv'
<1> SUFFICES ASSUME RuleInv, RulesNext \/ UNCHANGED ruleVars PROVE RuleInv'
  OBVIOUS
<1>1. ASSUME UNCHANGED <<ruleStore, rulesPage, ruleDialog, patches, atRest>>
      PROVE  RuleInv'
  <2>1. UnderWay' = UnderWay
    BY <1>1 DEF UnderWay
  <2> QED
    BY <1>1, <2>1, ZenonT(30) DEF RuleInv, RuleTypes, OneFetch, OneByOne, Applied
<1>2. CASE \E f \in FetchIds : HubListsRules(f) \/ RulesFetchEnds(f)
  BY <1>2, RuleFetchInv
<1>3. CASE RetryRules
  BY <1>3, RuleRetryInv
<1>4. CASE \E p \in PatchIds :
              \/ \E r \in Rules : ToggleRule(p, r)
              \/ HubPatches(p) \/ PatchSucceeds(p) \/ PatchFails(p)
              \/ OnConfirm(p)
  BY <1>4, ToggleRuleInv, HubPatchesInv, PatchSucceedsInv, PatchFailsInv, OnConfirmInv
<1>5. CASE (\E r \in Rules : ToggleSelectRule(r)) \/ ToggleSelectAllRules
           \/ (\E t \in RuleTexts : SetInput(t))
  BY <1>1, <1>5 DEF ToggleSelectRule, ToggleSelectAllRules, SetInput
<1>6. CASE HandleBulkDisable
  <2>1. /\ rulesPage.data # NoData /\ UNCHANGED <<ruleStore, patches>> /\ ~atRest'
        /\ \/ UNCHANGED rulesPage
           \/ rulesPage' = SetData(rulesPage, Switched(FALSE))
        /\ ruleDialog' \in {ruleDialog, NoDialog, [type |-> "bulk-disable"]}
    BY <1>6, ZenonT(30) DEF HandleBulkDisable, PerformBulkDisable, TableReachable
  <2> QED
    BY <2>1, BulkInv, ZenonT(30)
<1>7. CASE HandleBulkEnable
  BY <1>7, BulkInv, ZenonT(30) DEF HandleBulkEnable, TableReachable
<1>8. CASE OnCancel
  <2>1. /\ ruleDialog # NoDialog /\ ruleDialog' = NoDialog
        /\ UNCHANGED <<ruleStore, rulesPage, patches, atRest>>
    BY <1>8, ZenonT(30) DEF OnCancel
  <2>2. UnderWay' = UnderWay
    BY <2>1 DEF UnderWay
  <2>3. RuleTypes'
    BY <2>1 DEF RuleInv, RuleTypes, DialogType
  <2>4. OneFetch'
    BY <2>1, <2>2 DEF RuleInv, OneFetch
  <2>5. atRest' => OneByOne'
    BY <2>1, <2>2, ZenonT(30) DEF RuleInv, OneByOne
  <2> QED
    BY <2>3, <2>4, <2>5 DEF RuleInv
<1>9. CASE UNCHANGED ruleVars
  BY <1>1, <1>9 DEF ruleVars
<1> QED
  BY <1>2, <1>3, <1>4, <1>5, <1>6, <1>7, <1>8, <1>9 DEF RulesNext

\* For any rules, fetches and PATCH requests: when every switch was used with no
\* PATCH under way, AlertRulesPage shows what the hub stores once the last PATCH
\* has answered, the refused ones that performToggle rolls back included.
THEOREM RulesSettled == RulesSpec => []SettledShowsStore
<1>1. RuleInv /\ [RulesNext]_ruleVars => RuleInv'
  BY NextRuleInv
<1>2. RuleInv => SettledShowsStore
  BY DEF RuleInv, OneByOne, SettledShowsStore
<1> QED
  BY InitRuleInv, <1>1, <1>2, PTL DEF RulesSpec
=============================================================================
