-------------------------- MODULE OverviewProofs --------------------------
(***************************************************************************)
(* Proofs about the pages that show the state of the whole estate, for any *)
(* values of the constants: the blast radius of the network map, which is  *)
(* computed by a breadth first search, and the alert queue of the overview. *)
(***************************************************************************)
EXTENDS NetworkMap, OverviewPage, Integers, FiniteSetTheorems, WellFoundedInduction, TLAPS

\* The provers a leaf is given when it names none, with time for a busy machine.
USE SMTT(30), ZenonT(30)

-----------------------------------------------------------------------------
(* Induction, and the loops that are written as recursive functions.         *)

Less == OpToRel(<, Nat)

LEMMA LessFacts ==
    /\ IsWellFoundedOn(Less, Nat)
    /\ \A m, n \in Nat : m < n => <<m, n>> \in Less
<1>1. IsWellFoundedOn(Less, Nat)
  BY NatLessThanWellFounded, Zenon DEF Less
<1>2. Less = {ss \in Nat \X Nat : ss[1] < ss[2]}
  BY DEF Less, OpToRel
<1> QED
  BY <1>1, <1>2

LEMMA Induction ==
    ASSUME NEW S, 0 \in S, \A n \in Nat : n \in S => n + 1 \in S
    PROVE  Nat \subseteq S
<1> DEFINE T == {n \in Nat : n \notin S}
<1>1. SUFFICES ASSUME T # {} PROVE FALSE
  OBVIOUS
<1>2. PICK n \in T : \A m \in T : ~(<<m, n>> \in Less)
  <2>1. T \subseteq Nat
    OBVIOUS
  <2> HIDE DEF T
  <2>2. IsWellFoundedOn(Less, Nat)
    BY LessFacts
  <2> QED
    BY <1>1, <2>1, <2>2, WFMin, ZenonT(30)
<1>3. n - 1 \in Nat /\ n - 1 < n
  BY <1>2
<1>4. n - 1 \in S
  BY <1>2, <1>3, LessFacts, Zenon
<1> QED
  BY <1>2, <1>3, <1>4

\* A loop of n steps: step i makes F[i][x] of x, and V[i] of what is in V[i - 1].
IsLoop(g, n, v, F) ==
    g = [i \in 0 .. n |-> g[i]] /\ g[0] = v /\ \A i \in 1 .. n : g[i] = F[i][g[i - 1]]

IsBody(F, n, V) == \A i \in 1 .. n : \A x \in V[i - 1] : F[i][x] \in V[i]

\* It has a value after each of its steps.
LEMMA Recursion ==
    ASSUME NEW n \in Nat, NEW v, NEW F
    PROVE  \E g : IsLoop(g, n, v, F)
<1> DEFINE S == {m \in Nat : \E g : IsLoop(g, m, v, F)}
<1>1. 0 \in S
  <2> DEFINE g == [i \in 0 .. 0 |-> v]
  <2>1. g = [i \in 0 .. 0 |-> g[i]] /\ g[0] = v /\ \A i \in 1 .. 0 : g[i] = F[i][g[i - 1]]
    OBVIOUS
  <2>2. IsLoop(g, 0, v, F)
    BY <2>1 DEF IsLoop
  <2> HIDE DEF g
  <2> QED
    BY <2>2, Zenon
<1>2. ASSUME NEW m \in Nat, m \in S PROVE m + 1 \in S
  <2>1. PICK g : IsLoop(g, m, v, F)
    BY <1>2
  <2> DEFINE h == [i \in 0 .. m + 1 |-> IF i = m + 1 THEN F[m + 1][g[m]] ELSE g[i]]
  <2>2. h = [i \in 0 .. m + 1 |-> h[i]] /\ h[0] = v
    BY <2>1 DEF IsLoop
  <2>3. ASSUME NEW i \in 1 .. m + 1 PROVE h[i] = F[i][h[i - 1]]
    <3>1. h[i - 1] = g[i - 1]
      OBVIOUS
    <3>2. CASE i = m + 1
      BY <3>1, <3>2
    <3>3. CASE i # m + 1
      <4>1. i \in 1 .. m /\ h[i] = g[i]
        BY <3>3
      <4> QED
        BY <2>1, <3>1, <4>1, Zenon DEF IsLoop
    <3> QED
      BY <3>2, <3>3
  <2> HIDE DEF h
  <2>4. IsLoop(h, m + 1, v, F)
    BY <2>2, <2>3, Zenon DEF IsLoop
  <2>5. m + 1 \in Nat
    OBVIOUS
  <2> QED
    BY <2>4, <2>5, Zenon
<1> HIDE DEF S
<1>3. n \in S
  BY <1>1, <1>2, Induction
<1> QED
  BY <1>3 DEF S

\* What begins and goes on like the loop has its values.
LEMMA LoopValues ==
    ASSUME NEW n \in Nat, NEW V, NEW F, IsBody(F, n, V),
           NEW f, f[0] \in V[0],
           \A i \in 1 .. n : f[i - 1] \in V[i - 1] => f[i] = F[i][f[i - 1]]
    PROVE  \A i \in 0 .. n : f[i] \in V[i]
<1> DEFINE S == {m \in Nat : m <= n => f[m] \in V[m]}
<1>1. 0 \in S
  OBVIOUS
<1>2. ASSUME NEW m \in Nat, m \in S PROVE m + 1 \in S
  <2> SUFFICES ASSUME m + 1 <= n PROVE f[m + 1] \in V[m + 1]
    OBVIOUS
  <2>1. m + 1 \in 1 .. n /\ (m + 1) - 1 = m /\ f[m] \in V[m]
    BY <1>2
  <2>2. F[m + 1][f[m]] \in V[m + 1]
    BY <2>1 DEF IsBody
  <2> QED
    BY <2>1, <2>2
<1> HIDE DEF S
<1>3. Nat \subseteq S
  BY <1>1, <1>2, Induction
<1> QED
  BY <1>3 DEF S

-----------------------------------------------------------------------------
(* useAsyncState.                                                            *)

\* execute marks one free call as sent and shows the skeleton; the data stay.
LEMMA ExecuteFacts ==
    ASSUME NEW V, NEW h \in HookType(V)
    PROVE  /\ Execute(h) \in HookType(V)
           /\ Execute(h).data = h.data /\ Execute(h).loading = TRUE
           /\ \A f \in Answered(Execute(h)) :
                  f \in Answered(h) /\ Execute(h).calls[f] = h.calls[f]
<1>. DEFINE c == CHOOSE f \in Free(h) : TRUE
<1>. HIDE DEF c
<1>2. Execute(h) = [h EXCEPT !.loading = TRUE, !.error = FALSE, !.calls[c] = Sent]
  BY DEF Execute, c
<1>3. Sent \in [st : {"idle", "sent", "answered"}, v : V \cup {NoData}]
      /\ Sent.st = "sent"
  BY DEF Sent
<1>. HIDE DEF Sent
<1>4. /\ Execute(h) \in HookType(V)
      /\ Execute(h).data = h.data /\ Execute(h).loading = TRUE
  <2>1. Execute(h) = [data |-> h.data, loading |-> TRUE, error |-> FALSE,
                      calls |-> [h.calls EXCEPT ![c] = Sent]]
    BY <1>2, ZenonT(30) DEF HookType
  <2>2. [h.calls EXCEPT ![c] = Sent] \in
          [FetchIds -> [st : {"idle", "sent", "answered"}, v : V \cup {NoData}]]
    BY <1>3, Zenon DEF HookType
  <2>. QED
    BY <2>1, <2>2 DEF HookType
<1>5. \A f \in FetchIds : Execute(h).calls[f] = IF f = c THEN Sent ELSE h.calls[f]
  BY <1>2 DEF HookType
<1>6. ASSUME NEW f \in Answered(Execute(h))
      PROVE  f \in Answered(h) /\ Execute(h).calls[f] = h.calls[f]
  <2>1. f \in FetchIds /\ Execute(h).calls[f].st = "answered"
    BY DEF Answered
  <2>2. f # c
    BY <2>1, <1>3, <1>5
  <2>. QED
    BY <2>1, <2>2, <1>5 DEF Answered
<1>. QED
  BY <1>4, <1>6

\* The hub's answer touches one call.
LEMMA ServedFacts ==
    ASSUME NEW V, NEW h \in HookType(V), NEW f \in FetchIds, NEW v \in V
    PROVE  /\ Served(h, f, v) \in HookType(V)
           /\ Served(h, f, v).data = h.data /\ Served(h, f, v).loading = h.loading
           /\ \A g \in FetchIds : Served(h, f, v).calls[g] =
                  IF g = f THEN [st |-> "answered", v |-> v] ELSE h.calls[g]
BY DEF Served, HookType

\* The end of execute, with an answer and without.
LEMMA SettledFacts ==
    ASSUME NEW V, NEW h \in HookType(V), NEW f \in FetchIds
    PROVE  /\ Resolve(h, f) \in HookType(V)
           /\ Resolve(h, f).data = h.calls[f].v /\ Resolve(h, f).loading = FALSE
           /\ Reject(h, f) \in HookType(V)
           /\ Reject(h, f).data = h.data
           /\ \A g \in FetchIds :
                  /\ Resolve(h, f).calls[g] = IF g = f THEN Idle ELSE h.calls[g]
                  /\ Reject(h, f).calls[g] = IF g = f THEN Idle ELSE h.calls[g]
BY ZenonT(30) DEF Resolve, Reject, HookType, Idle

-----------------------------------------------------------------------------
(* NetworkMapPage: reachableNodes.                                           *)

States == [visited : SUBSET Nodes, queue : Seq(Nodes)]

\* A set that holds start and both ends of every edge it touches.
Closed(S, start, edges) ==
    start \in S /\ \A j \in 1 .. Len(edges) : edges[j][1] \in S <=> edges[j][2] \in S

\* The nodes of done are dealt with; the others that were visited are in the
\* queue, each once.
Frontier(acc, done) ==
    /\ acc \in States
    /\ done \subseteq acc.visited
    /\ \A m \in acc.visited \ done : \E k \in 1 .. Len(acc.queue) : acc.queue[k] = m
    /\ \A k \in 1 .. Len(acc.queue) : acc.queue[k] \in acc.visited \ done
    /\ \A k, l \in 1 .. Len(acc.queue) : acc.queue[k] = acc.queue[l] => k = l

\* The first i edges have been followed from p.
Followed(acc, p, edges, i) ==
    \A j \in 1 .. i :
        /\ edges[j][1] = p => edges[j][2] \in acc.visited
        /\ edges[j][2] = p => edges[j][1] \in acc.visited

Least(acc, start, edges) ==
    /\ start \in acc.visited
    /\ \A S \in SUBSET Nodes : Closed(S, start, edges) => acc.visited \subseteq S

LEMMA VisitedFacts ==
    ASSUME NEW acc, NEW done, Frontier(acc, done), NEW n \in Nodes
    PROVE  /\ Frontier(Visited(acc, n), done)
           /\ Visited(acc, n).visited = acc.visited \cup {n}
<1>1. CASE n \in acc.visited
  BY <1>1 DEF Visited
<1>2. CASE n \notin acc.visited
  <2> DEFINE q == acc.queue
             v == acc.visited
             r == Append(q, n)
  <2>1. q \in Seq(Nodes) /\ v \in SUBSET Nodes
    BY DEF Frontier, States
  <2>2. Visited(acc, n) = [visited |-> v \cup {n}, queue |-> r]
    BY <1>2 DEF Visited
  <2>3. r \in Seq(Nodes) /\ Len(r) = Len(q) + 1 /\ r[Len(q) + 1] = n
        /\ Len(q) \in Nat /\ \A k \in 1 .. Len(q) : r[k] = q[k]
    BY <2>1
  <2>4. /\ done \subseteq v
        /\ \A m \in v \ done : \E k \in 1 .. Len(q) : q[k] = m
        /\ \A k \in 1 .. Len(q) : q[k] \in v \ done
        /\ \A k, l \in 1 .. Len(q) : q[k] = q[l] => k = l
    BY DEF Frontier
  <2> HIDE DEF q, v, r
  <2>5. n \notin v
    BY <1>2 DEF v
  <2>6. ASSUME NEW m \in (v \cup {n}) \ done PROVE \E k \in 1 .. Len(r) : r[k] = m
    BY <2>3, <2>4
  <2>7. ASSUME NEW k \in 1 .. Len(r) PROVE r[k] \in (v \cup {n}) \ done
    <3>1. CASE k = Len(q) + 1
      BY <2>3, <2>4, <2>5, <3>1
    <3>2. CASE k \in 1 .. Len(q)
      BY <2>3, <2>4, <3>2
    <3> QED
      BY <2>3, <3>1, <3>2
  <2>8. ASSUME NEW k \in 1 .. Len(r), NEW l \in 1 .. Len(r), r[k] = r[l] PROVE k = l
    BY <2>3, <2>4, <2>5, <2>8
  <2>9. Visited(acc, n) \in States
    BY <2>1, <2>2, <2>3 DEF States
  <2>10. Frontier(Visited(acc, n), done)
    BY <2>2, <2>4, <2>6, <2>7, <2>8, <2>9 DEF Frontier
  <2> QED
    BY <2>2, <2>10 DEF v
<1> QED
  BY <1>1, <1>2

LEMMA FollowFacts ==
    ASSUME NEW acc, NEW done, Frontier(acc, done), NEW curr, NEW e \in Nodes \X Nodes
    PROVE  /\ Frontier(Follow(curr, acc, e), done)
           /\ Follow(curr, acc, e).visited = acc.visited
                  \cup (IF e[1] = curr THEN {e[2]} ELSE {})
                  \cup (IF e[2] = curr THEN {e[1]} ELSE {})
<1> DEFINE out == IF e[1] = curr THEN Visited(acc, e[2]) ELSE acc
           in == IF e[2] = curr THEN Visited(out, e[1]) ELSE out
<1>1. e[1] \in Nodes /\ e[2] \in Nodes
  OBVIOUS
<1>2. Follow(curr, acc, e) = in
  BY DEF Follow
<1>3. Frontier(out, done)
      /\ out.visited = acc.visited \cup (IF e[1] = curr THEN {e[2]} ELSE {})
  BY <1>1, VisitedFacts
<1> HIDE DEF out
<1>4. Frontier(in, done)
      /\ in.visited = out.visited \cup (IF e[2] = curr THEN {e[1]} ELSE {})
  BY <1>1, <1>3, VisitedFacts
<1> QED
  BY <1>2, <1>3, <1>4

\* One round of the search deals with the head of the queue.
Good(acc, done, start, edges) ==
    /\ Frontier(acc, done) /\ Least(acc, start, edges)
    /\ \A p \in done : Followed(acc, p, edges, Len(edges))

LEMMA FollowGood ==
    ASSUME NEW edges \in Seq(Nodes \X Nodes), NEW i \in 1 .. Len(edges), NEW start,
           NEW acc, NEW done, NEW curr \in acc.visited,
           Frontier(acc, done), Least(acc, start, edges), Followed(acc, curr, edges, i - 1)
    PROVE  LET next == Follow(curr, acc, edges[i])
           IN  /\ Frontier(next, done) /\ Least(next, start, edges)
               /\ Followed(next, curr, edges, i) /\ acc.visited \subseteq next.visited
<1> DEFINE e == edges[i]
           next == Follow(curr, acc, e)
           new == (IF e[1] = curr THEN {e[2]} ELSE {}) \cup (IF e[2] = curr THEN {e[1]} ELSE {})
<1>1. e \in Nodes \X Nodes
  OBVIOUS
<1>2. Frontier(next, done) /\ next.visited = acc.visited \cup new
  <2> HIDE DEF e
  <2> QED
    BY <1>1, FollowFacts
<1>3. Followed(next, curr, edges, i)
  <2> SUFFICES ASSUME NEW j \in 1 .. i
               PROVE  /\ edges[j][1] = curr => edges[j][2] \in next.visited
                      /\ edges[j][2] = curr => edges[j][1] \in next.visited
    BY DEF Followed
  <2> HIDE DEF next
  <2>1. CASE j = i
    BY <1>2, <2>1
  <2>2. CASE j \in 1 .. i - 1
    BY <1>2, <2>2 DEF Followed
  <2> QED
    BY <2>1, <2>2
<1>4. ASSUME NEW S \in SUBSET Nodes, Closed(S, start, edges) PROVE next.visited \subseteq S
  <2>1. acc.visited \subseteq S
    BY <1>4 DEF Least
  <2>2. e[1] \in S <=> e[2] \in S
    BY <1>4 DEF Closed
  <2>3. new \subseteq S
    BY <2>1, <2>2
  <2> HIDE DEF next, new
  <2> QED
    BY <1>2, <2>1, <2>3
<1> HIDE DEF next, new
<1>5. Least(next, start, edges)
  BY <1>2, <1>4 DEF Least
<1> QED
  BY <1>2, <1>3, <1>5 DEF next

\* The head of the queue is taken out and counts as dealt with.
LEMMA TakeHead ==
    ASSUME NEW acc, NEW done, Frontier(acc, done), acc.queue # <<>>
    PROVE  LET curr == Head(acc.queue)
               next == [acc EXCEPT !.queue = Tail(@)]
           IN  /\ curr \in acc.visited \ done /\ next.visited = acc.visited
               /\ Frontier(next, done \cup {curr})
<1> DEFINE q == acc.queue
           v == acc.visited
           curr == Head(q)
           r == Tail(q)
           next == [acc EXCEPT !.queue = Tail(@)]
<1>1. q \in Seq(Nodes) /\ v \in SUBSET Nodes /\ q # <<>>
  BY DEF Frontier, States
<1>2. next = [visited |-> v, queue |-> r]
  BY DEF Frontier, States
<1>3. r \in Seq(Nodes) /\ Len(r) = Len(q) - 1 /\ curr = q[1] /\ Len(q) \in Nat /\ Len(q) > 0
      /\ \A k \in 1 .. Len(r) : r[k] = q[k + 1]
  BY <1>1
<1>4. /\ done \subseteq v
      /\ \A m \in v \ done : \E k \in 1 .. Len(q) : q[k] = m
      /\ \A k \in 1 .. Len(q) : q[k] \in v \ done
      /\ \A k, l \in 1 .. Len(q) : q[k] = q[l] => k = l
  BY DEF Frontier
<1> HIDE DEF q, v, r, curr
<1>5. curr \in v \ done
  BY <1>3, <1>4
<1>6. ASSUME NEW m \in v \ (done \cup {curr}) PROVE \E k \in 1 .. Len(r) : r[k] = m
  <2>1. PICK k \in 1 .. Len(q) : q[k] = m
    BY <1>4
  <2>2. k # 1
    BY <1>3, <2>1
  <2>3. k - 1 \in 1 .. Len(r) /\ (k - 1) + 1 = k
    BY <1>3, <2>2
  <2> QED
    BY <1>3, <2>1, <2>3, Zenon
<1>7. ASSUME NEW k \in 1 .. Len(r) PROVE r[k] \in v \ (done \cup {curr})
  <2>1. k + 1 \in 1 .. Len(q) /\ 1 \in 1 .. Len(q) /\ k + 1 # 1 /\ r[k] = q[k + 1]
    BY <1>3
  <2> QED
    BY <1>3, <1>4, <2>1
<1>8. ASSUME NEW k \in 1 .. Len(r), NEW l \in 1 .. Len(r), r[k] = r[l] PROVE k = l
  <2>1. k + 1 \in 1 .. Len(q) /\ l + 1 \in 1 .. Len(q) /\ q[k + 1] = q[l + 1]
    BY <1>3, <1>8
  <2>2. k + 1 = l + 1
    BY <1>4, <2>1
  <2> QED
    BY <2>2
<1>9. next \in States
  BY <1>1, <1>2, <1>3 DEF States
<1>10. next.visited = v /\ next.queue = r
  BY <1>2
<1> HIDE DEF next
<1>11. Frontier(next, done \cup {curr})
  BY <1>4, <1>5, <1>6, <1>7, <1>8, <1>9, <1>10 DEF Frontier
<1> QED
  BY <1>5, <1>10, <1>11 DEF next, curr, v, q

\* A round takes the head of the queue and follows its edges.
LEMMA RoundGood ==
    ASSUME NEW edges \in Seq(Nodes \X Nodes), NEW start, NEW acc, NEW done,
           Good(acc, done, start, edges), acc.queue # <<>>
    PROVE  LET curr == Head(acc.queue)
           IN  /\ curr \in Nodes \ done
               /\ Good(Round(acc, edges), done \cup {curr}, start, edges)
<1> DEFINE curr == Head(acc.queue)
           first == [acc EXCEPT !.queue = Tail(@)]
           now_ == done \cup {curr}
           n == Len(edges)
           Step(x, i) == Follow(curr, x, edges[i])
           Fine(x, i) ==
               /\ Frontier(x, now_) /\ Least(x, start, edges)
               /\ Followed(x, curr, edges, i) /\ acc.visited \subseteq x.visited
           V == [i \in 0 .. n |-> {x \in States : Fine(x, i)}]
           F == [i \in 1 .. n |-> [x \in States |-> Step(x, i)]]
           Values(f, i) == IF i = 0 THEN first ELSE Step(f[i - 1], i)
           after == CHOOSE f : f = [i \in 0 .. n |-> Values(f, i)]
<1>1. n \in Nat
  OBVIOUS
<1>2. Round(acc, edges) = after[n]
  BY DEF Round
<1>3. curr \in acc.visited \ done /\ first.visited = acc.visited /\ Frontier(first, now_)
  BY TakeHead, Zenon DEF Good
<1>4. curr \in Nodes
  BY <1>3 DEF Good, Frontier, States
<1> HIDE DEF curr, first, n
<1>5. first \in V[0]
  <2>1. first \in States
    BY <1>3 DEF Frontier
  <2>2. Least(first, start, edges)
    BY <1>3 DEF Good, Least
  <2>3. Followed(first, curr, edges, 0)
    BY DEF Followed
  <2> QED
    BY <1>1, <1>3, <2>1, <2>2, <2>3
<1>6. ASSUME NEW i \in 1 .. n, NEW x \in V[i - 1]
      PROVE  Step(x, i) \in V[i]
  <2>1. x \in States /\ Fine(x, i - 1)
    BY <1>1
  <2>2. curr \in x.visited
    BY <1>3, <2>1
  <2>3. LET next == Step(x, i)
        IN  /\ Frontier(next, now_) /\ Least(next, start, edges)
            /\ Followed(next, curr, edges, i) /\ x.visited \subseteq next.visited
    <3> HIDE DEF now_
    <3> QED
      BY <2>1, <2>2, FollowGood, Zenon DEF n
  <2>4. Step(x, i) \in States
    BY <2>3 DEF Frontier
  <2>5. Fine(Step(x, i), i)
    BY <2>1, <2>3
  <2>6. V[i] = {y \in States : Fine(y, i)}
    BY <1>1
  <2> HIDE DEF Fine, Step, V
  <2> QED
    BY <2>4, <2>5, <2>6
<1>7. \A i \in 0 .. n : V[i] \subseteq States
  OBVIOUS
<1> HIDE DEF V, Step
<1>8. \A i \in 1 .. n : \A x \in V[i - 1] : F[i][x] = Step(x, i)
  BY <1>1, <1>7
<1>9. IsBody(F, n, V)
  BY <1>6, <1>8 DEF IsBody
<1> HIDE DEF F
<1>10. PICK g : IsLoop(g, n, first, F)
  BY <1>1, Recursion
<1>11. \A i \in 0 .. n : g[i] \in V[i]
  <2>1. g[0] \in V[0] /\ \A i \in 1 .. n : g[i - 1] \in V[i - 1] => g[i] = F[i][g[i - 1]]
    BY <1>5, <1>10 DEF IsLoop
  <2> QED
    BY <1>1, <1>9, <2>1, LoopValues
<1>12. \A i \in 0 .. n : after[i] = Values(after, i)
  <2>1. ASSUME NEW i \in 0 .. n PROVE g[i] = Values(g, i)
    <3>1. CASE i = 0
      BY <1>10, <3>1 DEF IsLoop
    <3>2. CASE i # 0
      <4>1. i \in 1 .. n /\ i - 1 \in 0 .. n
        BY <1>1, <3>2
      <4>2. g[i] = F[i][g[i - 1]] /\ g[i - 1] \in V[i - 1]
        BY <1>10, <1>11, <4>1 DEF IsLoop
      <4> QED
        BY <1>8, <3>2, <4>1, <4>2
    <3> QED
      BY <3>1, <3>2
  <2>2. g = [i \in 0 .. n |-> g[i]]
    BY <1>10 DEF IsLoop
  <2> HIDE DEF Values
  <2>3. g = [i \in 0 .. n |-> Values(g, i)]
    BY <2>1, <2>2
  <2>4. after = [i \in 0 .. n |-> Values(after, i)]
    BY <2>3, Zenon
  <2> QED
    BY <2>4, Zenon
<1> HIDE DEF after
<1>13. after[0] = first /\ \A i \in 1 .. n : after[i] = Step(after[i - 1], i)
  BY <1>1, <1>12
<1>14. after[0] \in V[0]
       /\ \A i \in 1 .. n : after[i - 1] \in V[i - 1] => after[i] = F[i][after[i - 1]]
  BY <1>5, <1>8, <1>13
<1>15. \A i \in 0 .. n : after[i] \in V[i]
  BY <1>1, <1>9, <1>14, LoopValues
<1> DEFINE z == after[n]
<1>16. Fine(z, n)
  <2>1. z \in V[n] /\ n \in 0 .. n
    BY <1>1, <1>15
  <2> HIDE DEF Fine, z
  <2> QED
    BY <2>1 DEF V
<1> HIDE DEF z
<1>17. ASSUME NEW p \in now_ PROVE Followed(z, p, edges, Len(edges))
  <2>1. CASE p = curr
    BY <1>16, <2>1 DEF n
  <2>2. CASE p \in done
    BY <1>16, <2>2 DEF Good, Followed
  <2> QED
    BY <2>1, <2>2
<1>18. Good(z, now_, start, edges)
  BY <1>16, <1>17 DEF Good
<1> QED
  BY <1>2, <1>3, <1>4, <1>18 DEF z, curr

\* The search finds the least closed set: after as many rounds as there are
\* nodes the queue is empty, because every round deals with another node.
\* The search ends with the queue empty: each round deals with one node more, and
\* there are as many rounds as nodes.
LEMMA SearchFacts ==
    ASSUME NEW edges \in Seq(Nodes \X Nodes), NEW start \in Nodes
    PROVE  LET found == Search([visited |-> {start}, queue |-> <<start>>], edges)
           IN  /\ found \in SUBSET Nodes /\ Closed(found, start, edges)
               /\ \A S \in SUBSET Nodes : Closed(S, start, edges) => found \subseteq S
<1> DEFINE first == [visited |-> {start}, queue |-> <<start>>]
           n == Cardinality(Nodes)
           Fine(x, i) == \E done \in SUBSET Nodes :
               Good(x, done, start, edges) /\ (x.queue = <<>> \/ Cardinality(done) = i)
           V == [i \in 0 .. n |-> {x \in States : Fine(x, i)}]
           F == [i \in 1 .. n |-> [x \in States |-> Round(x, edges)]]
           Values(f, i) == IF i = 0 THEN first ELSE Round(f[i - 1], edges)
           after == CHOOSE f : f = [i \in 0 .. n |-> Values(f, i)]
<1>1. n \in Nat /\ IsFiniteSet(Nodes)
  BY MapAssumption, FS_CardinalityType
<1>2. Search(first, edges) = after[n].visited
  BY DEF Search
<1>3. first \in V[0]
  <2>1. first \in States /\ first.visited = {start} /\ first.queue = <<start>>
    BY DEF States
  <2> HIDE DEF first
  <2>2. Frontier(first, {})
    BY <2>1 DEF Frontier
  <2>3. Least(first, start, edges)
    BY <2>1 DEF Least, Closed
  <2>4. Good(first, {}, start, edges)
    BY <2>2, <2>3 DEF Good
  <2>5. {} \in SUBSET Nodes /\ Cardinality({}) = 0
    BY FS_EmptySet
  <2>6. Fine(first, 0)
    BY <2>4, <2>5, Zenon
  <2> HIDE DEF Fine
  <2> QED
    BY <1>1, <2>1, <2>6
<1> HIDE DEF n, first
<1>4. ASSUME NEW i \in 1 .. n, NEW x \in V[i - 1]
      PROVE  Round(x, edges) \in V[i]
  <2>1. V[i - 1] = {y \in States : Fine(y, i - 1)} /\ V[i] = {y \in States : Fine(y, i)}
        /\ i - 1 \in Nat
    BY <1>1
  <2> HIDE DEF V
  <2>2. x \in States /\ Fine(x, i - 1)
    <3> HIDE DEF Fine
    <3> QED
      BY <2>1
  <2>3. PICK done \in SUBSET Nodes :
            Good(x, done, start, edges) /\ (x.queue = <<>> \/ Cardinality(done) = i - 1)
    BY <2>2, Zenon
  <2>4. Round(x, edges) \in States /\ Fine(Round(x, edges), i)
    <3>1. CASE x.queue = <<>>
      <4>1. Round(x, edges) = x
        BY <3>1 DEF Round
      <4> QED
        BY <2>2, <2>3, <3>1, <4>1
    <3>2. CASE x.queue # <<>>
      <4> DEFINE curr == Head(x.queue)
                 more == done \cup {curr}
      <4>1. curr \in Nodes \ done /\ Good(Round(x, edges), more, start, edges)
        BY <2>3, <3>2, RoundGood, Zenon
      <4>2. IsFiniteSet(done) /\ Cardinality(done) = i - 1
        BY <1>1, <2>3, <3>2, FS_Subset
      <4> HIDE DEF curr
      <4>3. Cardinality(more) = Cardinality(done) + 1
        BY <4>1, <4>2, FS_AddElement, Zenon
      <4>4. more \in SUBSET Nodes /\ Cardinality(more) = i
        BY <4>1, <4>2, <4>3
      <4>5. Round(x, edges) \in States
        BY <4>1 DEF Good, Frontier
      <4> HIDE DEF more
      <4> QED
        BY <4>1, <4>4, <4>5, Zenon
    <3> QED
      BY <3>1, <3>2
  <2> HIDE DEF Fine
  <2> QED
    BY <2>1, <2>4
<1>5. \A i \in 0 .. n : V[i] = {x \in States : Fine(x, i)}
  OBVIOUS
<1> HIDE DEF V
<1>6. \A i \in 1 .. n : \A x \in V[i - 1] : F[i][x] = Round(x, edges)
  <2> SUFFICES ASSUME NEW i \in 1 .. n, NEW x \in V[i - 1]
               PROVE  F[i][x] = Round(x, edges)
    OBVIOUS
  <2> HIDE DEF Fine
  <2>1. x \in States
    BY <1>1, <1>5
  <2> QED
    BY <2>1
<1>7. IsBody(F, n, V)
  BY <1>4, <1>6 DEF IsBody
<1> HIDE DEF F
<1>8. PICK g : IsLoop(g, n, first, F)
  BY <1>1, Recursion
<1>9. \A i \in 0 .. n : g[i] \in V[i]
  <2>1. g[0] \in V[0] /\ \A i \in 1 .. n : g[i - 1] \in V[i - 1] => g[i] = F[i][g[i - 1]]
    BY <1>3, <1>8 DEF IsLoop
  <2> QED
    BY <1>1, <1>7, <2>1, LoopValues
<1>10. \A i \in 0 .. n : after[i] = Values(after, i)
  <2>1. ASSUME NEW i \in 0 .. n PROVE g[i] = Values(g, i)
    <3>1. CASE i = 0
      BY <1>8, <3>1 DEF IsLoop
    <3>2. CASE i # 0
      <4>1. i \in 1 .. n /\ i - 1 \in 0 .. n
        BY <1>1, <3>2
      <4>2. g[i] = F[i][g[i - 1]] /\ g[i - 1] \in V[i - 1]
        BY <1>8, <1>9, <4>1, Zenon DEF IsLoop
      <4> QED
        BY <1>6, <3>2, <4>1, <4>2
    <3> QED
      BY <3>1, <3>2
  <2>2. g = [i \in 0 .. n |-> g[i]]
    BY <1>8 DEF IsLoop
  <2> HIDE DEF Values
  <2>3. g = [i \in 0 .. n |-> Values(g, i)]
    BY <2>1, <2>2
  <2>4. after = [i \in 0 .. n |-> Values(after, i)]
    BY <2>3, Zenon
  <2> QED
    BY <2>4, Zenon
<1> HIDE DEF after
<1>11. after[0] = first /\ \A i \in 1 .. n : after[i] = Round(after[i - 1], edges)
  BY <1>1, <1>10
<1>12. after[0] \in V[0]
       /\ \A i \in 1 .. n : after[i - 1] \in V[i - 1] => after[i] = F[i][after[i - 1]]
  BY <1>3, <1>6, <1>11
<1>13. \A i \in 0 .. n : after[i] \in V[i]
  BY <1>1, <1>7, <1>12, LoopValues
<1> DEFINE z == after[n]
<1>14. Fine(z, n)
  <2>1. z \in V[n] /\ n \in 0 .. n
    BY <1>1, <1>13
  <2> HIDE DEF Fine, z
  <2> QED
    BY <1>5, <2>1
<1> HIDE DEF z
<1>15. PICK done \in SUBSET Nodes :
           Good(z, done, start, edges) /\ (z.queue = <<>> \/ Cardinality(done) = n)
  BY <1>14, Zenon
<1>16. Frontier(z, done) /\ z \in States
  BY <1>15 DEF Good, Frontier
<1>17. z.visited = done
  <2>1. CASE z.queue = <<>>
    <3>1. /\ done \subseteq z.visited
          /\ \A m \in z.visited \ done : \E k \in 1 .. Len(z.queue) : z.queue[k] = m
      BY <1>16, Zenon DEF Frontier
    <3>2. 1 .. Len(z.queue) = {}
      BY <2>1
    <3>3. z.visited \ done = {}
      BY <3>1, <3>2, Zenon
    <3> QED
      BY <3>1, <3>3, Zenon
  <2>2. CASE Cardinality(done) = n
    <3>1. done = Nodes
      BY <1>1, <2>2, FS_Subset DEF n
    <3> QED
      BY <1>16, <3>1, Zenon DEF Frontier, States
  <2> QED
    BY <1>15, <2>1, <2>2
<1>18. Closed(done, start, edges)
  <2>1. \A p \in done : Followed(z, p, edges, Len(edges))
    BY <1>15 DEF Good
  <2>2. \A j \in 1 .. Len(edges) : edges[j][1] \in done <=> edges[j][2] \in done
    BY <1>17, <2>1 DEF Followed
  <2>3. start \in done
    BY <1>15, <1>17 DEF Good, Least
  <2> QED
    BY <2>2, <2>3 DEF Closed
<1>19. \A S \in SUBSET Nodes : Closed(S, start, edges) => done \subseteq S
  BY <1>15, <1>17 DEF Good, Least
<1> QED
  BY <1>2, <1>17, <1>18, <1>19, Zenon DEF z, first

-----------------------------------------------------------------------------
(* NetworkMapPage.                                                           *)

MapInv ==
    /\ topology \in Topologies
    /\ mapPage \in HookType(Maps)
    /\ \A f \in Answered(mapPage) : mapPage.calls[f].v \in Maps
    /\ selectedNode \in Nodes \cup {NoNode}
    /\ simulatingPath => selectedNode # NoNode /\ mapPage.data # NoData

LEMMA InitMapInv == MapInit => MapInv
<1> SUFFICES ASSUME MapInit PROVE MapInv
  OBVIOUS
<1>1. Mounted \in HookType(Maps) /\ \A f \in FetchIds : Mounted.calls[f].st = "idle"
  BY DEF Mounted, HookType, Idle
<1>2. mapPage = Execute(Mounted)
  BY Zenon DEF MapInit
<1>3. mapPage \in HookType(Maps) /\ \A f \in Answered(mapPage) : f \in Answered(Mounted)
  BY <1>1, <1>2, ExecuteFacts, Zenon
<1>4. Answered(Mounted) = {}
  BY <1>1 DEF Answered
<1> QED
  BY <1>3, <1>4, Zenon DEF MapInv, MapInit

LEMMA NextMapInv == MapInv /\ [MapNext]_mapVars => MapInv'
<1> SUFFICES ASSUME MapInv, [MapNext]_mapVars PROVE MapInv'
  OBVIOUS
<1>1. CASE UNCHANGED <<topology, mapPage>> /\ selectedNode' \in Nodes \cup {NoNode}
           /\ (simulatingPath' => selectedNode' # NoNode /\ mapPage.data # NoData)
  BY <1>1, Zenon DEF MapInv
<1>2. CASE UNCHANGED <<topology, sideVars>> /\ mapPage' \in HookType(Maps)
           /\ (\A f \in Answered(mapPage') : mapPage'.calls[f].v \in Maps)
           /\ (mapPage.data # NoData => mapPage'.data # NoData)
  BY <1>2, Zenon DEF MapInv, sideVars
<1>3. mapPage \in HookType(Maps) /\ topology \in Topologies
      /\ \A f \in Answered(mapPage) : mapPage.calls[f].v \in Maps
  BY DEF MapInv
<1>4. ASSUME NEW f \in FetchIds, HubSendsMap(f) PROVE MapInv'
  <2>1. PICK found \in {{}, Findings} :
            mapPage' = Served(mapPage, f, [edges |-> topology, findings |-> found])
    BY <1>4 DEF HubSendsMap
  <2> DEFINE v == [edges |-> topology, findings |-> found]
  <2>2. v \in Maps
    BY <1>3 DEF Maps
  <2> HIDE DEF v
  <2>3. /\ mapPage' \in HookType(Maps) /\ mapPage'.data = mapPage.data
        /\ \A g \in FetchIds : mapPage'.calls[g] =
               IF g = f THEN [st |-> "answered", v |-> v] ELSE mapPage.calls[g]
    BY <1>3, <2>1, <2>2, ServedFacts DEF v
  <2>4. \A g \in Answered(mapPage') : mapPage'.calls[g].v \in Maps
    BY <1>3, <2>2, <2>3 DEF Answered
  <2> QED
    BY <1>2, <1>4, <2>3, <2>4 DEF HubSendsMap
<1>5. ASSUME NEW f \in FetchIds, MapFetchEnds(f) PROVE MapInv'
  <2>1. CASE f \in Answered(mapPage) /\ mapPage' = Resolve(mapPage, f)
    <3>1. /\ mapPage' \in HookType(Maps) /\ mapPage'.data = mapPage.calls[f].v
          /\ \A g \in FetchIds : mapPage'.calls[g] = IF g = f THEN Idle ELSE mapPage.calls[g]
      BY <1>3, <2>1, SettledFacts, Zenon
    <3>2. mapPage'.data # NoData
      BY <1>3, <2>1, <3>1, MapAssumption
    <3>3. \A g \in Answered(mapPage') : mapPage'.calls[g].v \in Maps
      BY <1>3, <3>1 DEF Answered, Idle
    <3> QED
      BY <1>2, <1>5, <3>1, <3>2, <3>3 DEF MapFetchEnds
  <2>2. CASE mapPage' = Reject(mapPage, f)
    <3>1. /\ mapPage' \in HookType(Maps) /\ mapPage'.data = mapPage.data
          /\ \A g \in FetchIds : mapPage'.calls[g] = IF g = f THEN Idle ELSE mapPage.calls[g]
      BY <1>3, <2>2, SettledFacts, Zenon
    <3>2. \A g \in Answered(mapPage') : mapPage'.calls[g].v \in Maps
      BY <1>3, <3>1 DEF Answered, Idle
    <3> QED
      BY <1>2, <1>5, <3>1, <3>2 DEF MapFetchEnds
  <2> QED
    BY <1>5, <2>1, <2>2 DEF MapFetchEnds
<1>6. CASE RetryMap
  <2>1. mapPage' = Execute(mapPage)
    BY <1>6 DEF RetryMap
  <2>2. /\ mapPage' \in HookType(Maps) /\ mapPage'.data = mapPage.data
        /\ \A f \in Answered(mapPage') :
               f \in Answered(mapPage) /\ mapPage'.calls[f] = mapPage.calls[f]
    BY <1>3, <2>1, ExecuteFacts, Zenon
  <2> QED
    BY <1>2, <1>3, <1>6, <2>2 DEF RetryMap
<1>7. ASSUME NEW n \in Nodes, OnNodeClick(n) PROVE MapInv'
  BY <1>1, <1>7, Zenon DEF OnNodeClick
<1>8. CASE CloseSidebar
  BY <1>1, <1>8, Zenon DEF CloseSidebar
<1>9. CASE ToggleSimulation
  BY <1>1, <1>9, Zenon DEF ToggleSimulation, Drawn, MapInv
<1>10. ASSUME NEW a \in ActionIds, (\E x \in Findings : HandleResponseAction(a, x)) \/ ActionEnds(a)
       PROVE  MapInv'
  BY <1>1, <1>10, Zenon DEF HandleResponseAction, ActionEnds, MapInv
<1>11. CASE UNCHANGED mapVars
  BY <1>1, <1>11, Zenon DEF mapVars, sideVars, MapInv
<1> QED
  BY <1>4, <1>5, <1>6, <1>7, <1>8, <1>9, <1>10, <1>11, Zenon DEF MapNext

\* What the invariant says of a simulation is that it lights a component.
LEMMA MapInvShows == MapInv => BlastRadiusIsComponent
<1> SUFFICES ASSUME MapInv, simulatingPath PROVE BlastRadiusIsComponent
  BY Zenon DEF BlastRadiusIsComponent
<1> DEFINE edges == mapPage.data.edges
           lit == Search([visited |-> {selectedNode}, queue |-> <<selectedNode>>], edges)
<1>1. selectedNode \in Nodes /\ mapPage.data # NoData /\ mapPage.data \in Maps
  BY DEF MapInv, HookType
<1>2. edges \in Seq(Nodes \X Nodes)
  BY <1>1, MapAssumption DEF Maps
<1>3. ReachableNodes = lit
  BY <1>1, MapAssumption DEF ReachableNodes
<1>4. PICK S : S = lit
  OBVIOUS
<1>5. /\ S \in SUBSET Nodes /\ Closed(S, selectedNode, edges)
      /\ \A T \in SUBSET Nodes : Closed(T, selectedNode, edges) => S \subseteq T
  BY <1>1, <1>2, <1>4, SearchFacts, Zenon
<1> HIDE DEF lit
<1>6. \A n : NodeLit(n) <=> n \in S
  BY <1>3, <1>4, Zenon DEF NodeLit
<1>7. \A e : LinkLit(e) <=> e[1] \in S /\ e[2] \in S
  BY <1>3, <1>4, Zenon DEF LinkLit
<1>8. ASSUME NEW T PROVE Closed(T, selectedNode, edges) <=>
          selectedNode \in T /\ \A e \in MapEdges : e[1] \in T <=> e[2] \in T
  <2>1. MapEdges = {edges[j] : j \in 1 .. Len(edges)}
    BY <1>2 DEF MapEdges, Range
  <2> HIDE DEF edges
  <2> QED
    BY <2>1, Zenon DEF Closed
<1>9. Component(selectedNode) = S
  <2>1. ASSUME NEW m \in Component(selectedNode) PROVE m \in S
    BY <1>5, <1>8 DEF Component
  <2>2. ASSUME NEW m \in S PROVE m \in Component(selectedNode)
    BY <1>5, <1>8 DEF Component
  <2> QED
    BY <2>1, <2>2
<1>10. {n \in Nodes : NodeLit(n)} = S
  BY <1>5, <1>6
<1>11. \A e \in MapEdges : LinkLit(e) <=> NodeLit(e[1]) \/ NodeLit(e[2])
  BY <1>5, <1>6, <1>7, <1>8
<1> QED
  BY <1>9, <1>10, <1>11 DEF BlastRadiusIsComponent

\* For any nodes and edges, whichever way round and however often an edge is
\* given: while a path is simulated NetworkMapPage lights the nodes that the
\* selected one is connected to, no others, and the links at them.  The topology
\* may be fetched again, and change, meanwhile.
THEOREM MapBlastRadius == MapSpec => []BlastRadiusIsComponent
  BY InitMapInv, NextMapInv, MapInvShows, PTL DEF MapSpec

-----------------------------------------------------------------------------
(* OverviewPage.                                                             *)

\* handleFalsePositive takes alerts out of the queue and puts none in.
LEMMA WithoutFacts ==
    ASSUME NEW q \in Seq(Row), NEW a
    PROVE  Without(a, q) \in Seq(Row) /\ Ids(Without(a, q)) \subseteq Ids(q)
<1> DEFINE Part == {p \in Seq(Row) : Ids(p) \subseteq Ids(q)}
           n == Len(q)
           V == [i \in 0 .. n |-> Part]
           first == <<>>
           Step(p, i) == IF q[i].id # a THEN Append(p, q[i]) ELSE p
           F == [i \in 1 .. n |-> [p \in Part |-> Step(p, i)]]
           Values(f, i) == IF i = 0 THEN first ELSE Step(f[i - 1], i)
           kept == CHOOSE f : f = [i \in 0 .. n |-> Values(f, i)]
<1>1. n \in Nat
  OBVIOUS
<1>2. first \in V[0]
  BY <1>1 DEF Ids
<1>3. ASSUME NEW i \in 1 .. n, NEW p \in Part PROVE Step(p, i) \in Part
  <2> DEFINE x == q[i]
             r == Append(p, x)
  <2>1. x \in Row /\ x.id \in Ids(q)
    BY DEF Ids
  <2>2. r \in Seq(Row) /\ DOMAIN r = 1 .. Len(p) + 1 /\ r[Len(p) + 1] = x
        /\ DOMAIN p = 1 .. Len(p) /\ Len(p) \in Nat /\ \A k \in 1 .. Len(p) : r[k] = p[k]
    BY <2>1
  <2> HIDE DEF x, r
  <2>3. ASSUME NEW k \in DOMAIN r PROVE r[k].id \in Ids(q)
    <3>1. CASE k = Len(p) + 1
      BY <2>1, <2>2, <3>1
    <3>2. CASE k \in DOMAIN p
      <4>1. p[k].id \in Ids(p) /\ r[k] = p[k]
        BY <2>2, <3>2 DEF Ids
      <4> QED
        BY <4>1
    <3> QED
      BY <2>2, <3>1, <3>2
  <2>4. r \in Part
    BY <2>2, <2>3 DEF Ids
  <2> QED
    BY <2>4 DEF r, x
<1>4. Without(a, q) = kept[n]
  BY DEF Without
<1>5. \A i \in 0 .. n : V[i] = Part
  OBVIOUS
<1> HIDE DEF Part, n, V, Step, first
<1>6. \A i \in 1 .. n : \A p \in Part : F[i][p] = Step(p, i)
  OBVIOUS
<1> HIDE DEF F
<1>7. IsBody(F, n, V)
  BY <1>1, <1>3, <1>5, <1>6 DEF IsBody
<1>8. PICK g : IsLoop(g, n, first, F)
  BY <1>1, Recursion, Zenon
<1>9. \A i \in 0 .. n : g[i] \in V[i]
  <2>1. g[0] \in V[0] /\ \A i \in 1 .. n : g[i - 1] \in V[i - 1] => g[i] = F[i][g[i - 1]]
    BY <1>2, <1>8 DEF IsLoop
  <2> QED
    BY <1>1, <1>7, <2>1, LoopValues
<1>10. \A i \in 0 .. n : kept[i] = Values(kept, i)
  <2>1. ASSUME NEW i \in 0 .. n PROVE g[i] = Values(g, i)
    <3>1. CASE i = 0
      BY <1>8, <3>1 DEF IsLoop
    <3>2. CASE i # 0
      <4>1. i \in 1 .. n /\ i - 1 \in 0 .. n
        BY <1>1, <3>2
      <4>2. g[i - 1] \in Part
        BY <1>5, <1>9, <4>1
      <4>3. g[i] = F[i][g[i - 1]]
        BY <1>8, <4>1, Zenon DEF IsLoop
      <4> QED
        BY <1>6, <3>2, <4>1, <4>2, <4>3
    <3> QED
      BY <3>1, <3>2
  <2>2. g = [i \in 0 .. n |-> g[i]]
    BY <1>8 DEF IsLoop
  <2> HIDE DEF Values
  <2>3. g = [i \in 0 .. n |-> Values(g, i)]
    BY <2>1, <2>2
  <2>4. kept = [i \in 0 .. n |-> Values(kept, i)]
    BY <2>3, Zenon
  <2> QED
    BY <2>4, Zenon
<1> HIDE DEF kept
<1>11. kept[0] = first /\ \A i \in 1 .. n : kept[i] = Step(kept[i - 1], i)
  BY <1>1, <1>10
<1>12. kept[0] \in V[0]
       /\ \A i \in 1 .. n : kept[i - 1] \in V[i - 1] => kept[i] = F[i][kept[i - 1]]
  BY <1>1, <1>2, <1>5, <1>6, <1>11
<1>13. kept[n] \in Part
  BY <1>1, <1>5, <1>7, <1>12, LoopValues
<1> QED
  BY <1>4, <1>13 DEF Part

OverviewInv ==
    /\ queue \in Seq(Row)
    /\ queueGet \in [st : {"sent", "answered", "done"}, list : Seq(Row)]

LEMMA InitOverviewInv == OverviewInit => OverviewInv
  BY DEF OverviewInit, OverviewInv

\* The list the hub sends has one row per alert.
LEMMA ParsedType == ParsedLists \subseteq Seq(Row)
<1> SUFFICES ASSUME NEW S \in SUBSET Alerts,
                    NEW s \in [1 .. Cardinality(S) -> {Item(a, Severity[a], who) :
                                   a \in S, who \in {"me", "team"}}]
             PROVE  s \in Seq(Row)
  BY DEF ParsedLists
<1>1. Cardinality(S) \in Nat
  BY OverviewAssumption, FS_Subset, FS_CardinalityType
<1>2. \A a \in S, who \in {"me", "team"} : Item(a, Severity[a], who) \in Row
  BY OverviewAssumption DEF Item, Row
<1> QED
  BY <1>1, <1>2

LEMMA IngestedFacts ==
    ASSUME OverviewInv, NEW a \in Alerts
    PROVE  Ingested(a) \in Seq(Row) /\ Ids(Ingested(a)) \subseteq Ids(queue) \cup {a}
<1> DEFINE x == Item(a, Severity[a], "me")
           q == queue
           r == <<x>> \o q
<1>1. x \in Row /\ x.id = a
  BY OverviewAssumption DEF Item, Row
<1> HIDE DEF x
<1>2. q \in Seq(Row)
  BY DEF OverviewInv
<1>3. r \in Seq(Row) /\ DOMAIN r = 1 .. Len(q) + 1 /\ r[1] = x /\ Len(q) \in Nat
      /\ DOMAIN q = 1 .. Len(q) /\ \A k \in 1 .. Len(q) : r[k + 1] = q[k]
  BY <1>1, <1>2
<1> HIDE DEF r
<1>4. ASSUME NEW k \in DOMAIN r PROVE r[k].id \in Ids(q) \cup {a}
  <2>1. CASE k = 1
    BY <1>1, <1>3, <2>1
  <2>2. CASE k # 1
    <3>1. k - 1 \in DOMAIN q /\ r[k] = q[k - 1]
      BY <1>3, <2>2
    <3> QED
      BY <3>1 DEF Ids
  <2> QED
    BY <2>1, <2>2
<1>5. Ids(r) \subseteq Ids(q) \cup {a}
  BY <1>4 DEF Ids
<1> QED
  BY <1>2, <1>3, <1>5 DEF Ingested, r, x

LEMMA EscalatedFacts ==
    ASSUME OverviewInv, NEW a
    PROVE  EscalatedQueue(a) \in Seq(Row) /\ Ids(EscalatedQueue(a)) \subseteq Ids(queue)
<1> DEFINE q == queue
           r == EscalatedQueue(a)
<1>1. q \in Seq(Row)
  BY DEF OverviewInv
<1>2. \A x \in Row : [x EXCEPT !.severity = 1] \in Row /\ [x EXCEPT !.severity = 1].id = x.id
  BY DEF Row
<1>3. DOMAIN r = DOMAIN q /\ \A k \in DOMAIN q :
          r[k] = IF q[k].id = a THEN [q[k] EXCEPT !.severity = 1] ELSE q[k]
  BY DEF EscalatedQueue
<1>4. r = [k \in DOMAIN q |-> r[k]]
  BY DEF EscalatedQueue
<1>5. \A k \in DOMAIN q : q[k] \in Row
  BY <1>1
<1> HIDE DEF r
<1>6. \A k \in DOMAIN q : r[k] \in Row /\ r[k].id = q[k].id
  BY <1>2, <1>3, <1>5, Zenon
<1>7. r \in Seq(Row)
  BY <1>1, <1>4, <1>6
<1> QED
  BY <1>3, <1>6, <1>7 DEF Ids, r

LEMMA NextOverviewInv == OverviewInv /\ [OverviewNext]_overviewVars => OverviewInv'
<1> SUFFICES ASSUME OverviewInv, [OverviewNext]_overviewVars PROVE OverviewInv'
  OBVIOUS
<1>1. CASE UNCHANGED <<queue, queueGet>>
  BY <1>1 DEF OverviewInv
<1>2. CASE HubServesAlerts
  BY <1>2, ParsedType DEF HubServesAlerts, OverviewInv
<1>3. CASE FetchAlertsEnds
  BY <1>3 DEF FetchAlertsEnds, OverviewInv
<1>4. ASSUME NEW a \in Alerts, OnAlert(a) PROVE OverviewInv'
  BY <1>4, IngestedFacts DEF OnAlert, OverviewInv
<1>5. ASSUME NEW a \in Alerts, EscalateEnds(a) PROVE OverviewInv'
  BY <1>5, EscalatedFacts DEF EscalateEnds, OverviewInv
<1>6. ASSUME NEW a \in Alerts, FalsePositiveEnds(a) PROVE OverviewInv'
  BY <1>6, WithoutFacts DEF FalsePositiveEnds, OverviewInv
<1>7. \/ UNCHANGED <<queue, queueGet>> \/ HubServesAlerts \/ FetchAlertsEnds
      \/ \E a \in Alerts : OnAlert(a) \/ EscalateEnds(a) \/ FalsePositiveEnds(a)
  BY Zenon DEF OverviewNext, overviewVars, queueVars, MetricsEnd, ExecuteMetrics,
         SetMyQueueOnly, OnAgentEvent, HandlePatch, HandleGenerateHandoff, HandoffEnds
<1> QED
  BY <1>1, <1>2, <1>3, <1>4, <1>5, <1>6, <1>7

\* For any alerts, lists and bounds: once the list was loaded, an alert gets into
\* the queue of the overview only by being announced on the stream.  The late
\* answer to an escalation changes rows that are still there.
THEOREM OverviewOnlyStreamAdds == OverviewSpec => OnlyStreamAdds
<1> DEFINE Announced == queueGet.st = "done" =>
                            \A a \in Ids(queue') \ Ids(queue) : OnAlert(a)
<1>1. OverviewInv /\ [OverviewNext]_overviewVars => [Announced]_overviewVars
  <2> SUFFICES ASSUME OverviewInv, OverviewNext, queueGet.st = "done",
                      NEW a \in Ids(queue') \ Ids(queue)
               PROVE  OnAlert(a)
    BY Zenon
  <2>1. queue' # queue
    OBVIOUS
  <2>2. ~HubServesAlerts /\ ~FetchAlertsEnds
    BY DEF HubServesAlerts, FetchAlertsEnds
  <2>3. PICK b \in Alerts : OnAlert(b) \/ EscalateEnds(b) \/ FalsePositiveEnds(b)
    BY <2>1, <2>2, Zenon DEF OverviewNext, queueVars, MetricsEnd, ExecuteMetrics,
           SetMyQueueOnly, OnAgentEvent, HandlePatch, HandleGenerateHandoff, HandoffEnds
  <2>4. CASE OnAlert(b)
    <3>1. Ids(queue') \subseteq Ids(queue) \cup {b}
      BY <2>4, IngestedFacts DEF OnAlert
    <3>2. a = b
      BY <3>1
    <3> QED
      BY <2>4, <3>2
  <2>5. CASE EscalateEnds(b)
    <3>1. Ids(queue') \subseteq Ids(queue)
      BY <2>5, EscalatedFacts DEF EscalateEnds
    <3> QED
      BY <3>1
  <2>6. CASE FalsePositiveEnds(b)
    <3>1. Ids(queue') \subseteq Ids(queue)
      BY <2>6, WithoutFacts DEF FalsePositiveEnds, OverviewInv
    <3> QED
      BY <3>1
  <2> QED
    BY <2>3, <2>4, <2>5, <2>6
<1>2. OverviewSpec => []OverviewInv
  BY InitOverviewInv, NextOverviewInv, PTL DEF OverviewSpec
<1>3. OverviewSpec => [][Announced]_overviewVars
  BY <1>1, <1>2, PTL DEF OverviewSpec
<1> QED
  BY <1>3 DEF OnlyStreamAdds
=============================================================================
