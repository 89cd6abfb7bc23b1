--------------------------- MODULE ProgramsProofs ---------------------------
(***************************************************************************)
(* Proofs about the parts that run by themselves: the heap and the cache   *)
(* of the proxy, the user threads and the echo servers.                    *)
(***************************************************************************)
EXTENDS Programs, HashMapProofs

-----------------------------------------------------------------------------
(* The heap: b has the elements of a, each as often, in some order.        *)
Rearranges(a, b) ==
    \E pi \in Bijection(1 .. Len(a), 1 .. Len(a)) : b = [k \in 1 .. Len(a) |-> a[pi[k]]]

LEMMA RearrangesItself ==
    ASSUME NEW E, NEW a \in Seq(E) PROVE Rearranges(a, a)
<1> DEFINE pi == [k \in 1 .. Len(a) |-> k]
<1>1. pi \in Bijection(1 .. Len(a), 1 .. Len(a))
  BY DEF Bijection, Injection, Surjection, IsInjective
<1>2. a = [k \in 1 .. Len(a) |-> a[pi[k]]]
  OBVIOUS
<1> QED BY <1>1, <1>2 DEF Rearranges

LEMMA RearrangedIs ==
    ASSUME NEW E, NEW a \in Seq(E), NEW b, Rearranges(a, b)
    PROVE  /\ b \in Seq(E) /\ Len(b) = Len(a) /\ Range(b) = Range(a)
           /\ IsInjective(a) => IsInjective(b)
<1>1. PICK pi \in Bijection(1 .. Len(a), 1 .. Len(a)) : b = [k \in 1 .. Len(a) |-> a[pi[k]]]
  BY DEF Rearranges
<1>2. /\ pi \in [1 .. Len(a) -> 1 .. Len(a)]
      /\ \A k, l \in 1 .. Len(a) : pi[k] = pi[l] => k = l
      /\ \A l \in 1 .. Len(a) : \E k \in 1 .. Len(a) : pi[k] = l
  BY DEF Bijection, Injection, Surjection, IsInjective
<1>3. Len(a) \in Nat /\ DOMAIN a = 1 .. Len(a) /\ DOMAIN b = 1 .. Len(a)
  BY <1>1
<1>4. b \in Seq(E) /\ Len(b) = Len(a)
  <2>1. \A k \in 1 .. Len(a) : a[pi[k]] \in E
    BY <1>2
  <2> QED BY <1>1, <1>3, <2>1
<1>5. Range(b) = Range(a)
  <2>1. \A k \in 1 .. Len(a) : b[k] = a[pi[k]] /\ pi[k] \in 1 .. Len(a)
    BY <1>1, <1>2
  <2> QED BY <1>2, <1>3, <2>1 DEF Range
<1>6. ASSUME IsInjective(a) PROVE IsInjective(b)
  <2>1. ASSUME NEW k \in 1 .. Len(a), NEW l \in 1 .. Len(a), b[k] = b[l] PROVE k = l
    <3>1. a[pi[k]] = a[pi[l]] /\ pi[k] \in 1 .. Len(a) /\ pi[l] \in 1 .. Len(a)
      BY <1>1, <1>2, <2>1
    <3>2. pi[k] = pi[l]
      BY <1>3, <1>6, <3>1 DEF IsInjective
    <3> QED BY <1>2, <3>2
  <2> QED BY <1>3, <2>1 DEF IsInjective
<1> QED BY <1>4, <1>5, <1>6

(* The three assignments by which pqueue.c exchanges two elements.         *)
LEMMA ExchangeRearranges ==
    ASSUME NEW E, NEW a \in Seq(E), NEW b, Rearranges(a, b),
           NEW x \in 0 .. Len(a) - 1, NEW y \in 0 .. Len(a) - 1
    PROVE  Rearranges(a, Exchange(b, x, y))
<1>1. PICK pi \in Bijection(1 .. Len(a), 1 .. Len(a)) : b = [k \in 1 .. Len(a) |-> a[pi[k]]]
  BY DEF Rearranges
<1>2. /\ pi \in [1 .. Len(a) -> 1 .. Len(a)]
      /\ \A k, l \in 1 .. Len(a) : pi[k] = pi[l] => k = l
      /\ \A l \in 1 .. Len(a) : \E k \in 1 .. Len(a) : pi[k] = l
  BY DEF Bijection, Injection, Surjection, IsInjective
<1>3. Len(a) \in Nat /\ x + 1 \in 1 .. Len(a) /\ y + 1 \in 1 .. Len(a)
  OBVIOUS
<1> DEFINE n == Len(a)
           u == x + 1
           v == y + 1
           sw(k) == IF k = u THEN v ELSE IF k = v THEN u ELSE k
           rho == [k \in 1 .. n |-> pi[sw(k)]]
<1>4. Exchange(b, x, y) = [k \in 1 .. n |-> b[sw(k)]]
  <2>1. Exchange(b, x, y) = [b EXCEPT ![u] = b[v], ![v] = b[u]]
    BY DEF Exchange, At0
  <2>2. DOMAIN b = 1 .. n
    BY <1>1
  <2> HIDE DEF u, v, n
  <2> QED BY <1>3, <2>1, <2>2 DEF u, v, n
<1>5. /\ \A k \in 1 .. n : sw(k) \in 1 .. n /\ sw(sw(k)) = k
  BY <1>3
<1> HIDE DEF sw, n
<1>6. Exchange(b, x, y) = [k \in 1 .. n |-> a[rho[k]]]
  <2>1. \A k \in 1 .. n : b[sw(k)] = a[rho[k]]
    BY <1>1, <1>5 DEF n
  <2> QED BY <1>4, <2>1
<1>7. rho \in [1 .. n -> 1 .. n]
  BY <1>2, <1>5 DEF n
<1>8. \A k, l \in 1 .. n : rho[k] = rho[l] => k = l
  <2> SUFFICES ASSUME NEW k \in 1 .. n, NEW l \in 1 .. n, rho[k] = rho[l] PROVE k = l
    OBVIOUS
  <2>1. sw(k) = sw(l)
    BY <1>2, <1>5 DEF n
  <2> QED BY <1>5, <2>1
<1>9. ASSUME NEW l \in 1 .. n PROVE \E k \in 1 .. n : rho[k] = l
  <2>1. PICK k \in 1 .. n : pi[k] = l
    BY <1>2 DEF n
  <2>2. sw(k) \in 1 .. n /\ rho[sw(k)] = l
    BY <1>5, <2>1
  <2> QED BY <2>2
<1> HIDE DEF rho
<1>10. rho \in Bijection(1 .. n, 1 .. n)
  BY <1>7, <1>8, <1>9 DEF Bijection, Injection, Surjection, IsInjective
<1> QED BY <1>6, <1>10 DEF Rearranges, n

(* The states of a loop over the elements of a.                            *)
HeapLoop(E, a) == {h \in [q : Seq(E), x : 0 .. Len(a) - 1] : Rearranges(a, h.q)}

LEMMA StepKeeps ==
    ASSUME NEW E, NEW a \in Seq(E), NEW prio, NEW h \in HeapLoop(E, a)
    PROVE  StepUp(prio, h) \in HeapLoop(E, a) /\ StepDown(prio, h) \in HeapLoop(E, a)
<1>1. /\ h.q \in Seq(E) /\ h.x \in 0 .. Len(a) - 1 /\ Rearranges(a, h.q)
      /\ Len(a) \in Nat /\ Len(h.q) = Len(a)
  BY RearrangedIs DEF HeapLoop
<1>2. ASSUME NEW y \in 0 .. Len(a) - 1
      PROVE  [q |-> Exchange(h.q, h.x, y), x |-> y] \in HeapLoop(E, a)
  <2>1. Rearranges(a, Exchange(h.q, h.x, y))
    BY <1>1, ExchangeRearranges
  <2>2. Exchange(h.q, h.x, y) \in Seq(E)
    BY <2>1, RearrangedIs
  <2> QED BY <2>1, <2>2 DEF HeapLoop
<1>3. Parent(h.x) \in 0 .. Len(a) - 1
  BY <1>1 DEF Parent
<1>4. StepUp(prio, h) \in HeapLoop(E, a)
  BY <1>2, <1>3 DEF StepUp
<1>5. StepDown(prio, h) \in HeapLoop(E, a)
  <2> DEFINE Greater(y, z) == y < Len(h.q) /\ prio[At0(h.q, y)] > prio[At0(h.q, z)]
             l == IF Greater(Left(h.x), h.x) THEN Left(h.x) ELSE h.x
             largest == IF Greater(Right(h.x), l) THEN Right(h.x) ELSE l
  <2>1. StepDown(prio, h) =
          IF largest = h.x THEN h ELSE [q |-> Exchange(h.q, h.x, largest), x |-> largest]
    BY DEF StepDown
  <2>2. /\ Greater(Left(h.x), h.x) => Left(h.x) \in 0 .. Len(a) - 1
        /\ \A z : Greater(Right(h.x), z) => Right(h.x) \in 0 .. Len(a) - 1
    BY <1>1 DEF Left, Right
  <2> HIDE DEF Greater
  <2>3. largest \in 0 .. Len(a) - 1
    BY <1>1, <2>2
  <2> HIDE DEF largest
  <2> QED BY <1>2, <2>1, <2>3
<1> QED BY <1>4, <1>5

(* The loop of pqueue_enqueue(): its states, and the one that it ends in.  *)
Sifts(E, a, prio, q, x, g) ==
    /\ g \in [0 .. Len(q) -> HeapLoop(E, a)] /\ g[0] = [q |-> q, x |-> x]
    /\ \A k \in 1 .. Len(q) : g[k] = StepUp(prio, g[k - 1])
    /\ SiftUp(prio, q, x) = g[Len(q)].q

LEMMA SiftUpIs ==
    ASSUME NEW E, NEW a \in Seq(E), NEW prio, NEW q \in Seq(E), Rearranges(a, q),
           NEW x \in 0 .. Len(q) - 1
    PROVE  \E g : Sifts(E, a, prio, q, x, g)
<1> DEFINE S == HeapLoop(E, a)
           d == [q |-> q, x |-> x]
           Step(h) == StepUp(prio, h)
           f == [n \in Nat |-> [h \in S |-> Step(h)]]
           L(g) == [k \in 0 .. Len(q) |-> IF k = 0 THEN d ELSE Step(g[k - 1])]
           r == CHOOSE loop : loop = L(loop)
<1>1. Len(q) \in Nat /\ d \in S
  BY RearrangedIs DEF HeapLoop
<1>2. \A h \in S : Step(h) \in S
  BY StepKeeps
<1>3. SiftUp(prio, q, x) = r[Len(q)].q
  BY DEF SiftUp
<1> HIDE DEF S, d, Step
<1>5. f \in [Nat -> [S -> S]]
  BY <1>2
<1>6. PICK g : Loop(S, d, f, Len(q), g)
  <2> HIDE DEF f
  <2> QED BY <1>1, <1>5, Iterates
<1>7. g \in [0 .. Len(q) -> S] /\ g[0] = d
  BY <1>6 DEF Loop
<1>8. ASSUME NEW k \in 1 .. Len(q) PROVE g[k] = Step(g[k - 1])
  <2>1. k \in Nat /\ k - 1 \in 0 .. Len(q)
    BY <1>1
  <2>2. g[k - 1] \in S /\ g[k] = f[k][g[k - 1]]
    <3> HIDE DEF f
    <3> QED BY <1>6, <2>1 DEF Loop
  <2> QED BY <2>1, <2>2
<1> HIDE DEF f
<1>9. g = L(g)
  <2>1. g = [k \in 0 .. Len(q) |-> g[k]]
    BY <1>7
  <2>2. \A k \in 0 .. Len(q) : g[k] = IF k = 0 THEN d ELSE Step(g[k - 1])
    BY <1>1, <1>7, <1>8
  <2> QED BY <2>1, <2>2
<1>10. r = L(r)
  <2> HIDE DEF L
  <2> QED BY <1>9
<1> HIDE DEF r
<1>11. r[0] = d /\ \A k \in 1 .. Len(q) : r[k] = Step(r[k - 1])
  <2>1. \A k \in 0 .. Len(q) : L(r)[k] = IF k = 0 THEN d ELSE Step(r[k - 1])
    OBVIOUS
  <2>2. \A k \in 0 .. Len(q) : r[k] = L(r)[k]
    <3> HIDE DEF L
    <3> QED BY <1>10
  <2> HIDE DEF L
  <2> QED BY <1>1, <2>1, <2>2
<1>12. InStep(Len(q), r, g)
  BY <1>7, <1>8, <1>11 DEF InStep
<1>13. r[Len(q)] = g[Len(q)] /\ g[Len(q)] \in S
  BY <1>1, <1>7, <1>12, SameLoop
<1> QED BY <1>3, <1>7, <1>8, <1>13 DEF Sifts, S, d, Step

LEMMA SiftUpKeeps ==
    ASSUME NEW E, NEW a \in Seq(E), NEW prio, NEW q \in Seq(E), Rearranges(a, q),
           NEW x \in 0 .. Len(q) - 1
    PROVE  Rearranges(a, SiftUp(prio, q, x))
<1>1. PICK g : Sifts(E, a, prio, q, x, g)
  BY SiftUpIs
<1>2. Len(q) \in Nat /\ g[Len(q)] \in HeapLoop(E, a) /\ SiftUp(prio, q, x) = g[Len(q)].q
  BY <1>1 DEF Sifts
<1> QED BY <1>2 DEF HeapLoop

(* The first place holds an element that no other comes before.            *)
BiggestFirst(prio, q) == \A k \in 1 .. Len(q) : prio[q[1]] >= prio[q[k]]

(* On its way up the new element has everything else behind the first      *)
(* place, until it is there itself.                                        *)
Rising(prio, h) ==
    IF h.x = 0 THEN BiggestFirst(prio, h.q)
    ELSE \A k \in 1 .. Len(h.q) : k # h.x + 1 => prio[h.q[1]] >= prio[h.q[k]]

Stopped(prio, h) == ~ (h.x > 0 /\ prio[At0(h.q, h.x)] > prio[At0(h.q, Parent(h.x))])

LEMMA RisingStep ==
    ASSUME NEW E, NEW prio, \A e \in E : prio[e] \in Nat, NEW a \in Seq(E),
           NEW h \in HeapLoop(E, a), Rising(prio, h), ~ Stopped(prio, h)
    PROVE  Rising(prio, StepUp(prio, h)) /\ StepUp(prio, h).x \in 0 .. h.x - 1
<1> DEFINE q == h.q
           x == h.x
           y == Parent(x)
           b == Exchange(q, x, y)
<1>1. /\ q \in Seq(E) /\ x \in 0 .. Len(a) - 1 /\ Len(a) \in Nat /\ Len(q) = Len(a)
  BY RearrangedIs DEF HeapLoop
<1>2. x > 0 /\ prio[q[x + 1]] > prio[q[y + 1]]
  BY DEF Stopped, At0
<1>3. y \in 0 .. x - 1
  BY <1>1, <1>2 DEF Parent
<1>4. StepUp(prio, h) = [q |-> b, x |-> y]
  BY <1>2 DEF StepUp, At0
<1>5. \A k \in 1 .. Len(q) : k # x + 1 => prio[q[1]] >= prio[q[k]]
  BY <1>2 DEF Rising
<1>6. /\ Len(b) = Len(q)
      /\ \A k \in 1 .. Len(q) :
            b[k] = IF k = y + 1 THEN q[x + 1] ELSE IF k = x + 1 THEN q[y + 1] ELSE q[k]
  BY <1>1, <1>3 DEF Exchange, At0
<1>7. \A k \in 1 .. Len(q) : prio[q[k]] \in Nat
  BY <1>1
<1>8. x + 1 \in 1 .. Len(q) /\ y + 1 \in 1 .. Len(q) /\ 1 \in 1 .. Len(q) /\ y + 1 # x + 1
  BY <1>1, <1>3
<1>9. prio[q[1]] >= prio[q[y + 1]]
  BY <1>5, <1>8
<1> HIDE DEF q, x, y, b
<1>10. CASE y = 0
  <2>1. b[1] = q[x + 1] /\ prio[q[x + 1]] > prio[q[1]]
    BY <1>2, <1>6, <1>8, <1>10
  <2>2. ASSUME NEW k \in 1 .. Len(q) PROVE prio[b[1]] >= prio[b[k]]
    <3>1. CASE k = 1
      BY <1>7, <1>8, <2>1, <3>1
    <3>2. CASE k = x + 1
      BY <1>6, <1>7, <1>8, <1>10, <2>1, <3>2
    <3>3. CASE k # 1 /\ k # x + 1
      <4>1. b[k] = q[k] /\ prio[q[1]] >= prio[q[k]]
        BY <1>5, <1>6, <1>10, <3>3
      <4> QED BY <1>7, <1>8, <2>1, <4>1
    <3> QED BY <3>1, <3>2, <3>3
  <2> QED BY <1>3, <1>4, <1>6, <1>10, <2>2 DEF Rising, BiggestFirst, x
<1>11. CASE y # 0
  <2>1. b[1] = q[1]
    <3>1. 1 # y + 1 /\ 1 # x + 1
      BY <1>1, <1>3, <1>11
    <3> QED BY <1>6, <1>8, <3>1
  <2>2. ASSUME NEW k \in 1 .. Len(q), k # y + 1 PROVE prio[b[1]] >= prio[b[k]]
    <3>1. CASE k = x + 1
      BY <1>6, <1>8, <1>9, <2>1, <3>1
    <3>2. CASE k # x + 1
      BY <1>5, <1>6, <2>1, <2>2, <3>2
    <3> QED BY <3>1, <3>2
  <2> QED BY <1>3, <1>4, <1>6, <1>11, <2>2 DEF Rising, x
<1> QED BY <1>10, <1>11

(* Whatever order the rest of the heap is in: if the first of q is one of  *)
(* its biggest, pqueue_enqueue() leaves a biggest element first.           *)
LEMMA EnqueueFirst ==
    ASSUME NEW E, NEW prio, \A e \in E : prio[e] \in Nat, NEW q \in Seq(E), NEW e \in E,
           BiggestFirst(prio, q)
    PROVE  BiggestFirst(prio, SiftUp(prio, Append(q, e), Len(q)))
<1> DEFINE a == Append(q, e)
           n == Len(a)
<1>1. /\ a \in Seq(E) /\ n = Len(q) + 1 /\ Len(q) \in Nat /\ Len(q) \in 0 .. n - 1
      /\ \A k \in 1 .. Len(q) : a[k] = q[k]
  OBVIOUS
<1> HIDE DEF a
<1>2. PICK g : Sifts(E, a, prio, a, Len(q), g)
  BY <1>1, RearrangesItself, SiftUpIs
<1>3. /\ g \in [0 .. n -> HeapLoop(E, a)] /\ g[0] = [q |-> a, x |-> Len(q)]
      /\ \A k \in 1 .. n : g[k] = StepUp(prio, g[k - 1])
      /\ SiftUp(prio, a, Len(q)) = g[n].q
  BY <1>2 DEF Sifts
<1> DEFINE T == {k \in 0 .. n : Rising(prio, g[k])
                               /\ (Stopped(prio, g[k]) \/ g[k].x <= n - 1 - k)}
<1>4. 0 \in T
  <2>1. g[0].q = a /\ g[0].x = Len(q)
    BY <1>3
  <2>2. CASE Len(q) = 0
    <3> HIDE DEF n
    <3>1. n = 1
      BY <1>1, <2>2
    <3>2. a[1] \in E /\ \A k \in 1 .. n : k = 1
      BY <1>1, <3>1 DEF n
    <3>3. BiggestFirst(prio, a)
      BY <3>1, <3>2 DEF BiggestFirst, n
    <3> QED BY <1>1, <2>1, <2>2, <3>3 DEF Rising, n
  <2>3. CASE Len(q) # 0
    <3>1. ASSUME NEW k \in 1 .. n, k # Len(q) + 1 PROVE prio[a[1]] >= prio[a[k]]
      <4>1. k \in 1 .. Len(q) /\ 1 \in 1 .. Len(q)
        BY <1>1, <2>3, <3>1
      <4> QED BY <1>1, <4>1 DEF BiggestFirst
    <3> QED BY <1>1, <2>1, <2>3, <3>1 DEF Rising
  <2> QED BY <2>2, <2>3
<1>5. ASSUME NEW k \in 1 .. n, k - 1 \in T PROVE k \in T
  <2>1. PICK h : h = g[k - 1]
    OBVIOUS
  <2>2. h \in HeapLoop(E, a) /\ g[k] = StepUp(prio, h) /\ Rising(prio, h)
        /\ (Stopped(prio, h) \/ h.x <= n - 1 - (k - 1)) /\ k \in 0 .. n
    BY <1>1, <1>3, <1>5, <2>1
  <2>3. CASE Stopped(prio, h)
    <3>1. StepUp(prio, h) = h
      BY <2>3 DEF StepUp, Stopped
    <3>2. Rising(prio, g[k]) /\ Stopped(prio, g[k])
      BY <2>2, <2>3, <3>1
    <3> QED BY <2>2, <3>2
  <2>4. CASE ~ Stopped(prio, h)
    <3>1. Rising(prio, g[k]) /\ g[k].x \in 0 .. h.x - 1
      BY <2>2, <2>4, <1>1, RisingStep
    <3>2. h.x \in Nat
      BY <1>1, <2>2 DEF HeapLoop
    <3>3. g[k].x <= n - 1 - k
      BY <1>1, <2>2, <2>4, <3>1, <3>2
    <3> QED BY <2>2, <3>1, <3>3
  <2> QED BY <2>3, <2>4
<1> HIDE DEF T
<1>6. n \in T
  <2>1. n \in Nat /\ n \in 0 .. n
    BY <1>1
  <2>2. \A k \in 1 .. n : k - 1 \in T => k \in T
    BY <1>5
  <2> HIDE DEF n
  <2>3. \A k \in 0 .. n : k \in T
    BY <1>4, <2>1, <2>2, UpTo
  <2> QED BY <2>1, <2>3
<1>7. PICK h : h = g[n]
  OBVIOUS
<1>8. h \in HeapLoop(E, a) /\ Rising(prio, h) /\ (Stopped(prio, h) \/ h.x <= n - 1 - n)
  BY <1>1, <1>3, <1>6, <1>7 DEF T
<1>9. h.q \in Seq(E) /\ h.x \in 0 .. n - 1 /\ Len(h.q) = n
  BY <1>1, <1>8, RearrangedIs DEF HeapLoop
<1>10. BiggestFirst(prio, h.q)
  <2>1. CASE h.x = 0
    BY <1>8, <2>1 DEF Rising
  <2>2. CASE h.x # 0
    <3>1. Parent(h.x) \in 0 .. h.x - 1
      BY <1>1, <1>9, <2>2 DEF Parent
    <3>2. PICK y : y = Parent(h.x) + 1
      OBVIOUS
    <3>3. y \in 1 .. n /\ y # h.x + 1 /\ h.x + 1 \in 1 .. n /\ 1 \in 1 .. n
      BY <1>1, <1>9, <3>1, <3>2
    <3>4. ~ prio[h.q[h.x + 1]] > prio[h.q[y]]
      BY <1>1, <1>8, <1>9, <2>2, <3>2 DEF Stopped, At0
    <3>5. \A k \in 1 .. n : prio[h.q[k]] \in Nat
      BY <1>9
    <3>6. \A k \in 1 .. n : k # h.x + 1 => prio[h.q[1]] >= prio[h.q[k]]
      BY <1>8, <1>9, <2>2 DEF Rising
    <3>7. prio[h.q[1]] >= prio[h.q[h.x + 1]]
      BY <3>3, <3>4, <3>5, <3>6
    <3> QED BY <1>9, <3>6, <3>7 DEF BiggestFirst
  <2> QED BY <2>1, <2>2
<1> QED BY <1>3, <1>7, <1>10 DEF a


(* The calls that pqueue_heapify() makes of itself.                        *)
LEMMA HeapifyKeeps ==
    ASSUME NEW E, NEW a \in Seq(E), NEW prio, NEW q \in Seq(E), Rearranges(a, q),
           NEW x \in 0 .. Len(q) - 1
    PROVE  Rearranges(a, Heapify(prio, q, x))
<1> DEFINE S == HeapLoop(E, a)
           d == [q |-> q, x |-> x]
           Step(h) == StepDown(prio, h)
           f == [n \in Nat |-> [h \in S |-> Step(h)]]
           L(g) == [k \in 0 .. Len(q) |-> IF k = 0 THEN d ELSE Step(g[k - 1])]
           r == CHOOSE loop : loop = L(loop)
<1>1. Len(q) \in Nat /\ d \in S
  BY RearrangedIs DEF HeapLoop
<1>2. \A h \in S : Step(h) \in S
  BY StepKeeps
<1>3. Heapify(prio, q, x) = r[Len(q)].q
  BY DEF Heapify
<1>4. \A h \in S : Rearranges(a, h.q)
  BY DEF HeapLoop
<1> HIDE DEF S, d, Step
<1>5. f \in [Nat -> [S -> S]]
  BY <1>2
<1>6. PICK g : Loop(S, d, f, Len(q), g)
  <2> HIDE DEF f
  <2> QED BY <1>1, <1>5, Iterates
<1>7. g \in [0 .. Len(q) -> S] /\ g[0] = d
  BY <1>6 DEF Loop
<1>8. ASSUME NEW k \in 1 .. Len(q) PROVE g[k] = Step(g[k - 1])
  <2>1. k \in Nat /\ k - 1 \in 0 .. Len(q)
    BY <1>1
  <2>2. g[k - 1] \in S /\ g[k] = f[k][g[k - 1]]
    <3> HIDE DEF f
    <3> QED BY <1>6, <2>1 DEF Loop
  <2> QED BY <2>1, <2>2
<1> HIDE DEF f
<1>9. g = L(g)
  <2>1. g = [k \in 0 .. Len(q) |-> g[k]]
    BY <1>7
  <2>2. \A k \in 0 .. Len(q) : g[k] = IF k = 0 THEN d ELSE Step(g[k - 1])
    BY <1>1, <1>7, <1>8
  <2> QED BY <2>1, <2>2
<1>10. r = L(r)
  <2> HIDE DEF L
  <2> QED BY <1>9
<1> HIDE DEF r
<1>11. r[0] = d /\ \A k \in 1 .. Len(q) : r[k] = Step(r[k - 1])
  <2>1. \A k \in 0 .. Len(q) : L(r)[k] = IF k = 0 THEN d ELSE Step(r[k - 1])
    OBVIOUS
  <2>2. \A k \in 0 .. Len(q) : r[k] = L(r)[k]
    <3> HIDE DEF L
    <3> QED BY <1>10
  <2> HIDE DEF L
  <2> QED BY <1>1, <2>1, <2>2
<1>12. InStep(Len(q), r, g)
  BY <1>7, <1>8, <1>11 DEF InStep
<1>13. r[Len(q)] = g[Len(q)] /\ g[Len(q)] \in S
  BY <1>1, <1>7, <1>12, SameLoop
<1> QED BY <1>3, <1>4, <1>13

(* The last element is gone and there is nothing to restore.               *)
LEMMA HeapifyEmpty ==
    ASSUME NEW prio PROVE Heapify(prio, <<>>, 0) = <<>>
<1> DEFINE d == [q |-> <<>>, x |-> 0]
           L(g) == [k \in 0 .. 0 |-> IF k = 0 THEN d ELSE StepDown(prio, g[k - 1])]
           r == CHOOSE loop : loop = L(loop)
           c == [k \in 0 .. 0 |-> d]
<1>1. Heapify(prio, <<>>, 0) = r[0].q
  <2>1. Len(<<>>) = 0
    OBVIOUS
  <2> QED BY <2>1 DEF Heapify
<1>2. c = L(c)
  OBVIOUS
<1>3. r = L(r)
  <2> HIDE DEF L, c
  <2> QED BY <1>2
<1> HIDE DEF r
<1>4. L(r)[0] = d
  OBVIOUS
<1>5. r[0] = d
  <2> HIDE DEF L, d
  <2> QED BY <1>3, <1>4
<1> QED BY <1>1, <1>5

(* pqueue_enqueue() of a queue that is not full adds the element and keeps *)
(* every other, whatever the comparison function answers.                  *)
THEOREM EnqueueKeeps ==
    ASSUME NEW E, NEW q \in Seq(E), NEW e \in E, NEW prio, NEW capacity \in Nat,
           Len(q) < capacity
    PROVE  Rearranges(Append(q, e), PqEnqueue(prio, q, capacity, e))
<1> DEFINE a == Append(q, e)
<1>1. a \in Seq(E) /\ Len(q) \in 0 .. Len(a) - 1 /\ Len(q) \in Nat
  OBVIOUS
<1>2. PqEnqueue(prio, q, capacity, e) = SiftUp(prio, a, Len(q))
  BY <1>1 DEF PqEnqueue
<1> HIDE DEF a
<1> QED BY <1>1, <1>2, RearrangesItself, SiftUpKeeps DEF a

(* pqueue_dequeue() removes the element at position 0 and no other: not    *)
(* even from a heap whose order the wrong parent index has spoilt.         *)
THEOREM DequeueKeeps ==
    ASSUME NEW E, NEW q \in Seq(E), q # <<>>, NEW prio
    PROVE  Rearranges(Tail(q), PqDequeue(prio, q))
<1> DEFINE n == Len(q)
           rest == [SubSeq(q, 1, n) EXCEPT ![1] = q[n]]
           m == SubSeq(rest, 1, n - 1)
           t == Tail(q)
<1>1. n \in Nat /\ n >= 1 /\ q[n] \in E /\ q \in [1 .. n -> E]
  OBVIOUS
<1>2. t \in Seq(E) /\ Len(t) = n - 1 /\ \A k \in 1 .. n - 1 : t[k] = q[k + 1]
  BY <1>1
<1>3. SubSeq(q, 1, n) = [k \in 1 .. n |-> q[k]]
  BY <1>1
<1>4. rest = [k \in 1 .. n |-> IF k = 1 THEN q[n] ELSE q[k]]
  BY <1>1, <1>3
<1>5. rest \in Seq(E) /\ Len(rest) = n
  BY <1>1, <1>4
<1>6. PqDequeue(prio, q) = Heapify(prio, m, 0)
  BY DEF PqDequeue
<1>7. \A k \in 1 .. n : rest[k] = IF k = 1 THEN q[n] ELSE q[k]
  BY <1>4
<1> HIDE DEF n, rest, t
<1>8. m \in Seq(E) /\ Len(m) = n - 1 /\ \A k \in 1 .. n - 1 : m[k] = rest[k]
  BY <1>1, <1>5
<1>9. m = [k \in 1 .. n - 1 |-> m[k]]
  BY <1>8
<1> HIDE DEF m
<1> DEFINE pi == [k \in 1 .. n - 1 |-> IF k = 1 THEN n - 1 ELSE k - 1]
<1>10. pi \in Bijection(1 .. n - 1, 1 .. n - 1)
  <2>1. pi \in [1 .. n - 1 -> 1 .. n - 1]
    BY <1>1
  <2>2. \A k, l \in 1 .. n - 1 : pi[k] = pi[l] => k = l
    BY <1>1
  <2>3. ASSUME NEW l \in 1 .. n - 1 PROVE \E k \in 1 .. n - 1 : pi[k] = l
    <3>1. CASE l = n - 1
      <4>1. 1 \in 1 .. n - 1 /\ pi[1] = l
        BY <1>1, <3>1
      <4> QED BY <4>1
    <3>2. CASE l # n - 1
      <4>1. l + 1 \in 1 .. n - 1 /\ pi[l + 1] = l
        BY <1>1, <3>2
      <4> QED BY <4>1
    <3> QED BY <3>1, <3>2
  <2> HIDE DEF pi
  <2> QED BY <2>1, <2>2, <2>3 DEF Bijection, Injection, Surjection, IsInjective
<1>11. ASSUME NEW k \in 1 .. n - 1 PROVE m[k] = t[pi[k]]
  <2>1. CASE k = 1
    <3>1. n - 1 \in 1 .. n - 1 /\ 1 \in 1 .. n /\ pi[k] = n - 1
      BY <1>1, <2>1
    <3>2. m[k] = q[n]
      BY <1>7, <1>8, <2>1, <3>1
    <3>3. t[n - 1] = q[n]
      BY <1>1, <1>2, <3>1
    <3> QED BY <3>1, <3>2, <3>3
  <2>2. CASE k # 1
    <3>1. k - 1 \in 1 .. n - 1 /\ k \in 1 .. n /\ pi[k] = k - 1
      BY <1>1, <2>2
    <3>2. m[k] = q[k]
      BY <1>7, <1>8, <2>2, <3>1
    <3>3. t[k - 1] = q[k]
      BY <1>1, <1>2, <3>1
    <3> QED BY <3>1, <3>2, <3>3
  <2> QED BY <2>1, <2>2
<1>12. Rearranges(t, m)
  <2>1. m = [k \in 1 .. n - 1 |-> t[pi[k]]]
    BY <1>9, <1>11
  <2> HIDE DEF pi
  <2> QED BY <1>2, <1>10, <2>1 DEF Rearranges
<1>13. CASE n = 1
  <2>1. m = <<>>
    BY <1>8, <1>13
  <2>2. Heapify(prio, m, 0) = m
    BY <2>1, HeapifyEmpty
  <2> QED BY <1>6, <1>12, <2>2 DEF t
<1>14. CASE n # 1
  <2>1. 0 \in 0 .. Len(m) - 1
    BY <1>1, <1>8, <1>14
  <2> QED BY <1>2, <1>6, <1>8, <1>12, <2>1, HeapifyKeeps DEF t
<1> QED BY <1>13, <1>14

(* Counting copies: an arrangement has as many of each element ...         *)
LEMMA CountFinite ==
    ASSUME NEW E, NEW q \in Seq(E), NEW p
    PROVE  IsFiniteSet({k \in 1 .. Len(q) : q[k] = p}) /\ Copies(q, p) \in Nat
<1>1. IsFiniteSet(1 .. Len(q)) /\ {k \in 1 .. Len(q) : q[k] = p} \in SUBSET (1 .. Len(q))
  BY FS_Interval
<1>2. IsFiniteSet({k \in 1 .. Len(q) : q[k] = p})
  BY <1>1, FS_Subset
<1> QED BY <1>2, FS_CardinalityType DEF Copies

LEMMA SameCopies ==
    ASSUME NEW E, NEW a \in Seq(E), NEW b, Rearranges(a, b), NEW p
    PROVE  Copies(b, p) = Copies(a, p)
<1> DEFINE A == {k \in 1 .. Len(a) : a[k] = p}
           B == {k \in 1 .. Len(b) : b[k] = p}
<1>1. PICK pi \in Bijection(1 .. Len(a), 1 .. Len(a)) : b = [k \in 1 .. Len(a) |-> a[pi[k]]]
  BY DEF Rearranges
<1>2. /\ pi \in [1 .. Len(a) -> 1 .. Len(a)]
      /\ \A k, l \in 1 .. Len(a) : pi[k] = pi[l] => k = l
      /\ \A l \in 1 .. Len(a) : \E k \in 1 .. Len(a) : pi[k] = l
  BY DEF Bijection, Injection, Surjection, IsInjective
<1>3. b \in Seq(E) /\ Len(b) = Len(a) /\ \A k \in 1 .. Len(a) : b[k] = a[pi[k]]
  BY <1>1, RearrangedIs
<1> DEFINE f == [k \in B |-> pi[k]]
<1>4. f \in [B -> A] /\ \A k \in B : f[k] = pi[k]
  BY <1>2, <1>3
<1>5. \A k, l \in B : f[k] = f[l] => k = l
  BY <1>2, <1>3
<1>6. ASSUME NEW l \in A PROVE \E k \in B : f[k] = l
  <2>1. PICK k \in 1 .. Len(a) : pi[k] = l
    BY <1>2
  <2>2. k \in B
    BY <1>3, <2>1
  <2> QED BY <1>4, <2>1, <2>2
<1>7. IsFiniteSet(B)
  BY <1>3, CountFinite
<1> HIDE DEF A, B, f
<1>8. f \in Bijection(B, A)
  BY <1>4, <1>5, <1>6 DEF Bijection, Injection, Surjection, IsInjective
<1>9. Cardinality(A) = Cardinality(B)
  BY <1>7, <1>8, FS_Bijection DEF ExistsBijection
<1> QED BY <1>9 DEF Copies, A, B

(* ... adding an element adds one copy of it ...                           *)
LEMMA AppendCopies ==
    ASSUME NEW E, NEW q \in Seq(E), NEW e \in E, NEW p
    PROVE  Copies(Append(q, e), p) = Copies(q, p) + (IF p = e THEN 1 ELSE 0)
<1> DEFINE a == Append(q, e)
           n == Len(q)
           Q == {k \in 1 .. n : q[k] = p}
           A == {k \in 1 .. Len(a) : a[k] = p}
<1>1. n \in Nat /\ Len(a) = n + 1 /\ a[n + 1] = e /\ \A k \in 1 .. n : a[k] = q[k]
  OBVIOUS
<1>2. IsFiniteSet(Q) /\ Copies(q, p) \in Nat /\ Copies(q, p) = Cardinality(Q)
  BY CountFinite DEF Copies
<1>3. Copies(a, p) = Cardinality(A)
  BY DEF Copies
<1> HIDE DEF a, n
<1>4. CASE p = e
  <2>1. A = Q \cup {n + 1} /\ n + 1 \notin Q
    BY <1>1, <1>4
  <2>2. Copies(a, p) = Cardinality(Q) + 1
    <3> HIDE DEF A, Q
    <3> QED BY <1>2, <1>3, <2>1, FS_AddElement
  <2> HIDE DEF A, Q
  <2> QED BY <1>2, <1>4, <2>2 DEF a
<1>5. CASE p # e
  <2>1. A = Q
    BY <1>1, <1>5
  <2> HIDE DEF A, Q
  <2> QED BY <1>2, <1>3, <1>5, <2>1 DEF a
<1> QED BY <1>4, <1>5

(* ... and taking the first away takes one of it.                          *)
LEMMA TailCopies ==
    ASSUME NEW E, NEW q \in Seq(E), q # <<>>, NEW p
    PROVE  Copies(Tail(q), p) = Copies(q, p) - (IF p = q[1] THEN 1 ELSE 0)
<1> DEFINE t == Tail(q)
           n == Len(q)
           Q == {k \in 1 .. n : q[k] = p}
           R == {k \in 1 .. Len(t) : t[k] = p}
           f == [k \in R |-> k + 1]
<1>1. /\ n \in Nat /\ n >= 1 /\ t \in Seq(E) /\ Len(t) = n - 1
      /\ \A k \in 1 .. n - 1 : t[k] = q[k + 1]
  OBVIOUS
<1>2. IsFiniteSet(Q) /\ Copies(q, p) \in Nat /\ Copies(q, p) = Cardinality(Q)
  BY CountFinite DEF Copies
<1>3. IsFiniteSet(R) /\ Copies(t, p) = Cardinality(R)
  BY <1>1, CountFinite DEF Copies
<1> HIDE DEF t, n
<1>4. f \in [R -> Q \ {1}] /\ \A k \in R : f[k] = k + 1
  BY <1>1
<1>5. \A k, l \in R : f[k] = f[l] => k = l
  BY <1>1
<1>6. ASSUME NEW l \in Q \ {1} PROVE \E k \in R : f[k] = l
  <2>1. l - 1 \in 1 .. n - 1 /\ (l - 1) + 1 = l
    BY <1>1
  <2>2. l - 1 \in R
    BY <1>1, <2>1
  <2> QED BY <2>1, <2>2
<1>7. IsFiniteSet(Q \ {1}) /\ Cardinality(Q \ {1}) = Cardinality(Q) - (IF 1 \in Q THEN 1 ELSE 0)
  <2> HIDE DEF Q
  <2> QED BY <1>2, FS_RemoveElement
<1>8. 1 \in Q <=> p = q[1]
  BY <1>1
<1> HIDE DEF Q, R, f
<1>9. f \in Bijection(R, Q \ {1})
  BY <1>4, <1>5, <1>6 DEF Bijection, Injection, Surjection, IsInjective
<1>10. Cardinality(Q \ {1}) = Cardinality(R)
  BY <1>3, <1>9, FS_Bijection DEF ExistsBijection
<1> QED BY <1>2, <1>3, <1>7, <1>8, <1>10 DEF t

(* A client's calls on a queue of any capacity, elements of any priority.  *)
LEMMA PrioIs ==
    /\ CAPACITY \in Nat /\ \A p \in Priorities : Prio[p] \in Nat
    /\ ReturnsBiggest <=> BiggestFirst(Prio, data)
    /\ ReturnsBiggest' <=> BiggestFirst(Prio, data')
BY PQueueAssumption DEF Prio, ReturnsBiggest, BiggestFirst, PqFirst, At0

LEMMA UseEnqueueIs ==
    ASSUME data \in Seq(Priorities), NEW p \in Priorities, UseEnqueue(p)
    PROVE  data' \in Seq(Priorities) /\ AddsOne(p)
<1>1. data' = PqEnqueue(Prio, data, CAPACITY, p) /\ CAPACITY \in Nat /\ Len(data) \in Nat
  BY PrioIs DEF UseEnqueue
<1>2. CASE Len(data) >= CAPACITY
  <2>1. data' = data
    BY <1>1, <1>2 DEF PqEnqueue
  <2> QED BY <1>1, <1>2, <2>1, PrioIs DEF AddsOne
<1>3. CASE Len(data) < CAPACITY
  <2>1. Rearranges(Append(data, p), data') /\ Append(data, p) \in Seq(Priorities)
    BY <1>1, <1>3, EnqueueKeeps
  <2>2. data' \in Seq(Priorities)
    BY <2>1, RearrangedIs
  <2>3. ASSUME NEW e \in Priorities
        PROVE  Copies(data', e) = Copies(data, e) + (IF e = p THEN 1 ELSE 0)
    <3>1. Copies(data', e) = Copies(Append(data, p), e)
      BY <2>1, SameCopies
    <3> QED BY <3>1, AppendCopies
  <2>4. ASSUME BiggestFirst(Prio, data) PROVE BiggestFirst(Prio, data')
    <3>1. data' = SiftUp(Prio, Append(data, p), Len(data))
      BY <1>1, <1>3 DEF PqEnqueue
    <3>2. \A e \in Priorities : Prio[e] \in Nat
      BY PrioIs
    <3> QED BY <2>4, <3>1, <3>2, EnqueueFirst
  <2> QED BY <1>1, <1>3, <2>2, <2>3, <2>4, PrioIs DEF AddsOne
<1> QED BY <1>1, <1>2, <1>3

LEMMA UseDequeueIs ==
    ASSUME data \in Seq(Priorities), UseDequeue
    PROVE  data' \in Seq(Priorities) /\ TakesFirst
<1>1. data # <<>> /\ data' = PqDequeue(Prio, data) /\ Tail(data) \in Seq(Priorities)
  BY DEF UseDequeue
<1>2. Rearranges(Tail(data), data')
  BY <1>1, DequeueKeeps
<1>3. ASSUME NEW e \in Priorities
      PROVE  Copies(data', e) = Copies(data, e) - (IF e = data[1] THEN 1 ELSE 0)
  <2>1. Copies(data', e) = Copies(Tail(data), e)
    BY <1>1, <1>2, SameCopies
  <2> QED BY <1>1, <2>1, TailCopies
<1>4. data' \in Seq(Priorities)
  BY <1>1, <1>2, RearrangedIs
<1> QED BY <1>3, <1>4 DEF TakesFirst, PqFirst, At0

(* For any capacity and priorities: no call loses or doubles an element,   *)
(* and pqueue_enqueue() never moves a biggest element out of the first     *)
(* place, so that the wrong parent index bites in pqueue_dequeue() alone.  *)
THEOREM QueueKeepsElements == Spec => CallsKeepElements
<1> DEFINE Held == data \in Seq(Priorities)
           Call == /\ \A p \in Priorities : UseEnqueue(p) => AddsOne(p)
                   /\ UseDequeue => TakesFirst
<1>1. Init => Held
  BY DEF Init, UseInit
<1>2. Held /\ [Next]_vars => Held'
  <2>1. ASSUME Held, UNCHANGED data PROVE Held'
    BY <2>1
  <2>2. ASSUME Held, UseNext PROVE Held'
    BY <2>2, UseEnqueueIs, UseDequeueIs DEF UseNext
  <2> HIDE DEF Held
  <2> QED BY <2>1, <2>2
          DEF Next, vars, RunPQueue, RunMap, RunCache, RunParser, RunUThreads, Echo
<1>3. Held => [Call]_data
  BY UseEnqueueIs, UseDequeueIs
<1> QED BY <1>1, <1>2, <1>3, PTL DEF Spec, CallsKeepElements

LEMMA AppendIs ==
    ASSUME NEW E, NEW q \in Seq(E), NEW e \in E
    PROVE  /\ Append(q, e) \in Seq(E) /\ Len(Append(q, e)) = Len(q) + 1
           /\ Range(Append(q, e)) = Range(q) \cup {e}
           /\ IsInjective(q) /\ e \notin Range(q) => IsInjective(Append(q, e))
<1> DEFINE a == Append(q, e)
<1>1. /\ a \in Seq(E) /\ Len(a) = Len(q) + 1 /\ Len(q) \in Nat /\ a[Len(q) + 1] = e
      /\ DOMAIN q = 1 .. Len(q) /\ DOMAIN a = 1 .. Len(q) + 1
      /\ \A k \in 1 .. Len(q) : a[k] = q[k]
  OBVIOUS
<1> HIDE DEF a
<1>2. ASSUME NEW k \in 1 .. Len(q) + 1 PROVE k \in 1 .. Len(q) \/ k = Len(q) + 1
  BY <1>1
<1>3. Range(a) = Range(q) \cup {e}
  <2>1. \A y \in Range(a) : y \in Range(q) \cup {e}
    BY <1>1, <1>2 DEF Range
  <2>2. \A y \in Range(q) : y \in Range(a)
    BY <1>1 DEF Range
  <2>3. e \in Range(a)
    <3>1. Len(q) + 1 \in DOMAIN a
      BY <1>1
    <3> QED BY <1>1, <3>1 DEF Range
  <2> QED BY <2>1, <2>2, <2>3
<1>4. ASSUME IsInjective(q), e \notin Range(q) PROVE IsInjective(a)
  <2>1. \A k \in 1 .. Len(q) : q[k] # e
    BY <1>1, <1>4 DEF Range
  <2> QED BY <1>1, <1>2, <1>4, <2>1 DEF IsInjective
<1> QED BY <1>1, <1>3, <1>4 DEF a

LEMMA TailIs ==
    ASSUME NEW E, NEW q \in Seq(E), q # <<>>, IsInjective(q)
    PROVE  /\ Tail(q) \in Seq(E) /\ Len(Tail(q)) = Len(q) - 1 /\ IsInjective(Tail(q))
           /\ Range(Tail(q)) = Range(q) \ {q[1]} /\ q[1] \in Range(q) /\ q[1] \in E
<1> DEFINE t == Tail(q)
<1>1. /\ t \in Seq(E) /\ Len(t) = Len(q) - 1 /\ Len(q) \in Nat /\ Len(q) >= 1 /\ q[1] \in E
      /\ DOMAIN q = 1 .. Len(q) /\ DOMAIN t = 1 .. Len(q) - 1
      /\ \A k \in 1 .. Len(q) - 1 : t[k] = q[k + 1]
  OBVIOUS
<1>2. \A k, l \in 1 .. Len(q) : q[k] = q[l] => k = l
  BY <1>1 DEF IsInjective
<1> HIDE DEF t
<1>3. \A k \in 1 .. Len(q) - 1 : k + 1 \in 1 .. Len(q) /\ k + 1 # 1
  BY <1>1
<1>4. IsInjective(t)
  <2> SUFFICES ASSUME NEW k \in 1 .. Len(q) - 1, NEW l \in 1 .. Len(q) - 1, t[k] = t[l]
               PROVE  k = l
    BY <1>1 DEF IsInjective
  <2>1. k + 1 = l + 1
    BY <1>1, <1>2, <1>3
  <2> QED BY <2>1
<1>5. 1 \in 1 .. Len(q) /\ q[1] \in Range(q)
  BY <1>1 DEF Range
<1>6. ASSUME NEW y PROVE y \in Range(t) <=> y \in Range(q) /\ y # q[1]
  <2>1. ASSUME y \in Range(t) PROVE y \in Range(q) /\ y # q[1]
    <3>1. PICK k \in 1 .. Len(q) - 1 : y = t[k]
      BY <1>1, <2>1 DEF Range
    <3>2. y = q[k + 1] /\ k + 1 \in 1 .. Len(q) /\ k + 1 # 1
      BY <1>1, <1>3, <3>1
    <3> QED BY <1>1, <1>2, <1>5, <3>2 DEF Range
  <2>2. ASSUME y \in Range(q), y # q[1] PROVE y \in Range(t)
    <3>1. PICK k \in 1 .. Len(q) : y = q[k]
      BY <1>1, <2>2 DEF Range
    <3>2. k - 1 \in 1 .. Len(q) - 1 /\ (k - 1) + 1 = k
      BY <1>1, <2>2, <3>1
    <3>3. t[k - 1] = y
      BY <1>1, <3>1, <3>2
    <3> QED BY <1>1, <3>2, <3>3 DEF Range
  <2> QED BY <2>1, <2>2
<1>7. Range(t) = Range(q) \ {q[1]}
  BY <1>6
<1> QED BY <1>1, <1>4, <1>5, <1>7 DEF t

-----------------------------------------------------------------------------
(* The cache.  Beside StoreSound the induction follows the page that is    *)
(* being stored, and that a critical section past its check has room.      *)
Working == section \in {"check", "set", "enqueue"}

StoreTypes ==
    /\ host_ip \in [Pages -> Hosts \cup {NULL}]
    /\ pqueue \in Seq(Pages) /\ curr_cache_size \in Nat

NewPage ==
    /\ Working => new_cache_page \in Pages /\ host_ip[new_cache_page] # NULL
    /\ ~ Working => new_cache_page = NULL

Room == section \in {"set", "enqueue"} => curr_cache_size < CACHE_SIZE

StoreInv == MapInv /\ StoreTypes /\ NewPage /\ Room /\ StoreSound

(* The parts of StoreSound, by name.                                       *)
Answers == \A h \in Keys : MapGet(h) # NULL => host_ip[MapGet(h)] = h

InUse == {p \in Pages : host_ip[p] # NULL}

Queued ==
    /\ IsInjective(pqueue)
    /\ Range(pqueue) = InUse \ {new_cache_page}
    /\ curr_cache_size = Len(pqueue) /\ curr_cache_size <= CACHE_SIZE

LEMMA SoundIs == (StoreSound <=> Answers /\ Queued) /\ (StoreSound' <=> Answers' /\ Queued')
BY DEF StoreSound, Answers, Queued, InUse

LEMMA GetType ==
    ASSUME MapInv, NEW h \in Keys PROVE MapGet(h) \in Pages \cup {NULL}
<1>1. Shape(buckets) /\ MapGet(h) = Get(buckets, h)
  BY LookupIs DEF MapInv
<1>2. CASE \E e \in Present(buckets) : e.key = h
  <2>1. PICK e \in Present(buckets) : e.key = h
    BY <1>2
  <2>2. e.value \in Values
    BY DEF Present, Entries
  <2> QED BY <1>1, <2>1, <2>2, GetIs DEF Pages
<1>3. CASE ~ \E e \in Present(buckets) : e.key = h
  BY <1>1, <1>3, GetIs
<1> QED BY <1>2, <1>3

LEMMA NullIs == NULL \notin Pages /\ NULL \notin Keys /\ NULL \notin Hosts /\ Hosts \subseteq Keys
BY MapAssumption, StoreAssumption DEF Pages

LEMMA StoreStart == ASSUME MapInit, StoreInit PROVE StoreInv
<1>1. MapInv
  BY MapInvInit
<1>2. StoreTypes /\ NewPage /\ Room
  BY DEF StoreInit, StoreTypes, NewPage, Room, Working
<1>3. Answers
  BY DEF MapInit, Answers, MapGet, GetRef, nbuckets
<1>4. Queued
  <2>1. IsInjective(pqueue) /\ Range(pqueue) = {}
    BY DEF StoreInit, IsInjective, Range
  <2>2. InUse = {}
    BY DEF StoreInit, InUse
  <2> QED BY <2>1, <2>2, StoreAssumption DEF StoreInit, Queued
<1> QED BY <1>1, <1>2, <1>3, <1>4, SoundIs DEF StoreInv

LEMMA SameMap ==
    ASSUME UNCHANGED mapVars PROVE \A h \in Keys : MapGet(h)' = MapGet(h)
BY LookupIs DEF mapVars

LEMMA PartsOfStore ==
    /\ StoreInv <=> MapInv /\ StoreTypes /\ NewPage /\ Room /\ Answers /\ Queued
    /\ StoreInv' <=> MapInv' /\ StoreTypes' /\ NewPage' /\ Room' /\ Answers' /\ Queued'
BY SoundIs DEF StoreInv

(* The block that is taken was free, so no entry of the map leads to it.   *)
LEMMA CreateStep ==
    ASSUME StoreInv, NEW h \in Hosts, CreatePage(h) PROVE StoreInv'
<1>1. PICK p \in Pages : /\ host_ip[p] = NULL /\ host_ip' = [host_ip EXCEPT ![p] = h]
                         /\ new_cache_page' = p
  BY DEF CreatePage
<1>2. MapInv /\ StoreTypes /\ NewPage /\ Room /\ Answers /\ Queued
  BY PartsOfStore
<1>3. /\ section = "none" /\ section' = "check" /\ UNCHANGED mapVars
      /\ pqueue' = pqueue /\ curr_cache_size' = curr_cache_size
  BY DEF CreatePage
<1>4. h # NULL /\ h \in Keys /\ new_cache_page = NULL /\ NULL \notin Pages
  BY <1>2, <1>3, NullIs DEF NewPage, Working
<1>5. /\ host_ip' \in [Pages -> Hosts \cup {NULL}] /\ host_ip'[p] = h
      /\ \A q \in Pages \ {p} : host_ip'[q] = host_ip[q]
  BY <1>1, <1>2 DEF StoreTypes
<1>6. MapInv'
  BY <1>2, <1>3, MapUnchanged
<1>7. StoreTypes' /\ NewPage' /\ Room'
  BY <1>1, <1>2, <1>3, <1>4, <1>5 DEF StoreTypes, NewPage, Working, Room
<1>8. Answers'
  <2> SUFFICES ASSUME NEW g \in Keys, MapGet(g)' # NULL PROVE host_ip'[MapGet(g)'] = g
    BY DEF Answers
  <2>1. MapGet(g)' = MapGet(g) /\ MapGet(g) \in Pages
    BY <1>2, <1>3, SameMap, GetType
  <2>2. host_ip[MapGet(g)] = g /\ g # NULL
    BY <1>2, <2>1, NullIs DEF Answers
  <2>3. MapGet(g) # p
    BY <1>1, <2>2
  <2> QED BY <1>5, <2>1, <2>2, <2>3
<1>9. Queued'
  <2>1. InUse' = InUse \cup {p} /\ p \notin InUse /\ new_cache_page \notin InUse
    BY <1>1, <1>4, <1>5 DEF InUse
  <2>2. InUse' \ {new_cache_page'} = InUse \ {new_cache_page}
    BY <1>1, <2>1
  <2> QED BY <1>2, <1>3, <2>2 DEF Queued
<1> QED BY <1>6, <1>7, <1>8, <1>9, PartsOfStore

(* map_remove_() of a key, there or not.                                   *)
LEMMA RemoveKeyIs ==
    ASSUME MapInv, NEW k \in Keys, RemoveKey(k)
    PROVE  MapInv' /\ MapGet(k)' = NULL /\ \A h \in Keys \ {k} : MapGet(h)' = MapGet(h)
<1>1. CASE MapRemove(k)
  BY <1>1, RemoveIsDelete
<1>2. CASE GetRef(k) = 0 /\ UNCHANGED mapVars
  <2>1. MapGet(k) = NULL
    BY <1>2 DEF MapGet
  <2> QED BY <1>2, <2>1, SameMap, MapUnchanged
<1> QED BY <1>1, <1>2 DEF RemoveKey

(* A full cache has a first page: a page in use, and not the new one.  Only*)
(* its own host's entry can lead to it, and that is removed.               *)
LEMMA EvictStep == ASSUME StoreInv, Evict PROVE StoreInv'
<1> DEFINE p == PqFirst(pqueue)
           t == Tail(pqueue)
<1>1. MapInv /\ StoreTypes /\ NewPage /\ Room /\ Answers /\ Queued
  BY PartsOfStore
<1>2. /\ section = "check" /\ section' = "set" /\ new_cache_page' = new_cache_page
      /\ curr_cache_size = CACHE_SIZE /\ curr_cache_size' = curr_cache_size - 1
      /\ host_ip' = [host_ip EXCEPT ![p] = NULL]
      /\ pqueue' = PqDequeue(TimesUsed, pqueue) /\ RemoveKey(host_ip[p])
  BY DEF Evict
<1>3. /\ pqueue \in Seq(Pages) /\ Len(pqueue) = CACHE_SIZE /\ CACHE_SIZE \in Nat \ {0}
      /\ IsInjective(pqueue)
  BY <1>1, <1>2, StoreAssumption DEF StoreTypes, Queued
<1>4. pqueue # <<>>
  BY <1>3
<1>5. /\ t \in Seq(Pages) /\ Len(t) = Len(pqueue) - 1 /\ IsInjective(t)
      /\ Range(t) = Range(pqueue) \ {pqueue[1]}
      /\ pqueue[1] \in Range(pqueue) /\ pqueue[1] \in Pages
  BY <1>3, <1>4, TailIs
<1>6. Rearranges(t, pqueue')
  BY <1>2, <1>3, <1>4, DequeueKeeps
<1>7. p = pqueue[1]
  BY DEF PqFirst, At0
<1> HIDE DEF p, t
<1>8. /\ pqueue' \in Seq(Pages) /\ Len(pqueue') = Len(pqueue) - 1 /\ IsInjective(pqueue')
      /\ Range(pqueue') = Range(pqueue) \ {p}
  BY <1>5, <1>6, <1>7, RearrangedIs
<1>9. p \in InUse /\ p # new_cache_page /\ p \in Pages
  BY <1>1, <1>5, <1>7 DEF Queued
<1>10. host_ip[p] \in Keys
  BY <1>1, <1>9, NullIs DEF InUse, StoreTypes
<1>11. PICK k \in Keys : k = host_ip[p]
  BY <1>10
<1>12. RemoveKey(k)
  BY <1>2, <1>11 DEF RemoveKey, MapRemove
<1>13. MapInv' /\ MapGet(k)' = NULL /\ \A h \in Keys \ {k} : MapGet(h)' = MapGet(h)
  BY <1>1, <1>12, RemoveKeyIs
<1>14. /\ host_ip' \in [Pages -> Hosts \cup {NULL}] /\ host_ip'[p] = NULL
       /\ \A q \in Pages \ {p} : host_ip'[q] = host_ip[q]
  BY <1>1, <1>2, <1>9 DEF StoreTypes
<1>15. StoreTypes' /\ NewPage' /\ Room'
  <2>1. curr_cache_size' \in Nat /\ curr_cache_size' < CACHE_SIZE
    BY <1>2, <1>3
  <2>2. new_cache_page \in Pages /\ host_ip[new_cache_page] # NULL
    BY <1>1, <1>2 DEF NewPage, Working
  <2> QED BY <1>2, <1>8, <1>9, <1>14, <2>1, <2>2 DEF StoreTypes, NewPage, Working, Room
<1>16. Answers'
  <2> SUFFICES ASSUME NEW g \in Keys, MapGet(g)' # NULL PROVE host_ip'[MapGet(g)'] = g
    BY DEF Answers
  <2>1. g # k
    BY <1>13
  <2>2. MapGet(g)' = MapGet(g) /\ MapGet(g) \in Pages
    BY <1>1, <1>13, <2>1, GetType
  <2>3. host_ip[MapGet(g)] = g
    BY <1>1, <2>2 DEF Answers
  <2>4. MapGet(g) # p
    BY <1>11, <2>1, <2>3
  <2> QED BY <1>14, <2>2, <2>3, <2>4
<1>17. Queued'
  <2>1. InUse' = InUse \ {p}
    BY <1>9, <1>14 DEF InUse
  <2>2. Range(pqueue') = InUse' \ {new_cache_page'}
    BY <1>1, <1>2, <1>8, <2>1 DEF Queued
  <2>3. curr_cache_size' = Len(pqueue') /\ curr_cache_size' <= CACHE_SIZE
    BY <1>2, <1>3, <1>8
  <2> QED BY <1>8, <2>2, <2>3 DEF Queued
<1> QED BY <1>13, <1>15, <1>16, <1>17, PartsOfStore

LEMMA HasRoomStep == ASSUME StoreInv, HasRoom PROVE StoreInv'
<1>1. MapInv /\ StoreTypes /\ NewPage /\ Room /\ Answers /\ Queued
  BY PartsOfStore
<1>2. /\ section = "check" /\ section' = "set" /\ curr_cache_size # CACHE_SIZE
      /\ UNCHANGED mapVars /\ UNCHANGED <<host_ip, pqueue, curr_cache_size, new_cache_page>>
  BY DEF HasRoom
<1>3. curr_cache_size < CACHE_SIZE
  BY <1>1, <1>2, StoreAssumption DEF StoreTypes, Queued
<1>4. StoreTypes' /\ NewPage' /\ Room' /\ Queued'
  BY <1>1, <1>2, <1>3 DEF StoreTypes, NewPage, Working, Room, Queued, InUse
<1>5. MapInv' /\ Answers'
  BY <1>1, <1>2, SameMap, MapUnchanged DEF Answers
<1> QED BY <1>4, <1>5, PartsOfStore

(* The arguments of map_set_(), by name.                                   *)
LEMMA SetPageCalls ==
    ASSUME SetPage, NEW k, NEW v, k = host_ip[new_cache_page], v = new_cache_page
    PROVE  MapReplace(k, v) \/ MapInsert(k, v)
<1>1. CASE MapReplace(host_ip[new_cache_page], new_cache_page)
  BY <1>1 DEF MapReplace
<1>2. CASE MapInsert(host_ip[new_cache_page], new_cache_page)
  BY <1>2 DEF MapInsert
<1> QED BY <1>1, <1>2 DEF SetPage

(* An older page of the host, if there is one, stays queued: the map no    *)
(* longer leads to it.                                                     *)
LEMMA SetStep == ASSUME StoreInv, SetPage PROVE StoreInv'
<1>1. MapInv /\ StoreTypes /\ NewPage /\ Room /\ Answers /\ Queued
  BY PartsOfStore
<1>2. /\ section = "set" /\ section' = "enqueue"
      /\ UNCHANGED <<host_ip, pqueue, curr_cache_size, new_cache_page>>
  BY DEF SetPage
<1>3. new_cache_page \in Pages /\ host_ip[new_cache_page] \in Keys
  BY <1>1, <1>2, NullIs DEF NewPage, Working, StoreTypes
<1>4. PICK k \in Keys, v \in Pages : k = host_ip[new_cache_page] /\ v = new_cache_page
  BY <1>3
<1>5. MapReplace(k, v) \/ MapInsert(k, v)
  BY <1>4, SetPageCalls
<1>6. MapInv' /\ MapGet(k)' = v /\ \A h \in Keys \ {k} : MapGet(h)' = MapGet(h)
  BY <1>1, <1>5, SetIsPut DEF Pages
<1>7. StoreTypes' /\ NewPage' /\ Room' /\ Queued'
  BY <1>1, <1>2 DEF StoreTypes, NewPage, Working, Room, Queued, InUse
<1>8. Answers'
  BY <1>1, <1>2, <1>4, <1>6 DEF Answers
<1> QED BY <1>6, <1>7, <1>8, PartsOfStore

(* The freed page was of a host that has no entry.                         *)
LEMMA SetFailsStep == ASSUME StoreInv, SetPageFails PROVE StoreInv'
<1>1. MapInv /\ StoreTypes /\ NewPage /\ Room /\ Answers /\ Queued
  BY PartsOfStore
<1>2. /\ section = "set" /\ section' = "kept" /\ new_cache_page' = NULL
      /\ host_ip' = [host_ip EXCEPT ![new_cache_page] = NULL]
      /\ UNCHANGED <<pqueue, curr_cache_size>>
  BY DEF SetPageFails
<1>3. new_cache_page \in Pages /\ host_ip[new_cache_page] \in Keys
  BY <1>1, <1>2, NullIs DEF NewPage, Working, StoreTypes
<1>4. PICK k \in Keys, v \in Pages : k = host_ip[new_cache_page] /\ v = new_cache_page
  BY <1>3
<1>5. GetRef(k) = 0 /\ (UNCHANGED mapVars \/ MapInsertFails(k))
  BY <1>4 DEF SetPageFails, MapInsertFails
<1>6. MapInv' /\ (\A h \in Keys : MapGet(h)' = MapGet(h)) /\ MapGet(k) = NULL
  BY <1>1, <1>5, FailIsNothing, SameMap, MapUnchanged DEF MapGet
<1>7. /\ host_ip' \in [Pages -> Hosts \cup {NULL}] /\ host_ip'[v] = NULL
      /\ \A q \in Pages \ {v} : host_ip'[q] = host_ip[q]
  BY <1>1, <1>2, <1>4 DEF StoreTypes
<1>8. StoreTypes' /\ NewPage' /\ Room'
  BY <1>1, <1>2, <1>7 DEF StoreTypes, NewPage, Working, Room
<1>9. Answers'
  <2> SUFFICES ASSUME NEW g \in Keys, MapGet(g)' # NULL PROVE host_ip'[MapGet(g)'] = g
    BY DEF Answers
  <2>1. MapGet(g)' = MapGet(g) /\ MapGet(g) \in Pages /\ g # k
    BY <1>1, <1>6, GetType
  <2>2. host_ip[MapGet(g)] = g
    BY <1>1, <2>1 DEF Answers
  <2> QED BY <1>4, <1>7, <2>1, <2>2
<1>10. Queued'
  <2>1. InUse' = InUse \ {v} /\ NULL \notin InUse'
    BY <1>4, <1>7, NullIs DEF InUse
  <2> QED BY <1>1, <1>2, <1>4, <2>1 DEF Queued
<1> QED BY <1>6, <1>8, <1>9, <1>10, PartsOfStore

(* The heap has room, so the page is not dropped.                          *)
LEMMA EnqueueStep == ASSUME StoreInv, EnqueuePage PROVE StoreInv'
<1>1. MapInv /\ StoreTypes /\ NewPage /\ Room /\ Answers /\ Queued
  BY PartsOfStore
<1>2. /\ section = "enqueue" /\ section' = "none" /\ new_cache_page' = NULL
      /\ pqueue' = PqEnqueue(TimesUsed, pqueue, CACHE_SIZE, new_cache_page)
      /\ curr_cache_size' = curr_cache_size + 1
      /\ UNCHANGED mapVars /\ host_ip' = host_ip
  BY DEF EnqueuePage
<1>3. /\ new_cache_page \in InUse /\ new_cache_page \in Pages
      /\ curr_cache_size < CACHE_SIZE /\ CACHE_SIZE \in Nat /\ curr_cache_size \in Nat
      /\ pqueue \in Seq(Pages) /\ Len(pqueue) = curr_cache_size /\ IsInjective(pqueue)
      /\ Range(pqueue) = InUse \ {new_cache_page}
  BY <1>1, <1>2, StoreAssumption DEF NewPage, Working, Room, StoreTypes, InUse, Queued
<1> DEFINE a == Append(pqueue, new_cache_page)
<1>4. Rearranges(a, pqueue')
  BY <1>2, <1>3, EnqueueKeeps
<1>5. /\ a \in Seq(Pages) /\ Len(a) = Len(pqueue) + 1 /\ IsInjective(a)
      /\ Range(a) = Range(pqueue) \cup {new_cache_page}
  BY <1>3, AppendIs
<1> HIDE DEF a
<1>6. /\ pqueue' \in Seq(Pages) /\ Len(pqueue') = Len(pqueue) + 1
      /\ IsInjective(pqueue') /\ Range(pqueue') = InUse
  BY <1>3, <1>4, <1>5, RearrangedIs
<1>7. StoreTypes' /\ NewPage' /\ Room'
  BY <1>1, <1>2, <1>3, <1>6 DEF StoreTypes, NewPage, Working, Room
<1>8. Queued'
  <2>1. InUse' = InUse /\ NULL \notin InUse
    BY <1>2, NullIs DEF InUse
  <2> QED BY <1>2, <1>3, <1>6, <2>1 DEF Queued
<1>9. MapInv' /\ Answers'
  BY <1>1, <1>2, SameMap, MapUnchanged DEF Answers
<1> QED BY <1>7, <1>8, <1>9, PartsOfStore

LEMMA StoreStutters == ASSUME StoreInv, UNCHANGED <<mapVars, storeVars>> PROVE StoreInv'
<1>1. MapInv /\ StoreTypes /\ NewPage /\ Room /\ Answers /\ Queued
  BY PartsOfStore
<1>2. UNCHANGED mapVars /\ UNCHANGED storeVars
  OBVIOUS
<1>3. StoreTypes' /\ NewPage' /\ Room' /\ Queued'
  BY <1>1, <1>2 DEF storeVars, StoreTypes, NewPage, Working, Room, Queued, InUse
<1>4. MapInv' /\ Answers'
  BY <1>1, <1>2, SameMap, MapUnchanged DEF Answers, storeVars
<1> QED BY <1>3, <1>4, PartsOfStore

LEMMA StoreStep == ASSUME StoreInv, StoreNext PROVE StoreInv'
BY CreateStep, EvictStep, HasRoomStep, SetStep, SetFailsStep, EnqueueStep DEF StoreNext

-----------------------------------------------------------------------------
(* The programs side by side: only the map's client and the cache call the *)
(* map, and only the cache changes its own state.                          *)
ProgInv == MapInv /\ (program = "cache" => StoreInv)

(* The cache's calls of the map, as a user of the dictionary sees them.    *)
LEMMA StoreLooksUp == ASSUME StoreInv, StoreNext PROVE [Lookups!Next]_seen
<1>1. MapInv
  BY PartsOfStore
<1>2. ASSUME UNCHANGED mapVars PROVE UNCHANGED seen
  BY <1>2, SameMap, NothingSeen
<1>3. CASE (\E h \in Hosts : CreatePage(h)) \/ HasRoom \/ EnqueuePage
  BY <1>2, <1>3 DEF CreatePage, HasRoom, EnqueuePage
<1>4. CASE Evict
  <2> DEFINE p == PqFirst(pqueue)
  <2>1. StoreTypes /\ Queued /\ curr_cache_size = CACHE_SIZE /\ RemoveKey(host_ip[p])
    BY <1>4, PartsOfStore DEF Evict
  <2>2. pqueue \in Seq(Pages) /\ pqueue # <<>> /\ IsInjective(pqueue)
    BY <2>1, StoreAssumption DEF StoreTypes, Queued
  <2>3. p \in InUse
    BY <2>1, <2>2, TailIs DEF PqFirst, At0, Queued
  <2> HIDE DEF p
  <2>4. PICK k \in Keys : k = host_ip[p]
    BY <2>1, <2>3, NullIs DEF InUse, StoreTypes
  <2>5. RemoveKey(k)
    BY <2>1, <2>4 DEF RemoveKey, MapRemove
  <2>6. CASE MapRemove(k)
    BY <1>1, <2>6, RemoveIsDelete DEF Lookups!Next
  <2> QED BY <1>2, <2>5, <2>6 DEF RemoveKey
<1>5. ASSUME section = "set"
      PROVE  \E k \in Keys, v \in Values : k = host_ip[new_cache_page] /\ v = new_cache_page
  BY <1>5, PartsOfStore, NullIs DEF NewPage, Working, StoreTypes, Pages
<1>6. CASE SetPage
  <2>1. PICK k \in Keys, v \in Values : k = host_ip[new_cache_page] /\ v = new_cache_page
    BY <1>5, <1>6 DEF SetPage
  <2>2. MapReplace(k, v) \/ MapInsert(k, v)
    BY <1>6, <2>1, SetPageCalls
  <2> QED BY <1>1, <2>2, SetIsPut DEF Lookups!Next
<1>7. CASE SetPageFails
  <2>1. PICK k \in Keys : k = host_ip[new_cache_page]
    BY <1>5, <1>7 DEF SetPageFails
  <2>2. UNCHANGED mapVars \/ MapInsertFails(k)
    BY <1>7, <2>1 DEF SetPageFails, MapInsertFails
  <2>3. UNCHANGED seen
    BY <1>1, <1>2, <2>2, FailIsNothing, NothingSeen
  <2> QED BY <2>3
<1> QED BY <1>3, <1>4, <1>6, <1>7 DEF StoreNext

LEMMA ProgStart == ASSUME Init PROVE ProgInv /\ Lookups!Init
BY StoreStart, MapInvInit, DictionaryInit DEF Init, ProgInv

LEMMA ProgStep ==
    ASSUME ProgInv, [Next]_vars PROVE ProgInv' /\ [Lookups!Next]_seen
<1>1. CASE /\ UNCHANGED program /\ UNCHANGED mapVars /\ UNCHANGED storeVars
  BY <1>1, MapUnchanged, StoreStutters, SameMap, NothingSeen DEF ProgInv
<1>2. CASE RunMap
  <2>1. program = "map" /\ program' = "map" /\ MapNext /\ MapInv
    BY <1>2 DEF RunMap, ProgInv
  <2>2. MapInv' /\ [Lookups!Next]_seen
    BY <2>1, MapNextIs
  <2> QED BY <2>1, <2>2 DEF ProgInv
<1>3. CASE RunCache
  <2>1. program = "cache" /\ program' = "cache" /\ StoreNext /\ StoreInv
    BY <1>3 DEF RunCache, ProgInv
  <2>2. StoreInv' /\ [Lookups!Next]_seen
    BY <2>1, StoreStep, StoreLooksUp
  <2>3. MapInv'
    BY <2>2, PartsOfStore
  <2> QED BY <2>2, <2>3 DEF ProgInv
<1>4. CASE RunPQueue \/ RunParser \/ RunUThreads \/ Echo(EchoNext) \/ UNCHANGED vars
  BY <1>1, <1>4 DEF RunPQueue, RunParser, RunUThreads, Echo, vars
<1> QED BY <1>2, <1>3, <1>4 DEF Next

LEMMA ProgInvariance == Spec => []ProgInv
<1>1. Init => ProgInv
  BY ProgStart
<1>2. ProgInv /\ [Next]_vars => ProgInv'
  BY ProgStep
<1> QED BY <1>1, <1>2, PTL DEF Spec

(* The critical sections of the proxy's handler keep map, heap, counter    *)
(* and blocks together, for every cache size, number of pages and set of   *)
(* hosts, whatever their hashes: no entry leads to a freed page, no page   *)
(* is lost or queued twice, and a full cache has a page to give up.        *)
THEOREM CacheIsSound == Spec => []CacheSound
<1>1. ProgInv => CacheSound
  BY DEF ProgInv, CacheSound, StoreInv
<1> QED BY <1>1, ProgInvariance, PTL

(* The map keeps its shape under its own client and under the cache.       *)
THEOREM MapKeepsShape == Spec => []MapShape
<1>1. ProgInv => MapShape
  BY MapInvShape DEF ProgInv
<1> QED BY <1>1, ProgInvariance, PTL

(* Every call that the map's client or the cache makes is, on its own key, *)
(* the operation of a partial function that it is meant to be; a set that  *)
(* fails changes nothing, although its resize has moved every node.        *)
THEOREM ProgramsUseDictionary == Spec => ImplementsDictionary
<1>1. Init => Lookups!Init
  BY ProgStart
<1>2. ProgInv /\ [Next]_vars => [Lookups!Next]_seen
  BY ProgStep
<1>3. ProgInv => [CallsAsPromised]_mapVars
  BY PromisesKept DEF ProgInv
<1> QED BY <1>1, <1>2, <1>3, ProgInvariance, PTL
       DEF Spec, ImplementsDictionary, Lookups!Spec, seen

-----------------------------------------------------------------------------
(* The scheduler of 2-term/1.7 for any number of threads and any lengths   *)
(* of their loops: no context is lost or mixed up, and turns go round.     *)
ThreadTypes ==
    /\ rounds \in [Tids -> Nat] /\ i \in [Tids -> Nat]
    /\ ucntx \in [Slots -> Contexts]
    /\ uthread_count \in 1 .. N + 1
    /\ uthread_curr \in Slots
    /\ running \in Slots
    /\ pc \in {"create", "loop", "resumed", "exited"}

(* Before main() is in its loop nothing but creations has happened.        *)
CreateInv ==
    /\ pc # "create" => uthread_count = N + 1
    /\ pc = "create" =>
          /\ uthread_count <= N /\ uthread_curr = 0 /\ running = 0
          /\ \A t \in Tids : i[t] = 0 /\ ucntx[t].at # "resumed"
          /\ \A t \in Created : ucntx[t].who = t

(* Every slot that can be resumed has been saved or created, slot 0 as     *)
(* soon as main() has left it.                                             *)
SavedInv ==
    /\ running \in {0, uthread_curr}
    /\ \A s \in Slots : ucntx[s].who \in {0, s}
    /\ \A t \in Created : ucntx[t].at # "unset"
    /\ \A t \in Tids : t >= uthread_count => ucntx[t].who = 0
    /\ uthread_curr # 0 => ucntx[0].at # "unset"

Dead == {t \in Created : ~ Live(t)}

(* uthread_finished_count counts the threads that have returned.           *)
DeadInv ==
    /\ uthread_finished_count = Cardinality(Dead)
    /\ \A t \in Dead : i[t] = rounds[t]

(* The rounds a thread has gone through: its calls, without the one of the *)
(* present round, which the threads before the current slot have made.     *)
Level(t) == Turns(t) - (IF t < uthread_curr THEN 1 ELSE 0)

LevelInv == \A s, t \in Created : Live(s) /\ Live(t) => Level(s) = Level(t)

ThreadInv == ThreadTypes /\ CreateInv /\ SavedInv /\ DeadInv

LEMMA FollowingIs ==
    ASSUME N \in Nat \ {0}, uthread_count = N + 1, uthread_curr \in Slots
    PROVE  Following = IF uthread_curr = N THEN 0 ELSE uthread_curr + 1
  <1>1. uthread_curr + 1 \in 1 .. N + 1
    BY DEF Slots
  <1>2. CASE uthread_curr = N
    <2>1. (N + 1) % (N + 1) = 0
      OBVIOUS
    <2> QED
      BY <1>2, <2>1 DEF Following
  <1>3. CASE uthread_curr # N
    <2>1. uthread_curr + 1 < N + 1 /\ uthread_curr + 1 \in Nat
      BY <1>3 DEF Slots
    <2> QED
      BY <1>3, <2>1 DEF Following
  <1> QED
    BY <1>2, <1>3
LEMMA ThreadStart == UThreadInit => ThreadInv /\ LevelInv
  <1> SUFFICES ASSUME UThreadInit PROVE ThreadInv /\ LevelInv
    OBVIOUS
  <1> USE UThreadAssumption DEF UThreadInit, Context, Tids, Slots
  <1>1. ThreadTypes
    BY DEF ThreadTypes, Contexts
  <1>2. CreateInv /\ SavedInv
    BY DEF CreateInv, SavedInv, Created
  <1>3. Created = {}
    BY DEF Created
  <1>4. DeadInv /\ LevelInv
    BY <1>3, FS_EmptySet DEF DeadInv, Dead, LevelInv
  <1> QED
    BY <1>1, <1>2, <1>4 DEF ThreadInv

(* In a slot that is being left its own thread is saved, or main() in the  *)
(* place of a thread that has returned; the slot that is resumed is        *)
(* another one.                                                            *)
LEMMA ScheduleStep ==
    ASSUME ThreadInv, Schedule
    PROVE  /\ ThreadTypes' /\ CreateInv' /\ SavedInv'
           /\ \A t \in Tids : Live(t)' <=> Live(t)
  <1> USE UThreadAssumption DEF ThreadInv, ThreadTypes, Tids, Slots
  <1>1. uthread_count = N + 1 /\ uthread_count' = N + 1
    BY DEF Schedule, CreateInv
  <1>2. Following \in Slots /\ Following # uthread_curr /\ (uthread_curr = 0 => Following # 0)
    BY <1>1, FollowingIs
  <1>3. Created = Tids /\ Created' = Tids
    BY <1>1 DEF Created
  <1>4. /\ ucntx' = [ucntx EXCEPT ![uthread_curr] = Context(running, "resumed")]
        /\ uthread_curr' = Following
        /\ running' = ucntx[Following].who /\ pc' = ucntx[Following].at
        /\ UNCHANGED <<rounds, i>>
    BY DEF Schedule, Switch, Resume
  <1>5. Context(running, "resumed") \in Contexts
    BY DEF Context, Contexts
  <1>6. ucntx[Following] \in Contexts /\ ucntx[Following].at # "unset"
    BY <1>2, <1>3 DEF SavedInv
  <1>7. ThreadTypes'
    BY <1>1, <1>2, <1>4, <1>5, <1>6 DEF Contexts
  <1>8. CreateInv'
    BY <1>1, <1>4, <1>6, <1>7 DEF CreateInv, Schedule, Contexts
  <1>9. \A s \in Slots : ucntx'[s].who \in {0, s}
    BY <1>4 DEF SavedInv, Context
  <1>10. \A s \in Slots : s # uthread_curr => ucntx'[s] = ucntx[s]
    BY <1>4
  <1>11. ucntx'[uthread_curr].at = "resumed" /\ ucntx'[uthread_curr].who = running
    BY <1>4 DEF Context
  <1>12. SavedInv'
    <2>1. \A t \in Tids : ucntx'[t].at # "unset"
      <3>1. \A t \in Tids : ucntx[t].at # "unset" /\ t \in Slots
        BY <1>3 DEF SavedInv
      <3>2. \A t \in Tids : t # uthread_curr => ucntx'[t] = ucntx[t]
        BY <1>10, <3>1
      <3> QED BY ONLY <1>11, <3>1, <3>2
    <2>2. ucntx'[0].at # "unset"
      BY <1>10, <1>11 DEF SavedInv
    <2>3. running' \in {0, uthread_curr'}
      BY <1>2, <1>4 DEF SavedInv
    <2> QED
      BY <1>1, <1>3, <1>9, <2>1, <2>2, <2>3 DEF SavedInv
  <1>13. ASSUME NEW t \in Tids PROVE Live(t)' <=> Live(t)
    <2>1. CASE t = uthread_curr
      BY <1>2, <1>4, <1>11, <2>1 DEF Live, SavedInv
    <2>2. CASE t = Following
      BY <1>2, <1>4, <1>10, <2>2 DEF Live, SavedInv
    <2>3. CASE t # uthread_curr /\ t # Following
      BY <1>2, <1>4, <1>10, <2>3 DEF Live, SavedInv
    <2> QED
      BY <2>1, <2>2, <2>3
  <1> QED
    BY <1>7, <1>8, <1>12, <1>13

(* A thread that returns is no longer live, and nothing else changes.      *)
LEMMA ReturnStep ==
    ASSUME ThreadInv, Return
    PROVE  /\ ThreadTypes' /\ CreateInv' /\ SavedInv' /\ running \in Tids
           /\ \A t \in Tids : Live(t)' <=> Live(t) /\ t # running
  <1> USE UThreadAssumption DEF ThreadInv, ThreadTypes, Tids, Slots
  <1>1. running \in Tids /\ running = uthread_curr
    BY DEF Return, Finished, SavedInv
  <1>2. ucntx[0] \in Contexts /\ ucntx[0].who = 0 /\ ucntx[0].at # "unset"
    BY <1>1 DEF SavedInv
  <1>3. running' = 0 /\ pc' = ucntx[0].at /\ UNCHANGED <<rounds, ucntx, uthread_count, uthread_curr, i>>
    BY <1>2 DEF Return, Resume
  <1>4. pc' \in {"loop", "resumed"} /\ uthread_count = N + 1
    BY <1>2, <1>3 DEF Contexts, Return, CreateInv
  <1>5. ThreadTypes' /\ CreateInv' /\ SavedInv'
    BY <1>2, <1>3, <1>4 DEF CreateInv, SavedInv, Created
  <1>6. \A t \in Tids : Live(t)' <=> Live(t) /\ t # running
    BY <1>1, <1>3 DEF Live
  <1> QED
    BY <1>1, <1>5, <1>6

LEMMA CreateThreadStep ==
    ASSUME ThreadInv, Create
    PROVE  /\ ThreadTypes' /\ CreateInv' /\ SavedInv'
           /\ \A t \in Created : Live(t)
           /\ \A t \in Created' : Live(t)'
  <1> USE UThreadAssumption DEF ThreadInv, ThreadTypes, Tids, Slots
  <1>1. uthread_count \in Tids /\ uthread_curr = 0 /\ running = 0
    BY DEF Create, CreateInv
  <1>2. /\ ucntx' = [ucntx EXCEPT ![uthread_count] = Context(uthread_count, "loop")]
        /\ uthread_count' = uthread_count + 1
        /\ pc' = IF uthread_count = N THEN "loop" ELSE "create"
        /\ UNCHANGED <<rounds, uthread_curr, running, i>>
    BY DEF Create
  <1>3. Context(uthread_count, "loop") \in Contexts
    BY <1>1 DEF Context, Contexts
  <1>4. ThreadTypes'
    BY <1>1, <1>2, <1>3
  <1>5. /\ ucntx'[uthread_count].at = "loop" /\ ucntx'[uthread_count].who = uthread_count
        /\ \A s \in Slots : s # uthread_count => ucntx'[s] = ucntx[s]
    BY <1>1, <1>2 DEF Context
  <1>6. CreateInv'
    BY <1>1, <1>2, <1>5 DEF CreateInv, Create, Created
  <1>7. SavedInv'
    BY <1>1, <1>2, <1>5 DEF SavedInv, Created
  <1>8. \A t \in Created : Live(t)
    BY <1>1 DEF Live, CreateInv, Create, Created
  <1>9. \A t \in Created' : Live(t)'
    BY <1>1, <1>2, <1>5 DEF Live, CreateInv, Create, Created
  <1> QED
    BY <1>4, <1>6, <1>7, <1>8, <1>9

LEMMA OtherStep ==
    ASSUME ThreadInv, Resumed \/ Exit \/ UNCHANGED uthreadVars
    PROVE  /\ ThreadTypes' /\ CreateInv' /\ SavedInv'
           /\ \A t \in Tids : Live(t)' <=> Live(t)
  <1> USE UThreadAssumption DEF ThreadInv, ThreadTypes, CreateInv, SavedInv, Live, Created, Tids, Slots
  <1>1. CASE Resumed
    BY <1>1 DEF Resumed
  <1>2. CASE Exit
    BY <1>2 DEF Exit
  <1>3. CASE UNCHANGED uthreadVars
    BY <1>3 DEF uthreadVars
  <1> QED
    BY <1>1, <1>2, <1>3

LEMMA DeadFinite == IsFiniteSet(Dead)
  <1>1. IsFiniteSet(Tids)
    BY UThreadAssumption, FS_Interval DEF Tids
  <1> QED
    BY <1>1, FS_Subset DEF Dead, Created

LEMMA DeadStep ==
    ASSUME ThreadInv, [UThreadNext]_uthreadVars
    PROVE  DeadInv'
  <1> USE UThreadAssumption DEF ThreadInv
  <1>1. CASE Create
    <2>1. Dead = {} /\ Dead' = {}
      BY <1>1, CreateThreadStep DEF Dead
    <2> QED
      BY <1>1, <2>1 DEF DeadInv, Create
  <1>2. CASE Schedule
    <2>1. Dead' = Dead
      BY <1>2, ScheduleStep DEF Dead, Created, Schedule
    <2> QED
      BY <1>2, <2>1 DEF DeadInv, Schedule
  <1>3. CASE Resumed
    <2>1. Dead' = Dead
      BY <1>3, OtherStep DEF Dead, Created, Resumed
    <2>2. running \notin Dead
      BY DEF Dead, Live
    <2>3. \A t \in Tids : t # running => i'[t] = i[t]
      BY <1>3 DEF Resumed, ThreadTypes
    <2> QED
      BY <1>3, <2>1, <2>2, <2>3 DEF DeadInv, Resumed, Dead, Created
  <1>4. CASE Return
    <2>1. running \in Created /\ running \notin Dead
      BY <1>4, ReturnStep DEF Dead, Live, Created, CreateInv, Return, Tids
    <2>2. Dead' = Dead \cup {running}
      BY <1>4, <2>1, ReturnStep DEF Dead, Created, Return
    <2>3. Cardinality(Dead') = Cardinality(Dead) + 1
      BY <2>1, <2>2, DeadFinite, FS_AddElement
    <2> QED
      BY <1>4, <2>2, <2>3 DEF DeadInv, Return, Finished
  <1>5. CASE Exit \/ UNCHANGED uthreadVars
    <2>1. Dead' = Dead
      BY <1>5, OtherStep DEF Dead, Created, Exit, uthreadVars
    <2> QED
      BY <1>5, <2>1 DEF DeadInv, Exit, uthreadVars
  <1> QED
    BY <1>1, <1>2, <1>3, <1>4, <1>5 DEF UThreadNext

(* A call of uthread_shedule() takes the thread one turn further and the   *)
(* current slot past it; at the last slot everybody has had the turn and   *)
(* the next round begins.                                                  *)
LEMMA LevelStep ==
    ASSUME ThreadInv, LevelInv, [UThreadNext]_uthreadVars
    PROVE  LevelInv'
  <1> USE UThreadAssumption DEF ThreadInv
  <1>1. CASE Create
    <2>1. CreateInv' /\ SavedInv' /\ ThreadTypes'
      BY <1>1, CreateThreadStep
    <2>2. ASSUME NEW t \in Created' PROVE Level(t)' = 0
      <3>1. t \in Tids /\ i'[t] = 0 /\ ucntx'[t].at # "resumed"
        BY <1>1, <2>1 DEF Create, CreateInv, Created, Context, ThreadTypes, Tids, Slots
      <3>2. running' = 0 /\ uthread_curr' = 0
        BY <1>1 DEF Create, CreateInv
      <3> QED
        BY <3>1, <3>2 DEF Level, Turns, Tids
    <2> QED
      BY <2>2 DEF LevelInv
  <1>2. CASE Schedule
    <2>1. Created = Tids /\ Created' = Tids /\ uthread_count = N + 1
      BY <1>2 DEF Schedule, CreateInv, Created, Tids
    <2>2. uthread_curr' = IF uthread_curr = N THEN 0 ELSE uthread_curr + 1
      BY <1>2, <2>1, FollowingIs DEF Schedule, Switch, ThreadTypes
    <2>3. ASSUME NEW t \in Tids, Live(t)
          PROVE  Turns(t)' = IF t = uthread_curr THEN Turns(t) + 1 ELSE Turns(t)
      <3> USE DEF ThreadTypes, SavedInv, Tids, Slots
      <3>1. /\ ucntx' = [ucntx EXCEPT ![uthread_curr] = Context(running, "resumed")]
            /\ running' = ucntx[uthread_curr'].who /\ pc' = ucntx[uthread_curr'].at /\ i' = i
            /\ pc = "loop"
        BY <1>2 DEF Schedule, Switch, Resume
      <3>2. uthread_curr' \in Slots /\ uthread_curr' # uthread_curr
        BY <2>2
      <3>3. i[t] \in Nat
        OBVIOUS
      <3>4. CASE t = uthread_curr
        <4>1. running = t
          BY <2>3, <3>4 DEF Live
        <4>2. running' # t /\ ucntx'[t].at = "resumed"
          BY <3>1, <3>2, <3>4 DEF Context
        <4> QED
          BY <3>1, <3>3, <3>4, <4>1, <4>2 DEF Turns
      <3>5. CASE t # uthread_curr
        <4>1. running # t /\ ucntx[t].who = t /\ ucntx'[t] = ucntx[t]
          BY <2>3, <3>1, <3>5 DEF Live
        <4>2. running' = t => pc' = ucntx[t].at
          <5>1. running' \in {0, uthread_curr'} /\ t # 0
            BY <3>1, <3>2
          <5>2. running' = t => uthread_curr' = t
            BY <5>1
          <5> QED
            BY <3>1, <5>2
        <4> QED
          BY <3>1, <3>5, <4>1, <4>2 DEF Turns
      <3> QED
        BY <3>4, <3>5
    <2>4. ASSUME NEW t \in Tids, Live(t)
          PROVE  Turns(t) \in Nat /\ Level(t)' = IF uthread_curr = N THEN Level(t) + 1 ELSE Level(t)
      <3>1. Turns(t) \in Nat
        BY DEF Turns, ThreadTypes
      <3>2. t \in 1 .. N /\ uthread_curr \in 0 .. N
        BY DEF ThreadTypes, Tids, Slots
      <3> QED
        BY <2>2, <2>3, <2>4, <3>1, <3>2 DEF Level
    <2>5. \A t \in Tids : Live(t)' <=> Live(t)
      BY <1>2, ScheduleStep
    <2> QED
      BY <2>1, <2>4, <2>5 DEF LevelInv
  <1>3. CASE Resumed \/ Exit \/ UNCHANGED uthreadVars
    <2>1. ASSUME NEW t \in Tids PROVE Turns(t)' = Turns(t)
      <3>1. CASE Resumed
        BY <3>1 DEF Resumed, Turns, ThreadTypes, Tids
      <3>2. CASE Exit \/ UNCHANGED uthreadVars
        BY <3>2 DEF Exit, uthreadVars, Turns
      <3> QED BY <1>3, <3>1, <3>2
    <2>2. Created' = Created /\ uthread_curr' = uthread_curr
      BY <1>3 DEF Resumed, Exit, uthreadVars, Created
    <2>3. \A t \in Tids : Level(t)' = Level(t)
      BY <2>1, <2>2 DEF Level
    <2> QED
      BY <1>3, <2>2, <2>3, OtherStep DEF LevelInv, Created
  <1>4. CASE Return
    <2>1. Created' = Created /\ \A t \in Tids : Live(t)' <=> Live(t) /\ t # running
      BY <1>4, ReturnStep DEF Created, Return
    <2>2. ASSUME NEW t \in Tids, t # running PROVE Level(t)' = Level(t)
      BY <1>4, <2>2 DEF Return, Resume, Level, Turns, SavedInv, Slots, Tids
    <2> QED
      BY <2>1, <2>2 DEF LevelInv, Created
  <1> QED
    BY <1>1, <1>2, <1>3, <1>4 DEF UThreadNext

(* The invariant is kept by every step.                                    *)
THEOREM ThreadInvariance == UThreadSpec => [](ThreadInv /\ LevelInv)
  <1>1. ThreadInv /\ LevelInv /\ [UThreadNext]_uthreadVars => (ThreadInv /\ LevelInv)'
    <2> SUFFICES ASSUME ThreadInv, LevelInv, [UThreadNext]_uthreadVars
                 PROVE  (ThreadInv /\ LevelInv)'
      OBVIOUS
    <2>1. ThreadTypes' /\ CreateInv' /\ SavedInv'
      BY CreateThreadStep, ScheduleStep, ReturnStep, OtherStep DEF UThreadNext
    <2> QED
      BY <2>1, DeadStep, LevelStep DEF ThreadInv
  <1> QED
    BY ThreadStart, <1>1, PTL DEF UThreadSpec

(* For any number of threads: swapcontext() and uc_link never lose a       *)
(* thread's context, resume one that has returned or one that was never    *)
(* saved, although uthread_curr goes stale whenever a thread returns.      *)
THEOREM ContextsAreKept == UThreadSpec => []ContextsKept
  <1>1. ThreadInv => ContextsKept
    BY DEF ThreadInv, ThreadTypes, SavedInv, DeadInv, Dead, ContextsKept
  <1> QED
    BY ThreadInvariance, <1>1, PTL

(* For any number of threads and any lengths of their loops: of two        *)
(* threads that have not returned neither gets a turn more than the order  *)
(* of the slots explains.                                                  *)
THEOREM TurnsGoRound == UThreadSpec => []RoundRobin
  <1>1. ThreadInv /\ LevelInv => RoundRobin
    <2> SUFFICES ASSUME ThreadInv, LevelInv, NEW s \in Created, NEW t \in Created,
                        s < t, Live(s), Live(t)
                 PROVE  Turns(s) \in {Turns(t), Turns(t) + 1}
      BY DEF RoundRobin
    <2>1. Turns(s) \in Nat /\ Turns(t) \in Nat
      BY DEF Turns, ThreadInv, ThreadTypes, Created
    <2>2. Level(s) = Level(t)
      BY DEF LevelInv
    <2>3. s \in Nat /\ t \in Nat /\ uthread_curr \in Nat
      BY UThreadAssumption DEF ThreadInv, ThreadTypes, Created, Tids, Slots
    <2> QED
      BY <2>1, <2>2, <2>3 DEF Level
  <1> QED
    BY ThreadInvariance, <1>1, PTL

(* main() leaves its loop only after every thread has gone through its     *)
(* own: the part of Finishes that needs no fairness.                       *)
WaitsForAll == pc = "exited" => i = rounds

(* For any number of threads: uthread_finished_count, which main() compares *)
(* with the number of threads it created, reaches it only when none is     *)
(* left, so main() never returns under a thread that still has rounds to   *)
(* go.                                                                     *)
THEOREM MainWaits == UThreadSpec => []WaitsForAll
  <1> DEFINE AllCounted == pc = "exited" => uthread_finished_count = N
  <1>1. UThreadInit => AllCounted
    BY DEF UThreadInit
  <1>2. ThreadInv /\ AllCounted /\ [UThreadNext]_uthreadVars => AllCounted'
    <2> SUFFICES ASSUME ThreadInv, AllCounted, [UThreadNext]_uthreadVars, pc' = "exited"
                 PROVE  uthread_finished_count' = N
      OBVIOUS
    <2>1. ~ Create /\ ~ Resumed
      BY DEF Create, Resumed
    <2>2. ~ Schedule
      <3> SUFFICES ASSUME Schedule PROVE pc' # "exited"
        OBVIOUS
      <3>1. Following \in Slots
        BY FollowingIs, UThreadAssumption DEF Schedule, ThreadInv, ThreadTypes, CreateInv, Slots
      <3> QED
        BY <3>1 DEF Schedule, Switch, Resume, ThreadInv, ThreadTypes, Contexts
    <2>3. ~ Return
      <3>1. ucntx[0] \in Contexts
        BY UThreadAssumption DEF ThreadInv, ThreadTypes, Slots
      <3> QED
        BY <3>1 DEF Return, Resume, Contexts
    <2>4. Exit \/ UNCHANGED uthreadVars
      BY <2>1, <2>2, <2>3 DEF UThreadNext
    <2> QED
      BY <2>4 DEF Exit, uthreadVars
  <1>3. ThreadInv /\ AllCounted => WaitsForAll
    <2> SUFFICES ASSUME ThreadInv, AllCounted, pc = "exited" PROVE i = rounds
      BY DEF WaitsForAll
    <2>1. Dead \in SUBSET Tids /\ IsFiniteSet(Tids) /\ Cardinality(Tids) = N
      BY FS_Interval, UThreadAssumption DEF Dead, Created, Tids
    <2>2. Dead = Tids
      BY <2>1, FS_Subset DEF ThreadInv, DeadInv
    <2> QED
      BY <2>2 DEF ThreadInv, ThreadTypes, DeadInv
  <1> QED
    BY <1>1, <1>2, <1>3, ThreadInvariance, PTL DEF UThreadSpec

-----------------------------------------------------------------------------
(* The echo servers: EchoesOwnNumber for any clients and numbers.  The     *)
(* property is about what a client has read; the induction follows its     *)
(* number on the way: from the client's socket into num, and from there to *)
(* the client.                                                             *)
(* What client c is to be answered.                                        *)
Answer(c) == IF family = "AF_UNIX" THEN number[c] ELSE GREETING

Shapes ==
    /\ family \in {"AF_UNIX", "AF_INET"}
    /\ backlog \in Seq(Clients)
    /\ cpc \in [Clients -> {"new", "send", "receive", "left", "killed"}]
    /\ DOMAIN inbox = Clients /\ DOMAIN outbox = Clients /\ DOMAIN res = Clients
    /\ spc \in {"read", "write"} => serving \in Clients

(* The number a client sends arrives as it is.                             *)
Sent == \A c \in Clients : inbox[c] # NONE => inbox[c] = number[c]

(* When the server is about to write, num is the number of the client it   *)
(* serves, unless that client will never read it.                          *)
NumCurrent ==
    family = "AF_UNIX" /\ spc = "write" => num = number[serving] \/ cpc[serving] = "killed"

(* What has been written to a client that is there is its answer.          *)
Answered ==
    \A c \in Clients : outbox[c] # NONE => outbox[c] = Answer(c) \/ cpc[c] = "killed"

EchoInv == Shapes /\ Sent /\ NumCurrent /\ Answered /\ EchoesOwnNumber

LEMMA EchoStart == EchoInit => EchoInv
  <1> SUFFICES ASSUME EchoInit PROVE EchoInv
    OBVIOUS
  <1>1. Shapes
    BY DEF EchoInit, Shapes
  <1>2. Sent /\ NumCurrent /\ Answered /\ EchoesOwnNumber
    BY DEF EchoInit, Sent, NumCurrent, Answered, EchoesOwnNumber
  <1> QED
    BY <1>1, <1>2 DEF EchoInv

LEMMA ServerStep == EchoInv /\ Server => EchoInv'
  <1> SUFFICES ASSUME EchoInv, Server PROVE EchoInv'
    OBVIOUS
  <1> USE DEF EchoInv, Shapes
  <1>1. CASE Accept
    <2>1. Shapes'
      BY <1>1 DEF Accept
    <2>2. (Sent /\ NumCurrent /\ Answered /\ EchoesOwnNumber)'
      BY <1>1 DEF Accept, Sent, NumCurrent, Answered, EchoesOwnNumber, Answer
    <2> QED
      BY <2>1, <2>2
  (* A client that has sent nothing is readable only once it is killed.    *)
  <1>2. CASE Read
    <2>1. Shapes' /\ Sent'
      BY <1>2 DEF Read, Sent
    <2>2. NumCurrent'
      BY <1>2 DEF Read, Readable, Sent, NumCurrent
    <2>3. (Answered /\ EchoesOwnNumber)'
      BY <1>2 DEF Read, Answered, EchoesOwnNumber, Answer
    <2> QED
      BY <2>1, <2>2, <2>3
  <1>3. CASE Recv
    <2>1. Shapes' /\ Sent'
      BY <1>3 DEF Recv, Sent
    <2>2. (NumCurrent /\ Answered /\ EchoesOwnNumber)'
      BY <1>3 DEF Recv, NumCurrent, Answered, EchoesOwnNumber, Answer
    <2> QED
      BY <2>1, <2>2
  <1>4. ASSUME End PROVE EchoInv'
    BY <1>4 DEF End, Sent, NumCurrent, Answered, EchoesOwnNumber, Answer
  <1>5. ASSUME NEW message, Reply(message), spc = "write",
               message = Answer(serving) \/ cpc[serving] = "killed"
        PROVE  EchoInv'
    <2>1. Shapes' /\ Sent' /\ NumCurrent' /\ EchoesOwnNumber'
      BY <1>5 DEF Reply, Sent, NumCurrent, EchoesOwnNumber
    <2>2. Answered'
      BY <1>5 DEF Reply, Answered, Answer
    <2> QED
      BY <2>1, <2>2
  <1>6. CASE Write
    <2>1. CASE cpc[serving] = "killed"
      BY <1>4, <1>6, <2>1 DEF Write
    <2>2. CASE cpc[serving] # "killed"
      <3>1. Reply(num) /\ spc = "write" /\ num = Answer(serving)
        BY <1>6, <2>2 DEF Write, NumCurrent, Answer
      <3> QED
        BY <1>5, <3>1
    <2> QED
      BY <2>1, <2>2
  <1>7. CASE Send
    <2>1. spc = "write" /\ GREETING = Answer(serving)
      BY <1>7 DEF Send, Answer
    <2> QED
      BY <1>4, <1>5, <1>7, <2>1 DEF Send
  <1> QED
    BY <1>1, <1>2, <1>3, <1>6, <1>7 DEF Server

LEMMA ClientStep ==
    ASSUME NEW c \in Clients, EchoInv, Client(c) \/ Kill(c)
    PROVE  EchoInv'
  <1> USE DEF EchoInv, Shapes, Move
  <1>1. CASE Connect(c)
    <2>1. Shapes' /\ Sent'
      <3>1. Append(backlog, c) \in Seq(Clients)
        OBVIOUS
      <3>2. backlog' \in Seq(Clients)
        BY <1>1, <3>1 DEF Connect
      <3>3. cpc' \in [Clients -> {"new", "send", "receive", "left", "killed"}]
        BY <1>1 DEF Connect
      <3>4. UNCHANGED <<family, number, serving, spc, inbox, outbox, res>>
        BY <1>1 DEF Connect
      <3> QED BY <3>2, <3>3, <3>4 DEF Sent
    <2>2. (NumCurrent /\ Answered)'
      <3>1. /\ UNCHANGED <<family, number, serving, spc, num, outbox>>
            /\ \A d \in Clients : d # c => cpc'[d] = cpc[d]
            /\ cpc[c] = "new" /\ cpc'[c] # "killed"
        BY <1>1 DEF Connect
      <3>2. NumCurrent'
        BY <3>1 DEF NumCurrent
      <3>3. Answered'
        BY <3>1 DEF Answered, Answer
      <3> QED BY <3>2, <3>3
    <2>3. EchoesOwnNumber'
      BY <1>1 DEF Connect, EchoesOwnNumber
    <2> QED
      BY <2>1, <2>2, <2>3
  <1>2. CASE ClientSends(c)
    <2>1. Shapes' /\ Sent'
      BY <1>2 DEF ClientSends, Sent
    <2>2. (NumCurrent /\ Answered /\ EchoesOwnNumber)'
      BY <1>2 DEF ClientSends, NumCurrent, Answered, EchoesOwnNumber, Answer
    <2> QED
      BY <2>1, <2>2
  <1>3. CASE ClientReceives(c)
    <2>1. Shapes' /\ Sent'
      BY <1>3 DEF ClientReceives, Sent
    <2>2. (NumCurrent /\ Answered)'
      BY <1>3 DEF ClientReceives, NumCurrent, Answered, Answer
    (* A client that reads is there, so what it finds is its answer.       *)
    <2>3. outbox[c] # NONE => outbox[c] = Answer(c)
      BY <1>3 DEF ClientReceives, Answered
    <2>4. EchoesOwnNumber'
      BY <1>3, <2>3 DEF ClientReceives, EchoesOwnNumber, Answer
    <2> QED
      BY <2>1, <2>2, <2>4
  <1>4. CASE Kill(c)
    <2>1. Shapes' /\ Sent'
      BY <1>4 DEF Kill, Sent
    <2>2. (NumCurrent /\ Answered /\ EchoesOwnNumber)'
      BY <1>4 DEF Kill, NumCurrent, Answered, EchoesOwnNumber, Answer
    <2> QED
      BY <2>1, <2>2
  <1> QED
    BY <1>1, <1>2, <1>3, <1>4 DEF Client

(* However many clients connect, and whichever are killed before or after  *)
(* they have sent their number, nobody reads another client's number from  *)
(* the variable that the server never resets.                              *)
THEOREM OwnNumber == EchoSpec => []EchoesOwnNumber
  <1>1. EchoInv /\ [EchoNext]_echoVars => EchoInv'
    <2> SUFFICES ASSUME EchoInv, [EchoNext]_echoVars PROVE EchoInv'
      OBVIOUS
    <2>1. CASE EchoNext
      BY <2>1, ServerStep, ClientStep DEF EchoNext
    <2>2. CASE UNCHANGED echoVars
      BY <2>2 DEF echoVars, EchoInv, Shapes, Sent, NumCurrent, Answered, EchoesOwnNumber, Answer
    <2> QED
      BY <2>1, <2>2
  <1>2. EchoInv => EchoesOwnNumber
    BY DEF EchoInv
  <1> QED
    BY EchoStart, <1>1, <1>2, PTL DEF EchoSpec
=============================================================================
