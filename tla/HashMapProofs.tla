--------------------------- MODULE HashMapProofs ---------------------------
(***************************************************************************)
(* Proofs about the hash map of map.c: for every set of keys and values    *)
(* and every hash function the buckets keep their shape, and what          *)
(* map_get_() returns is a partial function.                               *)
(***************************************************************************)
EXTENDS HashMap, LeastNumber, FiniteSetTheorems, SequenceTheorems, TLAPS

Entries == [key : Keys, value : Values]

(* Every node is where its hash says, and no chain has a key twice.        *)
Shape(bs) ==
    /\ bs \in Seq(Seq(Entries))
    /\ \A j \in 1 .. Len(bs) : \A p \in 1 .. Len(bs[j]) :
          /\ BucketIdx(bs[j][p].key, Len(bs)) = j
          /\ \A q \in 1 .. Len(bs[j]) : bs[j][p].key = bs[j][q].key => p = q

(* The nodes of the map.                                                   *)
Present(bs) == {e \in Entries : \E j \in 1 .. Len(bs) : \E p \in 1 .. Len(bs[j]) : bs[j][p] = e}

LEMMA IdxRange ==
    ASSUME NEW k \in Keys, NEW n \in Nat \ {0} PROVE BucketIdx(k, n) \in 1 .. n
<1>1. Hash[k] \in Nat
  BY MapAssumption
<1> QED BY <1>1 DEF BucketIdx

LEMMA TwoToIs ==
    /\ TwoTo[0] = 1
    /\ \A e \in Nat : TwoTo[e] \in Nat \ {0} /\ TwoTo[e + 1] = 2 * TwoTo[e]
<1> DEFINE S == Nat \ {0}
           f == [n \in Nat |-> [s \in S |-> 2 * s]]
<1>1. f \in [Nat -> [S -> S]] /\ 1 \in S
  OBVIOUS
<1>2. PICK g \in [Nat -> S] : g[0] = 1 /\ \A n \in Nat \ {0} : g[n] = 2 * g[n - 1]
  <2>1. PICK g : Forever(S, 1, f, g)
    <3> HIDE DEF S, f
    <3> QED BY <1>1, IteratesForever
  <2>2. ASSUME NEW n \in Nat \ {0} PROVE g[n] = 2 * g[n - 1]
    <3>1. g[n - 1] \in S
      BY <2>1 DEF Forever
    <3> QED BY <2>1, <3>1 DEF Forever
  <2> QED BY <2>1, <2>2 DEF Forever
<1>3. g = [e \in Nat |-> IF e = 0 THEN 1 ELSE 2 * g[e - 1]]
  BY <1>2
<1>4. TwoTo = [e \in Nat |-> IF e = 0 THEN 1 ELSE 2 * TwoTo[e - 1]]
  BY <1>3 DEF TwoTo
<1>5. \A e \in Nat : TwoTo[e + 1] = 2 * TwoTo[e]
  BY <1>4
<1>6. TwoTo[0] = 1
  BY <1>4
<1> DEFINE T == {e \in Nat : TwoTo[e] \notin S}
<1>7. ASSUME NEW m \in T, \A n \in T : m <= n PROVE FALSE
  <2>1. m \in Nat /\ m # 0 /\ TwoTo[m] \notin S
    BY <1>6
  <2>2. m - 1 \in Nat /\ m - 1 \notin T
    BY <1>7, <2>1
  <2>3. TwoTo[m - 1] \in S /\ TwoTo[m] = 2 * TwoTo[m - 1]
    BY <1>4, <2>1, <2>2
  <2> QED BY <2>1, <2>3
<1>8. T \in SUBSET Nat
  OBVIOUS
<1> HIDE DEF T
<1>9. T = {}
  BY <1>7, <1>8, Least
<1> QED BY <1>5, <1>6, <1>9 DEF T

-----------------------------------------------------------------------------
(* map_getref() and map_get_() of any buckets.                             *)
Ref(bs, k) ==
    IF Len(bs) = 0 THEN 0
    ELSE SelectInSeq(bs[BucketIdx(k, Len(bs))], LAMBDA e : e.key = k)

Get(bs, k) == IF Ref(bs, k) = 0 THEN NULL ELSE bs[BucketIdx(k, Len(bs))][Ref(bs, k)].value

LEMMA LookupIs ==
    ASSUME NEW k
    PROVE  /\ GetRef(k) = Ref(buckets, k) /\ MapGet(k) = Get(buckets, k)
           /\ GetRef(k)' = Ref(buckets', k) /\ MapGet(k)' = Get(buckets', k)
<1>1. GetRef(k) = Ref(buckets, k) /\ GetRef(k)' = Ref(buckets', k)
  BY DEF GetRef, Ref, nbuckets, SelectInSeq
<1> QED BY <1>1 DEF MapGet, Get, nbuckets

(* A chain that is searched is one of the buckets, and a node is found if  *)
(* and only if there is one.                                               *)
LEMMA RefIs ==
    ASSUME NEW bs, Shape(bs), NEW k \in Keys
    PROVE  /\ Ref(bs, k) = 0 => \A e \in Present(bs) : e.key # k
           /\ Ref(bs, k) # 0 =>
                /\ Len(bs) \in Nat \ {0} /\ BucketIdx(k, Len(bs)) \in 1 .. Len(bs)
                /\ Ref(bs, k) \in 1 .. Len(bs[BucketIdx(k, Len(bs))])
                /\ bs[BucketIdx(k, Len(bs))][Ref(bs, k)].key = k
<1>1. Len(bs) \in Nat
  BY DEF Shape
<1>2. CASE Len(bs) = 0
  BY <1>2 DEF Ref, Present
<1>3. CASE Len(bs) # 0
  <2> DEFINE j == BucketIdx(k, Len(bs))
             I == {p \in 1 .. Len(bs[j]) : bs[j][p].key = k}
  <2>1. j \in 1 .. Len(bs)
    BY <1>1, <1>3, IdxRange
  <2>2. Ref(bs, k) = IF I # {} THEN Min(I) ELSE 0
    BY <1>3 DEF Ref, SelectInSeq
  <2>3. I \in SUBSET Nat /\ I \subseteq 1 .. Len(bs[j])
    BY <2>1 DEF Shape
  <2>4. CASE I # {}
    <3>1. PICK m \in I : \A n \in I : m <= n
      <4> HIDE DEF I
      <4> QED BY <2>3, <2>4, Least
    <3>2. Min(I) \in I
      BY <3>1 DEF Min
    <3>3. Ref(bs, k) \in I /\ Ref(bs, k) # 0
      BY <2>2, <2>3, <2>4, <3>2
    <3> QED BY <1>1, <1>3, <2>1, <3>3
  <2>5. CASE I = {}
    <3>1. Ref(bs, k) = 0
      BY <2>2, <2>5
    <3>2. ASSUME NEW e \in Present(bs), e.key = k PROVE FALSE
      <4>1. PICK i \in 1 .. Len(bs) : \E p \in 1 .. Len(bs[i]) : bs[i][p] = e
        BY DEF Present
      <4>2. PICK p \in 1 .. Len(bs[i]) : bs[i][p] = e
        BY <4>1
      <4>3. i = j
        BY <3>2, <4>2 DEF Shape
      <4> QED BY <2>5, <3>2, <4>2, <4>3
    <3> QED BY <3>1, <3>2
  <2> QED BY <2>4, <2>5
<1> QED BY <1>2, <1>3

(* A key has one node: where its hash says, and there once.                *)
LEMMA OneNode ==
    ASSUME NEW bs, Shape(bs), NEW d \in Present(bs), NEW e \in Present(bs), d.key = e.key
    PROVE  d = e
<1>1. PICK i \in 1 .. Len(bs) : \E p \in 1 .. Len(bs[i]) : bs[i][p] = d
  BY DEF Present
<1>2. PICK p \in 1 .. Len(bs[i]) : bs[i][p] = d
  BY <1>1
<1>3. PICK j \in 1 .. Len(bs) : \E q \in 1 .. Len(bs[j]) : bs[j][q] = e
  BY DEF Present
<1>4. PICK q \in 1 .. Len(bs[j]) : bs[j][q] = e
  BY <1>3
<1>5. i = j
  BY <1>2, <1>4 DEF Shape
<1>6. p = q
  BY <1>2, <1>4, <1>5 DEF Shape
<1> QED BY <1>2, <1>4, <1>5, <1>6

LEMMA NodeAt ==
    ASSUME NEW bs, Shape(bs), NEW j \in 1 .. Len(bs), NEW p \in 1 .. Len(bs[j])
    PROVE  /\ bs[j] \in Seq(Entries) /\ bs[j][p] \in Entries /\ bs[j][p] \in Present(bs)
           /\ Len(bs) \in Nat /\ Len(bs[j]) \in Nat
<1>1. bs[j] \in Seq(Entries) /\ Len(bs) \in Nat
  BY DEF Shape
<1>2. bs[j][p] \in Entries /\ Len(bs[j]) \in Nat
  BY <1>1
<1> QED BY <1>1, <1>2 DEF Present

(* What map_get_() returns is what the nodes say.                          *)
LEMMA GetIs ==
    ASSUME NEW bs, Shape(bs), NEW k \in Keys
    PROVE  /\ \A e \in Present(bs) : e.key = k => Get(bs, k) = e.value
           /\ (\A e \in Present(bs) : e.key # k) => Get(bs, k) = NULL
<1>1. ASSUME NEW e \in Present(bs), e.key = k PROVE Get(bs, k) = e.value
  <2>1. Ref(bs, k) # 0
    BY <1>1, RefIs
  <2> DEFINE d == bs[BucketIdx(k, Len(bs))][Ref(bs, k)]
  <2>2. d.key = k /\ d \in Present(bs)
    BY <2>1, RefIs, NodeAt
  <2>3. d = e
    BY <1>1, <2>2, OneNode
  <2> QED BY <2>1, <2>3 DEF Get
<1>2. ASSUME \A e \in Present(bs) : e.key # k PROVE Get(bs, k) = NULL
  <2>1. Ref(bs, k) = 0
    BY <1>2, RefIs, NodeAt
  <2> QED BY <2>1 DEF Get
<1> QED BY <1>1, <1>2

-----------------------------------------------------------------------------
(* One chain is replaced by another that belongs into its bucket.          *)
LEMMA ChainKeeps ==
    ASSUME NEW bs, Shape(bs), NEW i \in 1 .. Len(bs), NEW c \in Seq(Entries),
           \A p \in 1 .. Len(c) :
              /\ BucketIdx(c[p].key, Len(bs)) = i
              /\ \A q \in 1 .. Len(c) : c[p].key = c[q].key => p = q,
           NEW ns, ns = [bs EXCEPT ![i] = c]
    PROVE  /\ Shape(ns) /\ Len(ns) = Len(bs)
           /\ \A e : e \in Present(ns) <=>
                 \/ \E p \in 1 .. Len(c) : c[p] = e
                 \/ e \in Present(bs) /\ BucketIdx(e.key, Len(bs)) # i
<1>1. bs \in Seq(Seq(Entries)) /\ Len(bs) \in Nat
  BY DEF Shape
<1>2. /\ ns \in Seq(Seq(Entries)) /\ Len(ns) = Len(bs) /\ ns[i] = c
      /\ \A j \in 1 .. Len(bs) : j # i => ns[j] = bs[j]
  <2> DEFINE C == Seq(Entries)
  <2>1. bs \in Seq(C) /\ c \in C
    BY <1>1
  <2> HIDE DEF C
  <2>2. ns \in Seq(C) /\ Len(ns) = Len(bs) /\ DOMAIN bs = 1 .. Len(bs)
    BY <2>1, ExceptSeq
  <2>3. ns[i] = c /\ \A j \in 1 .. Len(bs) : j # i => ns[j] = bs[j]
    BY <2>2
  <2> QED BY <2>2, <2>3 DEF C
<1>3. Shape(ns)
  <2>1. ASSUME NEW j \in 1 .. Len(ns), NEW p \in 1 .. Len(ns[j])
        PROVE  /\ BucketIdx(ns[j][p].key, Len(ns)) = j
               /\ \A q \in 1 .. Len(ns[j]) : ns[j][p].key = ns[j][q].key => p = q
    <3>1. CASE j = i
      BY <1>2, <3>1
    <3>2. CASE j # i
      BY <1>2, <3>2 DEF Shape
    <3> QED BY <3>1, <3>2
  <2> QED BY <1>2, <2>1 DEF Shape
<1>4. ASSUME NEW e \in Present(ns)
      PROVE  \/ \E p \in 1 .. Len(c) : c[p] = e
             \/ e \in Present(bs) /\ BucketIdx(e.key, Len(bs)) # i
  <2>1. PICK j \in 1 .. Len(ns) : \E p \in 1 .. Len(ns[j]) : ns[j][p] = e
    BY DEF Present
  <2>2. CASE j = i
    BY <1>2, <2>1, <2>2
  <2>3. CASE j # i
    <3>1. PICK p \in 1 .. Len(bs[j]) : bs[j][p] = e
      BY <1>2, <2>1, <2>3
    <3>2. BucketIdx(e.key, Len(bs)) = j
      BY <1>2, <3>1 DEF Shape
    <3>3. e \in Present(bs)
      BY <1>2, <3>1, NodeAt
    <3> QED BY <2>3, <3>2, <3>3
  <2> QED BY <2>2, <2>3
<1>5. ASSUME NEW p \in 1 .. Len(c) PROVE c[p] \in Present(ns)
  BY <1>2, <1>3, NodeAt
<1>6. ASSUME NEW e \in Present(bs), BucketIdx(e.key, Len(bs)) # i PROVE e \in Present(ns)
  <2>1. PICK j \in 1 .. Len(bs) : \E p \in 1 .. Len(bs[j]) : bs[j][p] = e
    BY DEF Present
  <2>2. PICK p \in 1 .. Len(bs[j]) : bs[j][p] = e
    BY <2>1
  <2>3. j # i
    BY <1>6, <2>2 DEF Shape
  <2> QED BY <1>2, <1>3, <2>2, <2>3, NodeAt
<1> QED BY <1>2, <1>3, <1>4, <1>5, <1>6

(* map_addnode() of a node with a new key.                                 *)
LEMMA AddNodeKeeps ==
    ASSUME NEW bs, Shape(bs), Len(bs) # 0, NEW e \in Entries,
           \A d \in Present(bs) : d.key # e.key
    PROVE  /\ Shape(AddNode(bs, e)) /\ Len(AddNode(bs, e)) = Len(bs)
           /\ Present(AddNode(bs, e)) = Present(bs) \cup {e}
<1> DEFINE i == BucketIdx(e.key, Len(bs))
           c == <<e>> \o bs[i]
           ns == AddNode(bs, e)
<1>1. e.key \in Keys /\ Len(bs) \in Nat \ {0}
  BY DEF Entries, Shape
<1>2. i \in 1 .. Len(bs)
  BY <1>1, IdxRange
<1>3. bs[i] \in Seq(Entries) /\ Len(bs[i]) \in Nat
  BY <1>2 DEF Shape
<1>4. /\ c \in Seq(Entries) /\ Len(c) = Len(bs[i]) + 1 /\ c[1] = e
      /\ \A p \in 2 .. Len(c) : c[p] = bs[i][p - 1]
  BY <1>3
<1>5. ns = [bs EXCEPT ![i] = c]
  BY DEF AddNode
<1> HIDE DEF c, ns
<1>6. ASSUME NEW p \in 2 .. Len(c)
      PROVE  /\ p - 1 \in 1 .. Len(bs[i]) /\ c[p].key # e.key
             /\ BucketIdx(c[p].key, Len(bs)) = i
  <2>1. p - 1 \in 1 .. Len(bs[i])
    BY <1>3, <1>4
  <2>2. bs[i][p - 1] \in Present(bs)
    BY <1>2, <2>1, NodeAt
  <2>3. BucketIdx(bs[i][p - 1].key, Len(bs)) = i
    BY <1>2, <2>1 DEF Shape
  <2>4. c[p] = bs[i][p - 1]
    BY <1>4
  <2> QED BY <2>1, <2>2, <2>3, <2>4
<1>7. ASSUME NEW p \in 1 .. Len(c)
      PROVE  /\ BucketIdx(c[p].key, Len(bs)) = i
             /\ \A q \in 1 .. Len(c) : c[p].key = c[q].key => p = q
  <2>1. CASE p = 1
    BY <1>3, <1>4, <1>6, <2>1
  <2>2. CASE p # 1
    <3>1. p \in 2 .. Len(c)
      BY <1>3, <1>4, <2>2
    <3>2. ASSUME NEW q \in 1 .. Len(c), c[p].key = c[q].key PROVE p = q
      <4>1. q \in 2 .. Len(c)
        BY <1>3, <1>4, <1>6, <3>1, <3>2
      <4>2. bs[i][p - 1].key = bs[i][q - 1].key
        BY <1>4, <3>1, <3>2, <4>1
      <4>3. p - 1 = q - 1
        BY <1>2, <1>6, <3>1, <4>1, <4>2 DEF Shape
      <4> QED BY <3>1, <4>1, <4>3
    <3> QED BY <1>6, <3>1, <3>2
  <2> QED BY <2>1, <2>2
<1>8. /\ Shape(ns) /\ Len(ns) = Len(bs)
      /\ \A d : d \in Present(ns) <=>
            \/ \E p \in 1 .. Len(c) : c[p] = d
            \/ d \in Present(bs) /\ BucketIdx(d.key, Len(bs)) # i
  <2> HIDE DEF i
  <2> QED BY <1>2, <1>4, <1>5, <1>7, ChainKeeps
<1>9. ASSUME NEW d PROVE d \in Present(ns) <=> d \in Present(bs) \/ d = e
  <2>1. ASSUME NEW p \in 1 .. Len(c), c[p] = d PROVE d \in Present(bs) \/ d = e
    <3>1. CASE p = 1
      BY <1>4, <2>1, <3>1
    <3>2. CASE p # 1
      <4>1. p \in 2 .. Len(c)
        BY <1>3, <1>4, <3>2
      <4> QED BY <1>2, <1>4, <1>6, <2>1, <4>1, NodeAt
    <3> QED BY <3>1, <3>2
  <2>2. d = e => \E p \in 1 .. Len(c) : c[p] = d
    BY <1>3, <1>4
  <2>3. ASSUME d \in Present(bs), BucketIdx(d.key, Len(bs)) = i
        PROVE  \E p \in 1 .. Len(c) : c[p] = d
    <3>1. PICK j \in 1 .. Len(bs) : \E q \in 1 .. Len(bs[j]) : bs[j][q] = d
      BY <2>3 DEF Present
    <3>2. PICK q \in 1 .. Len(bs[j]) : bs[j][q] = d
      BY <3>1
    <3>3. j = i
      BY <2>3, <3>2 DEF Shape
    <3>4. q \in 1 .. Len(bs[i]) /\ bs[i][q] = d
      BY <3>2, <3>3
    <3>5. q + 1 \in 2 .. Len(c) /\ q + 1 \in 1 .. Len(c) /\ (q + 1) - 1 = q
      BY <1>3, <1>4, <3>4
    <3>6. c[q + 1] = d
      BY <1>3, <1>4, <3>4, <3>5
    <3> QED BY <3>5, <3>6
  <2> QED BY <1>8, <2>1, <2>2, <2>3
<1>10. Present(ns) = Present(bs) \cup {e}
  BY <1>9
<1> QED BY <1>8, <1>10 DEF ns

LEMMA RemoveAtIs ==
    ASSUME NEW S, NEW b \in Seq(S), NEW r \in 1 .. Len(b), NEW c, c = RemoveAt(b, r)
    PROVE  /\ c \in Seq(S) /\ Len(c) = Len(b) - 1
           /\ \A p \in 1 .. r - 1 : c[p] = b[p]
           /\ \A p \in r .. Len(c) : c[p] = b[p + 1]
<1> DEFINE d == SubSeq(b, 1, r - 1)
           e == SubSeq(b, r + 1, Len(b))
<1>1. Len(b) \in Nat /\ r \in Nat /\ r >= 1 /\ r <= Len(b)
  OBVIOUS
<1>2. d \in Seq(S) /\ Len(d) = r - 1 /\ \A p \in 1 .. r - 1 : d[p] = b[p]
  BY <1>1
<1>3. e \in Seq(S) /\ Len(e) = Len(b) - r /\ \A p \in 1 .. Len(b) - r : e[p] = b[r + p]
  BY <1>1
<1>4. c = d \o e
  BY DEF RemoveAt
<1> HIDE DEF d, e
<1>5. c \in Seq(S) /\ Len(c) = Len(b) - 1
  <2>1. d \in Seq(S) /\ e \in Seq(S)
    BY <1>2, <1>3
  <2>2. c \in Seq(S) /\ Len(c) = Len(d) + Len(e)
    BY <1>4, <2>1
  <2> QED BY <1>1, <1>2, <1>3, <2>2
<1>6. ASSUME NEW p \in 1 .. r - 1 PROVE c[p] = b[p]
  BY <1>1, <1>2, <1>3, <1>4
<1>7. ASSUME NEW p \in r .. Len(c) PROVE c[p] = b[p + 1]
  <2>1. p - (r - 1) \in 1 .. Len(b) - r /\ p > Len(d) /\ p \in Nat
    BY <1>1, <1>2, <1>5
  <2>2. c[p] = e[p - (r - 1)]
    BY <1>1, <1>2, <1>3, <1>4, <2>1
  <2>3. e[p - (r - 1)] = b[r + (p - (r - 1))]
    BY <1>3, <2>1
  <2> QED BY <1>1, <2>1, <2>2, <2>3
<1> QED BY <1>5, <1>6, <1>7

(* map_remove_() of a key that is there: its node and no other is gone.    *)
LEMMA RemoveKeeps ==
    ASSUME NEW bs, Shape(bs), NEW k \in Keys, Ref(bs, k) # 0, NEW ns,
           ns = [bs EXCEPT ![BucketIdx(k, Len(bs))] = RemoveAt(@, Ref(bs, k))]
    PROVE  /\ Shape(ns) /\ Len(ns) = Len(bs)
           /\ Present(ns) = {e \in Present(bs) : e.key # k}
<1> DEFINE i == BucketIdx(k, Len(bs))
           r == Ref(bs, k)
           b == bs[i]
           c == RemoveAt(b, r)
<1>1. /\ i \in 1 .. Len(bs) /\ r \in 1 .. Len(b) /\ b[r].key = k /\ Len(bs) \in Nat
      /\ b \in Seq(Entries) /\ Len(b) \in Nat
  BY RefIs, NodeAt
<1>2. ns = [bs EXCEPT ![i] = c]
  OBVIOUS
<1>3. /\ \A p \in 1 .. Len(b) :
            /\ BucketIdx(b[p].key, Len(bs)) = i
            /\ \A q \in 1 .. Len(b) : b[p].key = b[q].key => p = q
      /\ \A p \in 1 .. Len(b) : b[p] \in Present(bs)
  BY <1>1, NodeAt DEF Shape
<1>4. ASSUME NEW e \in Present(bs), BucketIdx(e.key, Len(bs)) = i
      PROVE  \E p \in 1 .. Len(b) : b[p] = e
  <2>1. PICK j \in 1 .. Len(bs) : \E q \in 1 .. Len(bs[j]) : bs[j][q] = e
    BY DEF Present
  <2>2. PICK q \in 1 .. Len(bs[j]) : bs[j][q] = e
    BY <2>1
  <2>3. j = i
    BY <1>4, <2>2 DEF Shape
  <2> QED BY <2>2, <2>3
<1>5. BucketIdx(k, Len(bs)) = i
  OBVIOUS
<1> HIDE DEF i, r, b, c
<1>6. /\ c \in Seq(Entries) /\ Len(c) = Len(b) - 1
      /\ \A p \in 1 .. r - 1 : c[p] = b[p]
      /\ \A p \in r .. Len(c) : c[p] = b[p + 1]
  BY <1>1, RemoveAtIs DEF c
<1> DEFINE from(p) == IF p < r THEN p ELSE p + 1
<1>7. \A p \in 1 .. Len(c) : from(p) \in 1 .. Len(b) /\ from(p) # r /\ c[p] = b[from(p)]
  BY <1>1, <1>6
<1>8. \A p, q \in 1 .. Len(c) : from(p) = from(q) => p = q
  <2>1. \A p, q \in Nat : from(p) = from(q) => p = q
    <3>1. r \in Nat
      BY <1>1
    <3> QED BY <3>1
  <2> HIDE DEF from
  <2> QED BY <2>1
<1>9. ASSUME NEW q \in 1 .. Len(b), q # r PROVE \E p \in 1 .. Len(c) : c[p] = b[q]
  <2>1. CASE q < r
    BY <1>1, <1>6, <2>1
  <2>2. CASE q > r
    <3>1. q - 1 \in r .. Len(c) /\ q - 1 \in 1 .. Len(c)
      BY <1>1, <1>6, <2>2
    <3>2. c[q - 1] = b[(q - 1) + 1]
      BY <1>6, <3>1
    <3> QED BY <1>1, <3>1, <3>2
  <2> QED BY <1>1, <1>9, <2>1, <2>2
<1> HIDE DEF from
<1>10. \A p \in 1 .. Len(c) :
          /\ BucketIdx(c[p].key, Len(bs)) = i
          /\ \A q \in 1 .. Len(c) : c[p].key = c[q].key => p = q
  <2>1. ASSUME NEW p \in 1 .. Len(c), NEW q \in 1 .. Len(c), c[p].key = c[q].key PROVE p = q
    <3>1. from(p) = from(q)
      BY <1>3, <1>7, <2>1
    <3> QED BY <1>8, <3>1
  <2>2. \A p \in 1 .. Len(c) : BucketIdx(c[p].key, Len(bs)) = i
    BY <1>3, <1>7
  <2> QED BY <2>1, <2>2
<1>11. /\ Shape(ns) /\ Len(ns) = Len(bs)
       /\ \A e : e \in Present(ns) <=>
             \/ \E p \in 1 .. Len(c) : c[p] = e
             \/ e \in Present(bs) /\ BucketIdx(e.key, Len(bs)) # i
  <2>1. i \in 1 .. Len(bs) /\ c \in Seq(Entries)
    BY <1>1, <1>6
  <2> HIDE DEF i, r, b, c
  <2> QED BY <1>2, <1>10, <2>1, ChainKeeps
<1>12. ASSUME NEW e PROVE e \in Present(ns) <=> e \in Present(bs) /\ e.key # k
  <2>1. ASSUME NEW p \in 1 .. Len(c), c[p] = e PROVE e \in Present(bs) /\ e.key # k
    <3>1. from(p) \in 1 .. Len(b) /\ from(p) # r /\ e = b[from(p)]
      BY <1>7, <2>1
    <3>2. e.key # b[r].key
      BY <1>1, <1>3, <3>1
    <3> QED BY <1>1, <1>3, <3>1, <3>2
  <2>2. ASSUME e \in Present(bs), e.key # k, BucketIdx(e.key, Len(bs)) = i
        PROVE  \E p \in 1 .. Len(c) : c[p] = e
    <3>1. PICK q \in 1 .. Len(b) : b[q] = e
      BY <1>4, <2>2
    <3>2. q # r
      BY <1>1, <2>2, <3>1
    <3> QED BY <1>9, <3>1, <3>2
  <2>3. ASSUME e \in Present(bs), BucketIdx(e.key, Len(bs)) # i PROVE e.key # k
    BY <1>5, <2>3
  <2> QED BY <1>11, <2>1, <2>2, <2>3
<1> QED BY <1>11, <1>12

(* map_set_() of a key that is there: its node gets the value.             *)
ReplaceIn(bs, k, v) == [bs EXCEPT ![BucketIdx(k, Len(bs))][Ref(bs, k)].value = v]

LEMMA ReplaceKeeps ==
    ASSUME NEW bs, Shape(bs), NEW k \in Keys, Ref(bs, k) # 0, NEW v \in Values,
           NEW ns, ns = ReplaceIn(bs, k, v)
    PROVE  /\ Shape(ns) /\ Len(ns) = Len(bs)
           /\ Present(ns) = {e \in Present(bs) : e.key # k} \cup {[key |-> k, value |-> v]}
<1> DEFINE i == BucketIdx(k, Len(bs))
           r == Ref(bs, k)
           b == bs[i]
           n == [key |-> k, value |-> v]
           c == [b EXCEPT ![r] = n]
<1>1. /\ i \in 1 .. Len(bs) /\ r \in 1 .. Len(b) /\ b[r].key = k /\ Len(bs) \in Nat
      /\ b \in Seq(Entries) /\ Len(b) \in Nat /\ b[r] \in Entries
  BY RefIs, NodeAt
<1>2. n \in Entries /\ [b[r] EXCEPT !.value = v] = n
  BY <1>1 DEF Entries
<1>3. ns = [bs EXCEPT ![i] = c]
  BY <1>2 DEF ReplaceIn
<1>4. /\ \A p \in 1 .. Len(b) :
            /\ BucketIdx(b[p].key, Len(bs)) = i
            /\ \A q \in 1 .. Len(b) : b[p].key = b[q].key => p = q
      /\ \A p \in 1 .. Len(b) : b[p] \in Present(bs)
  BY <1>1, NodeAt DEF Shape
<1>5. ASSUME NEW e \in Present(bs), BucketIdx(e.key, Len(bs)) = i
      PROVE  \E p \in 1 .. Len(b) : b[p] = e
  <2>1. PICK j \in 1 .. Len(bs) : \E q \in 1 .. Len(bs[j]) : bs[j][q] = e
    BY DEF Present
  <2>2. PICK q \in 1 .. Len(bs[j]) : bs[j][q] = e
    BY <2>1
  <2>3. j = i
    BY <1>5, <2>2 DEF Shape
  <2> QED BY <2>2, <2>3
<1>6. BucketIdx(k, Len(bs)) = i /\ n.key = k
  OBVIOUS
<1> HIDE DEF i, r, b, n
<1>7. c \in Seq(Entries) /\ Len(c) = Len(b) /\ DOMAIN b = 1 .. Len(b)
  BY <1>1, <1>2, ExceptSeq
<1>8. c[r] = n /\ \A p \in 1 .. Len(b) : p # r => c[p] = b[p]
  BY <1>1, <1>7
<1> HIDE DEF c
<1>9. \A p \in 1 .. Len(b) : c[p].key = b[p].key
  BY <1>1, <1>6, <1>8
<1>10. \A p \in 1 .. Len(c) :
          /\ BucketIdx(c[p].key, Len(bs)) = i
          /\ \A q \in 1 .. Len(c) : c[p].key = c[q].key => p = q
  BY <1>4, <1>7, <1>9
<1>11. /\ Shape(ns) /\ Len(ns) = Len(bs)
       /\ \A e : e \in Present(ns) <=>
             \/ \E p \in 1 .. Len(c) : c[p] = e
             \/ e \in Present(bs) /\ BucketIdx(e.key, Len(bs)) # i
  BY <1>1, <1>3, <1>7, <1>10, ChainKeeps
<1>12. ASSUME NEW e
       PROVE  e \in Present(ns) <=> (e \in Present(bs) /\ e.key # k) \/ e = n
  <2>1. ASSUME NEW p \in 1 .. Len(c), c[p] = e
        PROVE  (e \in Present(bs) /\ e.key # k) \/ e = n
    <3>1. CASE p = r
      BY <1>8, <2>1, <3>1
    <3>2. CASE p # r
      <4>1. p \in 1 .. Len(b) /\ b[p] = e
        BY <1>7, <1>8, <2>1, <3>2
      <4>2. e.key # k
        BY <1>1, <1>4, <3>2, <4>1
      <4> QED BY <1>4, <4>1, <4>2
    <3> QED BY <3>1, <3>2
  <2>2. ASSUME e \in Present(bs), e.key # k, BucketIdx(e.key, Len(bs)) = i
        PROVE  \E p \in 1 .. Len(c) : c[p] = e
    <3>1. PICK q \in 1 .. Len(b) : b[q] = e
      BY <1>5, <2>2
    <3>2. q # r
      BY <1>1, <2>2, <3>1
    <3> QED BY <1>7, <1>8, <3>1, <3>2
  <2>3. ASSUME e \in Present(bs), BucketIdx(e.key, Len(bs)) # i PROVE e.key # k
    BY <1>6, <2>3
  <2>4. e = n => \E p \in 1 .. Len(c) : c[p] = e
    BY <1>1, <1>7, <1>8
  <2> QED BY <1>11, <2>1, <2>2, <2>3, <2>4
<1>13. Present(ns) = {e \in Present(bs) : e.key # k} \cup {n}
  BY <1>12
<1> QED BY <1>11, <1>13 DEF n

-----------------------------------------------------------------------------
LEMMA ReverseIs ==
    ASSUME NEW S, NEW b \in Seq(S), NEW r, r = Reverse(b)
    PROVE  /\ r \in Seq(S) /\ Len(r) = Len(b) /\ Len(b) \in Nat
           /\ \A p \in 1 .. Len(b) : Len(b) + 1 - p \in 1 .. Len(b) /\ r[p] = b[Len(b) + 1 - p]
<1>1. Len(b) \in Nat /\ \A p \in 1 .. Len(b) : (Len(b) - p) + 1 \in 1 .. Len(b)
  OBVIOUS
<1>2. r = [p \in 1 .. Len(b) |-> b[(Len(b) - p) + 1]]
  BY DEF Reverse
<1>3. \A p \in 1 .. Len(b) : b[(Len(b) - p) + 1] \in S
  BY <1>1
<1>4. r \in Seq(S) /\ Len(r) = Len(b)
  BY <1>1, <1>2, <1>3
<1>5. \A p \in 1 .. Len(b) : (Len(b) - p) + 1 = Len(b) + 1 - p
  BY <1>1
<1> QED BY <1>1, <1>2, <1>4, <1>5

(* The list that map_resize() has after each bucket.                       *)
LEMMA ChainedIs ==
    ASSUME NEW bs \in Seq(Seq(Entries))
    PROVE  \E g : /\ g \in [0 .. Len(bs) -> Seq(Entries)] /\ g[0] = <<>>
                  /\ \A j \in 1 .. Len(bs) : g[j] = g[j - 1] \o Reverse(bs[j])
                  /\ Chained(bs) = g[Len(bs)]
<1> DEFINE S == Seq(Entries)
           Step(n, s) == s \o Reverse(bs[n])
           f == [n \in Nat |-> [s \in S |-> IF n \in 1 .. Len(bs) THEN Step(n, s) ELSE s]]
           L(h) == [j \in 0 .. Len(bs) |-> IF j = 0 THEN <<>> ELSE Step(j, h[j - 1])]
           h == CHOOSE list : list = L(list)
<1>1. Len(bs) \in Nat /\ <<>> \in S
  OBVIOUS
<1>2. ASSUME NEW n \in 1 .. Len(bs), NEW s \in S PROVE Step(n, s) \in S
  <2>1. bs[n] \in Seq(Entries)
    OBVIOUS
  <2>2. Reverse(bs[n]) \in Seq(Entries)
    BY <2>1, ReverseIs
  <2> QED BY <2>2
<1>3. Chained(bs) = h[Len(bs)]
  BY DEF Chained
<1> HIDE DEF S, Step
<1>4. f \in [Nat -> [S -> S]]
  BY <1>2
<1>5. PICK g : Loop(S, <<>>, f, Len(bs), g)
  <2> HIDE DEF f
  <2> QED BY <1>1, <1>4, Iterates
<1>6. g \in [0 .. Len(bs) -> S] /\ g[0] = <<>>
  BY <1>5 DEF Loop
<1>7. ASSUME NEW j \in 1 .. Len(bs) PROVE g[j] = Step(j, g[j - 1])
  <2>1. j \in Nat /\ j - 1 \in 0 .. Len(bs)
    BY <1>1
  <2>2. g[j - 1] \in S /\ g[j] = f[j][g[j - 1]]
    <3> HIDE DEF f
    <3> QED BY <1>5, <2>1 DEF Loop
  <2> QED BY <2>1, <2>2
<1> HIDE DEF f
<1>8. g = L(g)
  <2>1. g = [j \in 0 .. Len(bs) |-> g[j]]
    BY <1>6
  <2>2. \A j \in 0 .. Len(bs) : g[j] = IF j = 0 THEN <<>> ELSE Step(j, g[j - 1])
    BY <1>1, <1>6, <1>7
  <2> QED BY <2>1, <2>2
<1>9. h = L(h)
  <2> HIDE DEF L
  <2> QED BY <1>8
<1> HIDE DEF h
<1>10. h[0] = <<>> /\ \A j \in 1 .. Len(bs) : h[j] = Step(j, h[j - 1])
  <2>1. \A j \in 0 .. Len(bs) : L(h)[j] = IF j = 0 THEN <<>> ELSE Step(j, h[j - 1])
    OBVIOUS
  <2>2. \A j \in 0 .. Len(bs) : h[j] = L(h)[j]
    <3> HIDE DEF L
    <3> QED BY <1>9
  <2> HIDE DEF L
  <2> QED BY <1>1, <2>1, <2>2
<1>11. InStep(Len(bs), h, g)
  BY <1>6, <1>7, <1>10 DEF InStep
<1>12. h[Len(bs)] = g[Len(bs)]
  BY <1>1, <1>11, SameLoop
<1>13. /\ g \in [0 .. Len(bs) -> Seq(Entries)] /\ g[0] = <<>> /\ Chained(bs) = g[Len(bs)]
       /\ \A j \in 1 .. Len(bs) : g[j] = g[j - 1] \o Reverse(bs[j])
  BY <1>3, <1>6, <1>7, <1>12 DEF S, Step
<1> QED BY <1>13

(* nodes lists the set P, and no key twice.                                *)
Lists(nodes, P) ==
    /\ nodes \in Seq(Entries)
    /\ \A e : e \in P <=> \E p \in 1 .. Len(nodes) : nodes[p] = e
    /\ \A p, q \in 1 .. Len(nodes) : nodes[p].key = nodes[q].key => p = q

(* The nodes of the first j buckets.                                       *)
First(bs, j) == {e \in Present(bs) : BucketIdx(e.key, Len(bs)) <= j}

(* One more bucket is put on the list.                                     *)
LEMMA BucketListed ==
    ASSUME NEW bs, Shape(bs), NEW j \in 1 .. Len(bs),
           NEW old, Lists(old, First(bs, j - 1)), NEW new, new = old \o Reverse(bs[j])
    PROVE  Lists(new, First(bs, j))
<1> DEFINE b == bs[j]
           r == Reverse(b)
<1>1. /\ b \in Seq(Entries) /\ Len(bs) \in Nat /\ j \in Nat
      /\ old \in Seq(Entries) /\ Len(old) \in Nat
  BY DEF Shape, Lists
<1>2. \A e \in Present(bs) : BucketIdx(e.key, Len(bs)) \in 1 .. Len(bs)
  BY IdxRange DEF Present, Entries
<1>3. ASSUME NEW e PROVE e \in First(bs, j) <=> e \in First(bs, j - 1) \/ \E p \in 1 .. Len(b) : b[p] = e
  <2>1. ASSUME NEW p \in 1 .. Len(b), b[p] = e PROVE e \in First(bs, j)
    <3>1. e \in Present(bs) /\ BucketIdx(e.key, Len(bs)) = j
      BY <2>1, NodeAt DEF Shape
    <3> QED BY <1>1, <3>1 DEF First
  <2>2. ASSUME e \in Present(bs), BucketIdx(e.key, Len(bs)) = j
        PROVE  \E p \in 1 .. Len(b) : b[p] = e
    <3>1. PICK i \in 1 .. Len(bs) : \E p \in 1 .. Len(bs[i]) : bs[i][p] = e
      BY <2>2 DEF Present
    <3>2. PICK p \in 1 .. Len(bs[i]) : bs[i][p] = e
      BY <3>1
    <3>3. i = j
      BY <2>2, <3>2 DEF Shape
    <3> QED BY <3>2, <3>3
  <2>3. e \in First(bs, j - 1) => e \in First(bs, j)
    BY <1>1, <1>2 DEF First
  <2>4. e \in First(bs, j) => e \in First(bs, j - 1) \/ (e \in Present(bs) /\ BucketIdx(e.key, Len(bs)) = j)
    BY <1>1, <1>2 DEF First
  <2> QED BY <2>1, <2>2, <2>3, <2>4
<1>4. ASSUME NEW p \in 1 .. Len(b), NEW q \in 1 .. Len(b), b[p].key = b[q].key PROVE p = q
  BY <1>4 DEF Shape
<1>5. ASSUME NEW p \in 1 .. Len(b), NEW d \in First(bs, j - 1) PROVE b[p].key # d.key
  <2>1. BucketIdx(b[p].key, Len(bs)) = j
    BY DEF Shape
  <2>2. BucketIdx(d.key, Len(bs)) # j
    BY <1>1, <1>2 DEF First
  <2> QED BY <2>1, <2>2
<1> HIDE DEF b
<1>6. /\ r \in Seq(Entries) /\ Len(r) = Len(b) /\ Len(b) \in Nat
      /\ \A p \in 1 .. Len(b) : Len(b) + 1 - p \in 1 .. Len(b) /\ r[p] = b[Len(b) + 1 - p]
  BY <1>1, ReverseIs
<1>7. new = old \o r
  BY DEF b
<1> HIDE DEF r
<1>8. new \in Seq(Entries) /\ Len(new) = Len(old) + Len(b)
  <2>1. old \in Seq(Entries) /\ r \in Seq(Entries)
    BY <1>1, <1>6
  <2>2. new \in Seq(Entries) /\ Len(new) = Len(old) + Len(r)
    BY <1>7, <2>1
  <2> QED BY <1>6, <2>2
<1>9. /\ \A p \in 1 .. Len(old) : new[p] = old[p]
      /\ \A p \in Len(old) + 1 .. Len(new) : new[p] = r[p - Len(old)]
  BY <1>1, <1>6, <1>7, <1>8
<1> DEFINE from(p) == Len(b) + 1 - (p - Len(old))
<1>10. ASSUME NEW p \in Len(old) + 1 .. Len(new) PROVE from(p) \in 1 .. Len(b) /\ new[p] = b[from(p)]
  <2>1. p - Len(old) \in 1 .. Len(b)
    BY <1>1, <1>6, <1>8
  <2> QED BY <1>6, <1>9, <2>1
<1>11. ASSUME NEW p \in 1 .. Len(new)
       PROVE  \/ p \in 1 .. Len(old) /\ new[p] = old[p] /\ old[p] \in First(bs, j - 1)
              \/ p \in Len(old) + 1 .. Len(new) /\ from(p) \in 1 .. Len(b) /\ new[p] = b[from(p)]
  <2>1. p \in 1 .. Len(old) \/ p \in Len(old) + 1 .. Len(new)
    BY <1>1, <1>6, <1>8
  <2>2. \A q \in 1 .. Len(old) : old[q] \in First(bs, j - 1)
    BY DEF Lists
  <2> QED BY <1>9, <1>10, <2>1, <2>2
<1>12. \A p, q \in Len(old) + 1 .. Len(new) : from(p) = from(q) => p = q
  BY <1>1, <1>6, <1>8
<1>13. ASSUME NEW q \in 1 .. Len(b) PROVE \E p \in 1 .. Len(new) : new[p] = b[q]
  <2> DEFINE p == Len(old) + (Len(b) + 1 - q)
  <2>1. p \in Len(old) + 1 .. Len(new) /\ p \in 1 .. Len(new) /\ from(p) = q
    BY <1>1, <1>6, <1>8
  <2> HIDE DEF p
  <2> QED BY <1>10, <2>1
<1> HIDE DEF from
<1>14. ASSUME NEW e PROVE e \in First(bs, j) <=> \E p \in 1 .. Len(new) : new[p] = e
  <2>1. ASSUME e \in First(bs, j - 1) PROVE \E p \in 1 .. Len(new) : new[p] = e
    <3>1. PICK p \in 1 .. Len(old) : old[p] = e
      BY <2>1 DEF Lists
    <3>2. p \in 1 .. Len(new) /\ new[p] = e
      BY <1>1, <1>6, <1>8, <1>9, <3>1
    <3> QED BY <3>2
  <2>2. ASSUME NEW q \in 1 .. Len(b), b[q] = e PROVE \E p \in 1 .. Len(new) : new[p] = e
    BY <1>13, <2>2
  <2>3. ASSUME NEW p \in 1 .. Len(new), new[p] = e PROVE e \in First(bs, j)
    BY <1>3, <1>11, <2>3
  <2> QED BY <1>3, <2>1, <2>2, <2>3
<1>15. ASSUME NEW p \in 1 .. Len(new), NEW q \in 1 .. Len(new), new[p].key = new[q].key PROVE p = q
  <2>1. CASE p \in 1 .. Len(old) /\ q \in 1 .. Len(old)
    BY <1>9, <1>15, <2>1 DEF Lists
  <2>2. CASE p \notin 1 .. Len(old) /\ q \notin 1 .. Len(old)
    <3>1. /\ p \in Len(old) + 1 .. Len(new) /\ from(p) \in 1 .. Len(b) /\ new[p] = b[from(p)]
          /\ q \in Len(old) + 1 .. Len(new) /\ from(q) \in 1 .. Len(b) /\ new[q] = b[from(q)]
      BY <1>11, <2>2
    <3>2. from(p) = from(q)
      BY <1>4, <1>15, <3>1
    <3> QED BY <1>12, <3>1, <3>2
  <2>3. CASE p \in 1 .. Len(old) /\ q \notin 1 .. Len(old)
    <3>1. new[p] \in First(bs, j - 1) /\ from(q) \in 1 .. Len(b) /\ new[q] = b[from(q)]
      BY <1>9, <1>11, <2>3 DEF Lists
    <3> QED BY <1>5, <1>15, <3>1
  <2>4. CASE p \notin 1 .. Len(old) /\ q \in 1 .. Len(old)
    <3>1. new[q] \in First(bs, j - 1) /\ from(p) \in 1 .. Len(b) /\ new[p] = b[from(p)]
      BY <1>9, <1>11, <2>4 DEF Lists
    <3> QED BY <1>5, <1>15, <3>1
  <2> QED BY <2>1, <2>2, <2>3, <2>4
<1> QED BY <1>8, <1>14, <1>15 DEF Lists

(* The first half of map_resize(): no node is lost, none is there twice.   *)
LEMMA ChainedLists ==
    ASSUME NEW bs, Shape(bs)
    PROVE  Lists(Chained(bs), Present(bs))
<1>1. bs \in Seq(Seq(Entries)) /\ Len(bs) \in Nat
  BY DEF Shape
<1>2. PICK g : /\ g \in [0 .. Len(bs) -> Seq(Entries)] /\ g[0] = <<>>
               /\ \A j \in 1 .. Len(bs) : g[j] = g[j - 1] \o Reverse(bs[j])
               /\ Chained(bs) = g[Len(bs)]
  BY <1>1, ChainedIs
<1>3. \A e \in Present(bs) : BucketIdx(e.key, Len(bs)) \in 1 .. Len(bs)
  BY <1>1, IdxRange DEF Present, Entries
<1> DEFINE T == {j \in 0 .. Len(bs) : Lists(g[j], First(bs, j))}
<1>4. 0 \in T
  <2>1. First(bs, 0) = {}
    BY <1>1, <1>3 DEF First
  <2> QED BY <1>1, <1>2, <2>1 DEF Lists
<1>5. ASSUME NEW j \in 1 .. Len(bs), j - 1 \in T PROVE j \in T
  <2>1. Lists(g[j - 1], First(bs, j - 1)) /\ j \in 0 .. Len(bs)
    BY <1>1, <1>5
  <2>2. Lists(g[j], First(bs, j))
    BY <1>2, <2>1, BucketListed
  <2> QED BY <2>1, <2>2
<1> HIDE DEF T
<1>6. Len(bs) \in T
  <2>1. \A j \in 1 .. Len(bs) : j - 1 \in T => j \in T
    BY <1>5
  <2>2. \A j \in 0 .. Len(bs) : j \in T
    BY <1>1, <1>4, <2>1, UpTo
  <2> QED BY <1>1, <2>2
<1>7. First(bs, Len(bs)) = Present(bs)
  BY <1>1, <1>3 DEF First
<1> QED BY <1>2, <1>6, <1>7 DEF T

-----------------------------------------------------------------------------
LEMMA AddNodeType ==
    ASSUME NEW n \in Nat \ {0}, NEW bs \in Seq(Seq(Entries)), Len(bs) = n, NEW e \in Entries
    PROVE  AddNode(bs, e) \in Seq(Seq(Entries)) /\ Len(AddNode(bs, e)) = n
<1> DEFINE C == Seq(Entries)
           i == BucketIdx(e.key, Len(bs))
           c == <<e>> \o bs[i]
<1>1. i \in 1 .. Len(bs)
  BY IdxRange DEF Entries
<1>2. bs[i] \in Seq(Entries)
  BY <1>1
<1>3. c \in C /\ bs \in Seq(C)
  BY <1>2
<1>4. AddNode(bs, e) = [bs EXCEPT ![i] = c]
  BY DEF AddNode
<1> HIDE DEF C, i, c
<1>5. AddNode(bs, e) \in Seq(C) /\ Len(AddNode(bs, e)) = Len(bs)
  BY <1>1, <1>3, <1>4, ExceptSeq
<1> QED BY <1>5 DEF C

(* The buckets after each node that map_resize() adds to them.             *)
LEMMA DealtIs ==
    ASSUME NEW nodes \in Seq(Entries), NEW n \in Nat, n = 0 => Len(nodes) = 0
    PROVE  \E g : /\ g[0] = [j \in 1 .. n |-> <<>>]
                  /\ \A p \in 1 .. Len(nodes) : g[p] = AddNode(g[p - 1], nodes[p])
                  /\ Dealt(nodes, n) = g[Len(nodes)]
<1> DEFINE S == {s \in Seq(Seq(Entries)) : Len(s) = n}
           none == [j \in 1 .. n |-> <<>>]
           Step(p, s) == AddNode(s, nodes[p])
           f == [p \in Nat |-> [s \in S |-> IF p \in 1 .. Len(nodes) THEN Step(p, s) ELSE s]]
           L(h) == [p \in 0 .. Len(nodes) |-> IF p = 0 THEN none ELSE Step(p, h[p - 1])]
           h == CHOOSE bs : bs = L(bs)
<1>1. Len(nodes) \in Nat /\ none \in S
  OBVIOUS
<1>2. ASSUME NEW p \in 1 .. Len(nodes), NEW s \in S PROVE Step(p, s) \in S
  <2>1. n \in Nat \ {0} /\ nodes[p] \in Entries /\ s \in Seq(Seq(Entries)) /\ Len(s) = n
    BY <1>1
  <2>2. AddNode(s, nodes[p]) \in Seq(Seq(Entries)) /\ Len(AddNode(s, nodes[p])) = n
    BY <2>1, AddNodeType
  <2> QED BY <2>2
<1>3. Dealt(nodes, n) = h[Len(nodes)]
  BY DEF Dealt
<1> HIDE DEF S, Step, none
<1>4. f \in [Nat -> [S -> S]]
  BY <1>2
<1>5. PICK g : Loop(S, none, f, Len(nodes), g)
  <2> HIDE DEF f
  <2> QED BY <1>1, <1>4, Iterates
<1>6. g \in [0 .. Len(nodes) -> S] /\ g[0] = none
  BY <1>5 DEF Loop
<1>7. ASSUME NEW p \in 1 .. Len(nodes) PROVE g[p] = Step(p, g[p - 1])
  <2>1. p \in Nat /\ p - 1 \in 0 .. Len(nodes)
    BY <1>1
  <2>2. g[p - 1] \in S /\ g[p] = f[p][g[p - 1]]
    <3> HIDE DEF f
    <3> QED BY <1>5, <2>1 DEF Loop
  <2> QED BY <2>1, <2>2
<1> HIDE DEF f
<1>8. g = L(g)
  <2>1. g = [p \in 0 .. Len(nodes) |-> g[p]]
    BY <1>6
  <2>2. \A p \in 0 .. Len(nodes) : g[p] = IF p = 0 THEN none ELSE Step(p, g[p - 1])
    BY <1>1, <1>6, <1>7
  <2> QED BY <2>1, <2>2
<1>9. h = L(h)
  <2> HIDE DEF L
  <2> QED BY <1>8
<1> HIDE DEF h
<1>10. h[0] = none /\ \A p \in 1 .. Len(nodes) : h[p] = Step(p, h[p - 1])
  <2>1. \A p \in 0 .. Len(nodes) : L(h)[p] = IF p = 0 THEN none ELSE Step(p, h[p - 1])
    OBVIOUS
  <2>2. \A p \in 0 .. Len(nodes) : h[p] = L(h)[p]
    <3> HIDE DEF L
    <3> QED BY <1>9
  <2> HIDE DEF L
  <2> QED BY <1>1, <2>1, <2>2
<1> QED BY <1>3, <1>10 DEF none, Step

(* The second half of map_resize().                                        *)
LEMMA DealtKeeps ==
    ASSUME NEW nodes, NEW P, Lists(nodes, P), NEW n \in Nat, n = 0 => Len(nodes) = 0
    PROVE  /\ Shape(Dealt(nodes, n)) /\ Len(Dealt(nodes, n)) = n
           /\ Present(Dealt(nodes, n)) = P
<1>1. nodes \in Seq(Entries) /\ Len(nodes) \in Nat
  BY DEF Lists
<1>2. PICK g : /\ g[0] = [j \in 1 .. n |-> <<>>]
               /\ \A p \in 1 .. Len(nodes) : g[p] = AddNode(g[p - 1], nodes[p])
               /\ Dealt(nodes, n) = g[Len(nodes)]
  BY <1>1, DealtIs
<1> DEFINE Some(p) == {nodes[q] : q \in 1 .. p}
           T == {p \in 0 .. Len(nodes) :
                   Shape(g[p]) /\ Len(g[p]) = n /\ Present(g[p]) = Some(p)}
<1>3. 0 \in T
  <2>1. /\ g[0] \in Seq(Seq(Entries)) /\ Len(g[0]) = n
        /\ \A j \in 1 .. n : g[0][j] = <<>>
    <3> DEFINE C == Seq(Entries)
    <3>1. <<>> \in C
      OBVIOUS
    <3> HIDE DEF C
    <3>2. g[0] \in Seq(C) /\ Len(g[0]) = n
      BY <1>2, <3>1
    <3> QED BY <1>2, <3>2 DEF C
  <2>2. Shape(g[0])
    BY <2>1 DEF Shape
  <2>3. Present(g[0]) = {}
    BY <2>1 DEF Present
  <2>4. Some(0) = {}
    OBVIOUS
  <2> QED BY <1>1, <2>1, <2>2, <2>3, <2>4
<1>4. ASSUME NEW p \in 1 .. Len(nodes), p - 1 \in T PROVE p \in T
  <2>1. /\ Shape(g[p - 1]) /\ Len(g[p - 1]) = n /\ Present(g[p - 1]) = Some(p - 1)
        /\ p \in 0 .. Len(nodes) /\ n # 0 /\ p \in Nat
    BY <1>1, <1>4
  <2>2. nodes[p] \in Entries
    BY <1>1
  <2>3. ASSUME NEW d \in Some(p - 1) PROVE d.key # nodes[p].key
    <3>1. PICK q \in 1 .. p - 1 : d = nodes[q]
      OBVIOUS
    <3>2. q \in 1 .. Len(nodes) /\ q # p
      BY <1>1
    <3> QED BY <3>1, <3>2 DEF Lists
  <2>4. Some(p) = Some(p - 1) \cup {nodes[p]}
    BY <2>1
  <2> HIDE DEF Some
  <2>5. g[p] = AddNode(g[p - 1], nodes[p])
    BY <1>2
  <2>6. /\ Shape(g[p]) /\ Len(g[p]) = Len(g[p - 1])
        /\ Present(g[p]) = Present(g[p - 1]) \cup {nodes[p]}
    BY <2>1, <2>2, <2>3, <2>5, AddNodeKeeps
  <2> QED BY <2>1, <2>4, <2>6
<1>5. Some(Len(nodes)) = P
  BY DEF Lists
<1> HIDE DEF T
<1>6. Len(nodes) \in T
  <2>1. \A p \in 1 .. Len(nodes) : p - 1 \in T => p \in T
    BY <1>4
  <2>2. \A p \in 0 .. Len(nodes) : p \in T
    BY <1>1, <1>3, <2>1, UpTo
  <2> QED BY <1>1, <2>2
<1> QED BY <1>2, <1>5, <1>6 DEF T

(* map_resize() moves nodes and loses none.                                *)
LEMMA RehashKeeps ==
    ASSUME Shape(buckets), NEW n \in Nat, n = 0 => nbuckets = 0
    PROVE  /\ Shape(Rehash(n)) /\ Len(Rehash(n)) = n
           /\ Present(Rehash(n)) = Present(buckets)
<1>1. Lists(Chained(buckets), Present(buckets))
  BY ChainedLists
<1>2. n = 0 => Len(Chained(buckets)) = 0
  <2> SUFFICES ASSUME n = 0 PROVE Len(Chained(buckets)) = 0
    OBVIOUS
  <2>1. Present(buckets) = {}
    BY DEF Present, nbuckets
  <2>2. Chained(buckets) \in Seq(Entries) /\ \A p \in 1 .. Len(Chained(buckets)) : FALSE
    BY <1>1, <2>1 DEF Lists
  <2> QED BY <2>2
<1> QED BY <1>1, <1>2, DealtKeeps DEF Rehash

-----------------------------------------------------------------------------
(* The invariant speaks of the set of nodes, not of their order, which the *)
(* resizes change.                                                         *)
Counted ==
    /\ IsFiniteSet(Present(buckets)) /\ nnodes = Cardinality(Present(buckets))
    /\ nnodes <= nbuckets

Doubled == nbuckets = 0 \/ \E e \in 0 .. nbuckets : nbuckets = TwoTo[e]

MapInv == Shape(buckets) /\ Counted /\ Doubled

LEMMA MapInvInit == ASSUME MapInit PROVE MapInv
<1>1. buckets = <<>> /\ nnodes = 0 /\ nbuckets = 0
  BY DEF MapInit, nbuckets
<1>2. Shape(buckets) /\ Present(buckets) = {}
  BY <1>1 DEF Shape, Present
<1> QED BY <1>1, <1>2, FS_EmptySet DEF MapInv, Counted, Doubled

(* What holds of the nodes gives MapShape.                                 *)
LEMMA MapInvShape == ASSUME MapInv PROVE MapShape
<1> DEFINE nodes == Chained(buckets)
           P == Present(buckets)
<1>1. Lists(nodes, P)
  BY ChainedLists DEF MapInv
<1>2. /\ \A j \in 1 .. nbuckets, p \in 1 .. Len(nodes) :
           nodes[p] \in Range(buckets[j]) => BucketIdx(nodes[p].key, nbuckets) = j
  <2> SUFFICES ASSUME NEW j \in 1 .. nbuckets, NEW e \in Range(buckets[j])
               PROVE  BucketIdx(e.key, nbuckets) = j
    OBVIOUS
  <2>1. buckets[j] \in Seq(Entries) /\ DOMAIN buckets[j] = 1 .. Len(buckets[j])
    BY DEF MapInv, Shape, nbuckets
  <2>2. PICK p \in 1 .. Len(buckets[j]) : e = buckets[j][p]
    BY <2>1 DEF Range
  <2> QED BY <2>2 DEF MapInv, Shape, nbuckets
<1> HIDE DEF nodes, P
<1>3. Len(nodes) \in Nat /\ DOMAIN nodes = 1 .. Len(nodes)
  BY <1>1 DEF Lists
<1>4. nodes \in Bijection(1 .. Len(nodes), P)
  <2>1. nodes \in [1 .. Len(nodes) -> P]
    <3>1. nodes = [p \in 1 .. Len(nodes) |-> nodes[p]]
      BY <1>1 DEF Lists
    <3>2. \A p \in 1 .. Len(nodes) : nodes[p] \in P
      BY <1>1 DEF Lists
    <3> QED BY <3>1, <3>2
  <2>2. IsInjective(nodes)
    BY <1>1, <1>3 DEF Lists, IsInjective
  <2>3. \A e \in P : \E p \in 1 .. Len(nodes) : nodes[p] = e
    BY <1>1 DEF Lists
  <2> QED BY <2>1, <2>2, <2>3 DEF Bijection, Injection, Surjection
<1>5. IsFiniteSet(1 .. Len(nodes)) /\ Cardinality(1 .. Len(nodes)) = Len(nodes)
  <2>1. \A n \in Nat : IsFiniteSet(1 .. n) /\ Cardinality(1 .. n) = n
    BY FS_Interval
  <2> QED BY <1>3, <2>1
<1>6. Cardinality(P) = Len(nodes)
  BY <1>4, <1>5, FS_Bijection DEF ExistsBijection
<1>7. nnodes = Len(nodes)
  BY <1>6 DEF MapInv, Counted, P
<1>8. \A p, q \in 1 .. Len(nodes) : nodes[p].key = nodes[q].key => p = q
  BY <1>1 DEF Lists
<1>9. nnodes <= nbuckets /\ Doubled
  BY DEF MapInv, Counted
<1> QED BY <1>2, <1>7, <1>8, <1>9 DEF MapShape, nodes, Doubled

-----------------------------------------------------------------------------
(* The nodes of the other keys.                                            *)
Others(bs, k) == {e \in Present(bs) : e.key # k}

(* Without its own node, if it has one, a key leaves the others.           *)
LEMMA OthersCount ==
    ASSUME MapInv, NEW k \in Keys
    PROVE  /\ IsFiniteSet(Others(buckets, k)) /\ nnodes \in Nat /\ nbuckets \in Nat
           /\ GetRef(k) = 0 => Others(buckets, k) = Present(buckets)
           /\ GetRef(k) = 0 => Cardinality(Others(buckets, k)) = nnodes
           /\ GetRef(k) # 0 => nnodes > 0 /\ Cardinality(Others(buckets, k)) = nnodes - 1
<1> DEFINE P == Present(buckets)
           O == Others(buckets, k)
<1>1. Shape(buckets) /\ IsFiniteSet(P) /\ nnodes = Cardinality(P) /\ GetRef(k) = Ref(buckets, k)
  BY LookupIs DEF MapInv, Counted
<1>2. nnodes \in Nat
  BY <1>1, FS_CardinalityType
<1>3. nbuckets \in Nat
  BY <1>1 DEF Shape, nbuckets
<1>4. CASE GetRef(k) = 0
  <2>1. \A e \in P : e.key # k
    BY <1>1, <1>4, RefIs
  <2>2. O = P
    BY <2>1 DEF Others
  <2> QED BY <1>1, <1>2, <1>3, <1>4, <2>2
<1>5. CASE GetRef(k) # 0
  <2>1. PICK d \in P : d.key = k
    BY <1>1, <1>5, RefIs, NodeAt
  <2>2. O = P \ {d}
    BY <1>1, <2>1, OneNode DEF Others
  <2> HIDE DEF P, O
  <2>3. IsFiniteSet(O) /\ Cardinality(O) = nnodes - 1
    BY <1>1, <2>1, <2>2, FS_RemoveElement
  <2>4. Cardinality(O) \in Nat
    BY <2>3, FS_CardinalityType
  <2>5. nnodes > 0
    BY <1>2, <2>3, <2>4
  <2> QED BY <1>2, <1>3, <1>5, <2>3, <2>5 DEF O
<1> QED BY <1>4, <1>5

-----------------------------------------------------------------------------
(* What each call does to the set of nodes, and that it keeps the          *)
(* invariant: also for the values that a client of the map alone would not *)
(* store.                                                                  *)
LEMMA ReplaceStep ==
    ASSUME MapInv, NEW k \in Keys, NEW v \in Values, MapReplace(k, v)
    PROVE  MapInv' /\ Present(buckets') = Others(buckets, k) \cup {[key |-> k, value |-> v]}
<1> DEFINE n == [key |-> k, value |-> v]
           O == Others(buckets, k)
<1>1. /\ Shape(buckets) /\ Ref(buckets, k) # 0 /\ nnodes' = nnodes
      /\ buckets' = ReplaceIn(buckets, k, v)
  BY LookupIs DEF MapInv, MapReplace, nbuckets, ReplaceIn
<1>2. Shape(buckets') /\ Len(buckets') = Len(buckets) /\ Present(buckets') = O \cup {n}
  BY <1>1, ReplaceKeeps DEF Others
<1>3. IsFiniteSet(O) /\ nnodes > 0 /\ nnodes \in Nat /\ Cardinality(O) = nnodes - 1
  BY OthersCount DEF MapReplace
<1>4. n \notin O
  BY DEF Others
<1> HIDE DEF n, O
<1>5. IsFiniteSet(O \cup {n}) /\ Cardinality(O \cup {n}) = nnodes
  BY <1>3, <1>4, FS_AddElement
<1>6. Counted'
  BY <1>1, <1>2, <1>5 DEF MapInv, Counted, nbuckets
<1>7. Doubled'
  BY <1>2 DEF MapInv, Doubled, nbuckets
<1> QED BY <1>2, <1>6, <1>7 DEF MapInv, n, O

LEMMA InsertStep ==
    ASSUME MapInv, NEW k \in Keys, NEW v \in Values, MapInsert(k, v)
    PROVE  MapInv' /\ Present(buckets') = Others(buckets, k) \cup {[key |-> k, value |-> v]}
<1> DEFINE n == [key |-> k, value |-> v]
           P == Present(buckets)
           size == IF nbuckets > 0 THEN 2 * nbuckets ELSE 1
           grown == IF nnodes < nbuckets THEN buckets ELSE Rehash(size)
<1>1. /\ Shape(buckets) /\ GetRef(k) = 0 /\ nnodes' = nnodes + 1
      /\ buckets' = AddNode(grown, n)
  BY DEF MapInv, MapInsert
<1>2. nnodes \in Nat /\ nbuckets \in Nat /\ nnodes <= nbuckets /\ Others(buckets, k) = P
  BY <1>1, OthersCount DEF MapInv, Counted
<1>3. \A d \in P : d.key # k
  BY <1>1, LookupIs, RefIs
<1>4. n \in Entries /\ n.key = k
  BY DEF Entries
<1>5. /\ Shape(grown) /\ Present(grown) = P /\ Len(grown) \in Nat /\ nnodes < Len(grown)
      /\ Len(grown) = nbuckets \/ (nbuckets = 0 /\ Len(grown) = 1) \/ Len(grown) = 2 * nbuckets
  <2>1. CASE nnodes < nbuckets
    BY <1>1, <1>2, <2>1 DEF nbuckets
  <2>2. CASE ~ (nnodes < nbuckets)
    <3>1. size \in Nat /\ size # 0 /\ nnodes < size
      BY <1>2, <2>2
    <3>2. size = 2 * nbuckets \/ (nbuckets = 0 /\ size = 1)
      BY <1>2
    <3> HIDE DEF size
    <3>3. Shape(Rehash(size)) /\ Len(Rehash(size)) = size /\ Present(Rehash(size)) = P
      BY <1>1, <3>1, RehashKeeps
    <3> QED BY <2>2, <3>1, <3>2, <3>3
  <2> QED BY <2>1, <2>2
<1> HIDE DEF n, grown
<1>6. Shape(buckets') /\ Len(buckets') = Len(grown) /\ Present(buckets') = P \cup {n}
  BY <1>1, <1>2, <1>3, <1>4, <1>5, AddNodeKeeps
<1>7. n \notin P /\ IsFiniteSet(P) /\ Cardinality(P) = nnodes
  BY <1>3, <1>4 DEF MapInv, Counted
<1> HIDE DEF P
<1>8. IsFiniteSet(P \cup {n}) /\ Cardinality(P \cup {n}) = nnodes + 1
  BY <1>7, FS_AddElement
<1>9. Counted'
  BY <1>1, <1>2, <1>5, <1>6, <1>8 DEF Counted, nbuckets
<1>10. Doubled'
  <2>1. nbuckets' = Len(grown)
    BY <1>6 DEF nbuckets
  <2>2. CASE Len(grown) = nbuckets
    BY <2>1, <2>2 DEF MapInv, Doubled
  <2>3. CASE nbuckets = 0 /\ Len(grown) = 1
    BY <2>1, <2>3, TwoToIs DEF Doubled
  <2>4. CASE nbuckets # 0 /\ Len(grown) = 2 * nbuckets
    <3>1. PICK e \in 0 .. nbuckets : nbuckets = TwoTo[e]
      BY <2>4 DEF MapInv, Doubled
    <3>2. e \in Nat /\ e + 1 \in 0 .. 2 * nbuckets
      BY <1>2, <2>4
    <3>3. TwoTo[e + 1] = 2 * TwoTo[e]
      BY <3>2, TwoToIs
    <3> QED BY <2>1, <2>4, <3>1, <3>2, <3>3 DEF Doubled
  <2> QED BY <1>2, <1>5, <2>2, <2>3, <2>4
<1> QED BY <1>2, <1>6, <1>9, <1>10 DEF MapInv, n

LEMMA InsertFailsStep ==
    ASSUME MapInv, NEW k \in Keys, MapInsertFails(k)
    PROVE  MapInv' /\ Present(buckets') = Present(buckets)
<1>1. nbuckets \in Nat /\ Shape(buckets)
  BY OthersCount DEF MapInv
<1>2. buckets' = Rehash(nbuckets) /\ nnodes' = nnodes
  BY DEF MapInsertFails
<1>3. Shape(buckets') /\ Len(buckets') = nbuckets /\ Present(buckets') = Present(buckets)
  BY <1>1, <1>2, RehashKeeps
<1>4. Counted' /\ Doubled'
  BY <1>2, <1>3 DEF MapInv, Counted, Doubled, nbuckets
<1> QED BY <1>3, <1>4 DEF MapInv

LEMMA RemoveStep ==
    ASSUME MapInv, NEW k \in Keys, MapRemove(k)
    PROVE  MapInv' /\ Present(buckets') = Others(buckets, k)
<1>1. /\ Shape(buckets) /\ Ref(buckets, k) # 0 /\ nnodes' = nnodes - 1
      /\ buckets' = [buckets EXCEPT ![BucketIdx(k, Len(buckets))] = RemoveAt(@, Ref(buckets, k))]
  BY LookupIs DEF MapInv, MapRemove, nbuckets
<1>2. Shape(buckets') /\ Len(buckets') = Len(buckets) /\ Present(buckets') = Others(buckets, k)
  BY <1>1, RemoveKeeps DEF Others
<1>3. /\ IsFiniteSet(Others(buckets, k)) /\ nnodes > 0 /\ nnodes \in Nat /\ nbuckets \in Nat
      /\ Cardinality(Others(buckets, k)) = nnodes - 1
  BY OthersCount DEF MapRemove
<1>4. nnodes <= nbuckets
  BY DEF MapInv, Counted
<1>5. Counted'
  BY <1>1, <1>2, <1>3, <1>4 DEF Counted, nbuckets
<1>6. Doubled'
  BY <1>2 DEF MapInv, Doubled, nbuckets
<1> QED BY <1>2, <1>5, <1>6 DEF MapInv

LEMMA MapUnchanged == ASSUME MapInv, UNCHANGED mapVars PROVE MapInv'
BY DEF MapInv, Counted, Doubled, nbuckets, mapVars

(* Every call that a client makes keeps the shape: for every set of keys   *)
(* and values, every hash function, and however often map_resize() ran or  *)
(* failed.                                                                 *)
THEOREM MapInvariance == MapSpec => []MapInv
<1>1. MapInit => MapInv
  BY MapInvInit
<1>2. MapInv /\ [MapNext]_mapVars => MapInv'
  <2> SUFFICES ASSUME MapInv, [MapNext]_mapVars PROVE MapInv'
    OBVIOUS
  <2>1. CASE UNCHANGED mapVars
    BY <2>1, MapUnchanged
  <2>2. ASSUME NEW k \in Keys, NEW v \in ClientValues, MapReplace(k, v) \/ MapInsert(k, v)
        PROVE  MapInv'
    <3>1. v \in Values
      BY MapAssumption
    <3> QED BY <2>2, <3>1, ReplaceStep, InsertStep
  <2>3. ASSUME NEW k \in Keys, MapInsertFails(k) \/ MapRemove(k) PROVE MapInv'
    BY <2>3, InsertFailsStep, RemoveStep
  <2> QED BY <2>1, <2>2, <2>3 DEF MapNext
<1> QED BY <1>1, <1>2, PTL DEF MapSpec

(* MapShape holds in every state of the map.                               *)
THEOREM KeepsShape == MapSpec => []MapShape
<1>1. MapInv => MapShape
  BY MapInvShape
<1> QED BY <1>1, MapInvariance, PTL

-----------------------------------------------------------------------------
(* A key whose node is the same has the same value.                        *)
LEMMA SameNodeSameValue ==
    ASSUME NEW bs, Shape(bs), NEW cs, Shape(cs), NEW k \in Keys,
           \A e : e.key = k => (e \in Present(bs) <=> e \in Present(cs))
    PROVE  Get(bs, k) = Get(cs, k)
<1>1. CASE \E e \in Present(bs) : e.key = k
  <2>1. PICK e \in Present(bs) : e.key = k
    BY <1>1
  <2>2. e \in Present(cs)
    BY <2>1
  <2> QED BY <2>1, <2>2, GetIs
<1>2. CASE \A e \in Present(bs) : e.key # k
  <2>1. \A e \in Present(cs) : e.key # k
    BY <1>2
  <2> QED BY <1>2, <2>1, GetIs
<1> QED BY <1>1, <1>2

(* What a user sees of a step: a value that was set ...                    *)
LEMMA PutSeen ==
    ASSUME MapInv, MapInv', NEW k \in Keys, NEW v \in Values,
           Present(buckets') = Others(buckets, k) \cup {[key |-> k, value |-> v]}
    PROVE  MapGet(k)' = v /\ \A h \in Keys \ {k} : MapGet(h)' = MapGet(h)
<1> DEFINE n == [key |-> k, value |-> v]
<1>1. Shape(buckets) /\ Shape(buckets')
  BY DEF MapInv
<1>2. n \in Present(buckets') /\ n.key = k /\ n.value = v
  OBVIOUS
<1>3. MapGet(k)' = v
  <2>1. Get(buckets', k) = v
    BY <1>1, <1>2, GetIs
  <2> QED BY <2>1, LookupIs
<1>4. ASSUME NEW h \in Keys, h # k PROVE MapGet(h)' = MapGet(h)
  <2>1. \A e : e.key = h => (e \in Present(buckets') <=> e \in Present(buckets))
    BY <1>2, <1>4 DEF Others
  <2>2. Get(buckets', h) = Get(buckets, h)
    BY <1>1, <2>1, SameNodeSameValue
  <2> QED BY <2>2, LookupIs
<1> QED BY <1>3, <1>4

(* ... a key that was removed ...                                          *)
LEMMA DeleteSeen ==
    ASSUME MapInv, MapInv', NEW k \in Keys, Present(buckets') = Others(buckets, k)
    PROVE  MapGet(k)' = NULL /\ \A h \in Keys \ {k} : MapGet(h)' = MapGet(h)
<1>1. Shape(buckets) /\ Shape(buckets')
  BY DEF MapInv
<1>2. MapGet(k)' = NULL
  <2>1. \A e \in Present(buckets') : e.key # k
    BY DEF Others
  <2>2. Get(buckets', k) = NULL
    BY <1>1, <2>1, GetIs
  <2> QED BY <2>2, LookupIs
<1>3. ASSUME NEW h \in Keys, h # k PROVE MapGet(h)' = MapGet(h)
  <2>1. \A e : e.key = h => (e \in Present(buckets') <=> e \in Present(buckets))
    BY <1>3 DEF Others
  <2>2. Get(buckets', h) = Get(buckets, h)
    BY <1>1, <2>1, SameNodeSameValue
  <2> QED BY <2>2, LookupIs
<1> QED BY <1>2, <1>3

(* ... or nothing, when nodes only moved.                                  *)
LEMMA MoveSeen ==
    ASSUME MapInv, MapInv', Present(buckets') = Present(buckets)
    PROVE  \A h \in Keys : MapGet(h)' = MapGet(h)
<1>1. Shape(buckets) /\ Shape(buckets')
  BY DEF MapInv
<1>2. ASSUME NEW h \in Keys PROVE MapGet(h)' = MapGet(h)
  <2>1. Get(buckets', h) = Get(buckets, h)
    BY <1>1, SameNodeSameValue
  <2> QED BY <2>1, LookupIs
<1> QED BY <1>2

(* The map as map_get_() shows it.                                         *)
seen == [k \in Keys |-> MapGet(k)]

(* Each call of the map is a step of the dictionary, or none.              *)
LEMMA SetIsPut ==
    ASSUME MapInv, NEW k \in Keys, NEW v \in Values, MapReplace(k, v) \/ MapInsert(k, v)
    PROVE  MapInv' /\ MapGet(k)' = v /\ Lookups!Put(k, v)
           /\ \A h \in Keys \ {k} : MapGet(h)' = MapGet(h)
<1>1. MapInv' /\ Present(buckets') = Others(buckets, k) \cup {[key |-> k, value |-> v]}
  BY ReplaceStep, InsertStep
<1>2. MapGet(k)' = v /\ \A h \in Keys \ {k} : MapGet(h)' = MapGet(h)
  BY <1>1, PutSeen
<1>3. seen' = [seen EXCEPT ![k] = v]
  BY <1>2 DEF seen
<1> QED BY <1>1, <1>2, <1>3 DEF Lookups!Put, seen

LEMMA RemoveIsDelete ==
    ASSUME MapInv, NEW k \in Keys, MapRemove(k)
    PROVE  MapInv' /\ MapGet(k)' = NULL /\ Lookups!Delete(k)
           /\ \A h \in Keys \ {k} : MapGet(h)' = MapGet(h)
<1>1. MapInv' /\ Present(buckets') = Others(buckets, k)
  BY RemoveStep
<1>2. MapGet(k)' = NULL /\ \A h \in Keys \ {k} : MapGet(h)' = MapGet(h)
  BY <1>1, DeleteSeen
<1>3. seen' = [seen EXCEPT ![k] = NULL]
  BY <1>2 DEF seen
<1> QED BY <1>1, <1>2, <1>3 DEF Lookups!Delete, seen

LEMMA FailIsNothing ==
    ASSUME MapInv, NEW k \in Keys, MapInsertFails(k)
    PROVE  MapInv' /\ (\A h \in Keys : MapGet(h)' = MapGet(h))
<1>1. MapInv' /\ Present(buckets') = Present(buckets)
  BY InsertFailsStep
<1> QED BY <1>1, MoveSeen

LEMMA NothingSeen ==
    ASSUME \A h \in Keys : MapGet(h)' = MapGet(h)
    PROVE  UNCHANGED seen
BY DEF seen

LEMMA DictionaryInit == ASSUME MapInit PROVE Lookups!Init
BY DEF MapInit, Lookups!Init, MapGet, GetRef, nbuckets

(* A call of a client keeps the map sound, and a user of the map sees a    *)
(* step of the dictionary or nothing.                                      *)
LEMMA MapNextIs == ASSUME MapInv, MapNext PROVE MapInv' /\ [Lookups!Next]_seen
<1>1. ASSUME NEW k \in Keys, NEW v \in ClientValues, MapReplace(k, v) \/ MapInsert(k, v)
      PROVE  MapInv' /\ Lookups!Next
  <2>1. v \in Values
    BY MapAssumption
  <2>2. MapInv' /\ Lookups!Put(k, v)
    BY <1>1, <2>1, SetIsPut
  <2> QED BY <2>1, <2>2 DEF Lookups!Next
<1>2. ASSUME NEW k \in Keys, MapRemove(k) PROVE MapInv' /\ Lookups!Next
  BY <1>2, RemoveIsDelete DEF Lookups!Next
<1>3. ASSUME NEW k \in Keys, MapInsertFails(k) PROVE MapInv' /\ UNCHANGED seen
  BY <1>3, FailIsNothing, NothingSeen
<1> QED BY <1>1, <1>2, <1>3 DEF MapNext

(* A call on a sound map keeps the promise made for that very call.        *)
LEMMA PromisesKept == ASSUME MapInv PROVE CallsAsPromised
<1>1. ASSUME NEW k \in Keys, NEW v \in Values, MapReplace(k, v) \/ MapInsert(k, v)
      PROVE  Lookups!Put(k, v)
  BY <1>1, SetIsPut
<1>2. ASSUME NEW k \in Keys, MapInsertFails(k) PROVE Lookups!Fail
  <2>1. UNCHANGED seen
    BY <1>2, FailIsNothing, NothingSeen
  <2> QED BY <2>1 DEF Lookups!Fail, seen
<1>3. ASSUME NEW k \in Keys, MapRemove(k) PROVE Lookups!Delete(k)
  BY <1>3, RemoveIsDelete
<1> QED BY <1>1, <1>2, <1>3 DEF CallsAsPromised

(* Whatever a client of map.c calls, on any keys and values: the map is a  *)
(* partial function, each set puts its value under its own key, each       *)
(* removal deletes its own key, and a set that fails changes no key:       *)
(* ImplementsDictionary.                                                   *)
THEOREM MapIsDictionary == MapSpec => ImplementsDictionary
<1>1. MapInit => Lookups!Init
  BY DictionaryInit
<1>2. MapInv /\ [MapNext]_mapVars => [Lookups!Next]_seen
  <2>1. ASSUME UNCHANGED mapVars PROVE UNCHANGED seen
    <3>1. \A h \in Keys : MapGet(h)' = MapGet(h)
      BY <2>1, LookupIs DEF mapVars
    <3> QED BY <3>1, NothingSeen
  <2> QED BY <2>1, MapNextIs
<1>3. MapInv => [CallsAsPromised]_mapVars
  BY PromisesKept
<1> QED BY <1>1, <1>2, <1>3, MapInvariance, PTL
       DEF MapSpec, ImplementsDictionary, Lookups!Spec, seen
=============================================================================
