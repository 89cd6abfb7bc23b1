------------------------------ MODULE HashMap ------------------------------
(***************************************************************************)
(* The hash map of 2-term/3.3 (map.c): chains of nodes in buckets, which   *)
(* are doubled when there are as many nodes as buckets.  The proxy keeps   *)
(* its cache in it and calls it with cache_mutex held, so a call is one    *)
(* step.  map_iter_() and map_next_() are not used.                        *)
(*                                                                         *)
(* buckets[j] is the chain of bucket j - 1, and Len(buckets) is nbuckets.  *)
(***************************************************************************)
EXTENDS Naturals, Sequences, SequencesExt

CONSTANTS
    Keys, Values,
    ClientValues,   \* bound: the values that a client of the map alone stores
    Hash,           \* map_hash(): a number for each key
    NULL            \* what map_get_() returns for a key that is not there

ASSUME MapAssumption ==
    /\ Hash \in [Keys -> Nat]
    /\ ClientValues \subseteq Values
    /\ NULL \notin Keys \cup Values

VARIABLES buckets, nnodes

mapVars == <<buckets, nnodes>>

(* map_init(): everything is zero, not one bucket is allocated.            *)
MapInit == buckets = <<>> /\ nnodes = 0

nbuckets == Len(buckets)

(* map_bucketidx(): hash & (nbuckets - 1), for a power of two.             *)
BucketIdx(k, n) == (Hash[k] % n) + 1

(* map_getref(): the chain is searched for the key; 0 if it is not there.  *)
GetRef(k) ==
    IF nbuckets = 0 THEN 0
    ELSE SelectInSeq(buckets[BucketIdx(k, nbuckets)], LAMBDA e : e.key = k)

MapGet(k) ==
    IF GetRef(k) = 0 THEN NULL ELSE buckets[BucketIdx(k, nbuckets)][GetRef(k)].value

(* map_addnode(): at the front of the chain.                               *)
AddNode(bs, e) == [bs EXCEPT ![BucketIdx(e.key, Len(bs))] = <<e>> \o @]

Rehash_KeepsChains(n) == [j \in 1 .. n |-> IF j <= nbuckets THEN buckets[j] ELSE <<>>]

(* map_resize() makes one list of all chains: from the last bucket to the  *)
(* first it puts each node in front of those it has.                       *)
Chained(bs) ==
    LET list[j \in 0 .. Len(bs)] == IF j = 0 THEN <<>> ELSE list[j - 1] \o Reverse(bs[j])
    IN  list[Len(bs)]

(* Then it adds the nodes to n empty buckets, from the front of the list.  *)
Dealt(nodes, n) ==
    LET bs[p \in 0 .. Len(nodes)] ==
          IF p = 0 THEN [j \in 1 .. n |-> <<>>] ELSE AddNode(bs[p - 1], nodes[p])
    IN  bs[Len(nodes)]

(* When realloc() fails the same is done with the old buckets.             *)
Rehash(n) == Dealt(Chained(buckets), n)

-----------------------------------------------------------------------------
(* map_set_() of a key that is there copies the value into its node.       *)
MapReplace(k, v) ==
    /\ GetRef(k) # 0
    /\ buckets' = [buckets EXCEPT ![BucketIdx(k, nbuckets)][GetRef(k)].value = v]
    /\ UNCHANGED nnodes

MapInsert(k, v) ==
    /\ GetRef(k) = 0
    /\ LET grown == IF nnodes < nbuckets THEN buckets
                    ELSE Rehash(IF nbuckets > 0 THEN 2 * nbuckets ELSE 1)
       IN  buckets' = AddNode(grown, [key |-> k, value |-> v])
    /\ nnodes' = nnodes + 1

MapInsertFails_LosesOne(k) ==
    /\ GetRef(k) = 0
    /\ nnodes >= nbuckets
    /\ buckets' = Dealt(SubSeq(Chained(buckets), 2, nnodes), nbuckets)
    /\ UNCHANGED nnodes

(* map_set_() fails: malloc() of the node, or realloc() of the buckets,    *)
(* after the chains were taken apart.                                      *)
MapInsertFails(k) ==
    /\ GetRef(k) = 0
    /\ nnodes >= nbuckets
    /\ buckets' = Rehash(nbuckets)
    /\ UNCHANGED nnodes

MapRemove_NotCounted(k) ==
    /\ GetRef(k) # 0
    /\ buckets' = [buckets EXCEPT ![BucketIdx(k, nbuckets)] = RemoveAt(@, GetRef(k))]
    /\ UNCHANGED nnodes

(* map_remove_(); a key that is not there changes nothing.                 *)
MapRemove(k) ==
    /\ GetRef(k) # 0
    /\ buckets' = [buckets EXCEPT ![BucketIdx(k, nbuckets)] = RemoveAt(@, GetRef(k))]
    /\ nnodes' = nnodes - 1

MapNext ==
    \E k \in Keys : \/ \E v \in ClientValues : MapReplace(k, v) \/ MapInsert(k, v)
                    \/ MapInsertFails(k) \/ MapRemove(k)

MapSpec == MapInit /\ [][MapNext]_mapVars

-----------------------------------------------------------------------------
(* Powers of two.                                                          *)
TwoTo[e \in Nat] == IF e = 0 THEN 1 ELSE 2 * TwoTo[e - 1]

(* However often the buckets were doubled and nodes moved, every node is   *)
(* in the bucket that its hash selects, no key has two nodes, nnodes is    *)
(* their number and at most nbuckets, which is zero or a power of two: the *)
(* condition under which map_bucketidx() may use a mask.                   *)
MapShape ==
    LET nodes == Chained(buckets)
    IN  /\ \A j \in 1 .. nbuckets, p \in 1 .. Len(nodes) :
              nodes[p] \in Range(buckets[j]) => BucketIdx(nodes[p].key, nbuckets) = j
        /\ \A p, q \in 1 .. Len(nodes) : nodes[p].key = nodes[q].key => p = q
        /\ nnodes = Len(nodes) /\ nnodes <= nbuckets
        /\ nbuckets = 0 \/ \E e \in 0 .. nbuckets : nbuckets = TwoTo[e]

Lookups == INSTANCE Dictionary WITH dict <- [k \in Keys |-> MapGet(k)]

(* Each call does to the map, as map_get_() shows it, what its name and its*)
(* arguments say: a set puts its value under its key, a removal deletes its*)
(* key, a set that fails changes nothing; no other key is touched.         *)
CallsAsPromised ==
    \A k \in Keys :
        /\ \A v \in Values : MapReplace(k, v) \/ MapInsert(k, v) => Lookups!Put(k, v)
        /\ MapInsertFails(k) => Lookups!Fail
        /\ MapRemove(k) => Lookups!Delete(k)

(* The map is a partial function, and every step of it is the operation of *)
(* the call that was made: no resize, not even one that fails half-way     *)
(* after the chains were taken apart, loses, revives or changes a key.     *)
ImplementsDictionary == Lookups!Spec /\ [][CallsAsPromised]_mapVars
=============================================================================
