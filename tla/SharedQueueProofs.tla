------------------------- MODULE SharedQueueProofs -------------------------
(***************************************************************************)
(* The queue of 2-term/2.1 and 2.2 for any capacity and any number of      *)
(* values: the assertions on count hold in all five versions, and the      *)
(* synchronised ones are a bounded FIFO channel.                           *)
(***************************************************************************)
EXTENDS SharedQueue, LeastNumber, SequenceTheorems, TLAPS

InAdd == {"check", "link", "first", "append", "last", "load", "store", "return"}
InGet == {"check", "read", "unlink", "free", "load", "store", "return"}

(* Each thread moves count one way and has looked at it before; this is    *)
(* all that 2.1 can rely on.  The other thread may have moved count since, *)
(* but only away from the limit the test was about.                        *)
CountInv ==
    /\ count \in 0 .. MAX
    /\ wpc \in {"link", "first", "append", "last", "load"} => count < MAX
    /\ wpc = "store" => wcount \in 0 .. MAX - 1
    /\ rpc \in {"read", "unlink", "free", "load"} => count > 0
    /\ rpc = "store" => rcount \in 1 .. MAX
    /\ AssertsHold

(* Whoever is in a call holds the lock, or has the turn.                   *)
LockInv ==
    /\ lock \in {"free", "writer", "reader"}
    /\ lock = "writer" <=> wpc \in InAdd
    /\ lock = "reader" <=> rpc \in InGet
    /\ wpc \in InAdd \cup {"idle"}
    /\ rpc \in InGet \cup {"idle", "waiting", "woken"}

TurnInv ==
    /\ wpc \in InAdd \cup {"idle", "fill"}
    /\ rpc \in InGet \cup {"idle", "drain"}
    /\ sem_write \in {0, 1} /\ sem_read \in {0, 1}
    /\ wpc # "idle" => rpc = "idle"
    /\ wpc # "idle" \/ rpc # "idle" => sem_write = 0 /\ sem_read = 0
    /\ sem_write = 0 \/ sem_read = 0
    /\ wpc = "check" => count < MAX
    /\ rpc = "check" => count > 0

SyncInv ==
    /\ sync \in {"none", "lock", "cond", "sem"}
    /\ rpc \in {"waiting", "woken"} => sync = "cond"
    /\ Locks => LockInv
    /\ sync = "sem" => TurnInv
    /\ WaiterNotForgotten

(* The values in the list are lo, ..., hi - 1.                             *)
hi == IF wpc \in {"last", "load", "store", "return"} THEN i + 1 ELSE i
lo == IF rpc \in {"free", "load", "store", "return"} THEN expected + 1 ELSE expected

(* The list itself, as far as the loops over it can see.                   *)
ChainInv ==
    /\ i \in 0 .. LIMIT /\ expected \in 0 .. LIMIT
    /\ wpc \in InAdd => i < LIMIT
    /\ lo <= hi
    /\ next \in [Nodes -> Nodes \cup {NULL}]
    /\ first = IF lo < hi THEN lo ELSE NULL
    /\ \A n \in Nodes : lo <= n /\ n < hi => next[n] = IF n + 1 < hi THEN n + 1 ELSE NULL

(* count, which lags behind the list while a call is in progress, and the  *)
(* end of the list, which only matters while there is one.                 *)
EndsInv ==
    /\ count = hi - lo + (IF rpc \in {"free", "load", "store"} THEN 1 ELSE 0)
                       - (IF wpc \in {"last", "load", "store"} THEN 1 ELSE 0)
    /\ lo < hi => last = IF wpc = "last" THEN hi - 2 ELSE hi - 1
    /\ wpc = "last" => lo < hi - 1

(* What the threads have read is still so.                                 *)
LocalInv ==
    /\ wpc \in {"link", "first", "append"} => next[i] = NULL
    /\ wpc = "first" => lo = hi
    /\ wpc = "append" => lo < hi
    /\ wpc = "store" => wcount = count
    /\ rpc \in {"read", "unlink", "free", "load", "store", "return"} => tmp = expected
    /\ rpc \in {"read", "unlink"} => lo < hi
    /\ rpc = "unlink" => rnext = next[expected]
    /\ rpc = "store" => rcount = count

(* The nodes that have been allocated and not freed.                       *)
LiveInv ==
    /\ node \in [Nodes -> {"none", "live", "freed"}]
    /\ \A n \in Nodes :
          node[n] = "live" <=>
              /\ (IF rpc \in {"load", "store", "return"} THEN expected + 1 ELSE expected) <= n
              /\ n < IF wpc \in InAdd \ {"check"} THEN i + 1 ELSE i

QueueInv ==
    Synchronised => ChainInv /\ EndsInv /\ LocalInv /\ LiveInv /\ failure \in {"no", "abort"}

IInv == CountInv /\ SyncInv /\ QueueInv

-----------------------------------------------------------------------------
LEMMA InitInv == Init => IInv
  BY QueueAssumption DEF Init, QueueInit, SyncInit, ThreadsInit, IInv, CountInv, SyncInv,
     QueueInv, ChainInv, EndsInv, LocalInv, LiveInv, LockInv, TurnInv, AssertsHold,
     WaiterNotForgotten, Synchronised, Locks, hi, lo, InAdd, InGet, Nodes

LEMMA CountStep == CountInv /\ [Next]_vars => CountInv'
  <1> SUFFICES ASSUME CountInv, [Next]_vars PROVE CountInv'
    OBVIOUS
  <1> USE QueueAssumption DEF CountInv, AssertsHold, Writer, Reader, queueVars, syncVars,
     writerVars, readerVars
  <1>1. CASE AddBegin
    BY <1>1 DEF AddBegin, Lock
  <1>2. CASE FillBegin
    BY <1>2 DEF FillBegin
  <1>3. CASE Fill
    BY <1>3 DEF Fill
  <1>4. CASE AddCheck
    BY <1>4 DEF AddCheck, Full, Fails, Signal, Unlock
  <1>5. CASE AddLink
    BY <1>5 DEF AddLink
  <1>6. CASE AddFirst
    BY <1>6 DEF AddFirst
  <1>7. CASE AddAppend
    BY <1>7 DEF AddAppend, Fails, Access, Bad
  <1>8. CASE AddLast
    BY <1>8 DEF AddLast, Fails, Access, Bad
  <1>9. CASE AddLoad
    BY <1>9 DEF AddLoad
  <1>10. CASE AddStore
    BY <1>10 DEF AddStore
  <1>11. CASE AddReturn
    BY <1>11 DEF AddReturn, Signal, Unlock
  <1>12. CASE GetBegin
    BY <1>12 DEF GetBegin, Lock
  <1>13. CASE DrainBegin
    BY <1>13 DEF DrainBegin
  <1>14. CASE Drain
    BY <1>14 DEF Drain
  <1>15. CASE GetCheck
    BY <1>15 DEF GetCheck, Fails, CondWait, GetNothing, Unlock
  <1>16. CASE GetWoken
    BY <1>16 DEF GetWoken, Lock
  <1>17. CASE GetRead
    BY <1>17 DEF GetRead, Fails, Access, Bad
  <1>18. CASE GetUnlink
    BY <1>18 DEF GetUnlink
  <1>19. CASE GetFree
    BY <1>19 DEF GetFree
  <1>20. CASE GetLoad
    BY <1>20 DEF GetLoad
  <1>21. CASE GetStore
    BY <1>21 DEF GetStore
  <1>22. CASE GetReturn
    BY <1>22 DEF GetReturn, Fails, Unlock
  <1>23. CASE SpuriousWakeup
    BY <1>23 DEF SpuriousWakeup
  <1>24. CASE UNCHANGED vars
    BY <1>24 DEF vars
  <1> QED
    BY <1>1, <1>2, <1>3, <1>4, <1>5, <1>6, <1>7, <1>8, <1>9, <1>10, <1>11, <1>12, <1>13,
       <1>14, <1>15, <1>16, <1>17, <1>18, <1>19, <1>20, <1>21, <1>22, <1>23, <1>24
       DEF Next, WriterStep, ReaderStep, QueueAdd, QueueGet, LinkNode, TakeNode

LEMMA SyncStep == CountInv /\ SyncInv /\ [Next]_vars => SyncInv'
  <1> SUFFICES ASSUME CountInv, SyncInv, [Next]_vars PROVE SyncInv'
    OBVIOUS
  <1> USE QueueAssumption DEF CountInv, SyncInv, LockInv, TurnInv, WaiterNotForgotten,
     Locks, InAdd, InGet, Writer, Reader, queueVars, syncVars, writerVars, readerVars
  <1>1. CASE AddBegin
    BY <1>1 DEF AddBegin, Lock
  <1>2. CASE FillBegin
    BY <1>2 DEF FillBegin
  <1>3. CASE Fill
    BY <1>3 DEF Fill
  <1>4. CASE AddCheck
    BY <1>4 DEF AddCheck, Full, Fails, Signal, Unlock
  <1>5. CASE AddLink
    BY <1>5 DEF AddLink
  <1>6. CASE AddFirst
    BY <1>6 DEF AddFirst
  <1>7. CASE AddAppend
    BY <1>7 DEF AddAppend, Fails, Access, Bad
  <1>8. CASE AddLast
    BY <1>8 DEF AddLast, Fails, Access, Bad
  <1>9. CASE AddLoad
    BY <1>9 DEF AddLoad
  <1>10. CASE AddStore
    BY <1>10 DEF AddStore
  <1>11. CASE AddReturn
    BY <1>11 DEF AddReturn, Signal, Unlock
  <1>12. CASE GetBegin
    BY <1>12 DEF GetBegin, Lock
  <1>13. CASE DrainBegin
    BY <1>13 DEF DrainBegin
  <1>14. CASE Drain
    BY <1>14 DEF Drain
  <1>15. CASE GetCheck
    BY <1>15 DEF GetCheck, Fails, CondWait, GetNothing, Unlock
  <1>16. CASE GetWoken
    BY <1>16 DEF GetWoken, Lock
  <1>17. CASE GetRead
    BY <1>17 DEF GetRead, Fails, Access, Bad
  <1>18. CASE GetUnlink
    BY <1>18 DEF GetUnlink
  <1>19. CASE GetFree
    BY <1>19 DEF GetFree
  <1>20. CASE GetLoad
    BY <1>20 DEF GetLoad
  <1>21. CASE GetStore
    BY <1>21 DEF GetStore
  <1>22. CASE GetReturn
    BY <1>22 DEF GetReturn, Fails, Unlock
  <1>23. CASE SpuriousWakeup
    BY <1>23 DEF SpuriousWakeup
  <1>24. CASE UNCHANGED vars
    BY <1>24 DEF vars
  <1> QED
    BY <1>1, <1>2, <1>3, <1>4, <1>5, <1>6, <1>7, <1>8, <1>9, <1>10, <1>11, <1>12, <1>13,
       <1>14, <1>15, <1>16, <1>17, <1>18, <1>19, <1>20, <1>21, <1>22, <1>23, <1>24
       DEF Next, WriterStep, ReaderStep, QueueAdd, QueueGet, LinkNode, TakeNode

LEMMA SyncConstant == [Next]_vars => sync' = sync
  BY DEF Next, WriterStep, ReaderStep, QueueAdd, QueueGet, LinkNode, TakeNode, vars, queueVars,
     syncVars, writerVars, readerVars, AddBegin, FillBegin, Fill, AddCheck, AddLink, AddFirst,
     AddAppend, AddLast, AddLoad, AddStore, AddReturn, GetBegin, DrainBegin, Drain, GetCheck,
     GetWoken, GetRead, GetUnlink, GetFree, GetLoad, GetStore, GetReturn, SpuriousWakeup

LEMMA Exclusive ==
    ASSUME SyncInv, Synchronised
    PROVE  ~ (wpc \in InAdd /\ rpc \in InGet)
  BY DEF SyncInv, Synchronised, LockInv, TurnInv, Locks, InAdd, InGet

LEMMA QueueStep == IInv /\ [Next]_vars => QueueInv'
  <1> SUFFICES ASSUME IInv, [Next]_vars, Synchronised PROVE QueueInv'
    BY SyncConstant DEF QueueInv, Synchronised
  <1> USE QueueAssumption DEF IInv, CountInv, SyncInv, QueueInv, ChainInv, EndsInv,
     LocalInv, LiveInv, LockInv, TurnInv, Synchronised, Locks, hi, lo, InAdd, InGet, Nodes,
     Writer, Reader, queueVars, syncVars, writerVars, readerVars
  <1>1. CASE AddBegin
    BY <1>1 DEF AddBegin, Lock
  <1>2. CASE FillBegin
    BY <1>2 DEF FillBegin
  <1>3. CASE Fill
    BY <1>3 DEF Fill
  <1>4. CASE AddCheck
    <2>1. rpc \notin InGet /\ i \in Nodes /\ hi = i
      BY <1>4, Exclusive DEF AddCheck
    <2>2. CASE Full
      <3>1. i' = i /\ wpc' = "idle" /\ rpc' \in {rpc, "woken"}
        BY <1>4, <2>2 DEF AddCheck, Full, Signal
      <3>2. UNCHANGED <<queueVars, expected, failure>>
        BY <1>4, <2>2 DEF AddCheck, Full
      <3> QED
        BY <1>4, <2>1, <3>1, <3>2 DEF AddCheck
    <2>3. CASE wpc' = "link"
      <3>1. /\ node' = [node EXCEPT ![i] = "live"] /\ next' = [next EXCEPT ![i] = NULL]
            /\ UNCHANGED <<first, last, count, i, rpc, expected, failure>>
        BY <1>4, <2>3 DEF AddCheck, Full
      <3>2. hi' = hi /\ lo' = lo
        BY <1>4, <2>3, <3>1 DEF AddCheck
      <3>3. ChainInv'
        BY <1>4, <2>1, <2>3, <3>1, <3>2 DEF AddCheck
      <3>4. EndsInv'
        BY <1>4, <2>1, <2>3, <3>1, <3>2 DEF AddCheck
      <3>5. LocalInv'
        BY <1>4, <2>1, <2>3, <3>1, <3>2 DEF AddCheck
      <3>6. LiveInv'
        BY <1>4, <2>1, <2>3, <3>1 DEF AddCheck
      <3> QED
        BY <3>1, <3>3, <3>4, <3>5, <3>6
    <2>4. CASE ~ Full /\ wpc' # "link"
      <3>1. failure' = "abort" /\ UNCHANGED <<queueVars, wpc, i, rpc, expected, wcount, tmp, rnext, rcount>>
        BY <1>4, <2>4 DEF AddCheck, Full, Fails
      <3> QED
        BY <3>1
    <2> QED
      BY <2>2, <2>3, <2>4
  <1>5. CASE AddLink
    BY <1>5 DEF AddLink
  <1>6. CASE AddFirst
    <2>0. rpc \notin InGet
      BY <1>6, Exclusive DEF AddFirst
    <2>1. ChainInv'
      BY <1>6, <2>0 DEF AddFirst
    <2>2. EndsInv'
      BY <1>6, <2>0 DEF AddFirst
    <2>3. LocalInv'
      BY <1>6, <2>0 DEF AddFirst
    <2>4. LiveInv'
      BY <1>6, <2>0 DEF AddFirst
    <2>5. failure' \in {"no", "abort"}
      BY <1>6, <2>0 DEF AddFirst
    <2> QED
      BY <2>1, <2>2, <2>3, <2>4, <2>5
  <1>7. CASE AddAppend
    <2>1. rpc \notin InGet /\ i \in Nodes
      BY <1>7, Exclusive DEF AddAppend
    <2>2. last = i - 1 /\ lo <= last /\ last \in Nodes /\ node[last] = "live"
      BY <1>7, <2>1 DEF AddAppend
    <2>3. /\ next' = [next EXCEPT ![last] = i] /\ wpc' = "last"
          /\ UNCHANGED <<first, last, count, node, i, rpc, tmp, expected, failure>>
      BY <1>7, <2>2 DEF AddAppend, Bad
    <2>4. hi = i /\ hi' = i + 1 /\ lo' = lo
      BY <1>7, <2>3 DEF AddAppend
    <2>5. ChainInv'
      <3>1. ASSUME NEW n \in Nodes, lo <= n, n < i + 1
            PROVE  next'[n] = IF n + 1 < i + 1 THEN n + 1 ELSE NULL
        <4>1. CASE n = i
          BY <1>7, <2>1, <2>2, <2>3, <4>1 DEF AddAppend
        <4>2. CASE n = last
          BY <2>1, <2>2, <2>3, <4>2
        <4>3. CASE n < last
          <5>1. next[n] = n + 1
            BY <2>1, <2>2, <2>4, <3>1, <4>3
          <5>2. n # last /\ n < i
            BY <2>1, <2>2, <4>3
          <5>3. next'[n] = next[n]
            BY <2>3, <5>2
          <5>4. next'[n] = n + 1
            BY <5>1, <5>3
          <5>5. n + 1 < i + 1
            BY <2>1, <5>2
          <5> QED
            BY <5>4, <5>5
        <4> QED
          BY <2>1, <2>2, <3>1, <4>1, <4>2, <4>3
      <3>2. next' \in [Nodes -> Nodes \cup {NULL}]
        BY <2>1, <2>3
      <3> QED
        BY <1>7, <2>1, <2>2, <2>3, <2>4, <3>1, <3>2 DEF AddAppend
    <2>6. EndsInv'
      BY <1>7, <2>1, <2>2, <2>3, <2>4 DEF AddAppend
    <2>7. LocalInv' /\ LiveInv'
      BY <1>7, <2>1, <2>3 DEF AddAppend
    <2> QED
      BY <2>3, <2>5, <2>6, <2>7
  <1>8. CASE AddLast
    <2>1. rpc \notin InGet /\ i \in Nodes
      BY <1>8, Exclusive DEF AddLast
    <2>2. last = i - 1 /\ lo <= last /\ last \in Nodes /\ node[last] = "live" /\ next[last] = i
      BY <1>8, <2>1 DEF AddLast
    <2>3. last' = i /\ wpc' = "load" /\ UNCHANGED <<first, count, next, node, i, rpc, tmp, expected, failure>>
      BY <1>8, <2>2 DEF AddLast, Bad
    <2>4. hi' = hi /\ hi = i + 1 /\ lo' = lo
      BY <1>8, <2>3 DEF AddLast
    <2>5. EndsInv'
      BY <1>8, <2>1, <2>3, <2>4 DEF AddLast
    <2>6. ChainInv' /\ LocalInv' /\ LiveInv'
      BY <1>8, <2>1, <2>3, <2>4 DEF AddLast
    <2> QED
      BY <2>3, <2>5, <2>6
  <1>9. CASE AddLoad
    BY <1>9 DEF AddLoad
  <1>10. CASE AddStore
    (* The leftover test never prevents the increment: last is the new end. *)
    <2>1. rpc \notin InGet /\ lo < hi
      BY <1>10, Exclusive DEF AddStore
    <2>2. last = i /\ i \in Nodes /\ next[i] = NULL
      BY <1>10, <2>1 DEF AddStore
    <2>3. count' = count + 1
      BY <1>10, <2>2 DEF AddStore
    <2> QED
      BY <1>10, <2>1, <2>3 DEF AddStore
  <1>11. CASE AddReturn
    <2>0. rpc \notin InGet
      BY <1>11, Exclusive DEF AddReturn, Signal, Unlock
    <2>1. ChainInv'
      BY <1>11, <2>0 DEF AddReturn, Signal, Unlock
    <2>2. EndsInv'
      BY <1>11, <2>0 DEF AddReturn, Signal, Unlock
    <2>3. LocalInv'
      BY <1>11, <2>0 DEF AddReturn, Signal, Unlock
    <2>4. LiveInv'
      BY <1>11, <2>0 DEF AddReturn, Signal, Unlock
    <2>5. failure' \in {"no", "abort"}
      BY <1>11, <2>0 DEF AddReturn, Signal, Unlock
    <2> QED
      BY <2>1, <2>2, <2>3, <2>4, <2>5
  <1>12. CASE GetBegin
    BY <1>12 DEF GetBegin, Lock
  <1>13. CASE DrainBegin
    BY <1>13 DEF DrainBegin
  <1>14. CASE Drain
    BY <1>14 DEF Drain
  <1>15. CASE GetCheck
    <2>1. wpc \notin InAdd /\ count = hi - lo /\ lo = expected /\ count >= 0
      BY <1>15, Exclusive DEF GetCheck
    <2>2. CASE count = 0
      <3>1. sync # "sem" /\ ~ (count < 0)
        BY <1>15, <2>2 DEF GetCheck
      <3>2. IF sync = "cond" THEN CondWait ELSE GetNothing
        BY <1>15, <2>2, <3>1 DEF GetCheck
      <3>3. rpc' \in {"idle", "waiting"} /\ UNCHANGED <<expected, failure>>
        BY <3>1, <3>2 DEF CondWait, GetNothing
      <3>4. UNCHANGED <<first, last, count, next, node, wpc, i, wcount>>
        BY <1>15 DEF GetCheck
      <3>5. rpc = "check" /\ hi' = hi /\ lo' = lo
        BY <1>15, <2>1, <3>3, <3>4 DEF GetCheck
      <3>6. ChainInv'
        BY <2>1, <3>3, <3>4, <3>5
      <3>7. EndsInv'
        BY <2>1, <3>3, <3>4, <3>5
      <3>8. LocalInv'
        BY <2>1, <3>3, <3>4, <3>5
      <3>9. LiveInv'
        BY <2>1, <3>3, <3>4, <3>5
      <3> QED
        BY <3>3, <3>6, <3>7, <3>8, <3>9
    <2>3. CASE count # 0
      <3>1. /\ rpc' = "read" /\ tmp' = first
            /\ UNCHANGED <<queueVars, writerVars, rnext, rcount, expected, failure>>
        BY <1>15, <2>1, <2>3 DEF GetCheck
      <3>2. first = expected /\ lo < hi
        BY <2>1, <2>3
      <3> QED
        BY <2>1, <3>1, <3>2
    <2> QED
      BY <2>2, <2>3
  <1>16. CASE GetWoken
    BY <1>16 DEF GetWoken, Lock
  <1>17. CASE GetRead
    <2>1. wpc \notin InAdd /\ lo < hi /\ lo = expected
      BY <1>17, Exclusive DEF GetRead
    <2>2. tmp \in Nodes /\ node[tmp] = "live" /\ tmp = expected
      BY <1>17, <2>1 DEF GetRead
    <2>3. /\ rnext' = next[tmp] /\ rpc' = "unlink"
          /\ UNCHANGED <<queueVars, writerVars, tmp, expected, failure>>
      BY <1>17, <2>2 DEF GetRead, Bad
    <2> QED
      BY <1>17, <2>1, <2>2, <2>3 DEF GetRead
  <1>18. CASE GetUnlink
    <2>0. wpc \notin InAdd
      BY <1>18, Exclusive DEF GetUnlink
    <2>1. ChainInv'
      BY <1>18, <2>0 DEF GetUnlink
    <2>2. EndsInv'
      BY <1>18, <2>0 DEF GetUnlink
    <2>3. LocalInv'
      BY <1>18, <2>0 DEF GetUnlink
    <2>4. LiveInv'
      BY <1>18, <2>0 DEF GetUnlink
    <2>5. failure' \in {"no", "abort"}
      BY <1>18, <2>0 DEF GetUnlink
    <2> QED
      BY <2>1, <2>2, <2>3, <2>4, <2>5
  <1>19. CASE GetFree
    <2>0. wpc \notin InAdd
      BY <1>19, Exclusive DEF GetFree
    <2>1. ChainInv'
      BY <1>19, <2>0 DEF GetFree
    <2>2. EndsInv'
      BY <1>19, <2>0 DEF GetFree
    <2>3. LocalInv'
      BY <1>19, <2>0 DEF GetFree
    <2>4. LiveInv'
      BY <1>19, <2>0 DEF GetFree
    <2>5. failure' \in {"no", "abort"}
      BY <1>19, <2>0 DEF GetFree
    <2> QED
      BY <2>1, <2>2, <2>3, <2>4, <2>5
  <1>20. CASE GetLoad
    BY <1>20 DEF GetLoad
  <1>21. CASE GetStore
    <2>0. wpc \notin InAdd
      BY <1>21, Exclusive DEF GetStore
    <2>1. ChainInv'
      BY <1>21, <2>0 DEF GetStore
    <2>2. EndsInv'
      BY <1>21, <2>0 DEF GetStore
    <2>3. LocalInv'
      BY <1>21, <2>0 DEF GetStore
    <2>4. LiveInv'
      BY <1>21, <2>0 DEF GetStore
    <2>5. failure' \in {"no", "abort"}
      BY <1>21, <2>0 DEF GetStore
    <2> QED
      BY <2>1, <2>2, <2>3, <2>4, <2>5
  <1>22. CASE GetReturn
    <2>0. wpc \notin InAdd
      BY <1>22, Exclusive DEF GetReturn, Fails, Unlock
    <2>1. ChainInv'
      BY <1>22, <2>0 DEF GetReturn, Fails, Unlock
    <2>2. EndsInv'
      BY <1>22, <2>0 DEF GetReturn, Fails, Unlock
    <2>3. LocalInv'
      BY <1>22, <2>0 DEF GetReturn, Fails, Unlock
    <2>4. LiveInv'
      BY <1>22, <2>0 DEF GetReturn, Fails, Unlock
    <2>5. failure' \in {"no", "abort"}
      BY <1>22, <2>0 DEF GetReturn, Fails, Unlock
    <2> QED
      BY <2>1, <2>2, <2>3, <2>4, <2>5
  <1>23. CASE SpuriousWakeup
    BY <1>23 DEF SpuriousWakeup
  <1>24. CASE UNCHANGED vars
    BY <1>24 DEF vars
  <1> QED
    BY <1>1, <1>2, <1>3, <1>4, <1>5, <1>6, <1>7, <1>8, <1>9, <1>10, <1>11, <1>12, <1>13,
       <1>14, <1>15, <1>16, <1>17, <1>18, <1>19, <1>20, <1>21, <1>22, <1>23, <1>24
       DEF Next, WriterStep, ReaderStep, QueueAdd, QueueGet, LinkNode, TakeNode

(* The invariant is kept by every step of either thread.                   *)
THEOREM Invariance == Spec => []IInv
  <1>1. IInv /\ [Next]_vars => IInv'
    BY CountStep, SyncStep, QueueStep DEF IInv
  <1> QED
    BY InitInv, <1>1, PTL DEF Spec

(* assert(q->count <= q->max_count) and assert(q->count >= 0) hold in all  *)
(* five versions, in 2.1 without any lock.                                 *)
THEOREM AssertionsHold == Spec => []AssertsHold
  <1>1. IInv => AssertsHold
    BY DEF IInv, CountInv
  <1> QED
    BY Invariance, <1>1, PTL

(* With a lock, a condition variable or semaphores no thread follows a     *)
(* null or freed pointer and the reader prints no ERROR.                   *)
THEOREM NeverFails == Spec => []NoFailure
  <1>1. IInv => NoFailure
    BY DEF IInv, QueueInv, NoFailure
  <1> QED
    BY Invariance, <1>1, PTL

(* No signal of 2.2/condVar is lost.                                       *)
THEOREM SignalsKept == Spec => []WaiterNotForgotten
  <1>1. IInv => WaiterNotForgotten
    BY DEF IInv, SyncInv
  <1> QED
    BY Invariance, <1>1, PTL

-----------------------------------------------------------------------------
(* The walk from q->first along the next fields, by induction on the steps *)
(* taken: the first step that went elsewhere would have come from a node   *)
(* whose next field says otherwise.                                        *)
LEMMA WalkIs ==
    ASSUME ChainInv
    PROVE  \A k \in 0 .. LIMIT : Walk[k] = IF lo + k < hi THEN lo + k ELSE NULL
  <1> DEFINE w == [k \in 0 .. LIMIT |-> IF lo + k < hi THEN lo + k ELSE NULL]
             Step(f, k) == IF k = 0 THEN first ELSE IF f[k - 1] = NULL THEN NULL ELSE next[f[k - 1]]
             Wrong == {k \in 0 .. LIMIT : Walk[k] # w[k]}
  <1>1. lo \in Nat /\ hi \in Nat /\ hi <= LIMIT /\ LIMIT \in Nat /\ NULL \notin Nodes
    BY QueueAssumption DEF ChainInv, lo, hi, InAdd
  <1>2. first = IF lo < hi THEN lo ELSE NULL
    BY DEF ChainInv
  <1>3. \A n \in Nodes : lo <= n /\ n < hi => next[n] = IF n + 1 < hi THEN n + 1 ELSE NULL
    BY DEF ChainInv
  <1>4. w = [k \in 0 .. LIMIT |-> Step(w, k)]
    <2>1. ASSUME NEW k \in 0 .. LIMIT PROVE w[k] = Step(w, k)
      <3>1. CASE k = 0
        BY <1>1, <1>2, <3>1
      <3>2. CASE k # 0
        <4>1. k - 1 \in 0 .. LIMIT /\ w[k - 1] = IF lo + k - 1 < hi THEN lo + k - 1 ELSE NULL
          BY <1>1, <3>2
        <4> QED
          BY <1>1, <1>3, <3>2, <4>1 DEF Nodes
      <3> QED
        BY <3>1, <3>2
    <2> QED
      BY <2>1
  <1>5. Walk = [k \in 0 .. LIMIT |-> Step(Walk, k)]
    BY <1>4 DEF Walk
  <1>6. ASSUME Wrong # {} PROVE FALSE
    <2>1. Wrong \in SUBSET Nat
      BY <1>1
    <2> HIDE DEF Wrong, w
    <2>2. PICK m \in Wrong : \A n \in Wrong : m <= n
      BY <1>6, <2>1, Least
    <2> USE DEF Wrong
    <2>3. Walk[m] = Step(Walk, m) /\ w[m] = Step(w, m)
      BY <1>4, <1>5
    <2>4. m # 0
      BY <2>3
    <2>5. m - 1 \in 0 .. LIMIT /\ Walk[m - 1] = w[m - 1]
      BY <1>1, <2>2, <2>4
    <2> QED
      BY <2>2, <2>3, <2>5
  <1> QED
    BY <1>6

(* The values a, ..., b - 1 in order.                                      *)
Values(a, b) == [k \in 1 .. b - a |-> a + k - 1]

LEMMA ReachedIs == ChainInv => Reached = Values(lo, hi)
  <1> SUFFICES ASSUME ChainInv PROVE Reached = Values(lo, hi)
    OBVIOUS
  <1>1. lo \in Nat /\ hi \in Nat /\ lo <= hi /\ hi <= LIMIT /\ LIMIT \in Nat /\ NULL \notin Nodes
    BY QueueAssumption DEF ChainInv, lo, hi, InAdd
  <1>2. \A j \in 1 .. LIMIT : Walk[j - 1] = IF lo + j - 1 < hi THEN lo + j - 1 ELSE NULL
    <2> TAKE j \in 1 .. LIMIT
    <2>1. j - 1 \in 0 .. LIMIT /\ lo + (j - 1) = lo + j - 1
      BY <1>1
    <2> QED
      BY <2>1, WalkIs
  <1>3. {j \in 1 .. LIMIT : Walk[j - 1] # NULL} = 1 .. hi - lo
    <2>1. \A j \in 1 .. LIMIT : lo + j - 1 < hi <=> Walk[j - 1] # NULL
      BY <1>1, <1>2 DEF Nodes
    <2>2. \A j \in 1 .. LIMIT : lo + j - 1 < hi <=> j \in 1 .. hi - lo
      BY <1>1
    <2>3. 1 .. hi - lo \subseteq 1 .. LIMIT
      BY <1>1
    <2> QED
      BY <2>1, <2>2, <2>3
  <1>4. \A k \in 1 .. hi - lo : Walk[k - 1] = lo + k - 1
    BY <1>1, <1>2
  <1> QED
    BY <1>3, <1>4 DEF Reached, Values

LEMMA ReachedPrimed == ChainInv' => Reached' = Values(lo', hi')
  <1>1. ChainInv' => (Reached = Values(lo, hi))'
    BY ReachedIs, PTL
  <1> QED
    BY <1>1 DEF Values

LEMMA ValuesSeq ==
    ASSUME NEW a \in Nat, NEW b \in Nat, a <= b
    PROVE  /\ Values(a, b) \in Seq(Nat)
           /\ Len(Values(a, b)) = b - a
           /\ Append(Values(a, b), b) = Values(a, b + 1)
           /\ a < b => /\ Values(a, b) # <<>>
                       /\ Head(Values(a, b)) = a
                       /\ Tail(Values(a, b)) = Values(a + 1, b)
  <1>1. Values(a, b) \in Seq(Nat) /\ Len(Values(a, b)) = b - a
    BY DEF Values
  <1>2. Append(Values(a, b), b) = Values(a, b + 1)
    BY <1>1 DEF Values
  <1>3. ASSUME a < b
        PROVE  Values(a, b) # <<>> /\ Head(Values(a, b)) = a
    BY <1>1, <1>3 DEF Values
  <1>4. ASSUME a < b
        PROVE  Tail(Values(a, b)) = Values(a + 1, b)
    <2>1. /\ Tail(Values(a, b)) \in Seq(Nat) /\ Len(Tail(Values(a, b))) = b - a - 1
          /\ \A k \in 1 .. b - a - 1 : Tail(Values(a, b))[k] = Values(a, b)[k + 1]
      BY <1>1, <1>3, <1>4, HeadTailProperties
    <2>2. Values(a + 1, b) \in Seq(Nat) /\ Len(Values(a + 1, b)) = b - a - 1
      BY <1>4 DEF Values
    <2>3. \A k \in 1 .. b - a - 1 : Values(a, b)[k + 1] = Values(a + 1, b)[k]
      BY <1>4 DEF Values
    <2> QED
      BY <2>1, <2>2, <2>3, SeqEqual
  <1> QED
    BY <1>1, <1>2, <1>3, <1>4

(* Between two calls the list holds exactly the values on the way, in      *)
(* order, and count, last and the heap agree with it.                      *)
THEOREM ListKept == Spec => []ListShape
  <1>1. IInv => ListShape
    <2> SUFFICES ASSUME IInv, Synchronised, Quiet PROVE ListShape
      BY DEF ListShape
    <2>1. lo = expected /\ hi = i /\ count = i - expected /\ ChainInv
      BY DEF IInv, QueueInv, Quiet, ChainInv, EndsInv, lo, hi
    <2>2. Reached = [k \in 1 .. count |-> expected + k - 1]
      BY <2>1, ReachedIs DEF Values
    <2>3. expected \in Nat /\ i \in Nat
      BY <2>1, QueueAssumption DEF ChainInv
    <2>4. i = expected + count
      BY <2>1, <2>3
    <2>5. count > 0 => last = i - 1
      BY <2>1, <2>3 DEF IInv, QueueInv, EndsInv, Quiet
    <2>6. \A n \in Nodes : node[n] = "live" <=> n \in expected .. i - 1
      BY <2>3, QueueAssumption DEF IInv, QueueInv, LiveInv, Quiet, InAdd, Nodes
    <2> QED
      BY <2>2, <2>4, <2>5, <2>6 DEF ListShape
  <1> QED
    BY Invariance, <1>1, PTL

-----------------------------------------------------------------------------
(* A step links a value, unlinks one, or leaves the list alone.            *)
LEMMA EndsMove ==
    ASSUME IInv, [Next]_vars, Synchronised
    PROVE  \/ hi' = hi /\ lo' = lo
           \/ hi' = hi + 1 /\ lo' = lo /\ hi - lo < MAX
           \/ hi' = hi /\ lo' = lo + 1 /\ lo < hi
  <1> USE QueueAssumption DEF IInv, QueueInv, Synchronised, lo, hi, Writer, Reader, queueVars,
          syncVars, writerVars, readerVars
  <1>1. i \in Nat /\ expected \in Nat /\ count \in Int
    BY DEF ChainInv, CountInv
  <1>2. CASE AddBegin \/ FillBegin \/ Fill \/ AddLink \/ AddLast \/ AddLoad \/ AddStore
    BY <1>2 DEF AddBegin, FillBegin, Fill, AddLink, AddLast, AddLoad, AddStore
  <1>3. CASE AddCheck
    <2>1. Full => sync # "sem"
      BY <1>3 DEF AddCheck, Full, SyncInv, TurnInv, CountInv
    <2> QED
      BY <1>3, <2>1 DEF AddCheck, Signal
  <1>4. CASE AddFirst \/ AddAppend
    <2>1. rpc \notin InGet
      BY <1>4, Exclusive DEF AddFirst, AddAppend, InAdd
    <2>2. hi - lo < MAX
      BY <1>1, <1>4, <2>1 DEF AddFirst, AddAppend, EndsInv, CountInv, InGet
    <2> QED
      BY <1>1, <1>4, <2>2 DEF AddFirst, AddAppend
  <1>5. CASE AddReturn
    BY <1>1, <1>5 DEF AddReturn, Signal
  <1>6. CASE GetBegin \/ DrainBegin \/ Drain \/ GetWoken \/ GetRead \/ GetFree \/ GetLoad \/ GetStore
    BY <1>6 DEF GetBegin, DrainBegin, Drain, GetWoken, GetRead, GetFree, GetLoad, GetStore
  <1>7. CASE GetCheck
    <2>1. count = 0 => sync # "sem"
      BY <1>7 DEF GetCheck, SyncInv, TurnInv
    <2> QED
      BY <1>7, <2>1 DEF GetCheck, CondWait, GetNothing
  <1>8. CASE GetUnlink
    BY <1>1, <1>8 DEF GetUnlink, LocalInv
  <1>9. CASE GetReturn
    BY <1>1, <1>9 DEF GetReturn, LocalInv
  <1>10. CASE SpuriousWakeup \/ UNCHANGED vars
    BY <1>10 DEF SpuriousWakeup, vars
  <1> QED
    BY <1>2, <1>3, <1>4, <1>5, <1>6, <1>7, <1>8, <1>9, <1>10
       DEF Next, WriterStep, ReaderStep, QueueAdd, QueueGet, LinkNode, TakeNode

(* The queue with a lock, with a condition variable and with semaphores is *)
(* a bounded FIFO channel, of any capacity: a value is sent when its node  *)
(* is linked and received when it is unlinked.                             *)
THEOREM Implements == Spec => ImplementsFifo
  <1>1. Init => Channel!Init
    <2> SUFFICES ASSUME Init PROVE Channel!Init
      OBVIOUS
    <2>1. lo = 0 /\ hi = 0 /\ wpc = "idle" /\ rpc = "idle" /\ i = 0 /\ expected = 0
      BY DEF Init, ThreadsInit, lo, hi
    <2>2. Synchronised => Reached = Values(0, 0)
      BY <2>1, InitInv, ReachedIs DEF IInv, QueueInv
    <2>3. Values(0, 0) = <<>>
      BY DEF Values
    <2> QED
      BY <2>1, <2>2, <2>3 DEF Channel!Init, chanBar, sentBar, gotBar
  <1>2. IInv /\ IInv' /\ [Next]_vars => [Channel!Next]_(Channel!vars)
    <2> SUFFICES ASSUME IInv, IInv', [Next]_vars PROVE [Channel!Next]_(Channel!vars)
      OBVIOUS
    <2>1. Synchronised' <=> Synchronised
      BY SyncConstant DEF Synchronised
    <2>2. CASE ~ Synchronised
      BY <2>1, <2>2 DEF Channel!vars, chanBar, sentBar, gotBar
    <2>3. CASE Synchronised
      <3>1. chanBar = Values(lo, hi) /\ sentBar = hi /\ gotBar = lo
        BY <2>3, ReachedIs DEF IInv, QueueInv, chanBar, sentBar, gotBar, hi, lo
      <3>2. chanBar' = Values(lo', hi') /\ sentBar' = hi' /\ gotBar' = lo'
        BY <2>1, <2>3, ReachedPrimed DEF IInv, QueueInv, chanBar, sentBar, gotBar, hi, lo
      <3>3. lo \in Nat /\ hi \in Nat /\ lo <= hi
        BY <2>3, QueueAssumption DEF IInv, QueueInv, ChainInv, lo, hi
      <3>4. CASE hi' = hi /\ lo' = lo
        BY <3>1, <3>2, <3>4 DEF Channel!vars
      <3>5. CASE hi' = hi + 1 /\ lo' = lo /\ hi - lo < MAX
        BY <3>1, <3>2, <3>3, <3>5, ValuesSeq DEF Channel!Next, Channel!Add
      <3>6. CASE hi' = hi /\ lo' = lo + 1 /\ lo < hi
        BY <3>1, <3>2, <3>3, <3>6, ValuesSeq DEF Channel!Next, Channel!Get
      <3> QED
        BY <2>3, <3>4, <3>5, <3>6, EndsMove
    <2> QED
      BY <2>2, <2>3
  <1> QED
    BY Invariance, <1>1, <1>2, PTL DEF Spec, ImplementsFifo, Channel!Spec
=============================================================================
