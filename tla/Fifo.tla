-------------------------------- MODULE Fifo --------------------------------
(***************************************************************************)
(* What the queue exercises of 2-term/2.1 and 2.2 expect of their queue: a *)
(* bounded channel on which one writer sends 0, 1, 2, ... and from which   *)
(* one reader takes them in that order, none lost and none repeated.       *)
(***************************************************************************)
EXTENDS Naturals, Sequences

CONSTANT MAX

VARIABLES
    chan,   \* the values in the queue
    sent,   \* the writer's next value
    got     \* the reader's next expected value

vars == <<chan, sent, got>>

Init == chan = <<>> /\ sent = 0 /\ got = 0

Add ==
    /\ Len(chan) < MAX
    /\ chan' = Append(chan, sent)
    /\ sent' = sent + 1
    /\ UNCHANGED got

Get ==
    /\ chan # <<>>
    /\ Head(chan) = got
    /\ chan' = Tail(chan)
    /\ got' = got + 1
    /\ UNCHANGED sent

Next == Add \/ Get

Spec == Init /\ [][Next]_vars
=============================================================================
