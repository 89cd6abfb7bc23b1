----------------------------- MODULE EchoServer -----------------------------
(***************************************************************************)
(* The UNIX socket server and client of term 1, lab 6 (subtask 3), and the *)
(* TCP ones of lab 7 (subtask 2): one process that serves one connection   *)
(* after another, and clients that send one message, read one and leave.   *)
(* The first server sends the number back that it has read, the second one *)
(* a greeting of its own.                                                  *)
(*                                                                         *)
(* A message fits into one call.  A client may be killed at any time, and  *)
(* its socket is then closed.  Setting the sockets up is left out, and so  *)
(* is a backlog that is full.                                              *)
(***************************************************************************)
EXTENDS Naturals, Sequences

CONSTANTS
    Clients,
    Numbers,    \* what a client of the first server may send
    GREETING,   \* what the second server sends
    NONE        \* nothing, or what an uninitialised variable holds

ASSUME EchoAssumption == GREETING \notin Numbers /\ NONE \notin Numbers \cup {GREETING}

VARIABLES
    family,     \* "AF_UNIX" or "AF_INET": which pair of programs; never changes
    number,     \* what each client sends; never changes
    backlog,    \* the connections that wait for accept()
    serving,    \* the client whose socket the server holds, or NONE
    spc,        \* "accept", "read", "write", or "ended"
    num,        \* the server's variable, never reset between clients
    cpc,        \* "new", "send", "receive", "left", or "killed"
    inbox,      \* what each client has sent and the server has not read
    outbox,     \* what the server has sent to each client
    res         \* what each client has read

echoVars == <<family, number, backlog, serving, spc, num, cpc, inbox, outbox, res>>

EchoInit ==
    /\ family \in {"AF_UNIX", "AF_INET"}
    /\ number \in [Clients -> Numbers]
    /\ backlog = <<>> /\ serving = NONE /\ spc = "accept" /\ num = NONE
    /\ cpc = [c \in Clients |-> "new"]
    /\ inbox = [c \in Clients |-> NONE]
    /\ outbox = [c \in Clients |-> NONE]
    /\ res = [c \in Clients |-> NONE]

Killed == {c \in Clients : cpc[c] = "killed"}

-----------------------------------------------------------------------------
Accept ==
    /\ spc = "accept" /\ backlog # <<>>
    /\ serving' = Head(backlog) /\ backlog' = Tail(backlog)
    /\ spc' = "read"
    /\ UNCHANGED <<family, number, num, cpc, inbox, outbox, res>>

Readable_NonBlocking == TRUE

(* The call returns when there is something to read or nobody is there to  *)
(* send it.                                                                *)
Readable == inbox[serving] # NONE \/ cpc[serving] = "killed"

(* read(): a return value of 0 is not looked at, and num keeps what the    *)
(* client before it sent.                                                  *)
Read ==
    /\ family = "AF_UNIX" /\ spc = "read" /\ Readable
    /\ num' = IF inbox[serving] = NONE THEN num ELSE inbox[serving]
    /\ inbox' = [inbox EXCEPT ![serving] = NONE]
    /\ spc' = "write"
    /\ UNCHANGED <<family, number, backlog, serving, cpc, outbox, res>>

(* recv(): the same, but an error, when the connection of a killed client  *)
(* is reset, ends the server.                                              *)
Recv ==
    /\ family = "AF_INET" /\ spc = "read" /\ Readable
    /\ inbox' = [inbox EXCEPT ![serving] = NONE]
    /\ spc' \in IF cpc[serving] = "killed" THEN {"write", "ended"} ELSE {"write"}
    /\ UNCHANGED <<family, number, backlog, serving, num, cpc, outbox, res>>

Reply(message) ==
    /\ outbox' = [outbox EXCEPT ![serving] = message]
    /\ serving' = NONE /\ spc' = "accept"
    /\ UNCHANGED <<family, number, backlog, num, cpc, inbox, res>>

End ==
    /\ spc' = "ended"
    /\ UNCHANGED <<family, number, backlog, serving, num, cpc, inbox, outbox, res>>

Write_Forgets ==
    /\ family = "AF_UNIX" /\ spc = "write"
    /\ cpc[serving] # "killed"
    /\ serving' = NONE /\ spc' = "accept"
    /\ UNCHANGED <<family, number, backlog, num, cpc, inbox, outbox, res>>

(* write() and close().  To a client that is no longer there it raises     *)
(* SIGPIPE, which the server does not handle.                              *)
Write ==
    /\ family = "AF_UNIX" /\ spc = "write"
    /\ IF cpc[serving] = "killed" THEN End ELSE Reply(num)

(* send() and close().  TCP may learn only later that the client has gone. *)
Send ==
    /\ family = "AF_INET" /\ spc = "write"
    /\ Reply(GREETING) \/ (cpc[serving] = "killed" /\ End)

Server == Accept \/ Read \/ Recv \/ Write \/ Send

-----------------------------------------------------------------------------
Move(c, label) == cpc' = [cpc EXCEPT ![c] = label]

(* connect() fails when the server has ended.                              *)
Connect(c) ==
    /\ cpc[c] = "new"
    /\ IF spc = "ended" THEN Move(c, "left") /\ UNCHANGED backlog
                        ELSE Move(c, "send") /\ backlog' = Append(backlog, c)
    /\ UNCHANGED <<family, number, serving, spc, num, inbox, outbox, res>>

(* write() or send(): SIGPIPE if the server has ended.                     *)
ClientSends(c) ==
    /\ cpc[c] = "send"
    /\ IF spc = "ended" THEN Move(c, "left") /\ UNCHANGED inbox
                        ELSE Move(c, "receive") /\ inbox' = [inbox EXCEPT ![c] = number[c]]
    /\ UNCHANGED <<family, number, backlog, serving, spc, num, outbox, res>>

(* read() or recv(), which returns nothing when the server has ended.      *)
ClientReceives(c) ==
    /\ cpc[c] = "receive"
    /\ outbox[c] # NONE \/ spc = "ended"
    /\ res' = [res EXCEPT ![c] = outbox[c]]
    /\ Move(c, "left")
    /\ UNCHANGED <<family, number, backlog, serving, spc, num, inbox, outbox>>

Kill(c) ==
    /\ cpc[c] \in {"send", "receive"}
    /\ Move(c, "killed")
    /\ UNCHANGED <<family, number, backlog, serving, spc, num, inbox, outbox, res>>

Client(c) == Connect(c) \/ ClientSends(c) \/ ClientReceives(c)

EchoNext == Server \/ \E c \in Clients : Client(c) \/ Kill(c)

EchoSpec == EchoInit /\ [][EchoNext]_echoVars

-----------------------------------------------------------------------------
(* The server keeps num from one client to the next and ignores how much   *)
(* it has read, but nobody gets another client's number: what a client     *)
(* reads is its own number, or the greeting.                               *)
EchoesOwnNumber ==
    \A c \in Clients :
        res[c] # NONE => res[c] = IF family = "AF_UNIX" THEN number[c] ELSE GREETING

(* Every client that connects gets its answer, however many have connected *)
(* before it, as long as none is killed.                                   *)
EveryClientServed ==
    \A c \in Clients : cpc[c] = "send" ~> (res[c] # NONE \/ Killed # {})
=============================================================================
