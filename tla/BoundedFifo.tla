---------------------------- MODULE BoundedFifo ----------------------------
(***************************************************************************)
(* What a sample ring promises its two users: every item whose put         *)
(* succeeded is got exactly once, in put order, and at most Limit items    *)
(* are ever waiting.  The items put and got so far are the whole state.    *)
(***************************************************************************)
EXTENDS Naturals, Sequences

CONSTANTS
    Item,       \* the things stored
    Limit       \* how many may wait at once

VARIABLES
    sent,       \* the items of the successful puts, in order
    received    \* the items handed out, in order

fifoVars == <<sent, received>>

Waiting == Len(sent) - Len(received)

Init ==
    /\ sent = <<>>
    /\ received = <<>>

Put(v) ==
    /\ Waiting < Limit
    /\ sent' = Append(sent, v)
    /\ UNCHANGED received

Get ==
    /\ Waiting > 0
    /\ received' = Append(received, sent[Len(received) + 1])
    /\ UNCHANGED sent

Next == Get \/ \E v \in Item : Put(v)

Spec == Init /\ [][Next]_fifoVars
=============================================================================
