---------------------------- MODULE LossyBroadcast ----------------------------
(***************************************************************************)
(* What a single-writer ring shared with readers in other processes        *)
(* promises: messages are numbered from 0 in the order they are sent, a    *)
(* reader that joined at some number gets them whole and in that order,    *)
(* and it misses messages only when it has fallen more than Capacity       *)
(* messages behind, in which case it continues with the last one sent.     *)
(***************************************************************************)
EXTENDS Integers

CONSTANTS Readers,     \* the readers
          Capacity     \* how far behind a reader may fall without a loss

VARIABLES sent,        \* how many messages have been sent
          joined,      \* the readers that have joined
          cursor,      \* cursor[r]: the next message reader r is to get
          got          \* got[r]: the last message delivered to r, or -1

vars == <<sent, joined, cursor, got>>

Init ==
    /\ sent = 0
    /\ joined = {}
    /\ cursor = [r \in Readers |-> 0]
    /\ got = [r \in Readers |-> -1]

Send ==
    /\ sent' = sent + 1
    /\ UNCHANGED <<joined, cursor, got>>

Join(r) ==
    /\ r \notin joined
    /\ joined' = joined \cup {r}
    /\ cursor'[r] \in Nat
    /\ cursor' = [cursor EXCEPT ![r] = cursor'[r]]
    /\ UNCHANGED <<sent, got>>

Deliver(r) ==
    /\ r \in joined
    /\ cursor[r] < sent
    /\ got' = [got EXCEPT ![r] = cursor[r]]
    /\ cursor' = [cursor EXCEPT ![r] = @ + 1]
    /\ UNCHANGED <<sent, joined>>

Lose(r) ==
    /\ r \in joined
    /\ sent - cursor[r] > Capacity
    /\ cursor' = [cursor EXCEPT ![r] = sent - 1]
    /\ UNCHANGED <<sent, joined, got>>

Next ==
    \/ Send
    \/ \E r \in Readers : Join(r) \/ Deliver(r) \/ Lose(r)

Spec == Init /\ [][Next]_vars
===============================================================================
