----------------------------- MODULE IndexRing -----------------------------
(***************************************************************************)
(* The ring of index entries through which a reader receives its samples  *)
(* (core/rt/indexring.rs): a vector of Capacity entries, a head that push  *)
(* advances and a tail that pop advances.  push and pop are split at their *)
(* atomic loads and stores and at the plain access to the entry, which is  *)
(* the granularity at which the two threads interleave.                    *)
(*                                                                         *)
(* The set of threads that push is a parameter.  The code demands that it  *)
(* has one element; the two-producer instance shows what happens when the  *)
(* router and a local writer push into the ring of one reader.             *)
(***************************************************************************)
EXTENDS Integers, Sequences

CONSTANTS
    Entry,      \* the entries that are pushed (sequence number and handle)
    Capacity,   \* a power of two, >= 1
    Producer,   \* the threads that call push
    MaxPush,    \* bound: pushes that are started
    NoEntry     \* contents of a slot never written (flags = 0)

ASSUME CapacityAssumption == Capacity \in Nat \ {0}
ASSUME EntryAssumption == NoEntry \notin Entry
ASSUME MaxPushAssumption == MaxPush \in Nat

VARIABLES
    entries,    \* the slots
    head,       \* next slot to write
    tail,       \* next slot to read
    ppc,        \* where each producer is in push
    phead,      \* the head it loaded
    pval,       \* the entry it pushes
    started,    \* number of pushes started
    cpc,        \* where the consumer is in pop
    cval,       \* the entry it read
    sent,       \* history: entries of the pushes that returned true
    received    \* history: entries that pop returned

vars == <<entries, head, tail, ppc, phead, pval, started, cpc, cval,
          sent, received>>

Slot == 0 .. Capacity - 1

\* Mutant: the mask is forgotten.
SuccUnmasked(i) == i + 1

\* (i + 1) & capacity_mask
Succ(i) == (i + 1) % Capacity

\* IndexEntry::is_committed: only a pushed entry has the flag.
IsCommitted(e) == e # NoEntry

\* IndexRing::with_capacity: every slot holds the default entry, whose flags
\* are 0.  The local variables of push and pop have no value yet.
Init ==
    /\ entries = [i \in Slot |-> NoEntry]
    /\ head = 0
    /\ tail = 0
    /\ ppc = [p \in Producer |-> "idle"]
    /\ phead = [p \in Producer |-> 0]
    /\ pval = [p \in Producer |-> NoEntry]
    /\ started = 0
    /\ cpc = "idle"
    /\ cval = NoEntry
    /\ sent = <<>>
    /\ received = <<>>

-----------------------------------------------------------------------------
\* push, step 1: load head.
PushLoadHead(p, e) ==
    /\ ppc[p] = "idle"
    /\ started < MaxPush
    /\ started' = started + 1
    /\ phead' = [phead EXCEPT ![p] = head]
    /\ pval' = [pval EXCEPT ![p] = e]
    /\ ppc' = [ppc EXCEPT ![p] = "check"]
    /\ UNCHANGED <<entries, head, tail, cpc, cval, sent, received>>

\* Mutant: no full check, the oldest entry is overwritten.
PushCheckFullDropped(p) ==
    /\ ppc[p] = "check"
    /\ ppc' = [ppc EXCEPT ![p] = "write"]
    /\ UNCHANGED <<entries, head, tail, phead, pval, started, cpc, cval,
                   sent, received>>

\* push, step 2: load tail; a full ring returns false at once.
PushCheckFull(p) ==
    /\ ppc[p] = "check"
    /\ ppc' = [ppc EXCEPT ![p] = IF Succ(phead[p]) = tail THEN "idle" ELSE "write"]
    /\ UNCHANGED <<entries, head, tail, phead, pval, started, cpc, cval,
                   sent, received>>

\* push, step 3: write the committed entry into the slot at head.
PushWrite(p) ==
    /\ ppc[p] = "write"
    /\ entries' = [entries EXCEPT ![phead[p]] = pval[p]]
    /\ ppc' = [ppc EXCEPT ![p] = "publish"]
    /\ UNCHANGED <<head, tail, phead, pval, started, cpc, cval, sent,
                   received>>

\* push, step 4: advance head and return true.
PushPublish(p) ==
    /\ ppc[p] = "publish"
    /\ head' = Succ(phead[p])
    /\ sent' = Append(sent, pval[p])
    /\ ppc' = [ppc EXCEPT ![p] = "idle"]
    /\ UNCHANGED <<entries, tail, phead, pval, started, cpc, cval,
                   received>>

\* Mutant: no empty check, pop relies on the COMMITTED flag alone.
PopCheckEmptyDropped ==
    /\ cpc = "idle"
    /\ cpc' = "read"
    /\ UNCHANGED <<entries, head, tail, ppc, phead, pval, started, cval, sent,
                   received>>

\* pop, steps 1 and 2: load tail (the consumer's own, so it cannot change
\* under it) and head; an empty ring returns None.
PopCheckEmpty ==
    /\ cpc = "idle"
    /\ tail # head
    /\ cpc' = "read"
    /\ UNCHANGED <<entries, head, tail, ppc, phead, pval, started, cval, sent,
                   received>>

\* pop, step 3: read the slot at tail; an uncommitted entry returns None.
PopRead ==
    /\ cpc = "read"
    /\ cval' = entries[tail]
    /\ cpc' = IF IsCommitted(entries[tail]) THEN "advance" ELSE "idle"
    /\ UNCHANGED <<entries, head, tail, ppc, phead, pval, started, sent,
                   received>>

\* pop, step 4: advance tail and return the entry.
PopAdvance ==
    /\ cpc = "advance"
    /\ tail' = Succ(tail)
    /\ received' = Append(received, cval)
    /\ cpc' = "idle"
    /\ UNCHANGED <<entries, head, ppc, phead, pval, started, cval, sent>>

Push(p) ==
    \/ \E e \in Entry : PushLoadHead(p, e)
    \/ PushCheckFull(p)
    \/ PushWrite(p)
    \/ PushPublish(p)

Pop == PopCheckEmpty \/ PopRead \/ PopAdvance

Next == Pop \/ \E p \in Producer : Push(p)

Spec == Init /\ [][Next]_vars
-----------------------------------------------------------------------------
(* Properties *)

\* Type correctness: the indices stay within the vector, whose accesses
\* entries[head] and entries[tail] would otherwise panic, and a producer
\* past the full check holds the entry it is pushing.
TypeOK ==
    /\ entries \in [Slot -> Entry \cup {NoEntry}]
    /\ head \in Slot
    /\ tail \in Slot
    /\ ppc \in [Producer -> {"idle", "check", "write", "publish"}]
    /\ phead \in [Producer -> Slot]
    /\ pval \in [Producer -> Entry \cup {NoEntry}]
    /\ \A p \in Producer : ppc[p] # "idle" => pval[p] \in Entry
    /\ started \in Nat
    /\ cpc \in {"idle", "read", "advance"}
    /\ cval \in Entry \cup {NoEntry}
    /\ cpc = "advance" => cval \in Entry
    /\ sent \in Seq(Entry)
    /\ received \in Seq(Entry)

\* The claim that justifies the UnsafeCell ("SPSC protocol ensures no
\* aliasing"): no producer writes a slot while the consumer reads it or
\* another producer writes it, whatever the two threads interleave.
NoSlotRace ==
    \A p \in Producer : ppc[p] = "write" =>
        /\ cpc = "read" => phead[p] # tail
        /\ \A q \in Producer \ {p} : ppc[q] = "write" => phead[q] # phead[p]

\* The ring is a bounded FIFO of Capacity - 1 places: an entry whose push
\* returned true is popped exactly once, in push order, and a pop never
\* returns a stale or half-written slot.
Fifo == INSTANCE BoundedFifo WITH Item <- Entry, Limit <- Capacity - 1
FifoSpec == Fifo!Spec

=============================================================================
