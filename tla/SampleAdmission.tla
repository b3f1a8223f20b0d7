-------------------------- MODULE SampleAdmission --------------------------
(***************************************************************************)
(* How a DATA submessage becomes a sample in the ring of a reader: the     *)
(* router thread (engine/router.rs) drops packets it has seen in the last  *)
(* two seconds and packets it cannot route, and ReaderSubscriber           *)
(* (dds/reader/subscriber.rs) drops sequence numbers it has admitted       *)
(* before, reserves a slab slot, maps the 64-bit sequence number to a      *)
(* local 32-bit one and pushes the sample into the ring, from which the    *)
(* application's thread takes it.                                          *)
(*                                                                         *)
(* The network may lose, delay, reorder and repeat packets, so any sample  *)
(* of any writer may arrive at any time, any number of times.              *)
(***************************************************************************)
EXTENDS Integers, Sequences, Functions

CONSTANTS
    Writer,     \* the remote writers of the topic
    MaxSeq,     \* bound: each writer publishes the samples 1 .. MaxSeq
    Window,     \* SeenSeqs::WINDOW (4096)
    U32Max,     \* u32::MAX, the largest local sequence number
    RingCap,    \* samples the ring of the reader can hold
    MaxAdmit    \* bound: admissions, and packets the router lets through

ASSUME WindowAssumption == Window \in Nat \ {0}
ASSUME BoundsAssumption ==
    /\ MaxSeq \in Nat \ {0} /\ U32Max \in Nat \ {0}
    /\ RingCap \in Nat \ {0} /\ MaxAdmit \in Nat

VARIABLES
    announced,  \* writers the router can map to the topic (SEDP)
    dedup,      \* the samples in the router's dedup_cache
    high,       \* SeenSeqs::high
    recent,     \* SeenSeqs::recent
    win,        \* SeqWindow; stride 0 stands for None
    inHand,     \* <<>> or the sample for which the router holds a slab slot
    ring,       \* the samples waiting in the ring, with their local numbers
    slab,       \* slab slots held by this reader's samples
    admitted,   \* history: samples admitted by SeenSeqs, in order
    delivered,  \* history: samples pushed into the ring, in order
    refused     \* history: samples refused by SeenSeqs

vars == <<announced, dedup, high, recent, win, inHand, ring, slab, admitted,
          delivered, refused>>

SeqNum == 1 .. MaxSeq
Sample == Writer \X SeqNum

Init ==
    /\ announced = {}
    /\ dedup = {}
    /\ high = 0
    /\ recent = <<>>
    /\ win = [initialized |-> FALSE, base |-> 0, stride |-> 0]
    /\ inHand = <<>>
    /\ ring = <<>>
    /\ slab = 0
    /\ admitted = <<>>
    /\ delivered = <<>>
    /\ refused = {}

-----------------------------------------------------------------------------
(* SeenSeqs *)

\* high.saturating_sub(WINDOW)
Floor == IF high > Window THEN high - Window ELSE 0

\* Mutant: the scan of the recent numbers is dropped.
AdmitsUnscanned(s) == s > high \/ s >= Floor

\* Mutant: numbers that arrive out of order are taken for duplicates.
AdmitsInOrder(s) == s > high

\* SeenSeqs::admit, the verdict.
Admits(s) == s > high \/ (s >= Floor /\ s \notin Range(recent))

\* Mutant: the deque is trimmed one entry too early.
RememberedShort(s) ==
    IF Len(recent) >= Window - 1 THEN Append(Tail(recent), s) ELSE Append(recent, s)

\* SeenSeqs::admit, the deque after s was admitted.
Remembered(s) ==
    IF Len(recent) >= Window THEN Append(Tail(recent), s) ELSE Append(recent, s)

-----------------------------------------------------------------------------
(* SeqWindow *)

Unmapped == U32Max + 1

NewBase(s) == ~win.initialized \/ s < win.base

\* SeqWindow::map, the window afterwards.
WindowAfter(s) ==
    CASE NewBase(s) -> [initialized |-> TRUE, base |-> s, stride |-> 0]
      [] ~NewBase(s) /\ win.stride = 0 /\ s - win.base > U32Max ->
            [win EXCEPT !.stride = s - win.base]
      [] OTHER -> win

\* Mutant: the distance is used although it does not fit 32 bits.
LocalSeqWide(s) == IF NewBase(s) THEN 0 ELSE s - win.base

\* SeqWindow::map, the local number; in stride mode an unaligned number and
\* an index beyond 32 bits have none.
LocalSeq(s) ==
    LET delta == s - win.base
    IN  CASE NewBase(s) -> 0
          [] ~NewBase(s) /\ win.stride = 0 -> IF delta <= U32Max THEN delta ELSE 1
          [] ~NewBase(s) /\ win.stride # 0 ->
                IF delta % win.stride = 0 /\ delta \div win.stride <= U32Max
                THEN delta \div win.stride ELSE Unmapped

-----------------------------------------------------------------------------
(* The router thread.  A packet whose (writer, number) is in dedup_cache is
   dropped without a trace; the others enter the cache before they are
   routed, whatever becomes of them. *)

Arrives(m) ==
    /\ inHand = <<>>
    /\ m \notin dedup
    /\ Len(admitted) < MaxAdmit
    /\ dedup' = dedup \cup {m}

\* route_data_packet: the topic is named in the packet's inline QoS, known from
\* SEDP, or, where the environment asks for it, taken from the only topic with
\* subscribers, to which the writer is then mapped.
Routed(m) == announced' = announced \/ announced' = announced \cup {m[1]}

\* route_data_packet: none of the three.
RouteUnknownWriter(m) ==
    /\ Arrives(m)
    /\ m[1] \notin announced
    /\ UNCHANGED <<announced, high, recent, win, inHand, ring, slab, admitted,
                   delivered, refused>>

\* on_data_with_version: a duplicate by the verdict of SeenSeqs.
RefuseSample(m) ==
    /\ Arrives(m)
    /\ Routed(m)
    /\ ~Admits(m[2])
    /\ refused' = refused \cup {m}
    /\ UNCHANGED <<high, recent, win, inHand, ring, slab, admitted,
                   delivered>>

Admit(m) ==
    /\ Arrives(m)
    /\ Routed(m)
    /\ Admits(m[2])
    /\ high' = IF m[2] > high THEN m[2] ELSE high
    /\ recent' = Remembered(m[2])
    /\ admitted' = Append(admitted, m)
    /\ UNCHANGED <<win, ring, delivered, refused>>

\* on_data_with_version: the sample is admitted, but does not decode, is
\* rejected by the content filter, does not encode again, or finds the slab
\* pool (shared with all other readers and writers) exhausted.
DropAdmitted(m) ==
    /\ Admit(m)
    /\ UNCHANGED <<inHand, slab>>

\* on_data_with_version: reserve_and_write succeeds.
ReserveSlot(m) ==
    /\ Admit(m)
    /\ inHand' = m
    /\ slab' = slab + 1

\* on_data_with_version: SeqWindow gives no local number; release the slot.
DropUnmapped ==
    /\ inHand # <<>>
    /\ LocalSeq(inHand[2]) = Unmapped
    /\ win' = WindowAfter(inHand[2])
    /\ slab' = slab - 1
    /\ inHand' = <<>>
    /\ UNCHANGED <<announced, dedup, high, recent, ring, admitted, delivered,
                   refused>>

\* Mutant: the slot of a sample that finds the ring full is not released.
PushRingLeaky ==
    /\ inHand # <<>>
    /\ LocalSeq(inHand[2]) # Unmapped
    /\ win' = WindowAfter(inHand[2])
    /\ IF Len(ring) < RingCap
       THEN /\ ring' = Append(ring, <<inHand, LocalSeq(inHand[2])>>)
            /\ delivered' = Append(delivered, inHand)
       ELSE UNCHANGED <<ring, delivered>>
    /\ inHand' = <<>>
    /\ UNCHANGED <<announced, dedup, high, recent, slab, admitted, refused>>

\* on_data_with_version: push the entry; a full ring drops the sample and
\* releases the slot.
PushRing ==
    /\ inHand # <<>>
    /\ LocalSeq(inHand[2]) # Unmapped
    /\ win' = WindowAfter(inHand[2])
    /\ IF Len(ring) < RingCap
       THEN /\ ring' = Append(ring, <<inHand, LocalSeq(inHand[2])>>)
            /\ delivered' = Append(delivered, inHand)
            /\ UNCHANGED slab
       ELSE /\ slab' = slab - 1
            /\ UNCHANGED <<ring, delivered>>
    /\ inHand' = <<>>
    /\ UNCHANGED <<announced, dedup, high, recent, admitted, refused>>

\* router_loop: forget the packets older than DEDUP_ENTRY_TTL_MS.  Their ages
\* are not kept: any of them may be.
EvictDedup ==
    /\ inHand = <<>>
    /\ \E old \in SUBSET dedup \ {{}} : dedup' = dedup \ old
    /\ UNCHANGED <<announced, high, recent, win, inHand, ring, slab, admitted,
                   delivered, refused>>

\* register_writer_guid: discovery learns the topic of a writer.
Announce(w) ==
    /\ w \notin announced
    /\ announced' = announced \cup {w}
    /\ UNCHANGED <<dedup, high, recent, win, inHand, ring, slab, admitted,
                   delivered, refused>>

\* The application's thread: pump_ring_to_cache pops a sample and releases
\* its slot.
TakeSample ==
    /\ ring # <<>>
    /\ ring' = Tail(ring)
    /\ slab' = slab - 1
    /\ UNCHANGED <<announced, dedup, high, recent, win, inHand, admitted,
                   delivered, refused>>

Next ==
    \/ \E m \in Sample :
        RouteUnknownWriter(m) \/ RefuseSample(m) \/ DropAdmitted(m) \/ ReserveSlot(m)
    \/ DropUnmapped \/ PushRing \/ EvictDedup \/ TakeSample
    \/ \E w \in Writer : Announce(w)

Spec == Init /\ [][Next]_vars

-----------------------------------------------------------------------------
(* Properties *)

\* Type correctness; the local number of a sample in the ring fits 32 bits.
TypeOK ==
    /\ announced \subseteq Writer
    /\ dedup \subseteq Sample
    /\ high \in 0 .. MaxSeq
    /\ recent \in Seq(SeqNum) /\ Len(recent) <= Window
    /\ win \in [initialized : BOOLEAN, base : 0 .. MaxSeq, stride : 0 .. MaxSeq]
    /\ inHand \in Sample \cup {<<>>}
    /\ ring \in Seq(Sample \X (0 .. U32Max))
    /\ slab \in Nat
    /\ admitted \in Seq(Sample)
    /\ delivered \in Seq(Sample)
    /\ refused \subseteq Sample

\* No sample reaches the ring twice, however often the network and the
\* writer repeat it and whatever the router has forgotten meanwhile.
NoDuplicateDelivery ==
    \A i, j \in DOMAIN delivered : delivered[i] = delivered[j] => i = j

\* It holds while no number has outgrown the window.
NoDuplicateInWindow == high <= Window => NoDuplicateDelivery

\* What SeenSeqs refuses as a duplicate was admitted before.  It does not
\* hold: one SeenSeqs serves all writers of the reader, and their numbers
\* collide (AdmissionTwoWriters.cfg).
DropsOnlyDuplicates == refused \subseteq Range(admitted)

\* What SeenSeqs does refuse, whatever the writers and the order of arrival:
\* samples whose number was admitted before, of this or of another writer, and
\* samples more than Window behind the largest number.
RefusesOnlySeenOrOld ==
    \A m \in refused : m[2] < Floor \/ \E k \in DOMAIN admitted : admitted[k][2] = m[2]

\* The reason the code gives for refusing a repetition: "repeats are
\* retransmits that were already delivered".
RefusedWereDelivered == refused \subseteq Range(delivered)

\* A sequence number is admitted again only after more than Window other
\* admissions, in whatever order they came: the promise the deque can keep.
WindowSpacing ==
    \A i, j \in DOMAIN admitted :
        i < j /\ admitted[i][2] = admitted[j][2] => j - i > Window

\* Every slab slot is accounted for: it belongs to a sample in the ring or to
\* the one the router is handling.  A slot lost on an error path would starve
\* the pool that all readers and writers share.
SlabAccounting == slab = Len(ring) + (IF inHand = <<>> THEN 0 ELSE 1)
=============================================================================
