----------------------------- MODULE SampleCache -----------------------------
(***************************************************************************)
(* The cache a DataReader serves its application from: pump_ring_to_cache  *)
(* pushes the decoded samples, take removes samples and read returns them  *)
(* and leaves them in place.  A cursor remembers how far read has come,    *)
(* and every sample carries a READ flag for read_instance.  All methods    *)
(* hold the mutex of the buffer, so each is one step.                      *)
(*                                                                         *)
(* take, read and the methods for one instance are their batch forms with  *)
(* a maximum of one sample.                                                *)
(***************************************************************************)
EXTENDS Integers, Sequences, FiniteSets, Functions

CONSTANTS
    Writer,      \* writers of the same process that the reader is bound to
    Instance,    \* instances of the topic
    MaxSamples,  \* max_samples
    MaxBatch,    \* bound: samples asked for in one call
    MaxSeq       \* bound: samples of each writer

VARIABLES
    buffer,   \* the cached samples, oldest first
    cursor,   \* read_cursor
    next,     \* the next sequence number of each writer
    seen,     \* history: samples read has returned
    reread,   \* history: samples read has returned more than once
    stale,    \* history: samples read has returned although they were READ
    refused   \* history: samples push has dropped as duplicates

vars == <<buffer, cursor, next, seen, reread, stale, refused>>

Id == Writer \X (1 .. MaxSeq)
Sample == [id : Id, seq : 1 .. MaxSeq, inst : Instance, read : BOOLEAN]

Init ==
    /\ buffer = <<>> /\ cursor = 0 /\ next = [w \in Writer |-> 1]
    /\ seen = {} /\ reread = {} /\ stale = {} /\ refused = {}

SatSub(m, n) == IF m > n THEN m - n ELSE 0

\* The first n of the positions I of the buffer.
FirstOf(I, n) == {i \in I : Cardinality({j \in I : j < i}) < n}

Matching(h) == {i \in DOMAIN buffer : buffer[i].inst = h}

-----------------------------------------------------------------------------
\* mutant: one sample more than max_samples
PushLate(w, h) ==
    LET x == [id |-> <<w, next[w]>>, seq |-> next[w], inst |-> h,
              read |-> FALSE]
        drop == SatSub(Len(buffer), MaxSamples)
    IN /\ next[w] <= MaxSeq
       /\ next' = [next EXCEPT ![w] = @ + 1]
       /\ buffer' = Append(SubSeq(buffer, drop + 1, Len(buffer)), x)
       /\ cursor' = SatSub(cursor, drop)
       /\ UNCHANGED <<seen, reread, stale, refused>>

\* Entries are numbered by their writer.  A full buffer loses its oldest
\* sample, and the cursor moves with the samples it is in front of.
Push(w, h) ==
    LET x == [id |-> <<w, next[w]>>, seq |-> next[w], inst |-> h,
              read |-> FALSE]
        drop == SatSub(Len(buffer) + 1, MaxSamples)
    IN /\ next[w] <= MaxSeq
       /\ next' = [next EXCEPT ![w] = @ + 1]
       /\ IF x.seq \in {y.seq : y \in Range(buffer)}
          THEN refused' = refused \cup {x.id} /\ UNCHANGED <<buffer, cursor>>
          ELSE /\ buffer' = Append(SubSeq(buffer, drop + 1, Len(buffer)), x)
               /\ cursor' = SatSub(cursor, drop)
               /\ UNCHANGED refused
       /\ UNCHANGED <<seen, reread, stale>>

\* take, take_batch
Take(n) ==
    LET count == IF n < Len(buffer) THEN n ELSE Len(buffer)
    IN /\ buffer' = SubSeq(buffer, count + 1, Len(buffer))
       /\ cursor' = SatSub(cursor, count)
       /\ UNCHANGED <<next, seen, reread, stale, refused>>

\* mutant: the cursor moves for samples behind it too
TakeInstanceEager(h, n) ==
    LET taken == FirstOf(Matching(h), n)
    IN /\ buffer' = SelectSeq(buffer,
                       LAMBDA x : x.id \notin {buffer[i].id : i \in taken})
       /\ cursor' = SatSub(cursor, Cardinality(taken))
       /\ UNCHANGED <<next, seen, reread, stale, refused>>

\* take_instance, take_instance_batch
TakeInstance(h, n) ==
    LET taken == FirstOf(Matching(h), n)
    IN /\ buffer' = SelectSeq(buffer,
                       LAMBDA x : x.id \notin {buffer[i].id : i \in taken})
       /\ cursor' = cursor - Cardinality({i \in taken : i <= cursor})
       /\ UNCHANGED <<next, seen, reread, stale, refused>>

\* The samples at the positions I are marked READ.
MarkRead(I) ==
    buffer' = [i \in DOMAIN buffer |->
                 [buffer[i] EXCEPT !.read = @ \/ i \in I]]

\* read, read_batch
Read(n) ==
    LET I == FirstOf({i \in DOMAIN buffer : i > cursor}, n)
        ids == {buffer[i].id : i \in I}
    IN /\ MarkRead(I)
       /\ cursor' = cursor + Cardinality(I)
       /\ seen' = seen \cup ids
       /\ reread' = reread \cup (ids \cap seen)
       /\ stale' = stale \cup {buffer[i].id : i \in {j \in I : buffer[j].read}}
       /\ UNCHANGED <<next, refused>>

\* read_instance, read_instance_batch
ReadInstance(h, n) ==
    /\ MarkRead(FirstOf({i \in Matching(h) : ~ buffer[i].read}, n))
    /\ UNCHANGED <<cursor, next, seen, reread, stale, refused>>

-----------------------------------------------------------------------------
Next ==
    \/ \E w \in Writer, h \in Instance : Push(w, h)
    \/ \E n \in 1 .. MaxBatch : Take(n) \/ Read(n)
    \/ \E h \in Instance, n \in 1 .. MaxBatch :
          TakeInstance(h, n) \/ ReadInstance(h, n)

Spec == Init /\ [][Next]_vars

-----------------------------------------------------------------------------
(* Properties *)

\* Every variable has its type, and the buffer keeps to max_samples.
TypeOK ==
    /\ buffer \in Seq(Sample) /\ Len(buffer) <= MaxSamples
    /\ cursor \in 0 .. Len(buffer)
    /\ next \in [Writer -> 1 .. MaxSeq + 1]
    /\ seen \subseteq Id /\ reread \subseteq seen /\ stale \subseteq seen
    /\ refused \subseteq Id

\* read returns every sample once while it is cached and skips none: through
\* evictions and every kind of take, the samples in front of the cursor are
\* those read has returned.
CursorSplits ==
    /\ reread = {}
    /\ \A i \in DOMAIN buffer : i <= cursor <=> buffer[i].id \in seen

\* What the comment on SampleCache::read says: it "returns the next unread
\* sample and marks it as READ".
ReadsUnread == stale = {}

\* What the QoS guide says of shared ownership: several writers can publish at
\* once and all data is delivered.  push drops nothing it has not seen.
SharedDelivered == refused = {}
=============================================================================
