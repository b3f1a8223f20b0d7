-------------------------- MODULE IndexRingProofs --------------------------
(***************************************************************************)
(* Proofs about the sample ring with one producer, for every capacity,     *)
(* every set of entries and every number of pushes.                        *)
(***************************************************************************)
EXTENDS IndexRing, TLAPS

\* The number of slots from tail up to head, going round the end.
Dist == IF tail <= head THEN head - tail ELSE head - tail + Capacity

\* The slot that holds the k-th waiting entry.
Pos(k) == IF tail + k - 1 < Capacity THEN tail + k - 1 ELSE tail + k - 1 - Capacity

\* What the histories and the slots say about each other.
Content ==
    /\ Len(sent) = Len(received) + Dist
    /\ \A k \in 1 .. Dist : entries[Pos(k)] = sent[Len(received) + k]

\* What a producer in the middle of push knows.
ProducerInv ==
    \A p \in Producer :
        /\ ppc[p] # "idle" => phead[p] = head
        /\ ppc[p] \in {"write", "publish"} => Succ(head) # tail
        /\ ppc[p] = "publish" => entries[head] = pval[p]

\* What the consumer in the middle of pop knows.
ConsumerInv ==
    /\ cpc # "idle" => head # tail
    /\ cpc = "advance" => cval = sent[Len(received) + 1]

IInv == TypeOK /\ Content /\ ProducerInv /\ ConsumerInv

OneProducer == \A p, q \in Producer : p = q

\* The mask arithmetic: the successor of an index is the next slot, or slot 0
\* after the last.
LEMMA SuccLemma ==
    ASSUME NEW i \in Slot
    PROVE  Succ(i) = IF i + 1 = Capacity THEN 0 ELSE i + 1
  BY CapacityAssumption DEF Slot, Succ

\* with_capacity establishes the invariant.
LEMMA InitIInv == Init => IInv
  BY CapacityAssumption DEF Init, IInv, TypeOK, Content, ProducerInv, ConsumerInv,
     Dist, Slot

\* Every step of push and pop keeps it, if only one thread pushes.
LEMMA NextIInv ==
    ASSUME OneProducer, IInv, [Next]_vars
    PROVE  IInv'
<1>1. CASE UNCHANGED vars
  BY <1>1 DEF vars, IInv, TypeOK, Content, ProducerInv, ConsumerInv, Dist, Pos,
     Slot, Succ
<1>2. ASSUME NEW p \in Producer, NEW e \in Entry, PushLoadHead(p, e)
      PROVE  IInv'
  <2>1. TypeOK'
    BY <1>2 DEF IInv, TypeOK, PushLoadHead
  <2>2. Content'
    BY <1>2 DEF IInv, Content, Dist, Pos, PushLoadHead
  <2>3. ProducerInv'
    BY <1>2 DEF IInv, TypeOK, ProducerInv, OneProducer, Succ, PushLoadHead
  <2>4. ConsumerInv'
    BY <1>2 DEF IInv, ConsumerInv, PushLoadHead
  <2> QED BY <2>1, <2>2, <2>3, <2>4 DEF IInv
<1>3. ASSUME NEW p \in Producer, PushCheckFull(p)
      PROVE  IInv'
  <2>1. TypeOK'
    BY <1>3 DEF IInv, TypeOK, PushCheckFull
  <2>2. Content'
    BY <1>3 DEF IInv, Content, Dist, Pos, PushCheckFull
  <2>3. ProducerInv'
    BY <1>3 DEF IInv, TypeOK, ProducerInv, OneProducer, Succ, PushCheckFull
  <2>4. ConsumerInv'
    BY <1>3 DEF IInv, ConsumerInv, PushCheckFull
  <2> QED BY <2>1, <2>2, <2>3, <2>4 DEF IInv
<1>4. ASSUME NEW p \in Producer, PushWrite(p)
      PROVE  IInv'
  <2>1. TypeOK'
    BY <1>4 DEF IInv, TypeOK, PushWrite
  <2>2. phead[p] = head /\ head \in Slot /\ tail \in Slot
    BY <1>4 DEF IInv, TypeOK, ProducerInv, PushWrite
  <2>3. ASSUME NEW k \in 1 .. Dist
        PROVE  Pos(k) \in Slot /\ Pos(k) # head
    BY <2>2, CapacityAssumption DEF Dist, Pos, Slot
  <2>4. Content'
    BY <1>4, <2>2, <2>3 DEF IInv, TypeOK, Content, Dist, Pos, PushWrite
  <2>5. ProducerInv'
    BY <1>4, <2>2 DEF IInv, TypeOK, ProducerInv, OneProducer, Succ, PushWrite
  <2>6. ConsumerInv'
    BY <1>4 DEF IInv, ConsumerInv, PushWrite
  <2> QED BY <2>1, <2>4, <2>5, <2>6 DEF IInv
<1>5. ASSUME NEW p \in Producer, PushPublish(p)
      PROVE  IInv'
  <2>1. /\ phead[p] = head
        /\ head \in Slot /\ tail \in Slot
        /\ pval[p] \in Entry
        /\ entries[head] = pval[p]
        /\ Succ(head) # tail
    BY <1>5 DEF IInv, TypeOK, ProducerInv, PushPublish
  <2>2. /\ head' = (IF head + 1 = Capacity THEN 0 ELSE head + 1)
        /\ tail' = tail
        /\ head' \in Slot
    BY <1>5, <2>1, SuccLemma, CapacityAssumption DEF PushPublish, Slot
  <2>3. Dist' = Dist + 1 /\ Dist \in Nat
    BY <2>1, <2>2, SuccLemma, CapacityAssumption DEF Dist, Slot
  <2>4. TypeOK'
    BY <1>5, <2>1, <2>2 DEF IInv, TypeOK, PushPublish
  <2>5. Pos(Dist + 1) = head
    BY <2>1, CapacityAssumption DEF Dist, Pos, Slot
  <2>6. Content'
    <3>1. /\ Len(sent') = Len(sent) + 1
          /\ sent'[Len(sent) + 1] = pval[p]
          /\ \A i \in 1 .. Len(sent) : sent'[i] = sent[i]
      BY <1>5, <2>1 DEF IInv, TypeOK, PushPublish
    <3>2. /\ entries' = entries /\ received' = received
          /\ Len(sent) = Len(received) + Dist
          /\ Len(received) \in Nat
      BY <1>5 DEF IInv, TypeOK, Content, PushPublish
    <3>3. ASSUME NEW k \in 1 .. Dist'
          PROVE  entries'[Pos(k)'] = sent'[Len(received') + k]
      <4>1. Pos(k)' = Pos(k)
        BY <2>2 DEF Pos
      <4>2. CASE k = Dist + 1
        <5>1. Pos(k) = head
          BY <4>2, <2>5
        <5>2. Len(received') + k = Len(sent) + 1
          BY <4>2, <3>2, <2>3
        <5> QED BY <5>1, <5>2, <4>1, <3>1, <3>2, <2>1
      <4>3. CASE k \in 1 .. Dist
        <5>1. entries[Pos(k)] = sent[Len(received) + k]
          BY <4>3 DEF IInv, Content
        <5>2. Len(received) + k \in 1 .. Len(sent)
          BY <4>3, <3>2, <2>3
        <5> QED BY <5>1, <5>2, <4>1, <3>1, <3>2
      <4> QED BY <2>3, <4>2, <4>3
    <3>4. Len(sent') = Len(received') + Dist'
      BY <3>1, <3>2, <2>3
    <3> QED BY <3>3, <3>4 DEF Content
  <2>7. ProducerInv'
    BY <1>5 DEF IInv, TypeOK, ProducerInv, OneProducer, PushPublish
  <2>8. ConsumerInv'
    <3>1. head' # tail'
      BY <1>5, <2>1, <2>2, SuccLemma
    <3>2. ASSUME cpc = "advance"
          PROVE  cval = sent'[Len(received) + 1]
      <4>1. Len(received) + 1 \in 1 .. Len(sent)
        BY <3>2, <2>1, <2>3, CapacityAssumption
           DEF IInv, TypeOK, Content, ConsumerInv, Dist, Slot
      <4> QED BY <3>2, <4>1, <1>5, <2>1 DEF IInv, TypeOK, ConsumerInv, PushPublish
    <3> QED BY <3>1, <3>2, <1>5 DEF ConsumerInv, PushPublish
  <2> QED BY <2>4, <2>6, <2>7, <2>8 DEF IInv
<1>6. ASSUME PopCheckEmpty PROVE IInv'
  <2>1. TypeOK'
    BY <1>6 DEF IInv, TypeOK, PopCheckEmpty
  <2>2. Content'
    BY <1>6 DEF IInv, Content, Dist, Pos, PopCheckEmpty
  <2>3. ProducerInv'
    BY <1>6 DEF IInv, ProducerInv, Succ, PopCheckEmpty
  <2>4. ConsumerInv'
    BY <1>6 DEF IInv, ConsumerInv, PopCheckEmpty
  <2> QED BY <2>1, <2>2, <2>3, <2>4 DEF IInv
<1>7. ASSUME PopRead PROVE IInv'
  <2>1. TypeOK'
    BY <1>7 DEF IInv, TypeOK, IsCommitted, PopRead
  <2>2. Content'
    BY <1>7 DEF IInv, Content, Dist, Pos, PopRead
  <2>3. ProducerInv'
    BY <1>7 DEF IInv, ProducerInv, Succ, PopRead
  <2>4. ConsumerInv'
    <3>1. Dist >= 1 /\ Pos(1) = tail
      BY <1>7, CapacityAssumption DEF IInv, TypeOK, ConsumerInv, Dist, Pos, Slot, PopRead
    <3>2. Dist \in Nat
      BY CapacityAssumption DEF IInv, TypeOK, Dist, Slot
    <3>3. entries[tail] = sent[Len(received) + 1]
      BY <3>1, <3>2 DEF IInv, Content
    <3> QED BY <1>7, <3>3 DEF IInv, ConsumerInv, PopRead
  <2> QED BY <2>1, <2>2, <2>3, <2>4 DEF IInv
<1>8. ASSUME PopAdvance PROVE IInv'
  <2>1. /\ head \in Slot /\ tail \in Slot /\ head # tail
        /\ cval \in Entry
    BY <1>8 DEF IInv, TypeOK, ConsumerInv, PopAdvance
  <2>2. /\ tail' = (IF tail + 1 = Capacity THEN 0 ELSE tail + 1)
        /\ head' = head
        /\ tail' \in Slot
    BY <1>8, <2>1, SuccLemma, CapacityAssumption DEF PopAdvance, Slot
  <2>3. Dist' = Dist - 1 /\ Dist \in Nat /\ Dist' \in Nat
    BY <2>1, <2>2, CapacityAssumption DEF Dist, Slot
  <2>4. TypeOK'
    BY <1>8, <2>1, <2>2 DEF IInv, TypeOK, PopAdvance
  <2>5. Content'
    <3>1. /\ Len(received') = Len(received) + 1 /\ Len(received) \in Nat
          /\ entries' = entries /\ sent' = sent
      BY <1>8, <2>1 DEF IInv, TypeOK, PopAdvance
    <3>2. ASSUME NEW k \in 1 .. Dist'
          PROVE  entries'[Pos(k)'] = sent'[Len(received') + k]
      <4>1. k + 1 \in 1 .. Dist /\ Pos(k)' = Pos(k + 1)
        BY <2>1, <2>2, <2>3, CapacityAssumption DEF Pos, Dist, Slot
      <4>2. entries[Pos(k + 1)] = sent[Len(received) + (k + 1)]
        BY <4>1 DEF IInv, Content
      <4>3. Len(received) + (k + 1) = Len(received') + k
        BY <3>1, <2>3
      <4> QED BY <4>1, <4>2, <4>3, <3>1
    <3>3. Len(sent') = Len(received') + Dist'
      BY <3>1, <2>3 DEF IInv, Content
    <3> QED BY <3>2, <3>3 DEF Content
  <2>6. ProducerInv'
    <3>1. ASSUME NEW p \in Producer, ppc[p] \in {"write", "publish"}
          PROVE  Succ(head) # tail'
      BY <3>1, <2>1, <2>2, SuccLemma, CapacityAssumption DEF IInv, ProducerInv, Slot
    <3> QED BY <3>1, <1>8 DEF IInv, ProducerInv, PopAdvance, Succ
  <2>7. ConsumerInv'
    BY <1>8 DEF ConsumerInv, PopAdvance
  <2> QED BY <2>4, <2>5, <2>6, <2>7 DEF IInv
<1> QED
  BY <1>1, <1>2, <1>3, <1>4, <1>5, <1>6, <1>7, <1>8 DEF Next, Push, Pop

\* The invariant holds throughout, if only one thread pushes.
LEMMA InvariantHolds ==
    ASSUME OneProducer
    PROVE  Spec => []IInv
<1>1. Init => IInv
  BY InitIInv
<1>2. IInv /\ [Next]_vars => IInv'
  BY NextIInv
<1> QED BY <1>1, <1>2, PTL DEF Spec

\* The state of the ring is always one the types allow: with one producer the
\* indices of push and pop never leave the vector, for any capacity.
THEOREM TypeCorrect ==
    ASSUME OneProducer
    PROVE  Spec => []TypeOK
<1>1. IInv => TypeOK
  BY DEF IInv
<1> QED BY <1>1, InvariantHolds, PTL

\* The aliasing claim behind the UnsafeCell of the ring: with one producer, no
\* slot is written while it is read.
THEOREM NoRace ==
    ASSUME OneProducer
    PROVE  Spec => []NoSlotRace
<1>1. IInv => NoSlotRace
  BY DEF IInv, ProducerInv, ConsumerInv, NoSlotRace, OneProducer
<1> QED BY <1>1, InvariantHolds, PTL

\* The ring implements the bounded FIFO: push and pop map to Put and Get at
\* the stores that advance head and tail, every other step to a stutter.
THEOREM RingIsFifo ==
    ASSUME OneProducer
    PROVE  Spec => FifoSpec
<1>1. Init => Fifo!Init
  BY DEF Init, Fifo!Init
<1>2. IInv /\ [Next]_vars => [Fifo!Next]_(Fifo!fifoVars)
  <2> SUFFICES ASSUME IInv, [Next]_vars
               PROVE  [Fifo!Next]_(Fifo!fifoVars)
    OBVIOUS
  <2>1. ASSUME NEW p \in Producer, PushPublish(p)
        PROVE  Fifo!Put(pval[p])
    <3>1. /\ head \in Slot /\ tail \in Slot
          /\ Succ(head) # tail
          /\ Len(sent) \in Nat /\ Len(received) \in Nat
          /\ Len(sent) = Len(received) + Dist
      BY <2>1 DEF IInv, TypeOK, Content, ProducerInv, PushPublish
    <3>2. Dist < Capacity - 1 /\ Dist \in Nat
      BY <3>1, SuccLemma, CapacityAssumption DEF Dist, Slot
    <3>3. Fifo!Waiting < Capacity - 1
      BY <3>1, <3>2 DEF Fifo!Waiting
    <3> QED BY <2>1, <3>3 DEF PushPublish, Fifo!Put
  <2>2. ASSUME PopAdvance
        PROVE  Fifo!Get
    <3>1. /\ head \in Slot /\ tail \in Slot /\ head # tail
          /\ Len(sent) \in Nat /\ Len(received) \in Nat
          /\ Len(sent) = Len(received) + Dist
          /\ cval = sent[Len(received) + 1]
      BY <2>2 DEF IInv, TypeOK, Content, ConsumerInv, PopAdvance
    <3>2. Dist > 0 /\ Dist \in Nat
      BY <3>1, CapacityAssumption DEF Dist, Slot
    <3>3. Fifo!Waiting > 0
      BY <3>1, <3>2 DEF Fifo!Waiting
    <3> QED BY <2>2, <3>1, <3>3 DEF PopAdvance, Fifo!Get
  <2>3. ASSUME NEW p \in Producer, PushPublish(p)
        PROVE  pval[p] \in Entry
    BY <2>3 DEF IInv, TypeOK, PushPublish
  <2>4. \/ UNCHANGED <<sent, received>>
        \/ PopAdvance
        \/ \E p \in Producer : PushPublish(p)
    BY DEF Next, Push, Pop, PushLoadHead, PushCheckFull, PushWrite, PopCheckEmpty,
       PopRead, vars
  <2> QED BY <2>1, <2>2, <2>3, <2>4 DEF Fifo!Next, Fifo!fifoVars
<1> QED BY <1>1, <1>2, InvariantHolds, PTL DEF Spec, FifoSpec, Fifo!Spec
=============================================================================
