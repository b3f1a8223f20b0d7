----------------------- MODULE SampleAdmissionProofs -----------------------
(***************************************************************************)
(* What the admission of samples guarantees for every window, ring, number *)
(* of writers and length of the run: local numbers fit 32 bits, no slot of *)
(* the slab pool is lost, a sequence number comes back only after more     *)
(* than Window other admissions, and while no number is larger than the    *)
(* window nothing is delivered twice and nothing new is refused.  And what *)
(* the buffer keeps in which the router reassembles large samples (module  *)
(* Fragments), for every limit and number of fragments.                    *)
(***************************************************************************)
EXTENDS SampleAdmission, Fragments, SequenceTheorems, FiniteSetTheorems,
        WellFoundedInduction, TLAPS

\* A sample is a writer and a positive number, never the empty hand.
LEMMA SampleIsPair ==
    ASSUME NEW m \in Sample
    PROVE  m # <<>> /\ m[1] \in Writer /\ m[2] \in SeqNum /\ m[2] \in Nat \ {0}
BY BoundsAssumption DEF Sample, SeqNum

-----------------------------------------------------------------------------
(* SeqWindow *)

WindowType == [initialized : BOOLEAN, base : 0 .. MaxSeq, stride : 0 .. MaxSeq]

\* SeqWindow::map leaves a base and a stride in range.
LEMMA WindowAfterType ==
    ASSUME NEW s \in SeqNum, win \in WindowType
    PROVE  WindowAfter(s) \in WindowType
<1> USE BoundsAssumption DEF WindowType, SeqNum
<1>1. CASE NewBase(s)
  BY <1>1 DEF WindowAfter
<1>2. CASE ~NewBase(s) /\ win.stride = 0 /\ s - win.base > U32Max
  <2>1. s - win.base \in 0 .. MaxSeq
    BY <1>2
  <2>2. WindowAfter(s) = [win EXCEPT !.stride = s - win.base]
    BY <1>2 DEF WindowAfter
  <2> QED
    BY <2>1, <2>2
<1>3. CASE ~NewBase(s) /\ ~(win.stride = 0 /\ s - win.base > U32Max)
  <2>1. WindowAfter(s) = win
    BY <1>3 DEF WindowAfter
  <2> QED
    BY <2>1
<1> QED
  BY <1>1, <1>2, <1>3

\* A local number is a u32, or none.
LEMMA LocalSeqType ==
    ASSUME NEW s \in SeqNum, win \in WindowType, LocalSeq(s) # Unmapped
    PROVE  LocalSeq(s) \in 0 .. U32Max
<1> USE BoundsAssumption DEF WindowType, SeqNum
<1>1. CASE NewBase(s)
  BY <1>1 DEF LocalSeq
<1>2. CASE ~NewBase(s)
  <2>1. s - win.base \in Nat
    BY <1>2 DEF NewBase
  <2>2. CASE win.stride = 0
    BY <1>2, <2>1, <2>2 DEF LocalSeq
  <2>3. CASE win.stride # 0
    <3>1. LocalSeq(s) = IF (s - win.base) % win.stride = 0
                           /\ (s - win.base) \div win.stride <= U32Max
                        THEN (s - win.base) \div win.stride ELSE Unmapped
      BY <1>2, <2>3 DEF LocalSeq
    <3>2. (s - win.base) \div win.stride \in Nat
      BY <2>1, <2>3
    <3> QED
      BY <3>1, <3>2
  <2> QED
    BY <2>2, <2>3
<1> QED
  BY <1>1, <1>2

-----------------------------------------------------------------------------
(* Types and slab slots *)

SlabInv == TypeOK /\ SlabAccounting

\* A new reader holds no slot.
LEMMA InitSlab == Init => SlabInv
<1> SUFFICES ASSUME Init PROVE SlabInv
  OBVIOUS
<1>1. Len(recent) = 0 /\ Len(ring) = 0
  BY DEF Init
<1>2. SlabAccounting
  BY <1>1 DEF Init, SlabAccounting
<1>3. win \in WindowType
  BY BoundsAssumption DEF Init, WindowType
<1>4. TypeOK
  BY <1>1, <1>3, BoundsAssumption, WindowAssumption DEF Init, TypeOK, WindowType
<1> QED
  BY <1>2, <1>4 DEF SlabInv

\* The dedup cache of the router stays a set of samples, and the writers it
\* can map to the topic writers.
LEMMA ArrivesType ==
    ASSUME NEW m \in Sample, TypeOK, Arrives(m)
    PROVE  dedup' \subseteq Sample /\ inHand = <<>>
BY DEF TypeOK, Arrives

LEMMA RoutedType ==
    ASSUME NEW m \in Sample, TypeOK, Routed(m)
    PROVE  announced' \subseteq Writer
BY SampleIsPair DEF TypeOK, Routed, Sample

\* SeenSeqs::admit keeps its types, and the deque its length.
LEMMA AdmitType ==
    ASSUME NEW m \in Sample, TypeOK, Admit(m)
    PROVE  /\ high' \in 0 .. MaxSeq
           /\ recent' \in Seq(SeqNum) /\ Len(recent') <= Window
           /\ admitted' \in Seq(Sample)
<1>1. m[2] \in SeqNum
  BY SampleIsPair
<1>2. high' \in 0 .. MaxSeq
  BY <1>1, BoundsAssumption DEF TypeOK, Admit, SeqNum
<1>3. admitted' \in Seq(Sample)
  BY DEF TypeOK, Admit
<1>4. recent' \in Seq(SeqNum) /\ Len(recent') <= Window
  <2>1. recent' = Remembered(m[2])
    BY DEF Admit
  <2>2. CASE Len(recent) >= Window
    <3>1. recent # <<>>
      BY <2>2, WindowAssumption
    <3>2. Tail(recent) \in Seq(SeqNum) /\ Len(Tail(recent)) = Len(recent) - 1
      BY <3>1, HeadTailProperties DEF TypeOK
    <3> QED
      BY <1>1, <2>1, <2>2, <3>2, WindowAssumption DEF TypeOK, Remembered
  <2>3. CASE ~(Len(recent) >= Window)
    BY <1>1, <2>1, <2>3, WindowAssumption DEF TypeOK, Remembered
  <2> QED
    BY <2>2, <2>3
<1> QED
  BY <1>2, <1>3, <1>4

\* Every step of the router and of the application keeps the account of slots.
LEMMA StepSlab ==
    ASSUME SlabInv, [Next]_vars
    PROVE  SlabInv'
<1> USE DEF SlabInv, SlabAccounting
<1>1. ASSUME NEW m \in Sample, RouteUnknownWriter(m)
      PROVE  SlabInv'
  BY <1>1, ArrivesType DEF RouteUnknownWriter, TypeOK
<1>2. ASSUME NEW m \in Sample, RefuseSample(m)
      PROVE  SlabInv'
  BY <1>2, ArrivesType, RoutedType DEF RefuseSample, TypeOK
<1>3. ASSUME NEW m \in Sample, DropAdmitted(m)
      PROVE  SlabInv'
  <2>1. Admit(m) /\ Arrives(m)
    BY <1>3 DEF DropAdmitted, Admit
  <2> QED
    BY <1>3, <2>1, ArrivesType, AdmitType, RoutedType DEF DropAdmitted, Admit, TypeOK
<1>4. ASSUME NEW m \in Sample, ReserveSlot(m)
      PROVE  SlabInv'
  <2>1. Admit(m) /\ Arrives(m)
    BY <1>4 DEF ReserveSlot, Admit
  <2>2. inHand = <<>> /\ inHand' = m /\ m # <<>> /\ slab' = slab + 1
    BY <1>4, <2>1, ArrivesType, SampleIsPair DEF ReserveSlot
  <2>3. TypeOK'
    <3>1. /\ dedup' \subseteq Sample
          /\ high' \in 0 .. MaxSeq
          /\ recent' \in Seq(SeqNum) /\ Len(recent') <= Window
          /\ admitted' \in Seq(Sample)
      BY <2>1, ArrivesType, AdmitType
    <3>2. inHand' \in Sample \cup {<<>>} /\ slab' \in Nat
      BY <2>2 DEF TypeOK
    <3>3. UNCHANGED <<win, ring, delivered, refused>> /\ announced' \subseteq Writer
      BY <2>1, RoutedType DEF Admit
    <3> QED
      BY <3>1, <3>2, <3>3 DEF TypeOK
  <2>4. slab = Len(ring) /\ ring' = ring /\ slab \in Nat
    BY <2>1, <2>2 DEF Admit, TypeOK
  <2>5. SlabAccounting'
    BY <2>2, <2>4
  <2> QED
    BY <2>3, <2>5
<1>5. ASSUME DropUnmapped
      PROVE  SlabInv'
  <2>1. inHand \in Sample /\ inHand[2] \in SeqNum
    BY <1>5, SampleIsPair DEF DropUnmapped, TypeOK
  <2>2. win' \in WindowType
    BY <1>5, <2>1, WindowAfterType DEF DropUnmapped, TypeOK, WindowType
  <2> QED
    BY <1>5, <2>2 DEF DropUnmapped, TypeOK, WindowType
<1>6. ASSUME PushRing
      PROVE  SlabInv'
  <2>1. inHand \in Sample /\ inHand[2] \in SeqNum
    BY <1>6, SampleIsPair DEF PushRing, TypeOK
  <2>2. win' \in WindowType
    BY <1>6, <2>1, WindowAfterType DEF PushRing, TypeOK, WindowType
  <2>3. LocalSeq(inHand[2]) \in 0 .. U32Max
    BY <1>6, <2>1, LocalSeqType DEF PushRing, TypeOK, WindowType
  <2>4. CASE Len(ring) < RingCap
    <3>1. /\ ring' = Append(ring, <<inHand, LocalSeq(inHand[2])>>)
          /\ delivered' = Append(delivered, inHand) /\ slab' = slab
      BY <1>6, <2>4 DEF PushRing
    <3>2. <<inHand, LocalSeq(inHand[2])>> \in Sample \X (0 .. U32Max)
      BY <2>1, <2>3
    <3>3. /\ ring' \in Seq(Sample \X (0 .. U32Max)) /\ Len(ring') = Len(ring) + 1
          /\ delivered' \in Seq(Sample)
      BY <2>1, <3>1, <3>2 DEF TypeOK
    <3> QED
      BY <1>6, <2>2, <3>1, <3>3 DEF PushRing, TypeOK, WindowType
  <2>5. CASE ~(Len(ring) < RingCap)
    BY <1>6, <2>2, <2>5 DEF PushRing, TypeOK, WindowType
  <2> QED
    BY <2>4, <2>5
<1>7. ASSUME EvictDedup
      PROVE  SlabInv'
  <2>1. dedup' \subseteq Sample
    BY <1>7 DEF EvictDedup, TypeOK
  <2> QED
    BY <1>7, <2>1 DEF EvictDedup, TypeOK
<1>8. ASSUME TakeSample
      PROVE  SlabInv'
  <2>1. /\ ring' \in Seq(Sample \X (0 .. U32Max)) /\ Len(ring') = Len(ring) - 1
        /\ Len(ring) \in Nat \ {0}
    BY <1>8, HeadTailProperties, EmptySeq DEF TakeSample, TypeOK
  <2>2. slab' = slab - 1 /\ inHand' = inHand /\ slab \in Nat
    BY <1>8 DEF TakeSample, TypeOK
  <2>3. SlabAccounting' /\ slab' \in Nat
    BY <2>1, <2>2
  <2>4. TypeOK'
    BY <1>8, <2>1, <2>3 DEF TakeSample, TypeOK
  <2> QED
    BY <2>3, <2>4
<1>9. ASSUME NEW w \in Writer, Announce(w)
      PROVE  SlabInv'
  BY <1>9 DEF Announce, TypeOK
<1>10. ASSUME UNCHANGED vars
       PROVE  SlabInv'
  BY <1>10 DEF vars, TypeOK
<1> QED
  BY <1>1, <1>2, <1>3, <1>4, <1>5, <1>6, <1>7, <1>8, <1>9, <1>10 DEF Next

\* on_data_with_version and pump_ring_to_cache: local numbers fit 32 bits,
\* and every slab slot belongs to a sample in the ring or in the router's
\* hand, on every path out of the handler.
THEOREM SlotsNeverLost == Spec => [](TypeOK /\ SlabAccounting)
<1>1. Init => SlabInv
  BY InitSlab
<1>2. SlabInv /\ [Next]_vars => SlabInv'
  BY StepSlab
<1>3. SlabInv => TypeOK /\ SlabAccounting
  BY DEF SlabInv
<1> QED
  BY <1>1, <1>2, <1>3, PTL DEF Spec

-----------------------------------------------------------------------------
(* The window *)

\* The deque holds the numbers of the last admissions, up to Window of them.
RecentIsSuffix ==
    /\ Len(recent) = IF Len(admitted) < Window THEN Len(admitted) ELSE Window
    /\ \A k \in 1 .. Len(recent) :
          recent[k] = admitted[Len(admitted) - Len(recent) + k][2]

\* high is an upper bound of the numbers admitted.
HighBounds == \A i \in 1 .. Len(admitted) : admitted[i][2] <= high

SpacingInv == TypeOK /\ RecentIsSuffix /\ HighBounds /\ WindowSpacing

\* An admission comes after more than Window others since the last one of its
\* number, because the deque holds exactly the last Window admissions.
LEMMA AdmitSpacing ==
    ASSUME NEW m \in Sample, SpacingInv, Admit(m)
    PROVE  RecentIsSuffix' /\ HighBounds' /\ WindowSpacing'
<1> DEFINE n == Len(admitted)
<1> USE WindowAssumption
<1>1. /\ m[2] \in Nat /\ high \in Nat /\ n \in Nat /\ Len(recent) \in Nat
      /\ m[2] \in SeqNum /\ recent \in Seq(SeqNum) /\ admitted \in Seq(Sample)
  BY SampleIsPair, BoundsAssumption DEF SpacingInv, TypeOK
<1>2. /\ admitted' = Append(admitted, m) /\ Len(admitted') = n + 1
      /\ admitted'[n + 1] = m
      /\ \A i \in 1 .. n : admitted'[i] = admitted[i]
  BY <1>1 DEF Admit
<1>3. \A i \in 1 .. n : admitted[i] \in Sample /\ admitted[i][2] \in Nat
  BY <1>1, SampleIsPair
<1>4. RecentIsSuffix'
  <2>1. recent' = Remembered(m[2])
    BY DEF Admit
  <2>2. CASE Len(recent) >= Window
    <3>1. n >= Window /\ Len(recent) = Window
      BY <1>1, <2>2 DEF SpacingInv, RecentIsSuffix
    <3>2. recent # <<>>
      BY <3>1
    <3>3. /\ Tail(recent) \in Seq(SeqNum) /\ Len(Tail(recent)) = Window - 1
          /\ \A k \in 1 .. Window - 1 : Tail(recent)[k] = recent[k + 1]
      BY <1>1, <3>1, <3>2, HeadTailProperties
    <3>4. recent' = Append(Tail(recent), m[2])
      BY <2>1, <2>2 DEF Remembered
    <3>5. /\ Len(recent') = Window /\ recent'[Window] = m[2]
          /\ \A k \in 1 .. Window - 1 : recent'[k] = recent[k + 1]
      BY <1>1, <3>3, <3>4
    <3>6. ASSUME NEW k \in 1 .. Window - 1
          PROVE  recent'[k] = admitted'[n + 1 - Window + k][2]
      <4>1. recent[k + 1] = admitted[n - Window + (k + 1)][2]
        <5>1. k + 1 \in 1 .. Len(recent)
          BY <3>1
        <5>2. \A l \in 1 .. Len(recent) :
                recent[l] = admitted[n - Len(recent) + l][2]
          BY DEF SpacingInv, RecentIsSuffix
        <5> QED
          BY <3>1, <5>1, <5>2
      <4>2. n - Window + (k + 1) \in 1 .. n
        BY <1>1, <3>1
      <4>3. n - Window + (k + 1) = n + 1 - Window + k
        BY <1>1
      <4> QED
        BY <1>2, <3>5, <4>1, <4>2, <4>3
    <3>7. ASSUME NEW k \in 1 .. Window
          PROVE  recent'[k] = admitted'[n + 1 - Window + k][2]
      <4>1. CASE k = Window
        BY <1>1, <1>2, <3>5, <4>1
      <4>2. CASE k # Window
        BY <3>6, <4>2
      <4> QED
        BY <4>1, <4>2
    <3>8. Len(recent') = IF Len(admitted') < Window THEN Len(admitted') ELSE Window
      BY <1>1, <1>2, <3>1, <3>5
    <3>9. ASSUME NEW k \in 1 .. Len(recent')
          PROVE  recent'[k] = admitted'[Len(admitted') - Len(recent') + k][2]
      <4>1. k \in 1 .. Window
        BY <3>5
      <4>2. Len(admitted') - Len(recent') + k = n + 1 - Window + k
        BY <1>2, <3>5
      <4>3. recent'[k] = admitted'[n + 1 - Window + k][2]
        BY <3>7, <4>1
      <4> QED
        BY <4>2, <4>3
    <3> QED
      BY <3>8, <3>9 DEF RecentIsSuffix
  <2>3. CASE ~(Len(recent) >= Window)
    <3>1. n < Window /\ Len(recent) = n
      BY <1>1, <2>3 DEF SpacingInv, RecentIsSuffix
    <3>2. recent' = Append(recent, m[2])
      BY <2>1, <2>3 DEF Remembered
    <3>3. /\ Len(recent') = n + 1 /\ recent'[n + 1] = m[2]
          /\ \A k \in 1 .. n : recent'[k] = recent[k]
      BY <1>1, <3>1, <3>2
    <3>4. \A k \in 1 .. n : recent[k] = admitted[k][2]
      BY <1>1, <3>1 DEF SpacingInv, RecentIsSuffix
    <3>5. ASSUME NEW k \in 1 .. n + 1
          PROVE  recent'[k] = admitted'[k][2]
      <4>1. CASE k = n + 1
        BY <1>2, <3>3, <4>1
      <4>2. CASE k # n + 1
        BY <1>1, <1>2, <3>3, <3>4, <4>2
      <4> QED
        BY <4>1, <4>2
    <3> QED
      BY <1>1, <1>2, <3>1, <3>3, <3>5 DEF RecentIsSuffix
  <2> QED
    BY <2>2, <2>3
<1>5. HighBounds'
  <2>1. high' >= high /\ high' >= m[2] /\ high' \in Nat
    BY <1>1 DEF Admit
  <2>2. ASSUME NEW i \in 1 .. n + 1
        PROVE  admitted'[i][2] <= high'
    <3>1. CASE i = n + 1
      BY <1>2, <2>1, <3>1
    <3>2. CASE i # n + 1
      BY <1>1, <1>2, <1>3, <2>1, <3>2 DEF SpacingInv, HighBounds
    <3> QED
      BY <3>1, <3>2
  <2> QED
    BY <1>2, <2>2 DEF HighBounds
<1>6. ASSUME NEW i \in 1 .. n, admitted[i][2] = m[2]
      PROVE  n + 1 - i > Window
  <2>1. m[2] <= high
    BY <1>6 DEF SpacingInv, HighBounds
  <2>2. m[2] \notin Range(recent)
    BY <1>1, <2>1 DEF Admit, Admits
  <2>3. ~(i > n - Len(recent))
    <3> SUFFICES ASSUME i > n - Len(recent) PROVE FALSE
      OBVIOUS
    <3> DEFINE k == i - (n - Len(recent))
    <3>1. k \in 1 .. Len(recent) /\ n - Len(recent) + k = i
      BY <1>1
    <3>2. recent[k] = m[2]
      BY <1>6, <3>1 DEF SpacingInv, RecentIsSuffix
    <3> QED
      BY <1>1, <2>2, <3>1, <3>2 DEF Range
  <2>4. Len(recent) = Window
    BY <1>1, <2>3 DEF SpacingInv, RecentIsSuffix
  <2> QED
    BY <1>1, <2>3, <2>4
<1>7. WindowSpacing'
  <2> SUFFICES ASSUME NEW i \in 1 .. n + 1, NEW j \in 1 .. n + 1, i < j,
                      admitted'[i][2] = admitted'[j][2]
               PROVE  j - i > Window
    BY <1>1, <1>2 DEF WindowSpacing
  <2>1. CASE j = n + 1
    BY <1>1, <1>2, <1>6, <2>1
  <2>2. CASE j # n + 1
    BY <1>1, <1>2, <2>2 DEF SpacingInv, WindowSpacing
  <2> QED
    BY <2>1, <2>2
<1> QED
  BY <1>4, <1>5, <1>7

\* The other steps do not touch SeenSeqs.
LEMMA StepSpacing ==
    ASSUME SpacingInv, TypeOK', [Next]_vars
    PROVE  SpacingInv'
<1>1. ASSUME NEW m \in Sample, Admit(m)
      PROVE  SpacingInv'
  BY <1>1, AdmitSpacing DEF SpacingInv
<1>2. ASSUME UNCHANGED <<high, recent, admitted>>
      PROVE  SpacingInv'
  BY <1>2 DEF SpacingInv, RecentIsSuffix, HighBounds, WindowSpacing
<1>3. \/ UNCHANGED <<high, recent, admitted>>
      \/ \E m \in Sample : Admit(m)
  BY DEF Next, vars, RouteUnknownWriter, RefuseSample, DropAdmitted, ReserveSlot,
     DropUnmapped, PushRing, EvictDedup, Announce, TakeSample
<1> QED
  BY <1>1, <1>2, <1>3

\* Nothing is admitted yet.
LEMMA InitSpacing == Init => SpacingInv
<1> SUFFICES ASSUME Init PROVE SpacingInv
  OBVIOUS
<1>1. Len(recent) = 0 /\ Len(admitted) = 0 /\ DOMAIN admitted = {}
  BY DEF Init
<1>2. TypeOK
  BY InitSlab DEF SlabInv
<1> QED
  BY <1>1, <1>2, WindowAssumption
  DEF SpacingInv, RecentIsSuffix, HighBounds, WindowSpacing

\* SeenSeqs::admit: between two admissions of the same sequence number lie
\* at least Window others, for every Window and in whatever order the
\* network delivers, although the deque alone is bounded.
THEOREM RepeatsAreSpaced == Spec => []WindowSpacing
<1>1. Init => SpacingInv
  BY InitSpacing
<1>2. SpacingInv /\ TypeOK' /\ [Next]_vars => SpacingInv'
  BY StepSpacing
<1>3. SpacingInv => WindowSpacing
  BY DEF SpacingInv
<1>4. Spec => []TypeOK
  BY SlotsNeverLost, PTL
<1> QED
  BY <1>1, <1>2, <1>3, <1>4, PTL DEF Spec

-----------------------------------------------------------------------------
(* While no number has outgrown the window *)

\* The numbers admitted are pairwise different ...
NumbersDistinct ==
    \A i, j \in 1 .. Len(admitted) : admitted[i][2] = admitted[j][2] => i = j

\* ... what was delivered was admitted, and the sample in the router's hand was
\* admitted and has not been delivered.
HandIsNew ==
    /\ Range(delivered) \subseteq Range(admitted)
    /\ inHand # <<>> => inHand \in Range(admitted) /\ inHand \notin Range(delivered)

FreshInv == high <= Window => NumbersDistinct /\ HandIsNew /\ NoDuplicateDelivery

\* Different numbers up to Window are at most Window many, so the deque still
\* has every one of them.
LEMMA FewAdmitted ==
    ASSUME SpacingInv, NumbersDistinct, high <= Window
    PROVE  Len(admitted) <= Window
<1> DEFINE n == Len(admitted)
           f == [i \in 1 .. n |-> admitted[i][2]]
<1>1. n \in Nat /\ high \in Nat /\ Window \in Nat /\ admitted \in Seq(Sample)
  BY WindowAssumption, BoundsAssumption DEF SpacingInv, TypeOK
<1> SUFFICES ASSUME n > Window PROVE FALSE
  BY <1>1
<1>2. \A i \in 1 .. n : admitted[i][2] \in 1 .. Window
  <2> SUFFICES ASSUME NEW i \in 1 .. n PROVE admitted[i][2] \in 1 .. Window
    OBVIOUS
  <2>1. admitted[i][2] \in Nat \ {0}
    BY <1>1, SampleIsPair
  <2>2. admitted[i][2] <= high
    BY DEF SpacingInv, HighBounds
  <2> QED
    BY <1>1, <2>1, <2>2
<1>3. f \in [1 .. n -> 1 .. Window]
  BY <1>2
<1>4. /\ IsFiniteSet(1 .. n) /\ IsFiniteSet(1 .. Window)
      /\ Cardinality(1 .. n) = n /\ Cardinality(1 .. Window) = Window
  <2>1. 1 \in Int /\ n \in Int /\ Window \in Int /\ n >= 1 /\ Window >= 1
    BY <1>1, WindowAssumption
  <2>2. IsFiniteSet(1 .. n) /\ Cardinality(1 .. n) = IF 1 > n THEN 0 ELSE n - 1 + 1
    BY <2>1, FS_Interval
  <2>3. /\ IsFiniteSet(1 .. Window)
        /\ Cardinality(1 .. Window) = IF 1 > Window THEN 0 ELSE Window - 1 + 1
    BY <2>1, FS_Interval
  <2> HIDE DEF n
  <2> QED
    BY <2>1, <2>2, <2>3
<1>5. \E x, y \in 1 .. n : x # y /\ f[x] = f[y]
  <2> HIDE DEF f, n
  <2> QED
    BY <1>3, <1>4, FS_PigeonHole
<1> QED
  BY <1>5 DEF NumbersDistinct

\* What is admitted then was not admitted before.
LEMMA AdmitIsNew ==
    ASSUME NEW m \in Sample, SpacingInv, NumbersDistinct, high <= Window, Admit(m)
    PROVE  /\ NumbersDistinct'
           /\ m \notin Range(admitted)
           /\ Range(admitted') = Range(admitted) \cup {m}
<1> DEFINE n == Len(admitted)
<1>1. n \in Nat /\ n <= Window /\ Window \in Nat /\ admitted \in Seq(Sample)
  BY FewAdmitted, WindowAssumption DEF SpacingInv, TypeOK
<1>2. /\ admitted' = Append(admitted, m) /\ Len(admitted') = n + 1
      /\ admitted'[n + 1] = m
      /\ \A i \in 1 .. n : admitted'[i] = admitted[i]
      /\ DOMAIN admitted = 1 .. n /\ DOMAIN admitted' = 1 .. n + 1
  BY <1>1 DEF Admit
<1>3. ASSUME NEW i \in 1 .. n PROVE admitted[i][2] # m[2]
  <2>1. WindowSpacing'
    BY AdmitSpacing
  <2>2. admitted[i][2] = m[2] => n + 1 - i > Window
    BY <1>1, <1>2, <2>1 DEF WindowSpacing
  <2> QED
    BY <1>1, <2>2
<1>4. NumbersDistinct'
  <2> SUFFICES ASSUME NEW i \in 1 .. n + 1, NEW j \in 1 .. n + 1,
                      admitted'[i][2] = admitted'[j][2]
               PROVE  i = j
    BY <1>2 DEF NumbersDistinct
  <2>1. CASE i = n + 1 \/ j = n + 1
    BY <1>1, <1>2, <1>3, <2>1
  <2>2. CASE i # n + 1 /\ j # n + 1
    BY <1>1, <1>2, <2>2 DEF NumbersDistinct
  <2> QED
    BY <2>1, <2>2
<1>5. m \notin Range(admitted)
  BY <1>2, <1>3 DEF Range
<1>6. Range(admitted') = Range(admitted) \cup {m}
  <2>1. ASSUME NEW x \in Range(admitted') PROVE x \in Range(admitted) \cup {m}
    <3>1. PICK i \in 1 .. n + 1 : x = admitted'[i]
      BY <1>2 DEF Range
    <3>2. CASE i = n + 1
      BY <1>2, <3>1, <3>2
    <3>3. CASE i # n + 1
      <4>1. i \in 1 .. n
        BY <1>1, <3>3
      <4> QED
        BY <1>2, <3>1, <4>1 DEF Range
    <3> QED
      BY <3>2, <3>3
  <2>2. ASSUME NEW x \in Range(admitted) PROVE x \in Range(admitted')
    <3>1. PICK i \in 1 .. n : x = admitted[i]
      BY <1>2 DEF Range
    <3>2. i \in 1 .. n + 1
      BY <1>1
    <3> QED
      BY <1>2, <3>1, <3>2 DEF Range
  <2>3. m \in Range(admitted')
    <3>1. n + 1 \in 1 .. n + 1
      BY <1>1
    <3> QED
      BY <1>2, <3>1 DEF Range
  <2> QED
    BY <2>1, <2>2, <2>3
<1> QED
  BY <1>4, <1>5, <1>6

\* The largest number never falls.
LEMMA HighGrows ==
    ASSUME TypeOK, TypeOK', [Next]_vars
    PROVE  high \in Nat /\ high' \in Nat /\ high <= high'
<1>1. high \in Nat /\ high' \in Nat
  BY BoundsAssumption DEF TypeOK
<1>2. ASSUME NEW m \in Sample, Admit(m) PROVE high <= high'
  BY <1>1, <1>2, SampleIsPair DEF Admit
<1>3. high' = high \/ \E m \in Sample : Admit(m)
  BY DEF Next, vars, RouteUnknownWriter, RefuseSample, DropAdmitted, ReserveSlot,
     DropUnmapped, PushRing, EvictDedup, Announce, TakeSample
<1> QED
  BY <1>1, <1>2, <1>3

\* Every step keeps the deliveries new.
LEMMA StepFresh ==
    ASSUME SpacingInv, FreshInv, TypeOK', [Next]_vars
    PROVE  FreshInv'
<1> SUFFICES ASSUME high' <= Window PROVE (NumbersDistinct /\ HandIsNew /\ NoDuplicateDelivery)'
  BY DEF FreshInv
<1>1. high <= Window
  BY HighGrows, WindowAssumption DEF SpacingInv
<1>2. NumbersDistinct /\ HandIsNew /\ NoDuplicateDelivery /\ delivered \in Seq(Sample)
  BY <1>1 DEF FreshInv, SpacingInv, TypeOK
<1>3. ASSUME NEW m \in Sample, DropAdmitted(m) \/ ReserveSlot(m)
      PROVE  (NumbersDistinct /\ HandIsNew /\ NoDuplicateDelivery)'
  <2>1. Admit(m) /\ delivered' = delivered /\ (inHand' = inHand \/ inHand' = m)
    BY <1>3 DEF DropAdmitted, ReserveSlot, Admit
  <2>2. /\ NumbersDistinct' /\ m \notin Range(admitted)
        /\ Range(admitted') = Range(admitted) \cup {m}
    BY <1>1, <1>2, <2>1, AdmitIsNew
  <2>3. HandIsNew'
    BY <1>2, <2>1, <2>2 DEF HandIsNew
  <2> QED
    BY <1>2, <2>1, <2>2, <2>3 DEF NoDuplicateDelivery
<1>4. ASSUME PushRing, delivered' # delivered
      PROVE  (NumbersDistinct /\ HandIsNew /\ NoDuplicateDelivery)'
  <2> DEFINE k == Len(delivered)
  <2>1. /\ delivered' = Append(delivered, inHand) /\ inHand # <<>> /\ inHand' = <<>>
        /\ admitted' = admitted
    BY <1>4 DEF PushRing
  <2>2. inHand \in Range(admitted) /\ inHand \notin Range(delivered) /\ inHand \in Sample
    BY <1>2, <2>1 DEF HandIsNew, SpacingInv, TypeOK
  <2>3. /\ k \in Nat /\ DOMAIN delivered = 1 .. k /\ DOMAIN delivered' = 1 .. k + 1
        /\ delivered'[k + 1] = inHand
        /\ \A i \in 1 .. k : delivered'[i] = delivered[i]
    BY <1>2, <2>1, <2>2
  <2>4. \A i \in 1 .. k : delivered[i] \in Range(delivered)
    BY <2>3 DEF Range
  <2>5. ASSUME NEW i \in 1 .. k + 1, NEW j \in 1 .. k + 1, delivered'[i] = delivered'[j]
        PROVE  i = j
    <3>1. CASE i = k + 1 \/ j = k + 1
      BY <2>2, <2>3, <2>4, <2>5, <3>1
    <3>2. CASE i # k + 1 /\ j # k + 1
      <4>1. i \in 1 .. k /\ j \in 1 .. k
        BY <2>3, <3>2
      <4> QED
        BY <1>2, <2>3, <2>5, <4>1 DEF NoDuplicateDelivery
    <3> QED
      BY <3>1, <3>2
  <2>6. ASSUME NEW x \in Range(delivered') PROVE x \in Range(admitted)
    <3>1. PICK i \in 1 .. k + 1 : x = delivered'[i]
      BY <2>3 DEF Range
    <3>2. x = inHand \/ x \in Range(delivered)
      BY <2>3, <2>4, <3>1
    <3> QED
      BY <1>2, <2>2, <3>2 DEF HandIsNew
  <2> QED
    BY <1>2, <2>1, <2>3, <2>5, <2>6 DEF NumbersDistinct, HandIsNew, NoDuplicateDelivery
<1>5. ASSUME UNCHANGED <<admitted, delivered>>, inHand' = inHand \/ inHand' = <<>>
      PROVE  (NumbersDistinct /\ HandIsNew /\ NoDuplicateDelivery)'
  BY <1>2, <1>5 DEF NumbersDistinct, HandIsNew, NoDuplicateDelivery
<1>6. \/ UNCHANGED <<admitted, delivered>> /\ (inHand' = inHand \/ inHand' = <<>>)
      \/ PushRing /\ delivered' # delivered
      \/ \E m \in Sample : DropAdmitted(m) \/ ReserveSlot(m)
  BY DEF Next, vars, RouteUnknownWriter, RefuseSample, DropUnmapped, PushRing, EvictDedup,
     Announce, TakeSample
<1> QED
  BY <1>3, <1>4, <1>5, <1>6

\* SeenSeqs and the router between them deliver no sample twice as long as no
\* number is larger than the window, for any number of writers and any
\* repetition, reordering and forgetting of packets.
THEOREM NoRepeatInWindow == Spec => []NoDuplicateInWindow
<1>1. Init => SpacingInv /\ FreshInv
  <2> SUFFICES ASSUME Init PROVE FreshInv
    BY InitSpacing
  <2>1. Len(admitted) = 0 /\ delivered = <<>> /\ inHand = <<>>
    BY DEF Init
  <2> QED
    BY <2>1 DEF FreshInv, NumbersDistinct, HandIsNew, NoDuplicateDelivery, Range
<1>2. SpacingInv /\ FreshInv /\ TypeOK' /\ [Next]_vars => (SpacingInv /\ FreshInv)'
  BY StepSpacing, StepFresh
<1>3. FreshInv => NoDuplicateInWindow
  BY DEF FreshInv, NoDuplicateInWindow
<1>4. Spec => []TypeOK
  BY SlotsNeverLost, PTL
<1> QED
  BY <1>1, <1>2, <1>3, <1>4, PTL DEF Spec

\* The floor moves up with the largest number.
LEMMA FloorGrows ==
    ASSUME NEW h \in Nat, NEW k \in Nat, NEW n \in Nat, h <= k
    PROVE  /\ (IF h > n THEN h - n ELSE 0) \in Nat
           /\ (IF k > n THEN k - n ELSE 0) \in Nat
           /\ (IF h > n THEN h - n ELSE 0) <= (IF k > n THEN k - n ELSE 0)
<1>1. CASE h > n
  BY <1>1
<1>2. CASE ~(h > n) /\ k > n
  BY <1>2
<1>3. CASE ~(h > n) /\ ~(k > n)
  BY <1>3
<1> QED
  BY <1>1, <1>2, <1>3

\* Every step keeps the account of the refusals: the floor never falls, and
\* the deque holds numbers that were admitted.
LEMMA StepRefuses ==
    ASSUME SpacingInv, RefusesOnlySeenOrOld, TypeOK', [Next]_vars
    PROVE  RefusesOnlySeenOrOld'
<1>1. admitted \in Seq(Sample) /\ recent \in Seq(SeqNum)
  BY DEF SpacingInv, TypeOK
<1>2. Floor \in Nat /\ Floor' \in Nat /\ Floor <= Floor'
  <2>1. high \in Nat /\ high' \in Nat /\ high <= high' /\ Window \in Nat
    BY HighGrows, WindowAssumption DEF SpacingInv
  <2> QED
    BY <2>1, FloorGrows DEF Floor
<1>3. ASSUME NEW m \in Sample, RefuseSample(m)
      PROVE  m[2] < Floor \/ \E k \in DOMAIN admitted : admitted[k][2] = m[2]
  <2>1. m[2] \in SeqNum
    BY SampleIsPair
  <2>2. CASE m[2] \in Range(recent)
    <3>1. PICK k \in 1 .. Len(recent) : m[2] = recent[k]
      BY <1>1, <2>2 DEF Range
    <3> DEFINE i == Len(admitted) - Len(recent) + k
    <3>2. recent[k] = admitted[i][2]
      BY DEF SpacingInv, RecentIsSuffix
    <3>3. Len(recent) \in Nat /\ Len(admitted) \in Nat /\ Len(recent) <= Len(admitted)
      BY <1>1 DEF SpacingInv, RecentIsSuffix
    <3>4. i \in DOMAIN admitted
      BY <1>1, <3>3
    <3> QED
      BY <3>1, <3>2, <3>4
  <2>3. CASE m[2] \notin Range(recent)
    BY <1>2, <1>3, <2>1, <2>3 DEF RefuseSample, Admits, SeqNum
  <2> QED
    BY <2>2, <2>3
<1>4. ASSUME NEW m \in Sample, Admit(m)
      PROVE  \A k \in DOMAIN admitted : k \in DOMAIN admitted' /\ admitted'[k] = admitted[k]
  <2>1. admitted' = Append(admitted, m)
    BY <1>4 DEF Admit
  <2> QED
    BY <1>1, <2>1
<1>5. \/ UNCHANGED <<admitted, refused>>
      \/ \E m \in Sample : RefuseSample(m)
      \/ \E m \in Sample : Admit(m)
  BY DEF Next, vars, RouteUnknownWriter, DropAdmitted, ReserveSlot, DropUnmapped, PushRing,
     EvictDedup, Announce, TakeSample
<1>6. ASSUME NEW m \in refused'
      PROVE  m[2] < Floor \/ \E k \in DOMAIN admitted : admitted[k][2] = m[2]
  <2>1. m \in refused \/ (RefuseSample(m) /\ m \in Sample)
    BY <1>5 DEF RefuseSample, Admit
  <2> QED
    BY <1>3, <2>1 DEF RefusesOnlySeenOrOld
<1>7. \A k \in DOMAIN admitted : k \in DOMAIN admitted' /\ admitted'[k] = admitted[k]
  BY <1>4, <1>5 DEF RefuseSample
<1>8. ASSUME NEW m \in refused'
      PROVE  m[2] < Floor' \/ \E k \in DOMAIN admitted' : admitted'[k][2] = m[2]
  <2>1. m[2] \in Nat
    BY <1>8, SampleIsPair DEF TypeOK, SeqNum
  <2> QED
    BY <1>2, <1>6, <1>7, <2>1
<1> QED
  BY <1>8 DEF RefusesOnlySeenOrOld

\* SeenSeqs takes for a repetition only what has the number of an admitted
\* sample, or a number more than the window behind, for every window, any
\* number of writers that share the reader and any order of arrival.
THEOREM NothingNewRefused == Spec => []RefusesOnlySeenOrOld
<1>1. Init => SpacingInv /\ RefusesOnlySeenOrOld
  BY InitSpacing DEF Init, RefusesOnlySeenOrOld
<1>2. SpacingInv /\ RefusesOnlySeenOrOld /\ TypeOK' /\ [Next]_vars
        => (SpacingInv /\ RefusesOnlySeenOrOld)'
  BY StepSpacing, StepRefuses
<1>3. Spec => []TypeOK
  BY SlotsNeverLost, PTL
<1> QED
  BY <1>1, <1>2, <1>3, PTL DEF Spec

-----------------------------------------------------------------------------
(***************************************************************************)
(* Fragments: reassembly, for any number of fragments, of pending sets and *)
(* of samples, and whatever the network does.                              *)
(***************************************************************************)

\* Induction over the natural numbers, for a set of them.
LEMMA SetInduction ==
    ASSUME NEW P \in SUBSET Nat, 0 \in P, \A n \in P : n + 1 \in P
    PROVE  P = Nat
<1> SUFFICES ASSUME Nat \ P # {} PROVE FALSE
  OBVIOUS
<1> DEFINE L == OpToRel(<, Nat)
<1>1. IsWellFoundedOn(L, Nat)
  BY NatLessThanWellFounded
<1>2. \A i, j \in Nat : i < j => <<i, j>> \in L
  BY DEF OpToRel
<1> HIDE DEF L
<1>3. PICK x \in Nat \ P : \A y \in Nat \ P : ~(<<y, x>> \in L)
  BY <1>1, WFMin
<1>4. x # 0 /\ x - 1 \in Nat /\ x - 1 < x
  OBVIOUS
<1>5. x - 1 \notin P
  BY <1>4
<1> QED BY <1>2, <1>3, <1>4, <1>5

\* k is a part of q: each of its elements is one of q at a place in I, and
\* different ones are from different places.
Part(k, q, I) ==
    \E g \in [1 .. Len(k) -> 1 .. Len(q)] :
        /\ \A i \in 1 .. Len(k) : g[i] \in I /\ k[i] = q[g[i]]
        /\ \A i, j \in 1 .. Len(k) : g[i] = g[j] => i = j

\* The recursion of Retain has a solution.
LEMMA RetainExists ==
    ASSUME NEW T, NEW q \in Seq(T), NEW I
    PROVE  \E f : f = [n \in 0 .. Len(q) |->
                         IF n = 0 THEN <<>>
                         ELSE IF n \in I THEN Append(f[n - 1], q[n]) ELSE f[n - 1]]
<1> DEFINE Step(f, i) == IF i \in I THEN Append(f[i - 1], q[i]) ELSE f[i - 1]
           Upto(f, n) == /\ f = [i \in 0 .. n |-> f[i]]
                         /\ f[0] = <<>>
                         /\ \A i \in 1 .. n : f[i] = Step(f, i)
           P == {n \in Nat : n <= Len(q) => \E f : Upto(f, n)}
<1>1. 0 \in P
  <2>1. Upto([i \in 0 .. 0 |-> <<>>], 0)
    OBVIOUS
  <2> QED BY <2>1
<1>2. ASSUME NEW n \in P PROVE n + 1 \in P
  <2> SUFFICES ASSUME n + 1 <= Len(q) PROVE \E f : Upto(f, n + 1)
    OBVIOUS
  <2>0. n \in Nat /\ n <= Len(q)
    OBVIOUS
  <2>1. PICK f : Upto(f, n)
    BY <2>0
  <2> DEFINE h == [i \in 0 .. n + 1 |-> IF i = n + 1 THEN Step(f, n + 1) ELSE f[i]]
  <2>2. h = [i \in 0 .. n + 1 |-> h[i]] /\ h[0] = <<>>
    BY <2>0, <2>1
  <2>3. ASSUME NEW i \in 1 .. n + 1 PROVE h[i] = Step(h, i)
    <3>1. (n + 1) - 1 = n /\ i - 1 \in 0 .. n /\ i \in 0 .. n + 1 /\ i - 1 # n + 1
          /\ i - 1 \in 0 .. n + 1
      BY <2>0
    <3>2. h[i - 1] = f[i - 1]
      BY <3>1
    <3>3. CASE i = n + 1
      BY <3>1, <3>2, <3>3
    <3>4. CASE i # n + 1
      <4>1. i \in 1 .. n
        BY <2>0, <3>4
      <4>2. h[i] = f[i]
        BY <3>1, <3>4
      <4> QED BY <2>1, <3>2, <4>1, <4>2
    <3> QED BY <3>3, <3>4
  <2>4. Upto(h, n + 1)
    BY <2>2, <2>3
  <2> QED BY <2>4
<1>3. P = Nat
  <2> HIDE DEF P
  <2>1. P \in SUBSET Nat BY DEF P
  <2> QED BY <1>1, <1>2, <2>1, SetInduction
<1>4. PICK f : Upto(f, Len(q))
  BY <1>3
<1>5. \A n \in 0 .. Len(q) : f[n] = IF n = 0 THEN <<>> ELSE Step(f, n)
  BY <1>4
<1> QED BY <1>4, <1>5

\* retain keeps a part of the sets.
LEMMA RetainFacts ==
    ASSUME NEW T, NEW q \in Seq(T), NEW I
    PROVE  /\ Retain(q, I) \in Seq(T)
           /\ Len(Retain(q, I)) <= Len(q)
           /\ Part(Retain(q, I), q, I)
<1> DEFINE F(f) == [n \in 0 .. Len(q) |->
                      IF n = 0 THEN <<>>
                      ELSE IF n \in I THEN Append(f[n - 1], q[n]) ELSE f[n - 1]]
           c == CHOOSE f : f = F(f)
<1>0. Len(q) \in Nat
  OBVIOUS
<1>1. c = F(c)
  <2>1. \E f : f = F(f)
    BY RetainExists, Zenon
  <2> HIDE DEF F
  <2> QED BY <2>1, Zenon
<1>2. Retain(q, I) = c[Len(q)]
  BY DEF Retain
<1> HIDE DEF c
<1>3. \A n \in 0 .. Len(q) :
         c[n] = IF n = 0 THEN <<>>
                ELSE IF n \in I THEN Append(c[n - 1], q[n]) ELSE c[n - 1]
  BY <1>1
<1> DEFINE Places(g, k) == /\ \A i \in 1 .. Len(k) : g[i] \in I /\ k[i] = q[g[i]]
                           /\ \A i, j \in 1 .. Len(k) : g[i] = g[j] => i = j
           Good(n) == /\ c[n] \in Seq(T)
                      /\ Len(c[n]) <= n
                      /\ \E g \in [1 .. Len(c[n]) -> 1 .. n] : Places(g, c[n])
           P == {n \in Nat : n <= Len(q) => Good(n)}
<1>4. 0 \in P
  <2>1. c[0] = <<>>
    BY <1>0, <1>3
  <2>2. c[0] \in Seq(T) /\ Len(c[0]) = 0 /\ Len(c[0]) <= 0
    BY <2>1
  <2>3. /\ [i \in 1 .. 0 |-> 0] \in [1 .. Len(c[0]) -> 1 .. 0]
        /\ \A i \in 1 .. Len(c[0]) : FALSE
    BY <2>2
  <2>4. Good(0)
    BY <2>2, <2>3
  <2> QED BY <2>4
<1>5. ASSUME NEW n \in P PROVE n + 1 \in P
  <2> SUFFICES ASSUME n + 1 <= Len(q) PROVE Good(n + 1)
    <3> HIDE DEF Good
    <3> QED OBVIOUS
  <2>0. n \in Nat /\ n <= Len(q) /\ n + 1 \in 0 .. Len(q) /\ n + 1 \in 1 .. Len(q)
        /\ n + 1 # 0 /\ (n + 1) - 1 = n
    BY <1>0
  <2>1. Good(n)
    <3> HIDE DEF Good
    <3> QED BY <2>0
  <2>2. PICK g \in [1 .. Len(c[n]) -> 1 .. n] : Places(g, c[n])
    BY <2>1, Zenon
  <2>3. c[n] \in Seq(T) /\ Len(c[n]) <= n /\ Len(c[n]) \in Nat
    <3>1. c[n] \in Seq(T) /\ Len(c[n]) <= n
      BY <2>1, Zenon
    <3> QED BY <3>1
  <2>2a. /\ \A i \in 1 .. Len(c[n]) : g[i] \in 1 .. n /\ g[i] \in I /\ c[n][i] = q[g[i]]
         /\ \A i, j \in 1 .. Len(c[n]) : g[i] = g[j] => i = j
    BY <2>2
  <2>4. CASE n + 1 \notin I
    <3>1. c[n + 1] = c[n]
      BY <1>3, <2>0, <2>4
    <3>2. g \in [1 .. Len(c[n]) -> 1 .. n + 1]
      BY <2>0, <2>2
    <3>3. Len(c[n + 1]) <= n + 1
      BY <2>0, <2>3, <3>1
    <3> HIDE DEF Places
    <3> QED BY <2>2, <2>3, <3>1, <3>2, <3>3
  <2>5. CASE n + 1 \in I
    <3>1. c[n + 1] = Append(c[n], q[n + 1])
      BY <1>3, <2>0, <2>5
    <3>2. q[n + 1] \in T
      BY <2>0
    <3>3. /\ c[n + 1] \in Seq(T) /\ Len(c[n + 1]) = Len(c[n]) + 1
          /\ c[n + 1][Len(c[n]) + 1] = q[n + 1]
          /\ \A i \in 1 .. Len(c[n]) : c[n + 1][i] = c[n][i]
      BY <2>3, <3>1, <3>2, AppendProperties
    <3> DEFINE m == Len(c[n])
               h == [i \in 1 .. m + 1 |-> IF i = m + 1 THEN n + 1 ELSE g[i]]
    <3>4. m \in Nat /\ \A i \in 1 .. m + 1 : i = m + 1 \/ (i \in 1 .. m /\ i # m + 1)
      BY <2>3
    <3>5. \A i \in 1 .. m : g[i] \in 1 .. n /\ h[i] = g[i]
      <4>1. \A i \in 1 .. m : i # m + 1 /\ i \in 1 .. m + 1
        BY <3>4
      <4> QED BY <2>2a, <4>1
    <3>6. h[m + 1] = n + 1
      BY <3>4
    <3>7. \A i \in 1 .. m + 1 : h[i] \in 1 .. n + 1
      <4> SUFFICES ASSUME NEW i \in 1 .. m + 1 PROVE h[i] \in 1 .. n + 1
        OBVIOUS
      <4>1. CASE i = m + 1
        BY <2>0, <3>6, <4>1
      <4>2. CASE i \in 1 .. m
        <5>1. h[i] \in 1 .. n
          BY <3>5, <4>2
        <5> HIDE DEF h
        <5> QED BY <2>0, <5>1
      <4> QED BY <3>4, <4>1, <4>2
    <3>8. \A i \in 1 .. m + 1 : h[i] \in I /\ c[n + 1][i] = q[h[i]]
      <4> SUFFICES ASSUME NEW i \in 1 .. m + 1
                   PROVE  h[i] \in I /\ c[n + 1][i] = q[h[i]]
        OBVIOUS
      <4>1. CASE i = m + 1
        BY <2>5, <3>3, <3>6, <4>1
      <4>2. CASE i \in 1 .. m
        <5>1. h[i] = g[i] /\ c[n + 1][i] = c[n][i] /\ c[n][i] = q[g[i]] /\ g[i] \in I
          BY <2>2a, <3>3, <3>5, <4>2
        <5> HIDE DEF h
        <5> QED BY <5>1
      <4> QED BY <3>4, <4>1, <4>2
    <3>9. ASSUME NEW i \in 1 .. m + 1, NEW j \in 1 .. m + 1, h[i] = h[j]
          PROVE  i = j
      <4>1. \A k \in 1 .. m : h[k] # n + 1
        BY <2>0, <3>5
      <4> QED BY <2>2a, <3>4, <3>5, <3>6, <3>9, <4>1
    <3>10. h \in [1 .. Len(c[n + 1]) -> 1 .. n + 1]
      BY <3>3, <3>7
    <3>11. Len(c[n + 1]) <= n + 1 /\ Len(c[n + 1]) = m + 1
      BY <2>0, <2>3, <3>3
    <3>12. Places(h, c[n + 1])
      <4> HIDE DEF h, m
      <4> QED BY <3>8, <3>9, <3>11
    <3> HIDE DEF h, m, Places
    <3> QED BY <3>3, <3>10, <3>11, <3>12
  <2> QED BY <2>4, <2>5
<1>6. P = Nat
  <2> HIDE DEF P
  <2>1. P \in SUBSET Nat BY DEF P
  <2> QED BY <1>4, <1>5, <2>1, SetInduction
<1>7. Good(Len(q))
  <2> HIDE DEF Good
  <2> QED BY <1>0, <1>6
<1>8. \E g \in [1 .. Len(c[Len(q)]) -> 1 .. Len(q)] : Places(g, c[Len(q)])
  BY <1>7, Zenon
<1>9. Part(c[Len(q)], q, I)
  BY <1>8 DEF Part
<1>10. c[Len(q)] \in Seq(T) /\ Len(c[Len(q)]) <= Len(q)
  <2> HIDE DEF Places
  <2> QED BY <1>7
<1> QED BY <1>2, <1>9, <1>10, Zenon

-----------------------------------------------------------------------------
FragSets == [seq : Seqs, got : SUBSET (Frags \X Forms), age : Nat]

FragPackets == [kind : {"frag"}, seq : Seqs, num : Frags, form : Forms]
DemandPackets == [kind : {"hbf"}, seq : Seqs, num : 1 .. Hbfs]
NackFragPackets == [kind : {"nack"}, seq : Seqs, missing : SUBSET Frags]

\* A set the buffer may keep.
Keepable(e) == e.got # {} /\ ~Complete(e) /\ e.age <= Timeout

\* No sample has two sets.
OneEach(q) == \A i, j \in 1 .. Len(q) : q[i].seq = q[j].seq => i = j

\* A buffer within its bounds.
WithinBounds(q) ==
    /\ Len(q) <= MaxPending
    /\ \A i \in 1 .. Len(q) : Keepable(q[i])
    /\ OneEach(q)

\* The inductive invariant: BufferBounded, the types, and that write has given
\* the sample it is sending a number.
FragInv ==
    /\ FragTypeOK
    /\ sending => written >= 1
    /\ WithinBounds(pend)

LEMMA BoundedIffWithin == BufferBounded <=> WithinBounds(pend)
BY DEF BufferBounded, WithinBounds, Keepable, OneEach

\* A part of a buffer is within the bounds of the buffer.
LEMMA PartWithin ==
    ASSUME NEW q \in Seq(FragSets), NEW k \in Seq(FragSets), NEW I,
           Part(k, q, I), Len(k) <= Len(q), WithinBounds(q)
    PROVE  WithinBounds(k)
<1>1. PICK g \in [1 .. Len(k) -> 1 .. Len(q)] :
         /\ \A i \in 1 .. Len(k) : g[i] \in I /\ k[i] = q[g[i]]
         /\ \A i, j \in 1 .. Len(k) : g[i] = g[j] => i = j
  BY DEF Part
<1>2. \A i \in 1 .. Len(k) : g[i] \in 1 .. Len(q) /\ k[i] = q[g[i]]
  BY <1>1
<1>3. \A i \in 1 .. Len(k) : Keepable(k[i])
  BY <1>2 DEF WithinBounds
<1>4. OneEach(k)
  <2> SUFFICES ASSUME NEW i \in 1 .. Len(k), NEW j \in 1 .. Len(k),
                      k[i].seq = k[j].seq
               PROVE  i = j
    BY DEF OneEach
  <2>1. g[i] = g[j]
    BY <1>2 DEF WithinBounds, OneEach
  <2> QED BY <1>1, <2>1
<1>5. Len(k) <= MaxPending
  BY FragmentsAssumption DEF WithinBounds
<1> QED BY <1>3, <1>4, <1>5 DEF WithinBounds

\* remove: the buffer without the set of s is within its bounds, and has no set
\* of s.
LEMMA WithoutWithin ==
    ASSUME NEW q \in Seq(FragSets), NEW s, WithinBounds(q)
    PROVE  LET k == Retain(q, {i \in 1 .. Len(q) : q[i].seq # s}) IN
           /\ k \in Seq(FragSets)
           /\ WithinBounds(k)
           /\ \A i \in 1 .. Len(k) : k[i].seq # s
<1> DEFINE I == {i \in 1 .. Len(q) : q[i].seq # s}
           k == Retain(q, I)
<1>i. \A i \in I : q[i].seq # s
  OBVIOUS
<1> HIDE DEF I
<1>1. k \in Seq(FragSets) /\ Len(k) <= Len(q) /\ Part(k, q, I)
  BY RetainFacts
<1> HIDE DEF k
<1>2. WithinBounds(k)
  BY <1>1, PartWithin
<1>3. \A i \in 1 .. Len(k) : k[i].seq # s
  <2>1. PICK g \in [1 .. Len(k) -> 1 .. Len(q)] :
           \A i \in 1 .. Len(k) : g[i] \in I /\ k[i] = q[g[i]]
    BY <1>1 DEF Part
  <2> QED BY <1>i, <2>1
<1> QED BY <1>1, <1>2, <1>3 DEF k, I

\* insert_fragment, then evict_lru: the buffer with the updated set at its end is
\* within its bounds.
LEMMA InsertWithin ==
    ASSUME NEW k \in Seq(FragSets), NEW e \in FragSets, WithinBounds(k), Keepable(e),
           \A i \in 1 .. Len(k) : k[i].seq # e.seq
    PROVE  LET q == Append(k, e) IN
           /\ q \in Seq(FragSets)
           /\ EvictLru(q) \in Seq(FragSets)
           /\ WithinBounds(EvictLru(q))
<1> DEFINE q == Append(k, e)
<1>1. /\ q \in Seq(FragSets) /\ Len(q) = Len(k) + 1 /\ Len(k) \in Nat
      /\ q[Len(k) + 1] = e
      /\ \A i \in 1 .. Len(k) : q[i] = k[i]
  BY AppendProperties
<1>2. Len(k) <= MaxPending /\ MaxPending \in Nat /\ MaxPending >= 1
  BY FragmentsAssumption DEF WithinBounds
<1> HIDE DEF q
<1>3. \A i \in 1 .. Len(q) : i \in 1 .. Len(k) \/ i = Len(k) + 1
  BY <1>1
<1>4. \A i \in 1 .. Len(q) : Keepable(q[i])
  BY <1>1, <1>3 DEF WithinBounds
<1>5. OneEach(q)
  <2> SUFFICES ASSUME NEW i \in 1 .. Len(q), NEW j \in 1 .. Len(q), q[i].seq = q[j].seq
               PROVE  i = j
    BY DEF OneEach
  <2>1. CASE i \in 1 .. Len(k) /\ j \in 1 .. Len(k)
    BY <1>1, <2>1 DEF WithinBounds, OneEach
  <2>2. CASE i = Len(k) + 1 \/ j = Len(k) + 1
    BY <1>1, <1>3, <2>2
  <2> QED BY <1>3, <2>1, <2>2
<1>6. CASE Len(q) <= MaxPending
  <2>1. EvictLru(q) = q
    BY <1>1, <1>2, <1>6 DEF EvictLru
  <2>2. WithinBounds(q)
    BY <1>4, <1>5, <1>6 DEF WithinBounds
  <2> QED BY <1>1, <2>1, <2>2 DEF q
<1>7. CASE Len(q) > MaxPending
  <2> DEFINE t == Tail(q)
  <2>1. EvictLru(q) = t
    BY <1>7 DEF EvictLru
  <2>2. q # <<>>
    BY <1>1
  <2>3. t \in Seq(FragSets) /\ Len(t) = Len(q) - 1 /\ \A i \in 1 .. Len(t) : t[i] = q[i + 1]
    BY <1>1, <2>2, HeadTailProperties
  <2> HIDE DEF t
  <2>4. \A i \in 1 .. Len(t) : i + 1 \in 1 .. Len(q) /\ t[i] = q[i + 1]
    BY <1>1, <2>3
  <2>5. \A i \in 1 .. Len(t) : Keepable(t[i])
    BY <1>4, <2>4
  <2>6. OneEach(t)
    <3> SUFFICES ASSUME NEW i \in 1 .. Len(t), NEW j \in 1 .. Len(t), t[i].seq = t[j].seq
                 PROVE  i = j
      BY DEF OneEach
    <3>1. i + 1 = j + 1
      BY <1>5, <2>4 DEF OneEach
    <3> QED BY <3>1
  <2>7. Len(t) <= MaxPending
    BY <1>1, <1>2, <2>3
  <2>8. WithinBounds(t)
    BY <2>5, <2>6, <2>7 DEF WithinBounds
  <2> QED BY <1>1, <2>1, <2>3, <2>8 DEF q
<1> QED BY <1>1, <1>2, <1>6, <1>7

\* evict_expired: after a round the sets that are not timed out are within the
\* bounds.
LEMMA ExpiredWithin ==
    ASSUME NEW q \in Seq(FragSets), WithinBounds(q)
    PROVE  /\ Aged(q) \in Seq(FragSets) /\ Len(Aged(q)) = Len(q)
           /\ EvictExpired(Aged(q)) \in Seq(FragSets)
           /\ WithinBounds(EvictExpired(Aged(q)))
<1> DEFINE a == Aged(q)
           I == {i \in 1 .. Len(a) : a[i].age <= Timeout}
           k == Retain(a, I)
<1>0. Len(q) \in Nat /\ \A i \in 1 .. Len(q) : q[i] \in FragSets
  OBVIOUS
<1>1. \A i \in 1 .. Len(q) :
         LET b == [q[i] EXCEPT !.age = @ + 1] IN
         b \in FragSets /\ b.seq = q[i].seq /\ b.got = q[i].got
  <2>1. \A e \in FragSets :
           LET b == [e EXCEPT !.age = @ + 1] IN
           b \in FragSets /\ b.seq = e.seq /\ b.got = e.got
    BY DEF FragSets
  <2> QED BY <1>0, <2>1
<1>2. a \in Seq(FragSets) /\ Len(a) = Len(q)
  <2> DEFINE B(i) == [q[i] EXCEPT !.age = @ + 1]
  <2>1. a = [i \in 1 .. Len(q) |-> B(i)]
    BY DEF Aged
  <2>2. \A i \in 1 .. Len(q) : B(i) \in FragSets
    BY <1>1
  <2> HIDE DEF B, a
  <2>3. a \in [1 .. Len(q) -> FragSets]
    BY <2>1, <2>2
  <2> QED BY <1>0, <2>3, SeqDef, LenProperties
<1>3. \A i \in 1 .. Len(q) : a[i].seq = q[i].seq /\ a[i].got = q[i].got
  BY <1>1 DEF Aged
<1>4. \A i \in I : a[i].age <= Timeout
  OBVIOUS
<1>5. EvictExpired(a) = k
  BY DEF EvictExpired
<1> HIDE DEF a, I
<1>6. k \in Seq(FragSets) /\ Len(k) <= Len(a) /\ Part(k, a, I)
  BY <1>2, RetainFacts
<1> HIDE DEF k
<1>7. PICK g \in [1 .. Len(k) -> 1 .. Len(a)] :
         /\ \A i \in 1 .. Len(k) : g[i] \in I /\ k[i] = a[g[i]]
         /\ \A i, j \in 1 .. Len(k) : g[i] = g[j] => i = j
  BY <1>6 DEF Part
<1>8. \A i \in 1 .. Len(k) : /\ g[i] \in 1 .. Len(q) /\ g[i] \in I
                             /\ k[i] = a[g[i]]
  BY <1>2, <1>7
<1>9. ASSUME NEW i \in 1 .. Len(k) PROVE Keepable(k[i])
  <2>1. k[i].age <= Timeout
    BY <1>4, <1>8
  <2>2. k[i].got = q[g[i]].got /\ Keepable(q[g[i]])
    BY <1>3, <1>8 DEF WithinBounds
  <2> QED BY <2>1, <2>2 DEF Keepable, Complete
<1>10. OneEach(k)
  <2> SUFFICES ASSUME NEW i \in 1 .. Len(k), NEW j \in 1 .. Len(k), k[i].seq = k[j].seq
               PROVE  i = j
    BY DEF OneEach
  <2>1. k[i].seq = q[g[i]].seq /\ k[j].seq = q[g[j]].seq
    BY <1>3, <1>8
  <2>2. g[i] = g[j]
    BY <1>8, <2>1 DEF WithinBounds, OneEach
  <2> QED BY <1>7, <2>2
<1>11. Len(k) <= MaxPending
  BY <1>0, <1>2, <1>6, FragmentsAssumption DEF WithinBounds
<1>12. WithinBounds(k)
  BY <1>9, <1>10, <1>11 DEF WithinBounds
<1> QED BY <1>2, <1>5, <1>6, <1>12 DEF a

\* The form of the types the steps below use.
LEMMA FragTypeOKIs ==
    FragTypeOK <=>
      /\ written \in 0 .. MaxLarge
      /\ sending \in BOOLEAN
      /\ cached \subseteq Seqs
      /\ net \subseteq (FragPackets \cup DemandPackets) \cup NackFragPackets
      /\ pend \in Seq(FragSets)
      /\ done \in [Seqs -> SUBSET SUBSET (Frags \X Forms)]
      /\ pushedOut \subseteq Seqs
      /\ losses \in 0 .. MaxLoss
      /\ dups \in 0 .. MaxDup
BY DEF FragTypeOK, FragPackets, DemandPackets, NackFragPackets, FragSets

\* The set of a sample, as it is in the buffer or new.
LEMMA SetOfType ==
    ASSUME FragInv, NEW s \in Seqs
    PROVE  SetOf(s) \in FragSets /\ SetOf(s).seq = s /\ SetOf(s).age <= Timeout
<1>1. CASE HasSet(s)
  <2> DEFINE i == CHOOSE j \in 1 .. Len(pend) : pend[j].seq = s
  <2>1. i \in 1 .. Len(pend) /\ pend[i].seq = s
    BY <1>1 DEF HasSet
  <2>2. SetOf(s) = pend[i]
    BY <1>1 DEF SetOf
  <2> HIDE DEF i
  <2>3. pend[i] \in FragSets
    <3>1. pend \in Seq(FragSets)
      BY FragTypeOKIs DEF FragInv
    <3> QED BY <2>1, <3>1
  <2>4. pend[i].age <= Timeout
    BY <2>1 DEF FragInv, WithinBounds, Keepable
  <2> QED BY <2>1, <2>2, <2>3, <2>4
<1>2. CASE ~HasSet(s)
  BY <1>2, FragmentsAssumption DEF SetOf, NewSet, FragSets
<1> QED BY <1>1, <1>2

\* A set that took a fragment in.
LEMMA AddedType ==
    ASSUME NEW e \in FragSets, NEW p \in FragPackets
    PROVE  /\ Added(e, p) \in FragSets /\ Added(e, p).seq = e.seq
           /\ Added(e, p).age = e.age /\ Added(e, p).got # {}
<1>1. p.num \in Frags /\ p.form \in Forms
  BY DEF FragPackets
<1> DEFINE G == {g \in e.got : g[1] # p.num} \cup {<<p.num, p.form>>}
<1>2. G \in SUBSET (Frags \X Forms) /\ G # {}
  <2>1. e.got \in SUBSET (Frags \X Forms)
    BY DEF FragSets
  <2>2. <<p.num, p.form>> \in Frags \X Forms
    BY <1>1
  <2> QED BY <2>1, <2>2, Zenon
<1>3. Added(e, p) = [e EXCEPT !.got = G]
  BY DEF Added
<1> HIDE DEF G
<1> QED BY <1>2, <1>3 DEF FragSets

\* What a packet of each kind is.
LEMMA PacketType ==
    ASSUME FragTypeOK, NEW p \in net
    PROVE  /\ p.kind = "frag" => p \in FragPackets
           /\ p.kind = "hbf" => p \in DemandPackets
           /\ p.kind = "nack" => p \in NackFragPackets
           /\ p.seq \in Seqs
<1>1. p \in (FragPackets \cup DemandPackets) \cup NackFragPackets
  BY DEF FragTypeOK, FragPackets, DemandPackets, NackFragPackets
<1> QED BY <1>1 DEF FragPackets, DemandPackets, NackFragPackets

\* The packets that are sent have their types.
LEMMA PacketsSent ==
    /\ \A s \in Seqs, f \in Frags, form \in Forms : Frag(s, f, form) \in FragPackets
    /\ \A s \in Seqs, i \in 1 .. Hbfs : Hbf(s, i) \in DemandPackets
    /\ \A s \in Seqs, m \in SUBSET Frags : Nack(s, m) \in NackFragPackets
BY DEF Frag, Hbf, Nack, FragPackets, DemandPackets, NackFragPackets

LEMMA FragInitInv == FragInit => FragInv
<1> SUFFICES ASSUME FragInit PROVE FragInv
  OBVIOUS
<1>1. FragTypeOK
  <2>1. pend \in Seq(FragSets)
    BY DEF FragInit
  <2>2. done \in [Seqs -> SUBSET SUBSET (Frags \X Forms)]
    BY DEF FragInit
  <2>3. written \in 0 .. MaxLarge /\ losses \in 0 .. MaxLoss /\ dups \in 0 .. MaxDup
    BY FragmentsAssumption DEF FragInit
  <2>4. /\ sending \in BOOLEAN /\ cached \subseteq Seqs /\ pushedOut \subseteq Seqs
        /\ net \subseteq (FragPackets \cup DemandPackets) \cup NackFragPackets
    BY DEF FragInit
  <2> QED BY <2>1, <2>2, <2>3, <2>4, FragTypeOKIs
<1>2. WithinBounds(pend)
  BY FragmentsAssumption DEF FragInit, WithinBounds, OneEach
<1> QED BY <1>1, <1>2 DEF FragInit, FragInv

LEMMA FragWriteStep == FragInv /\ Write => FragInv'
<1> SUFFICES ASSUME FragInv, Write PROVE FragInv'
  OBVIOUS
<1> USE DEF FragInv
<1>1. written + 1 \in Seqs /\ written' = written + 1 /\ written' \in 0 .. MaxLarge
  BY FragmentsAssumption DEF Write, FragTypeOK, Seqs
<1>2. "wire" \in Forms
  BY DEF Forms
<1>3. net' \subseteq (FragPackets \cup DemandPackets) \cup NackFragPackets
  <2>1. {Frag(written + 1, f, "wire") : f \in Frags} \subseteq FragPackets
    BY <1>1, <1>2, PacketsSent
  <2>2. {Hbf(written + 1, i) : i \in 1 .. Hbfs} \subseteq DemandPackets
    BY <1>1, PacketsSent
  <2>3. net \subseteq (FragPackets \cup DemandPackets) \cup NackFragPackets
    BY FragTypeOKIs
  <2>4. net' = (net \cup {Frag(written + 1, f, "wire") : f \in Frags})
                    \cup {Hbf(written + 1, i) : i \in 1 .. Hbfs}
    BY DEF Write
  <2> QED BY <2>1, <2>2, <2>3, <2>4
<1>4. FragTypeOK'
  BY <1>1, <1>3, FragTypeOKIs DEF Write, FragPackets, DemandPackets, NackFragPackets, FragTypeOK
<1>5. WithinBounds(pend)'
  BY DEF Write, WithinBounds, OneEach, Keepable, Complete
<1>6. (sending => written >= 1)'
  BY <1>1 DEF Seqs
<1> QED BY <1>4, <1>5, <1>6

LEMMA FragInsertStep == FragInv /\ CacheInsert => FragInv'
<1> SUFFICES ASSUME FragInv, CacheInsert PROVE FragInv'
  OBVIOUS
<1> USE DEF FragInv
<1>1. written \in Seqs
  BY FragmentsAssumption DEF CacheInsert, FragTypeOK, Seqs
<1>2. cached' \subseteq Seqs
  BY <1>1 DEF CacheInsert, FragTypeOK
<1>3. FragTypeOK'
  BY <1>2 DEF CacheInsert, FragTypeOK
<1>4. WithinBounds(pend)'
  BY DEF CacheInsert, WithinBounds, OneEach, Keepable, Complete
<1> QED BY <1>3, <1>4 DEF CacheInsert

\* A step that only replaces packets in flight by others of the right types.
LEMMA FragNetStep ==
    ASSUME FragInv,
           net' \subseteq (FragPackets \cup DemandPackets) \cup NackFragPackets,
           losses' \in 0 .. MaxLoss, dups' \in 0 .. MaxDup,
           UNCHANGED <<written, sending, cached, pend, done, pushedOut>>
    PROVE  FragInv'
<1>1. FragTypeOK'
  BY DEF FragInv, FragTypeOK, FragPackets, DemandPackets, NackFragPackets
<1>2. WithinBounds(pend)'
  BY DEF FragInv, WithinBounds, OneEach, Keepable, Complete
<1> QED BY <1>1, <1>2 DEF FragInv

LEMMA FragNackStep ==
    ASSUME FragInv, NEW p \in net, OnNackFrag(p)
    PROVE  FragInv'
<1>1. p \in NackFragPackets
  BY PacketType DEF OnNackFrag, FragInv
<1>2. p.seq \in Seqs /\ p.missing \subseteq Frags /\ CachedForm \in Forms
  BY <1>1 DEF NackFragPackets, Forms
<1>3. {Frag(p.seq, f, CachedForm) : f \in p.missing} \subseteq FragPackets
  BY <1>2, PacketsSent
<1>4. net \subseteq (FragPackets \cup DemandPackets) \cup NackFragPackets
  BY FragTypeOKIs DEF FragInv
<1>5. net' \subseteq (FragPackets \cup DemandPackets) \cup NackFragPackets
  BY <1>3, <1>4 DEF OnNackFrag
<1> QED BY <1>5, FragNetStep DEF OnNackFrag, FragInv, FragTypeOK

LEMMA FragHbfStep ==
    ASSUME FragInv, NEW p \in net, RecvHbf(p)
    PROVE  FragInv'
<1>1. p.seq \in Seqs
  BY PacketType DEF FragInv
<1>2. Missing(SetOf(p.seq)) \subseteq Frags
  BY DEF Missing
<1>3. Nack(p.seq, Missing(SetOf(p.seq))) \in NackFragPackets
  BY <1>1, <1>2, PacketsSent
<1>4. net \subseteq (FragPackets \cup DemandPackets) \cup NackFragPackets
  BY FragTypeOKIs DEF FragInv
<1>5. net' \subseteq (FragPackets \cup DemandPackets) \cup NackFragPackets
  BY <1>3, <1>4 DEF RecvHbf
<1> QED BY <1>5, FragNetStep DEF RecvHbf, FragInv, FragTypeOK

LEMMA FragLoseStep ==
    ASSUME FragInv, NEW p \in net, Lose(p)
    PROVE  FragInv'
<1>1. net \subseteq (FragPackets \cup DemandPackets) \cup NackFragPackets
  BY FragTypeOKIs DEF FragInv
<1>2. net' \subseteq (FragPackets \cup DemandPackets) \cup NackFragPackets
  BY <1>1 DEF Lose
<1>3. losses' \in 0 .. MaxLoss
  BY FragmentsAssumption DEF Lose, FragInv, FragTypeOK
<1> QED BY <1>2, <1>3, FragNetStep DEF Lose, FragInv, FragTypeOK

LEMMA FragStaleStep == FragInv /\ CheckStale => FragInv'
<1> SUFFICES ASSUME FragInv, CheckStale PROVE FragInv'
  OBVIOUS
<1> DEFINE q == Aged(pend)
<1>1. pend \in Seq(FragSets) /\ WithinBounds(pend)
  BY FragTypeOKIs DEF FragInv
<1>2. /\ q \in Seq(FragSets)
      /\ EvictExpired(q) \in Seq(FragSets) /\ WithinBounds(EvictExpired(q))
  BY <1>1, ExpiredWithin
<1>3. pend' = EvictExpired(q)
  BY DEF CheckStale
<1>4. net' = {Nack(q[i].seq, Missing(q[i])) :
                 i \in {j \in 1 .. Len(q) : q[j].age >= Stale}}
  BY DEF CheckStale
<1> HIDE DEF q
<1>5. \A i \in 1 .. Len(q) : q[i].seq \in Seqs /\ Missing(q[i]) \subseteq Frags
  <2>1. \A i \in 1 .. Len(q) : q[i] \in FragSets
    BY <1>2
  <2>2. \A b \in FragSets : b.seq \in Seqs
    BY DEF FragSets
  <2> QED BY <2>1, <2>2 DEF Missing
<1>6. net' \subseteq (FragPackets \cup DemandPackets) \cup NackFragPackets
  <2>1. \A i \in 1 .. Len(q) : Nack(q[i].seq, Missing(q[i])) \in NackFragPackets
    BY <1>5, PacketsSent
  <2> QED BY <1>4, <2>1
<1>7. WithinBounds(pend)'
  <2>1. WithinBounds(pend')
    BY <1>2, <1>3
  <2> QED BY <2>1 DEF WithinBounds, OneEach, Keepable, Complete
<1>8. FragTypeOK'
  <2>1. pend' \in Seq(FragSets)
    BY <1>2, <1>3
  <2> QED BY <1>6, <2>1 DEF CheckStale, FragInv, FragTypeOK, FragPackets, DemandPackets,
                            NackFragPackets, FragSets
<1> QED BY <1>7, <1>8 DEF CheckStale, FragInv

LEMMA FragRecvStep ==
    ASSUME FragInv, NEW p \in net, RecvFrag(p)
    PROVE  FragInv'
<1> DEFINE o == Others(p.seq)
           e == Added(SetOf(p.seq), p)
           q == Append(o, e)
<1>1. p \in FragPackets /\ p.seq \in Seqs
  BY PacketType DEF RecvFrag, FragInv
<1>2. pend \in Seq(FragSets) /\ WithinBounds(pend)
  BY FragTypeOKIs DEF FragInv
<1>3. o \in Seq(FragSets) /\ WithinBounds(o) /\ \A i \in 1 .. Len(o) : o[i].seq # p.seq
  BY <1>2, WithoutWithin DEF Others
<1>4. /\ SetOf(p.seq) \in FragSets /\ SetOf(p.seq).seq = p.seq
      /\ SetOf(p.seq).age <= Timeout
  BY <1>1, SetOfType
<1>5. e \in FragSets /\ e.seq = p.seq /\ e.age <= Timeout /\ e.got # {}
  BY <1>1, <1>4, AddedType
<1>6. net' \subseteq (FragPackets \cup DemandPackets) \cup NackFragPackets
  <2>1. net \subseteq (FragPackets \cup DemandPackets) \cup NackFragPackets
    BY FragTypeOKIs DEF FragInv
  <2>2. net' = net \ {p} \/ net' = net
    BY DEF RecvFrag, Consumed
  <2> QED BY <2>1, <2>2
<1>7. dups' \in 0 .. MaxDup
  BY FragmentsAssumption DEF RecvFrag, Consumed, FragInv, FragTypeOK
<1>8. UNCHANGED <<written, sending, cached, losses>>
  BY DEF RecvFrag
<1>9. \/ /\ Complete(e)
         /\ pend' = o
         /\ done' = [done EXCEPT ![p.seq] = @ \cup {e.got}]
         /\ UNCHANGED pushedOut
      \/ /\ ~Complete(e)
         /\ pend' = EvictLru(q)
         /\ pushedOut' = pushedOut \cup
                {q[i].seq : i \in {j \in 1 .. Len(q) : j <= Len(q) - Len(pend')}}
         /\ UNCHANGED done
  BY Zenon DEF RecvFrag
<1>10. done \in [Seqs -> SUBSET SUBSET (Frags \X Forms)] /\ pushedOut \subseteq Seqs
  BY DEF FragInv, FragTypeOK
<1> HIDE DEF e, o
<1>11. /\ pend' \in Seq(FragSets) /\ WithinBounds(pend')
       /\ done' \in [Seqs -> SUBSET SUBSET (Frags \X Forms)]
       /\ pushedOut' \subseteq Seqs
  <2>1. CASE Complete(e)
    <3>1. pend' = o /\ done' = [done EXCEPT ![p.seq] = @ \cup {e.got}] /\ UNCHANGED pushedOut
      BY <1>9, <2>1
    <3>2. e.got \in SUBSET (Frags \X Forms)
      BY <1>5 DEF FragSets
    <3>3. done' \in [Seqs -> SUBSET SUBSET (Frags \X Forms)]
      BY <1>1, <1>10, <3>1, <3>2
    <3> QED BY <1>3, <1>10, <3>1, <3>3
  <2>2. CASE ~Complete(e)
    <3>1. /\ pend' = EvictLru(q) /\ UNCHANGED done
          /\ pushedOut' = pushedOut \cup
                {q[i].seq : i \in {j \in 1 .. Len(q) : j <= Len(q) - Len(pend')}}
      BY <1>9, <2>2
    <3>2. Keepable(e)
      BY <1>5, <2>2 DEF Keepable
    <3>3. q \in Seq(FragSets) /\ EvictLru(q) \in Seq(FragSets) /\ WithinBounds(EvictLru(q))
      BY <1>3, <1>5, <3>2, InsertWithin
    <3> HIDE DEF q
    <3>4. \A i \in 1 .. Len(q) : q[i].seq \in Seqs
      <4>1. \A i \in 1 .. Len(q) : q[i] \in FragSets
        BY <3>3
      <4>2. \A b \in FragSets : b.seq \in Seqs
        BY DEF FragSets
      <4> QED BY <4>1, <4>2
    <3>5. pushedOut' \subseteq Seqs
      BY <1>10, <3>1, <3>4
    <3> QED BY <1>10, <3>1, <3>3, <3>5
  <2> QED BY <2>1, <2>2
<1>12. WithinBounds(pend)'
  BY <1>11 DEF WithinBounds, OneEach, Keepable, Complete
<1>13. FragTypeOK'
  BY <1>6, <1>7, <1>8, <1>11 DEF FragInv, FragTypeOK, FragPackets, DemandPackets,
                                 NackFragPackets, FragSets
<1> QED BY <1>8, <1>12, <1>13 DEF FragInv

LEMMA FragStepInv == FragInv /\ [FragNext]_fragVars => FragInv'
<1> SUFFICES ASSUME FragInv, [FragNext]_fragVars PROVE FragInv'
  OBVIOUS
<1>1. CASE Write
  BY <1>1, FragWriteStep
<1>2. CASE CacheInsert
  BY <1>2, FragInsertStep
<1>3. CASE Recv
  BY <1>3, FragNackStep, FragRecvStep, FragHbfStep DEF Recv
<1>4. CASE CheckStale
  BY <1>4, FragStaleStep
<1>5. CASE \E p \in net : Lose(p)
  BY <1>5, FragLoseStep
<1>6. CASE UNCHANGED fragVars
  <2>1. FragTypeOK'
    BY <1>6 DEF fragVars, FragInv, FragTypeOK
  <2>2. WithinBounds(pend)'
    BY <1>6 DEF fragVars, FragInv, WithinBounds, OneEach, Keepable, Complete
  <2> QED BY <1>6, <2>1, <2>2 DEF fragVars, FragInv
<1> QED BY <1>1, <1>2, <1>3, <1>4, <1>5, <1>6 DEF FragNext

\* Whatever is lost, duplicated and reordered, however long the exchange: the
\* router's buffer keeps at most max_pending sets, one to a sample, each with
\* some and not all of its fragments and none past its timeout; and a fragment,
\* sent or asked for again, is always one the sample has.
THEOREM ReassemblyBounded == FragSpec => [](FragTypeOK /\ BufferBounded)
<1>1. FragInv => FragTypeOK /\ BufferBounded
  BY BoundedIffWithin DEF FragInv
<1> QED BY <1>1, FragInitInv, FragStepInv, PTL DEF FragSpec
=============================================================================
