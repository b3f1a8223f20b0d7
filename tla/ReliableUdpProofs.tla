-------------------------- MODULE ReliableUdpProofs --------------------------
(***************************************************************************)
(* A writer never gives up a sample too early: for every depth of the      *)
(* history cache, number of samples, lost, repeated and reordered          *)
(* messages, a GAP is sent only for what the cache evicted or refused.     *)
(* The argument follows the sequence number through the system: the cache  *)
(* settles a sample before write publishes its number, a heartbeat carries *)
(* a published number, and a NACK asks for a number a heartbeat carried.   *)
(*                                                                         *)
(* The second part is about the history cache those samples are in.        *)
(***************************************************************************)
EXTENDS ReliableUdp, HistoryCache, SequenceTheorems, WellFoundedInduction, TLAPS

Kept == Range(cache) \cup gone

\* The samples up to this one have been through the cache.
Settled == IF wpc = "insert" THEN nextSeq - 2 ELSE nextSeq - 1

\* Where the threads are, and what their local variables hold.
LocalsInv ==
    /\ wpc # "idle" => nextSeq >= 2
    /\ spc = "send" => sLast >= 1
    /\ sLast <= lastSeq

\* The numbers that heartbeats and NACKs carry have been published.
AdvertisedInv ==
    /\ \A h \in hbs : h.last <= lastSeq
    /\ batch # <<>> => batch[1].last <= lastSeq
    /\ \A s \in nacks : s <= lastSeq

\* A published number has been through the cache.
SettledInv ==
    /\ lastSeq <= Settled
    /\ 1 .. Settled \subseteq Kept

IInv == TypeOK /\ LocalsInv /\ AdvertisedInv /\ SettledInv /\ NoPrematureGap

-----------------------------------------------------------------------------
\* heartbeat_first_seq returns a sample that was or will be written next.
LEMMA FirstSeqType ==
    ASSUME TypeOK
    PROVE  FirstSeq \in 1 .. MaxSeq + 1
<1> USE ReliableAssumption DEF TypeOK, SeqNum
<1>1. OldestSeq \in 1 .. MaxSeq
  <2>1. CASE cache = <<>>
    BY <2>1 DEF OldestSeq
  <2>2. CASE cache # <<>>
    <3>1. Head(cache) \in SeqNum
      BY <2>2, HeadTailProperties
    <3> QED
      BY <2>2, <3>1 DEF OldestSeq
  <2> QED
    BY <2>1, <2>2
<1> QED
  BY <1>1 DEF FirstSeq, Larger

\* A new writer, with nothing sent, satisfies the invariant.
LEMMA InitIInv == Init => IInv
<1> SUFFICES ASSUME Init PROVE IInv
  OBVIOUS
<1> USE ReliableAssumption DEF Init
<1>1. Len(cache) = 0 /\ cache \in Seq(SeqNum)
  OBVIOUS
<1>2. TypeOK
  <2>1. batch = <<>>
    OBVIOUS
  <2>2. Len(cache) <= Depth
    BY <1>1
  <2>3. /\ wpc \in {"idle", "insert", "heartbeat"} /\ nextSeq \in 1 .. MaxSeq + 1
        /\ inlineCount \in 0 .. MaxInline /\ lastSeq \in 0 .. MaxSeq
        /\ schedCount \in 1 .. MaxCount
        /\ spc \in {"sleep", "send"} /\ sLast \in 0 .. MaxSeq
        /\ floor \in 0 .. MaxSeq
    OBVIOUS
  <2>4. matches \in 0 .. MaxMatch /\ matchedAt \in 0 .. Unmatched
    BY DEF Unmatched
  <2>5. hbCount \in 0 .. MaxCount /\ losses \in 0 .. MaxLoss /\ dups \in 0 .. MaxDup
    OBVIOUS
  <2>7. answered \in BOOLEAN
    BY Zenon
  <2>6. /\ data \subseteq SeqNum /\ hbs \subseteq Heartbeat /\ nacks \subseteq SeqNum
        /\ delivered \subseteq SeqNum /\ gone \subseteq SeqNum /\ gapped \subseteq SeqNum
    OBVIOUS
  <2> HIDE DEF Init
  <2> QED
    BY <1>1, <2>1, <2>2, <2>3, <2>4, <2>5, <2>6, <2>7 DEF TypeOK
<1>3. LocalsInv /\ AdvertisedInv /\ NoPrematureGap
  BY DEF LocalsInv, AdvertisedInv, NoPrematureGap
<1>4. SettledInv
  BY DEF SettledInv, Settled
<1> QED
  BY <1>2, <1>3, <1>4 DEF IInv

-----------------------------------------------------------------------------
(* DataWriter::write *)

\* write takes a number and sends the sample: nothing is advertised yet.
LEMMA WriteSendStep ==
    ASSUME IInv, WriteSend
    PROVE  IInv'
<1> USE ReliableAssumption DEF WriteSend, IInv, writerVars, schedVars,
        controlVars, matchVars, faultVars
<1>1. TypeOK'
  BY DEF TypeOK, SeqNum, Unmatched, Heartbeat
<1>2. LocalsInv' /\ AdvertisedInv' /\ NoPrematureGap'
  BY DEF TypeOK, LocalsInv, AdvertisedInv, NoPrematureGap
<1>3. SettledInv'
  BY DEF TypeOK, SettledInv, Settled, Kept, Range
<1> QED
  BY <1>1, <1>2, <1>3

\* The sample a write inserts is kept, and so is what was kept before.
LEMMA WriteInsertStep ==
    ASSUME IInv, WriteInsert
    PROVE  IInv'
<1> USE ReliableAssumption DEF writerVars, schedVars, controlVars, matchVars,
        faultVars
<1>1. /\ wpc = "insert" /\ wpc' = "heartbeat" /\ nextSeq' = nextSeq
      /\ nextSeq \in 2 .. MaxSeq + 1 /\ nextSeq - 1 \in SeqNum
      /\ cache \in Seq(SeqNum) /\ Len(cache) <= Depth /\ gone \subseteq SeqNum
  BY DEF WriteInsert, IInv, TypeOK, LocalsInv, SeqNum
<1>2. /\ cache' \in Seq(SeqNum) /\ Len(cache') <= Depth
      /\ gone \subseteq gone' /\ gone' \subseteq SeqNum
      /\ Range(cache) \cup gone \cup {nextSeq - 1} \subseteq Range(cache') \cup gone'
  <2>1. CASE Len(cache) < Depth
    <3>1. cache' = Append(cache, nextSeq - 1) /\ gone' = gone
      BY <2>1 DEF WriteInsert
    <3>2. /\ cache' \in Seq(SeqNum) /\ Len(cache') = Len(cache) + 1
          /\ cache'[Len(cache) + 1] = nextSeq - 1
          /\ \A i \in 1 .. Len(cache) : cache'[i] = cache[i]
      BY <1>1, <3>1
    <3>3. Range(cache) \cup {nextSeq - 1} \subseteq Range(cache')
      BY <1>1, <3>2 DEF Range
    <3> QED
      BY <1>1, <2>1, <3>1, <3>2, <3>3
  <2>2. CASE ~(Len(cache) < Depth)
    <3>1. cache' = Append(Tail(cache), nextSeq - 1) /\ gone' = gone \cup {Head(cache)}
      BY <2>2 DEF WriteInsert
    <3>2. cache # <<>> /\ Len(cache) = Depth
      BY <1>1, <2>2
    <3>3. /\ Tail(cache) \in Seq(SeqNum) /\ Len(Tail(cache)) = Len(cache) - 1
          /\ Head(cache) \in SeqNum /\ Head(cache) = cache[1]
          /\ \A i \in 1 .. Len(cache) - 1 : Tail(cache)[i] = cache[i + 1]
      BY <1>1, <3>2, HeadTailProperties
    <3>4. /\ cache' \in Seq(SeqNum) /\ Len(cache') = Len(cache)
          /\ cache'[Len(cache)] = nextSeq - 1
          /\ \A i \in 1 .. Len(cache) - 1 : cache'[i] = cache[i + 1]
      BY <1>1, <3>1, <3>2, <3>3
    <3>5. nextSeq - 1 \in Range(cache')
      BY <3>2, <3>4 DEF Range
    <3>6. ASSUME NEW i \in 1 .. Len(cache)
          PROVE  cache[i] \in Range(cache') \cup gone'
      <4>1. CASE i = 1
        BY <3>1, <3>3, <4>1
      <4>2. CASE i # 1
        <5>1. i - 1 \in 1 .. Len(cache) - 1 /\ cache'[i - 1] = cache[i]
          BY <1>1, <3>4, <4>2
        <5> QED
          BY <1>1, <3>4, <5>1 DEF Range
      <4> QED
        BY <4>1, <4>2
    <3>7. Range(cache) \subseteq Range(cache') \cup gone'
      <4>1. \A x \in Range(cache) : \E i \in 1 .. Len(cache) : x = cache[i]
        BY <1>1 DEF Range
      <4> QED
        BY <3>6, <4>1
    <3>8. gone \subseteq gone' /\ gone' \subseteq SeqNum
      BY <1>1, <3>1, <3>3
    <3>9. Len(cache') <= Depth
      BY <1>1, <3>4
    <3> QED
      BY <3>4, <3>5, <3>7, <3>8, <3>9
  <2> QED
    BY <2>1, <2>2
<1>3. TypeOK'
  BY <1>1, <1>2 DEF WriteInsert, IInv, TypeOK
<1>4. LocalsInv' /\ AdvertisedInv' /\ NoPrematureGap'
  BY <1>1, <1>2 DEF WriteInsert, IInv, LocalsInv, AdvertisedInv, NoPrematureGap
<1>5. SettledInv'
  <2>1. lastSeq' = lastSeq /\ lastSeq <= nextSeq - 2 /\ lastSeq \in Nat
    BY <1>1 DEF WriteInsert, IInv, TypeOK, SettledInv, Settled
  <2>2. 1 .. nextSeq - 2 \subseteq Range(cache) \cup gone
    BY <1>1 DEF IInv, SettledInv, Settled, Kept
  <2>3. \A s \in 1 .. nextSeq - 1 : s \in 1 .. nextSeq - 2 \/ s = nextSeq - 1
    BY <1>1
  <2>4. 1 .. nextSeq - 1 \subseteq Range(cache') \cup gone'
    BY <1>2, <2>2, <2>3
  <2> QED
    BY <1>1, <2>1, <2>4 DEF SettledInv, Settled, Kept, Range
<1> QED
  BY <1>3, <1>4, <1>5 DEF IInv

\* A sample the cache refuses is settled: it will never be there.
LEMMA WriteInsertFailsStep ==
    ASSUME IInv, WriteInsertFails
    PROVE  IInv'
<1> USE ReliableAssumption DEF WriteInsertFails, IInv, writerVars, schedVars,
        controlVars, matchVars, faultVars
<1>1. /\ wpc = "insert" /\ nextSeq \in 2 .. MaxSeq + 1 /\ nextSeq - 1 \in SeqNum
  BY DEF TypeOK, LocalsInv, SeqNum
<1>2. TypeOK'
  BY <1>1 DEF TypeOK
<1>3. LocalsInv' /\ AdvertisedInv' /\ NoPrematureGap'
  BY DEF LocalsInv, AdvertisedInv, NoPrematureGap
<1>4. SettledInv'
  <2>1. lastSeq <= nextSeq - 1
    BY <1>1 DEF TypeOK, SettledInv, Settled
  <2>2. \A s \in 1 .. nextSeq - 1 : s \in 1 .. nextSeq - 2 \/ s = nextSeq - 1
    BY <1>1
  <2> QED
    BY <1>1, <2>1, <2>2 DEF SettledInv, Settled, Kept, Range
<1> QED
  BY <1>2, <1>3, <1>4

\* write advertises a number only after the cache has settled it.
LEMMA PublishStep ==
    ASSUME IInv, WriteUpdateSeq \/ WriteHeartbeat
    PROVE  IInv'
<1> USE ReliableAssumption DEF IInv, writerVars, schedVars, controlVars,
        matchVars, faultVars
<1>1. /\ wpc = "heartbeat" /\ nextSeq \in 2 .. MaxSeq + 1 /\ nextSeq - 1 \in SeqNum
      /\ lastSeq' = nextSeq - 1 /\ wpc' = "idle" /\ nextSeq' = nextSeq
      /\ lastSeq \in Nat /\ lastSeq <= nextSeq - 1 /\ FirstSeq \in 1 .. MaxSeq + 1
      /\ UNCHANGED <<cache, gone, gapped, nacks, batch, sLast, spc>>
  <2>1. /\ wpc = "heartbeat" /\ lastSeq' = nextSeq - 1 /\ wpc' = "idle"
        /\ UNCHANGED <<nextSeq, cache, gone, gapped, nacks, batch, sLast, spc>>
    BY DEF WriteUpdateSeq, WriteHeartbeat
  <2>2. nextSeq \in 1 .. MaxSeq + 1 /\ lastSeq \in Nat
    BY DEF TypeOK
  <2>3. nextSeq >= 2 /\ lastSeq <= nextSeq - 1
    BY <2>1 DEF LocalsInv, SettledInv, Settled
  <2>4. nextSeq \in 2 .. MaxSeq + 1 /\ nextSeq - 1 \in SeqNum
    BY <2>2, <2>3 DEF SeqNum
  <2> QED BY <2>1, <2>2, <2>3, <2>4, FirstSeqType
<1>2. \A h \in hbs' \ hbs : h \in Heartbeat /\ h.last = nextSeq - 1
  BY <1>1 DEF WriteUpdateSeq, WriteHeartbeat, TypeOK, Heartbeat, SeqNum
<1>3. TypeOK'
  <2>1. inlineCount' \in 0 .. MaxInline /\ lastSeq' \in 0 .. MaxSeq
    BY <1>1 DEF WriteUpdateSeq, WriteHeartbeat, TypeOK, SeqNum
  <2>2. hbs' \subseteq Heartbeat
    BY <1>2 DEF TypeOK
  <2>3. UNCHANGED <<schedVars, matchVars, data, hbCount, answered, delivered, faultVars>>
    BY DEF WriteUpdateSeq, WriteHeartbeat
  <2> QED
    BY <1>1, <2>1, <2>2, <2>3 DEF TypeOK
<1>4. LocalsInv'
  BY <1>1 DEF LocalsInv, TypeOK
<1>5. AdvertisedInv'
  <2>1. \A h \in hbs : h.last \in Nat
    BY DEF TypeOK, Heartbeat, SeqNum
  <2>2. batch # <<>> => batch[1].last \in Nat
    BY DEF TypeOK, Heartbeat, SeqNum
  <2>3. \A s \in nacks : s \in Nat
    BY DEF TypeOK, SeqNum
  <2> QED
    BY <1>1, <1>2, <2>1, <2>2, <2>3 DEF AdvertisedInv
<1>6. SettledInv' /\ NoPrematureGap'
  BY <1>1 DEF SettledInv, Settled, Kept, Range, NoPrematureGap
<1> QED
  BY <1>3, <1>4, <1>5, <1>6

-----------------------------------------------------------------------------
(* The heartbeat thread and the match callback *)

\* The heartbeat thread loads a number that write has advertised.
LEMMA SchedLoadStep ==
    ASSUME IInv, SchedLoad
    PROVE  IInv'
<1> USE ReliableAssumption DEF SchedLoad, IInv, writerVars, schedVars,
        controlVars, matchVars, faultVars
<1>1. TypeOK'
  BY DEF TypeOK
<1>2. LocalsInv' /\ AdvertisedInv' /\ NoPrematureGap'
  BY DEF TypeOK, LocalsInv, AdvertisedInv, NoPrematureGap
<1>3. SettledInv'
  BY DEF SettledInv, Settled, Kept, Range
<1> QED
  BY <1>1, <1>2, <1>3

\* Its heartbeat advertises no more than that, even if it is stale.
LEMMA SchedSendStep ==
    ASSUME IInv, SchedSend
    PROVE  IInv'
<1> USE ReliableAssumption DEF SchedSend, IInv, writerVars, schedVars,
        controlVars, matchVars, faultVars
<1>1. /\ sLast \in SeqNum /\ sLast <= lastSeq /\ FirstSeq \in 1 .. MaxSeq + 1
      /\ schedCount \in 0 .. MaxCount
  BY FirstSeqType DEF TypeOK, LocalsInv, SeqNum
<1>2. \A h \in hbs' \ hbs : h \in Heartbeat /\ h.last = sLast
  BY <1>1 DEF Heartbeat
<1>3. TypeOK'
  <2>1. hbs' \subseteq Heartbeat
    BY <1>2 DEF TypeOK
  <2>2. schedCount' \in 1 .. MaxCount
    BY DEF TypeOK
  <2> QED
    BY <2>1, <2>2 DEF TypeOK
<1>4. LocalsInv' /\ NoPrematureGap'
  BY DEF LocalsInv, NoPrematureGap
<1>5. AdvertisedInv'
  <2>1. \A h \in hbs' : h.last <= lastSeq'
    BY <1>1, <1>2 DEF AdvertisedInv
  <2> QED
    BY <2>1 DEF AdvertisedInv
<1>6. SettledInv'
  BY DEF SettledInv, Settled, Kept, Range
<1> QED
  BY <1>3, <1>4, <1>5, <1>6

\* A match moves the floor, never what is advertised.
LEMMA MatchStep ==
    ASSUME IInv, Match
    PROVE  IInv'
<1> USE ReliableAssumption DEF Match, IInv, writerVars, schedVars,
        controlVars, matchVars, faultVars
<1>1. TypeOK'
  <2>1. floor' \in 0 .. MaxSeq /\ matches' \in 0 .. MaxMatch
    BY DEF TypeOK
  <2>2. matchedAt' \in 0 .. Unmatched
    BY DEF TypeOK, Unmatched
  <2> QED
    BY <2>1, <2>2 DEF TypeOK
<1>2. LocalsInv' /\ AdvertisedInv' /\ NoPrematureGap'
  BY DEF LocalsInv, AdvertisedInv, NoPrematureGap
<1>3. SettledInv'
  BY DEF SettledInv, Settled, Kept, Range
<1> QED
  BY <1>1, <1>2, <1>3

-----------------------------------------------------------------------------
(* The "hdds-control" threads *)

\* What the reader gathers for a writer is a heartbeat of published numbers.
LEMMA BatchType ==
    ASSUME IInv, batch # <<>>
    PROVE  batch[1] \in Heartbeat /\ batch[1].last <= lastSeq
BY DEF IInv, TypeOK, AdvertisedInv

\* The control thread gathers heartbeats of advertised numbers.
LEMMA ReceiveHbStep ==
    ASSUME IInv, NEW h \in hbs, ReceiveHb(h)
    PROVE  IInv'
<1> USE ReliableAssumption DEF writerVars, schedVars, controlVars, matchVars,
        faultVars
<1>1. h \in Heartbeat /\ h.last <= lastSeq
  BY DEF IInv, TypeOK, AdvertisedInv
<1>2. \E b \in Heartbeat : batch' = <<b>> /\ b.last <= lastSeq
  <2>1. CASE batch = <<>>
    BY <1>1, <2>1 DEF ReceiveHb
  <2>2. CASE batch # <<>>
    <3> DEFINE b == [first |-> Larger(batch[1].first, h.first),
                     last |-> Larger(batch[1].last, h.last),
                     count |-> h.count]
    <3>1. batch' = <<b>>
      BY <2>2 DEF ReceiveHb
    <3>2. batch[1] \in Heartbeat /\ batch[1].last <= lastSeq
      BY <2>2, BatchType
    <3>3. b \in Heartbeat
      BY <1>1, <3>2 DEF Heartbeat, Larger
    <3>4. b.last <= lastSeq
      BY <1>1, <3>2 DEF Larger
    <3> HIDE DEF b
    <3> QED
      BY <3>1, <3>3, <3>4
  <2> QED
    BY <2>1, <2>2
<1>3. PICK b \in Heartbeat : batch' = <<b>> /\ b.last <= lastSeq
  BY <1>2
<1>4. TypeOK'
  BY <1>3 DEF ReceiveHb, IInv, TypeOK
<1>5. AdvertisedInv'
  <2>1. batch'[1].last <= lastSeq'
    BY <1>3 DEF ReceiveHb
  <2> QED
    BY <2>1 DEF ReceiveHb, IInv, AdvertisedInv
<1>6. LocalsInv' /\ NoPrematureGap' /\ SettledInv'
  BY DEF ReceiveHb, IInv, LocalsInv, NoPrematureGap, SettledInv, Settled, Kept, Range
<1> QED
  BY <1>4, <1>5, <1>6 DEF IInv

\* An ACKNACK asks for nothing above the range of its heartbeat.
LEMMA WantedType ==
    ASSUME NEW b \in Heartbeat
    PROVE  \A s \in Wanted(b) : s \in SeqNum /\ s <= b.last
BY ReliableAssumption DEF Wanted, HighestReceived, Larger, Heartbeat, SeqNum

\* An ACKNACK requests advertised numbers only.
LEMMA FlushStep ==
    ASSUME IInv, FlushIgnore \/ FlushAnswer \/ FlushRateLimited
    PROVE  IInv'
<1> USE ReliableAssumption DEF writerVars, schedVars, controlVars, matchVars,
        faultVars
<1>1. batch # <<>> /\ batch' = <<>>
  BY DEF FlushIgnore, FlushAnswer, FlushRateLimited, FlushBatch
<1>2. batch[1] \in Heartbeat /\ batch[1].last <= lastSeq
  BY <1>1, BatchType
<1>3. UNCHANGED <<writerVars, lastSeq, schedVars, matchVars, data, hbs,
                  delivered, gone, gapped, faultVars>>
  BY DEF FlushIgnore, FlushAnswer, FlushRateLimited
<1>4. hbCount' \in 0 .. MaxCount /\ answered' \in BOOLEAN
  BY <1>2 DEF FlushIgnore, FlushAnswer, FlushRateLimited, IInv, TypeOK, Heartbeat
<1>5. \A s \in nacks' : s \in SeqNum /\ s <= lastSeq
  <2>1. nacks' \subseteq nacks \cup Wanted(batch[1])
    BY DEF FlushIgnore, FlushAnswer, FlushRateLimited
  <2>2. \A s \in nacks : s \in SeqNum /\ s <= lastSeq
    BY DEF IInv, TypeOK, AdvertisedInv
  <2>3. \A s \in Wanted(batch[1]) : s \in SeqNum /\ s <= lastSeq
    <3>1. \A s \in Wanted(batch[1]) : s \in SeqNum /\ s <= batch[1].last
      BY <1>2, WantedType
    <3> QED
      BY <1>2, <3>1 DEF Heartbeat, SeqNum, IInv, TypeOK
  <2> QED
    BY <2>1, <2>2, <2>3
<1>6. TypeOK'
  BY <1>1, <1>3, <1>4, <1>5 DEF IInv, TypeOK
<1>7. LocalsInv' /\ AdvertisedInv' /\ NoPrematureGap' /\ SettledInv'
  BY <1>1, <1>3, <1>5
  DEF IInv, LocalsInv, AdvertisedInv, NoPrematureGap, SettledInv, Settled, Kept, Range
<1> QED
  BY <1>6, <1>7 DEF IInv

\* A sample that is asked for and not in the cache has left it for good.
LEMMA ReceiveStep ==
    ASSUME IInv, NEW s \in SeqNum,
           ReceiveNackHit(s) \/ ReceiveNackMiss(s) \/ ReceiveData(s)
    PROVE  IInv'
<1> USE ReliableAssumption DEF writerVars, schedVars, controlVars, matchVars,
        faultVars
<1>1. UNCHANGED <<writerVars, lastSeq, schedVars, matchVars, hbs, controlVars,
                  gone, faultVars>>
  BY DEF ReceiveNackHit, ReceiveNackMiss, ReceiveData
<1>2. /\ nacks' \subseteq nacks /\ data' \subseteq SeqNum
      /\ delivered' \subseteq SeqNum /\ gapped' \subseteq SeqNum
  BY DEF ReceiveNackHit, ReceiveNackMiss, ReceiveData, IInv, TypeOK
<1>3. gapped' \subseteq gone
  <2>1. CASE ReceiveNackMiss(s)
    <3>1. s <= lastSeq
      BY <2>1 DEF ReceiveNackMiss, IInv, AdvertisedInv
    <3>2. s \in 1 .. Settled
      BY <3>1 DEF IInv, TypeOK, SettledInv, Settled, SeqNum
    <3>3. s \in gone
      BY <2>1, <3>2 DEF ReceiveNackMiss, IInv, SettledInv, Kept
    <3> QED
      BY <2>1, <3>3 DEF ReceiveNackMiss, IInv, NoPrematureGap
  <2>2. CASE ~ReceiveNackMiss(s)
    BY <2>2 DEF ReceiveNackHit, ReceiveData, IInv, NoPrematureGap
  <2> QED
    BY <2>1, <2>2
<1>4. TypeOK'
  BY <1>1, <1>2 DEF IInv, TypeOK
<1>5. LocalsInv' /\ AdvertisedInv' /\ NoPrematureGap' /\ SettledInv'
  BY <1>1, <1>2, <1>3
  DEF IInv, LocalsInv, AdvertisedInv, NoPrematureGap, SettledInv, Settled, Kept, Range
<1> QED
  BY <1>4, <1>5 DEF IInv

-----------------------------------------------------------------------------
(* Faults *)

\* Losing or repeating a message advertises nothing new.
LEMMA FaultStep ==
    ASSUME IInv, Lose \/ Repeat
    PROVE  IInv'
<1> USE ReliableAssumption DEF writerVars, schedVars, controlVars, matchVars,
        faultVars
<1>1. UNCHANGED <<writerVars, lastSeq, schedVars, matchVars, controlVars,
                  delivered, gone, gapped>>
  BY DEF Lose, Repeat
<1>0. /\ losses \in 0 .. MaxLoss /\ dups \in 0 .. MaxDup
      /\ data \subseteq SeqNum /\ nextSeq \in 1 .. MaxSeq + 1
  BY DEF IInv, TypeOK
<1>2. losses' \in 0 .. MaxLoss /\ dups' \in 0 .. MaxDup
  <2>1. CASE Lose
    BY <1>0, <2>1 DEF Lose
  <2>2. CASE Repeat
    BY <1>0, <2>2 DEF Repeat
  <2> QED
    BY <2>1, <2>2
<1>3. data' \subseteq SeqNum /\ nacks' \subseteq nacks
  <2>1. CASE Lose
    BY <1>0, <2>1 DEF Lose
  <2>2. CASE Repeat
    <3>1. 1 .. nextSeq - 1 \subseteq SeqNum
      BY <1>0 DEF SeqNum
    <3> QED
      BY <1>0, <2>2, <3>1 DEF Repeat
  <2> QED
    BY <2>1, <2>2
<1>4. \A h \in hbs' : h \in Heartbeat /\ h.last <= lastSeq
  <2>1. \A h \in hbs : h \in Heartbeat /\ h.last <= lastSeq
    BY DEF IInv, TypeOK, AdvertisedInv
  <2>2. \A b \in Range(batch) : b \in Heartbeat /\ b.last <= lastSeq
    <3>1. CASE batch = <<>>
      BY <3>1 DEF Range
    <3>2. CASE batch # <<>>
      <4>1. \E h \in Heartbeat : batch = <<h>>
        BY <3>2 DEF IInv, TypeOK
      <4>2. Range(batch) = {batch[1]}
        BY <4>1 DEF Range
      <4> QED
        BY <3>2, <4>2, BatchType
    <3> QED
      BY <3>1, <3>2
  <2>3. hbs' \subseteq hbs \cup Range(batch)
    BY DEF Lose, Repeat
  <2> QED
    BY <2>1, <2>2, <2>3
<1>5. TypeOK'
  BY <1>1, <1>2, <1>3, <1>4 DEF IInv, TypeOK
<1>6. LocalsInv' /\ AdvertisedInv' /\ NoPrematureGap' /\ SettledInv'
  BY <1>1, <1>3, <1>4
  DEF IInv, LocalsInv, AdvertisedInv, NoPrematureGap, SettledInv, Settled, Kept, Range
<1> QED
  BY <1>5, <1>6 DEF IInv

-----------------------------------------------------------------------------
\* The heartbeat, NACK and GAP exchange (maybe_send_heartbeat, heartbeat_loop,
\* ReliableReaderProxy::on_heartbeat, WriterRetransmitHandler::on_nack): the
\* cache keeps its depth, and a GAP is only ever sent for a sample that the
\* cache evicted or refused.
THEOREM GapsAreFinal == Spec => [](TypeOK /\ NoPrematureGap)
<1>1. Init => IInv
  BY InitIInv
<1>2. IInv /\ [Next]_vars => IInv'
  <2> SUFFICES ASSUME IInv, [Next]_vars PROVE IInv'
    OBVIOUS
  <2>1. CASE WriteSend
    BY <2>1, WriteSendStep
  <2>2. CASE WriteInsert
    BY <2>2, WriteInsertStep
  <2>3. CASE WriteInsertFails
    BY <2>3, WriteInsertFailsStep
  <2>4. CASE WriteUpdateSeq \/ WriteHeartbeat
    BY <2>4, PublishStep
  <2>5. CASE SchedLoad
    BY <2>5, SchedLoadStep
  <2>6. CASE SchedSend
    BY <2>6, SchedSendStep
  <2>7. CASE Match
    BY <2>7, MatchStep
  <2>8. CASE \E h \in hbs : ReceiveHb(h)
    BY <2>8, ReceiveHbStep
  <2>9. CASE FlushIgnore \/ FlushAnswer \/ FlushRateLimited
    BY <2>9, FlushStep
  <2>10. CASE \E s \in SeqNum : ReceiveNackHit(s) \/ ReceiveNackMiss(s) \/ ReceiveData(s)
    BY <2>10, ReceiveStep
  <2>11. CASE Lose \/ Repeat
    BY <2>11, FaultStep
  <2>12. CASE UNCHANGED vars
    <3>1. TypeOK'
      BY <2>12 DEF vars, writerVars, schedVars, controlVars, matchVars, faultVars,
                   IInv, TypeOK
    <3> QED
      BY <2>12, <3>1
      DEF vars, writerVars, schedVars, controlVars, matchVars, faultVars, IInv,
          LocalsInv, AdvertisedInv, NoPrematureGap, SettledInv, Settled, Kept, Range
  <2> QED
    BY <2>1, <2>2, <2>3, <2>4, <2>5, <2>6, <2>7, <2>8, <2>9, <2>10, <2>11, <2>12
    DEF Next
<1>3. IInv => TypeOK /\ NoPrematureGap
  BY DEF IInv
<1> QED
  BY <1>1, <1>2, <1>3, PTL DEF Spec

-----------------------------------------------------------------------------
(***************************************************************************)
(* The history cache of a writer (module HistoryCache): its byte counter,  *)
(* its slots and its limits agree with the deque although insert takes the *)
(* lock several times and the counter is changed outside it.               *)
(***************************************************************************)

\* What the two threads hold: the writing thread an entry from the
\* reservation of its slot until its bytes are counted, or one it evicts;
\* the pruning thread the bytes of one it popped.
HeldOk ==
    /\ IF pc \in {"push", "reject", "add"} THEN item \in Entry ELSE item = <<>>
    /\ IF pc \in {"freeLen", "freeQuota"} THEN victim \in Entry ELSE victim = <<>>
    /\ ppc # "sub" => owed = 0
    /\ keepAll => pc \in {"idle", "push", "reject", "add"}

\* The bytes of the entry that evict_oldest has popped.
VictimBytes == IF pc \in {"freeLen", "freeQuota"} THEN victim.len ELSE 0

\* The bytes of everything that is in the deque or on its way out of it.
Total == Bytes(ring) + owed + VictimBytes

\* The bytes of the entry that is in the deque and not counted yet.
Uncounted == IF pc = "add" THEN item.len ELSE 0

CounterOk == quota = (Total - Uncounted) % Modulus

\* No slot is in two places.
SlotsOk ==
    /\ used = {ring[i].slot : i \in 1 .. Len(ring)}
              \cup (IF pc \in {"push", "reject"} THEN {item.slot} ELSE {})
              \cup (IF pc \in {"freeLen", "freeQuota"} THEN {victim.slot} ELSE {})
    /\ \A i, j \in 1 .. Len(ring) : ring[i].slot = ring[j].slot => i = j
    /\ pc \in {"push", "reject"} =>
           \A i \in 1 .. Len(ring) : ring[i].slot # item.slot
    /\ pc \in {"freeLen", "freeQuota"} =>
           \A i \in 1 .. Len(ring) : ring[i].slot # victim.slot

\* Until a lifespan has run out the writing thread is alone, and what it saw
\* when it decided to evict is still so.
AloneOk ==
    expired = 0 =>
        /\ ppc = "idle" /\ early = {}
        /\ pc = "evictLen" => Len(ring) > MaxSamples
        /\ pc \in {"empty", "evictQuota"} => Bytes(ring) > MaxQuota

CacheInv == CacheTypeOK /\ HeldOk /\ CounterOk /\ SlotsOk /\ AloneOk

\* No payload takes the counter round its end.
NoOverflow == \A n \in Size : MaxQuota + n < Modulus

\* How far the writing thread has come in bringing the cache back within
\* each limit; the pruning thread only takes samples away.
LimitsOk ==
    /\ Total < Modulus
    /\ pc \in {"instance", "idle", "push", "reject"} \/ keepAll => Total <= MaxQuota
    /\ pc \notin {"add", "len", "evictLen", "freeLen"} \/ keepAll =>
           Len(ring) <= MaxSamples
    /\ pc \in {"idle", "push", "reject"} \/ keepAll => Len(ring) <= PerInstance

-----------------------------------------------------------------------------
(* The number of bytes of a sequence of entries, defined by recursion.      *)

\* Induction over the natural numbers, for a set of them.
LEMMA SetInduction ==
    ASSUME NEW P \in SUBSET Nat, 0 \in P, \A n \in P : n + 1 \in P
    PROVE  P = Nat
<1> SUFFICES ASSUME Nat \ P # {} PROVE FALSE
  OBVIOUS
<1>0. IsWellFoundedOn(OpToRel(<, Nat), Nat)
  BY NatLessThanWellFounded
<1> DEFINE L == OpToRel(<, Nat)
<1>a. \A i, j \in Nat : i < j => <<i, j>> \in L
  BY DEF OpToRel
<1> HIDE DEF L
<1>1. \E x \in Nat \ P : \A y \in Nat \ P : ~(<<y, x>> \in L)
  <2>1. IsWellFoundedOn(L, Nat) BY <1>0 DEF L
  <2> QED BY <2>1, WFMin
<1>2. PICK x \in Nat \ P : \A y \in Nat \ P : ~(<<y, x>> \in L)
  BY <1>1
<1>3. x # 0 /\ x - 1 \in Nat /\ x - 1 < x
  OBVIOUS
<1>4. x - 1 \notin P
  BY <1>3
<1> QED BY <1>2, <1>3, <1>4, <1>a

\* g[i] is the number of bytes of the first i entries of s, up to n.
Partial(g, s, n) ==
    /\ g \in [0 .. n -> Nat]
    /\ g[0] = 0
    /\ \A i \in 1 .. n : g[i] = g[i - 1] + s[i].len

LEMMA LenNat ==
    ASSUME NEW s \in Seq(Entry), NEW i \in 1 .. Len(s)
    PROVE  s[i].len \in Nat
<1>1. s[i] \in Entry
  OBVIOUS
<1> QED BY <1>1, CacheAssumption DEF Entry

LEMMA PartialExists ==
    ASSUME NEW s \in Seq(Entry)
    PROVE  \A n \in 0 .. Len(s) : \E g : Partial(g, s, n)
<1> DEFINE P == {n \in Nat : n <= Len(s) => \E g : Partial(g, s, n)}
<1>1. 0 \in P
  <2>1. Partial([i \in 0 .. 0 |-> 0], s, 0)
    BY DEF Partial
  <2> QED BY <2>1
<1>2. ASSUME NEW n \in P PROVE n + 1 \in P
  <2> SUFFICES ASSUME n + 1 <= Len(s) PROVE \E g : Partial(g, s, n + 1)
    OBVIOUS
  <2>1. PICK g : Partial(g, s, n)
    OBVIOUS
  <2>2. s[n + 1].len \in Nat
    BY LenNat
  <2> DEFINE h == [i \in 0 .. n + 1 |->
                     IF i = n + 1 THEN g[n] + s[n + 1].len ELSE g[i]]
  <2>3. h \in [0 .. n + 1 -> Nat]
    BY <2>1, <2>2 DEF Partial
  <2>4. h[0] = 0
    BY <2>1 DEF Partial
  <2>5. ASSUME NEW i \in 1 .. n + 1 PROVE h[i] = h[i - 1] + s[i].len
    BY <2>1 DEF Partial
  <2>6. Partial(h, s, n + 1)
    BY <2>3, <2>4, <2>5 DEF Partial
  <2> QED BY <2>6
<1>3. P = Nat
  <2> HIDE DEF P
  <2>1. P \in SUBSET Nat BY DEF P
  <2> QED BY <1>1, <1>2, <2>1, SetInduction
<1> QED BY <1>3

LEMMA BytesPartial ==
    ASSUME NEW s \in Seq(Entry)
    PROVE  \E g : Partial(g, s, Len(s)) /\ Bytes(s) = g[Len(s)]
<1> DEFINE F(g) == [n \in 0 .. Len(s) |-> IF n = 0 THEN 0 ELSE g[n - 1] + s[n].len]
<1>1. Len(s) \in Nat OBVIOUS
<1>2. PICK h : Partial(h, s, Len(s))
  BY <1>1, PartialExists
<1>3. h = F(h)
  BY <1>1, <1>2 DEF Partial
<1> DEFINE c == CHOOSE g : g = F(g)
<1>4. c = F(c)
  <2> HIDE DEF F
  <2> QED BY <1>3, Zenon
<1>5. Bytes(s) = c[Len(s)]
  BY DEF Bytes
<1> HIDE DEF c
<1>6. \A n \in 0 .. Len(s) : c[n] = IF n = 0 THEN 0 ELSE c[n - 1] + s[n].len
  BY <1>4
<1>7. c[0] = 0 /\ \A i \in 1 .. Len(s) : c[i] = c[i - 1] + s[i].len
  BY <1>1, <1>6
<1> DEFINE P == {n \in Nat : n <= Len(s) => c[n] = h[n]}
<1>8. 0 \in P
  BY <1>7, <1>2 DEF Partial
<1>9. ASSUME NEW n \in P PROVE n + 1 \in P
  BY <1>7, <1>2 DEF Partial
<1>10. P = Nat
  <2> HIDE DEF P
  <2>1. P \in SUBSET Nat BY DEF P
  <2> QED BY <1>8, <1>9, <2>1, SetInduction
<1>11. \A n \in 0 .. Len(s) : c[n] = h[n]
  BY <1>10
<1> QED BY <1>1, <1>2, <1>5, <1>11

\* Sequences that begin alike have the same partial sums.
LEMMA PartialPrefix ==
    ASSUME NEW s \in Seq(Entry), NEW t \in Seq(Entry), NEW n \in Nat,
           n <= Len(s), n <= Len(t), \A i \in 1 .. n : s[i] = t[i],
           NEW g, Partial(g, s, Len(s)), NEW h, Partial(h, t, Len(t))
    PROVE  g[n] = h[n]
<1> DEFINE P == {m \in Nat : m <= n => g[m] = h[m]}
<1>1. 0 \in P
  BY DEF Partial
<1>2. ASSUME NEW m \in P PROVE m + 1 \in P
  <2> SUFFICES ASSUME m + 1 <= n PROVE g[m + 1] = h[m + 1]
    OBVIOUS
  <2>1. /\ m + 1 \in 1 .. Len(s) /\ m + 1 \in 1 .. Len(t) /\ m + 1 \in 1 .. n
        /\ (m + 1) - 1 = m
    OBVIOUS
  <2>2. g[m + 1] = g[m] + s[m + 1].len
    BY <2>1 DEF Partial
  <2>3. h[m + 1] = h[m] + t[m + 1].len
    BY <2>1 DEF Partial
  <2>4. g[m] = h[m] /\ s[m + 1] = t[m + 1]
    BY <2>1
  <2> QED BY <2>2, <2>3, <2>4, Zenon
<1>3. P = Nat
  <2> HIDE DEF P
  <2>1. P \in SUBSET Nat BY DEF P
  <2> QED BY <1>1, <1>2, <2>1, SetInduction
<1>4. n \in P BY <1>3
<1> QED BY <1>4

\* t is what is left of s after its first a entries.
Rest(s, a, t) ==
    /\ Len(s) = a + Len(t)
    /\ \A i \in 1 .. Len(t) : s[a + i] = t[i]

\* The partial sums of what is left after the first a entries.
LEMMA PartialShift ==
    ASSUME NEW s \in Seq(Entry), NEW t \in Seq(Entry), NEW a \in Nat,
           Rest(s, a, t), NEW g, Partial(g, s, Len(s)), NEW h, Partial(h, t, Len(t))
    PROVE  g[Len(s)] = g[a] + h[Len(t)]
<1> DEFINE P == {m \in Nat : m <= Len(t) => g[a + m] = g[a] + h[m]}
<1>0. Len(t) \in Nat /\ Len(s) \in Nat
  OBVIOUS
<1> USE DEF Rest
<1>1. 0 \in P
  BY <1>0 DEF Partial
<1>2. ASSUME NEW m \in P PROVE m + 1 \in P
  <2> SUFFICES ASSUME m + 1 <= Len(t) PROVE g[a + (m + 1)] = g[a] + h[m + 1]
    OBVIOUS
  <2>1. /\ a + (m + 1) \in 1 .. Len(s) /\ m + 1 \in 1 .. Len(t)
        /\ (a + (m + 1)) - 1 = a + m /\ (m + 1) - 1 = m
        /\ a \in 0 .. Len(s) /\ m \in 0 .. Len(t)
    BY <1>0
  <2>2. g[a + (m + 1)] = g[a + m] + s[a + (m + 1)].len
    BY <2>1 DEF Partial
  <2>3. h[m + 1] = h[m] + t[m + 1].len
    BY <2>1 DEF Partial
  <2>4. g[a + m] = g[a] + h[m]
    BY <2>1
  <2>5. s[a + (m + 1)] = t[m + 1]
    BY <2>1
  <2>6. g[a] \in Nat /\ h[m] \in Nat /\ t[m + 1].len \in Nat
    BY <2>1, LenNat DEF Partial
  <2>7. (g[a] + h[m]) + t[m + 1].len = g[a] + (h[m] + t[m + 1].len)
    BY <2>6
  <2> QED BY <2>2, <2>3, <2>4, <2>5, <2>7, Zenon
<1>3. P = Nat
  <2> HIDE DEF P
  <2>1. P \in SUBSET Nat BY DEF P
  <2> QED BY <1>1, <1>2, <2>1, SetInduction
<1>4. Len(t) \in P BY <1>0, <1>3
<1>5. g[a + Len(t)] = g[a] + h[Len(t)]
  BY <1>0, <1>4
<1> QED BY <1>5

\* The bytes of a sequence are a number.
LEMMA BytesNat ==
    ASSUME NEW s \in Seq(Entry)
    PROVE  Bytes(s) \in Nat
<1>1. PICK g : Partial(g, s, Len(s)) /\ Bytes(s) = g[Len(s)]
  BY BytesPartial
<1> QED BY <1>1 DEF Partial

\* An entry more.
LEMMA BytesAppend ==
    ASSUME NEW s \in Seq(Entry), NEW e \in Entry
    PROVE  Bytes(Append(s, e)) = Bytes(s) + e.len
<1> DEFINE t == Append(s, e)
<1>1. t \in Seq(Entry) /\ Len(t) = Len(s) + 1 /\ t[Len(t)] = e
      /\ \A i \in 1 .. Len(s) : t[i] = s[i]
  OBVIOUS
<1> HIDE DEF t
<1>2. PICK g : Partial(g, s, Len(s)) /\ Bytes(s) = g[Len(s)]
  BY BytesPartial
<1>3. PICK h : Partial(h, t, Len(t)) /\ Bytes(t) = h[Len(t)]
  BY <1>1, BytesPartial
<1>4. Len(s) \in Nat /\ Len(s) <= Len(s) /\ Len(s) <= Len(t)
  BY <1>1
<1>5. g[Len(s)] = h[Len(s)]
  <2>1. \A i \in 1 .. Len(s) : s[i] = t[i]
    BY <1>1
  <2>2. Partial(g, s, Len(s)) BY <1>2
  <2>3. Partial(h, t, Len(t)) BY <1>3
  <2>4. t \in Seq(Entry) BY <1>1
  <2> QED BY <1>4, <2>1, <2>2, <2>3, <2>4, PartialPrefix
<1>6. h[Len(t)] = h[Len(s)] + e.len
  BY <1>1, <1>3 DEF Partial
<1> QED BY <1>2, <1>3, <1>5, <1>6 DEF t

\* The bytes of the first a entries and of the rest.
LEMMA BytesSplit ==
    ASSUME NEW s \in Seq(Entry), NEW a \in 0 .. Len(s)
    PROVE  Bytes(s) = Bytes(SubSeq(s, 1, a)) + Bytes(SubSeq(s, a + 1, Len(s)))
<1> DEFINE t == SubSeq(s, 1, a)
           u == SubSeq(s, a + 1, Len(s))
<1>1. t \in Seq(Entry) /\ Len(t) = a /\ \A i \in 1 .. a : s[i] = t[i]
  OBVIOUS
<1>2. u \in Seq(Entry) /\ Len(u) = Len(s) - a
      /\ \A i \in 1 .. Len(u) : s[a + i] = u[i]
  OBVIOUS
<1> HIDE DEF t, u
<1>3. PICK g : Partial(g, s, Len(s)) /\ Bytes(s) = g[Len(s)]
  BY BytesPartial
<1>4. PICK h : Partial(h, t, Len(t)) /\ Bytes(t) = h[Len(t)]
  BY <1>1, BytesPartial
<1>5. PICK k : Partial(k, u, Len(u)) /\ Bytes(u) = k[Len(u)]
  BY <1>2, BytesPartial
<1>6. g[a] = h[a]
  <2>1. a <= Len(s) /\ a <= Len(t) /\ a \in Nat /\ \A i \in 1 .. a : s[i] = t[i]
    BY <1>1
  <2>2. Partial(g, s, Len(s)) BY <1>3
  <2>3. Partial(h, t, Len(t)) BY <1>4
  <2>4. t \in Seq(Entry) BY <1>1
  <2> QED BY <2>1, <2>2, <2>3, <2>4, PartialPrefix
<1>7. g[Len(s)] = g[a] + k[Len(u)]
  <2>0. a \in Nat /\ Len(s) \in Nat
    OBVIOUS
  <2>1. Len(s) = a + Len(u)
    BY <1>2, <2>0
  <2>5. \A i \in 1 .. Len(u) : s[a + i] = u[i]
    BY <1>2
  <2>2. Partial(g, s, Len(s)) BY <1>3
  <2>3. Partial(k, u, Len(u)) BY <1>5
  <2>4. u \in Seq(Entry) BY <1>2
  <2>6. Rest(s, a, u) BY <2>1, <2>5 DEF Rest
  <2> QED BY <2>0, <2>2, <2>3, <2>4, <2>6, PartialShift
<1>8. Len(t) = a
  BY <1>1
<1> QED BY <1>3, <1>4, <1>5, <1>6, <1>7, <1>8, Zenon DEF t, u

LEMMA BytesEmpty == Bytes(<<>>) = 0
<1>1. <<>> \in Seq(Entry) /\ Len(<<>>) = 0
  OBVIOUS
<1>2. PICK g : Partial(g, <<>>, Len(<<>>)) /\ Bytes(<<>>) = g[Len(<<>>)]
  BY <1>1, BytesPartial
<1> QED BY <1>1, <1>2 DEF Partial

\* The oldest entry and the rest.
LEMMA BytesTail ==
    ASSUME NEW s \in Seq(Entry), s # <<>>
    PROVE  /\ Bytes(s) = Head(s).len + Bytes(Tail(s))
           /\ Head(s) \in Entry /\ Tail(s) \in Seq(Entry)
<1>1. Len(s) >= 1 /\ Head(s) \in Entry /\ Tail(s) \in Seq(Entry) /\ Len(s) \in Nat
  OBVIOUS
<1> DEFINE u == Tail(s)
<1>2. Len(s) = 1 + Len(u)
  BY <1>1
<1>3. \A i \in 1 .. Len(u) : s[1 + i] = u[i]
  BY <1>1
<1>4. u \in Seq(Entry)
  BY <1>1
<1> HIDE DEF u
<1>5. PICK g : Partial(g, s, Len(s)) /\ Bytes(s) = g[Len(s)]
  BY BytesPartial
<1>6. PICK k : Partial(k, u, Len(u)) /\ Bytes(u) = k[Len(u)]
  BY <1>4, BytesPartial
<1>7. g[Len(s)] = g[1] + k[Len(u)]
  <2>1. Partial(g, s, Len(s)) BY <1>5
  <2>2. Partial(k, u, Len(u)) BY <1>6
  <2>3. Rest(s, 1, u) BY <1>2, <1>3 DEF Rest
  <2> QED BY <1>4, <2>1, <2>2, <2>3, PartialShift
<1>8. g[1] = s[1].len
  BY <1>1, <1>5, LenNat DEF Partial
<1>9. Head(s) = s[1]
  BY <1>1
<1> QED BY <1>1, <1>5, <1>6, <1>7, <1>8, <1>9 DEF u

-----------------------------------------------------------------------------
(* The counter is kept modulo its width.                                    *)

\* The counter is a number below Modulus whatever is added to it, and adding
\* to a reduced number is reducing the sum.
LEMMA ModRange ==
    ASSUME NEW x \in Int
    PROVE  x % Modulus \in 0 .. Modulus - 1
BY CacheAssumption, Z3T(30)

LEMMA ModSmall ==
    ASSUME NEW x \in 0 .. Modulus - 1
    PROVE  x % Modulus = x
BY CacheAssumption, Z3T(30)

LEMMA ModBelow ==
    ASSUME NEW x \in Nat
    PROVE  x % Modulus <= x
BY CacheAssumption, Z3T(30)

LEMMA ModUnique ==
    ASSUME NEW q \in Int, NEW r \in 0 .. Modulus - 1
    PROVE  (Modulus * q + r) % Modulus = r
BY CacheAssumption, Z3T(30)

\* Division with remainder.
LEMMA DivisionNat ==
    \A n \in Nat : \E q \in Int, r \in 0 .. Modulus - 1 : n = Modulus * q + r
<1> DEFINE P == {n \in Nat : \E q \in Int, r \in 0 .. Modulus - 1 : n = Modulus * q + r}
<1>0. Modulus \in Nat /\ Modulus > 0
  BY CacheAssumption
<1>1. 0 \in P
  <2>1. 0 = Modulus * 0 + 0 /\ 0 \in 0 .. Modulus - 1
    BY <1>0
  <2> QED BY <2>1
<1>2. ASSUME NEW n \in P PROVE n + 1 \in P
  <2>1. PICK q \in Int : \E r \in 0 .. Modulus - 1 : n = Modulus * q + r
    OBVIOUS
  <2>2. PICK r \in 0 .. Modulus - 1 : n = Modulus * q + r
    BY <2>1
  <2>3. Modulus * q \in Int /\ Modulus * (q + 1) = Modulus * q + Modulus
    BY <1>0
  <2>4. CASE r + 1 < Modulus
    <3>1. n + 1 = Modulus * q + (r + 1) /\ r + 1 \in 0 .. Modulus - 1
      BY <1>0, <2>2, <2>3, <2>4
    <3> QED BY <3>1
  <2>5. CASE r + 1 = Modulus
    <3>1. n + 1 = Modulus * (q + 1) + 0 /\ 0 \in 0 .. Modulus - 1 /\ q + 1 \in Int
      BY <1>0, <2>2, <2>3, <2>5
    <3> QED BY <3>1
  <2> QED BY <1>0, <2>4, <2>5
<1>3. P = Nat
  <2> HIDE DEF P
  <2>1. P \in SUBSET Nat BY DEF P
  <2> QED BY <1>1, <1>2, <2>1, SetInduction
<1> QED BY <1>3

LEMMA Division ==
    ASSUME NEW x \in Int
    PROVE  \E q \in Int, r \in 0 .. Modulus - 1 : x = Modulus * q + r
<1>0. Modulus \in Nat /\ Modulus > 0
  BY CacheAssumption
<1>1. CASE x >= 0
  <2>1. x \in Nat
    BY <1>1
  <2> QED BY <2>1, DivisionNat
<1>2. CASE x < 0
  <2>1. -x \in Nat
    BY <1>2
  <2>2. PICK q \in Int : \E r \in 0 .. Modulus - 1 : -x = Modulus * q + r
    BY <2>1, DivisionNat
  <2>3. PICK r \in 0 .. Modulus - 1 : -x = Modulus * q + r
    BY <2>2
  <2>4. /\ Modulus * q \in Int /\ Modulus * (-q) = -(Modulus * q)
        /\ Modulus * (-q - 1) = -(Modulus * q) - Modulus
        /\ -q \in Int /\ -q - 1 \in Int
    BY <1>0
  <2>5. CASE r = 0
    <3>1. x = Modulus * (-q) + 0 /\ 0 \in 0 .. Modulus - 1
      BY <1>0, <2>3, <2>4, <2>5
    <3> QED BY <2>4, <3>1
  <2>6. CASE r # 0
    <3>1. x = Modulus * (-q - 1) + (Modulus - r) /\ Modulus - r \in 0 .. Modulus - 1
      BY <1>0, <2>3, <2>4, <2>6
    <3> QED BY <2>4, <3>1
  <2> QED BY <2>5, <2>6
<1> QED BY <1>1, <1>2

LEMMA ModShift ==
    ASSUME NEW x \in Int, NEW y \in Int
    PROVE  ((x % Modulus) + y) % Modulus = (x + y) % Modulus
<1>0. Modulus \in Nat /\ Modulus > 0
  BY CacheAssumption
<1>1. PICK q \in Int : \E r \in 0 .. Modulus - 1 : x = Modulus * q + r
  BY Division
<1>2. PICK r \in 0 .. Modulus - 1 : x = Modulus * q + r
  BY <1>1
<1>3. x % Modulus = r
  BY <1>2, ModUnique
<1>4. r + y \in Int
  BY <1>0
<1>5. PICK p \in Int : \E s \in 0 .. Modulus - 1 : r + y = Modulus * p + s
  BY <1>4, Division
<1>6. PICK s \in 0 .. Modulus - 1 : r + y = Modulus * p + s
  BY <1>5
<1>7. (r + y) % Modulus = s
  BY <1>6, ModUnique
<1>8. /\ Modulus * q \in Int /\ Modulus * p \in Int /\ q + p \in Int
      /\ Modulus * (q + p) = Modulus * q + Modulus * p
  BY <1>0
<1>9. x + y = Modulus * (q + p) + s
  BY <1>2, <1>6, <1>8
<1>10. (x + y) % Modulus = s
  BY <1>8, <1>9, ModUnique
<1> QED BY <1>3, <1>7, <1>10

\* An entry is not the absence of one.
LEMMA CacheEntryIsSome ==
    ASSUME NEW e \in Entry
    PROVE  e # <<>> /\ e.seq \in 1 .. MaxWrites /\ e.slot \in Slot /\ e.len \in Nat
<1>1. e.seq \in 1 .. MaxWrites /\ e.slot \in Slot /\ e.len \in Nat
  BY CacheAssumption DEF Entry
<1>2. e # <<>>
  BY DEF Entry
<1> QED BY <1>1, <1>2

\* The oldest entry of a deque that is not empty, and the rest.
LEMMA Popped ==
    ASSUME NEW s \in Seq(Entry), s # <<>>
    PROVE  /\ Head(s) \in Entry /\ Head(s) = s[1] /\ Tail(s) \in Seq(Entry)
           /\ Len(s) \in Nat /\ Len(s) > 0 /\ Len(Tail(s)) = Len(s) - 1
           /\ \A i \in 1 .. Len(s) - 1 : Tail(s)[i] = s[i + 1]
           /\ Bytes(s) = Head(s).len + Bytes(Tail(s))
<1>1. Len(s) \in Nat /\ Len(s) # 0
  BY EmptySeq, LenProperties
<1>2. Tail(s) \in Seq(Entry) /\ Len(Tail(s)) = Len(s) - 1
  BY HeadTailProperties
<1>3. Head(s) = s[1] /\ Head(s) \in Entry
  BY HeadTailProperties
<1>4. \A i \in 1 .. Len(s) - 1 : Tail(s)[i] = s[i + 1]
  BY HeadTailProperties, <1>2
<1>5. Bytes(s) = Head(s).len + Bytes(Tail(s))
  BY BytesTail
<1> QED
  BY <1>1, <1>2, <1>3, <1>4, <1>5

\* What enforce_instance_limits takes out.
Surplus == IF Len(ring) > PerInstance THEN Len(ring) - PerInstance ELSE 0
Gone == SubSeq(ring, 1, Surplus)

\* The entries that enforce_instance_limits takes out are at the front of the
\* deque and the others stay.
LEMMA InstanceStep ==
    ASSUME CacheTypeOK, EnforceInstance
    PROVE  /\ Surplus \in 0 .. Len(ring) /\ Gone \in Seq(Entry)
           /\ ring' \in Seq(Entry) /\ Len(ring') = Len(ring) - Surplus
           /\ \A i \in 1 .. Len(ring') : ring'[i] = ring[Surplus + i]
           /\ Bytes(ring) = Bytes(Gone) + Bytes(ring')
           /\ used' = used \ {ring[i].slot : i \in 1 .. Surplus}
           /\ quota' = (quota - Bytes(Gone)) % Modulus
           /\ pc = "instance" /\ pc' = "idle" /\ Unlocked
<1> DEFINE s == Surplus
<1>0. Len(ring) \in Nat /\ PerInstance \in Nat /\ ring \in Seq(Entry)
  BY CacheAssumption, LenProperties DEF CacheTypeOK
<1>1. s \in 0 .. Len(ring) /\ s \in Nat
  BY <1>0 DEF Surplus
<1>2. /\ ring' = SubSeq(ring, s + 1, Len(ring))
      /\ used' = used \ {Gone[i].slot : i \in 1 .. s}
      /\ quota' = (quota - Bytes(Gone)) % Modulus
      /\ pc = "instance" /\ pc' = "idle" /\ Unlocked
  BY DEF EnforceInstance, Surplus, Gone
<1>3. Gone \in Seq(Entry) /\ \A i \in 1 .. s : Gone[i] = ring[i]
  <2> HIDE DEF s
  <2>1. Gone = SubSeq(ring, 1, s)
    BY DEF Gone, s
  <2> QED BY <1>0, <1>1, <2>1
<1> HIDE DEF s
<1>4. /\ ring' \in Seq(Entry) /\ Len(ring') = Len(ring) - s
      /\ \A i \in 1 .. Len(ring') : ring'[i] = ring[s + i]
  BY <1>0, <1>1, <1>2
<1>5. Bytes(ring) = Bytes(Gone) + Bytes(ring')
  BY <1>0, <1>1, <1>2, BytesSplit DEF Gone, s
<1>6. used' = used \ {ring[i].slot : i \in 1 .. s}
  BY <1>2, <1>3
<1> QED BY <1>1, <1>2, <1>3, <1>4, <1>5, <1>6 DEF s

\* HistoryCache::new establishes the invariant.
LEMMA CacheInitInv ==
    CacheInit => CacheInv /\ LimitsOk
<1> SUFFICES ASSUME CacheInit PROVE CacheInv /\ LimitsOk
  OBVIOUS
<1>1. 0 \in 0 .. Modulus - 1 /\ Modulus \in Nat
  BY CacheAssumption
<1>2. Bytes(ring) = 0 /\ ring = <<>> /\ ring \in Seq(Entry) /\ Len(ring) = 0
  BY BytesEmpty DEF CacheInit
<1>3. CacheTypeOK
  BY <1>1, <1>2, CacheAssumption DEF CacheInit, CacheTypeOK
<1>4. HeldOk /\ SlotsOk /\ AloneOk
  BY <1>2 DEF CacheInit, HeldOk, SlotsOk, AloneOk
<1>5. Total = 0 /\ Uncounted = 0
  BY <1>2 DEF CacheInit, Total, Uncounted, VictimBytes
<1>6. CounterOk
  BY <1>1, <1>5, ModSmall DEF CounterOk, CacheInit
<1>7. LimitsOk
  BY <1>1, <1>2, <1>5, CacheAssumption DEF LimitsOk
<1> QED BY <1>3, <1>4, <1>6, <1>7 DEF CacheInv

\* Every step of insert, its evictions and the pruning keeps the types and
\* what each thread holds.
LEMMA CacheTypeStep ==
    ASSUME CacheTypeOK, HeldOk, [CacheNext]_cacheVars
    PROVE  CacheTypeOK' /\ HeldOk'
<1> USE DEF pruneVars
<1>0. \A x \in Int : x % Modulus \in 0 .. Modulus - 1
  BY ModRange
<1>t. /\ ring \in Seq(Entry) /\ Modulus \in Nat /\ quota \in Int /\ seq \in Int
      /\ MaxWrites \in Nat /\ owed \in Int /\ MaxExpired \in Nat /\ expired \in Nat
      /\ cutoff \in Nat /\ <<>> \in Seq(Entry)
  BY CacheAssumption DEF CacheTypeOK
<1>1. CASE InsertNoSlot
  BY <1>1, <1>t DEF InsertNoSlot, CacheTypeOK, HeldOk
<1>2. ASSUME NEW s \in Slot, NEW n \in Size, InsertReserve(s, n)
      PROVE  CacheTypeOK' /\ HeldOk'
  <2>1. seq + 1 \in 1 .. MaxWrites
    BY <1>2, <1>t DEF InsertReserve, CacheTypeOK
  <2>2. item' \in Entry
    BY <1>2, <2>1 DEF InsertReserve, Entry
  <2> QED BY <1>2, <2>1, <2>2, <1>t DEF InsertReserve, CacheTypeOK, HeldOk
<1>3. CASE InsertPush
  <2>1. item \in Entry
    BY <1>3 DEF InsertPush, HeldOk
  <2>2. ring' \in Seq(Entry)
    BY <1>3, <2>1, <1>t, AppendProperties DEF InsertPush
  <2> QED BY <1>3, <2>1, <2>2 DEF InsertPush, CacheTypeOK, HeldOk
<1>4. CASE InsertReject
  BY <1>4 DEF InsertReject, CacheTypeOK, HeldOk
<1>5. CASE InsertAddQuota
  <2>1. item.len \in Nat
    BY <1>5, CacheEntryIsSome DEF InsertAddQuota, HeldOk
  <2>2. quota' \in 0 .. Modulus - 1
    <3>1. quota + item.len \in Int
      BY <2>1, <1>t
    <3>2. quota' = (quota + item.len) % Modulus
      BY <1>5 DEF InsertAddQuota
    <3> QED BY <3>1, <3>2, <1>0, Zenon
  <2> QED BY <1>5, <2>2 DEF InsertAddQuota, CacheTypeOK, HeldOk
<1>6. CASE EnforceLen
  BY <1>6 DEF EnforceLen, CacheTypeOK, HeldOk
<1>7. CASE EnforceQuota
  BY <1>7 DEF EnforceQuota, CacheTypeOK, HeldOk
<1>8. CASE EnforceEmpty
  BY <1>8 DEF EnforceEmpty, CacheTypeOK, HeldOk
<1>9. CASE EvictPop
  <2>1. CASE ring = <<>>
    BY <1>9, <2>1 DEF EvictPop, CacheTypeOK, HeldOk
  <2>2. CASE ring # <<>>
    <3>1. Head(ring) \in Entry /\ Tail(ring) \in Seq(Entry)
      BY <2>2, <1>t, Popped
    <3>2. Head(ring).seq \in 1 .. MaxWrites
      BY <3>1, CacheEntryIsSome
    <3>3. early' \subseteq 1 .. MaxWrites
      BY <1>9, <2>2, <3>2 DEF EvictPop, CacheTypeOK
    <3> QED BY <1>9, <2>2, <3>1, <3>3 DEF EvictPop, CacheTypeOK, HeldOk
  <2> QED BY <2>1, <2>2
<1>10. CASE EvictRelease
  <2>1. victim.len \in Nat
    BY <1>10, CacheEntryIsSome DEF EvictRelease, HeldOk
  <2>2. quota' \in 0 .. Modulus - 1
    <3>1. quota - victim.len \in Int
      BY <2>1, <1>t
    <3>2. quota' = (quota - victim.len) % Modulus
      BY <1>10 DEF EvictRelease
    <3> QED BY <3>1, <3>2, <1>0, Zenon
  <2> QED BY <1>10, <2>2 DEF EvictRelease, CacheTypeOK, HeldOk
<1>11. CASE EnforceInstance
  <2>1. /\ Gone \in Seq(Entry) /\ ring' \in Seq(Entry) /\ used' \subseteq used
        /\ quota' = (quota - Bytes(Gone)) % Modulus
    BY <1>11, InstanceStep
  <2>2. Bytes(Gone) \in Nat
    BY <2>1, BytesNat
  <2>3. quota' \in 0 .. Modulus - 1
    <3>1. quota - Bytes(Gone) \in Int
      BY <2>2, <1>t
    <3> QED BY <3>1, <2>1, <1>0, Zenon
  <2>4. UNCHANGED <<keepAll, item, victim, seq, pruneVars, early>>
        /\ pc = "instance" /\ pc' = "idle"
    BY <1>11 DEF EnforceInstance
  <2> QED BY <2>1, <2>3, <2>4 DEF CacheTypeOK, HeldOk
<1>12. CASE Expire
  BY <1>12, <1>t DEF Expire, CacheTypeOK, HeldOk
<1>13. CASE PruneStart
  BY <1>13, <1>t DEF PruneStart, CacheTypeOK, HeldOk
<1>14. CASE PruneLock
  BY <1>14 DEF PruneLock, CacheTypeOK, HeldOk
<1>15. CASE PrunePop
  <2>1. ring # <<>>
    BY <1>15 DEF PrunePop, FrontExpired
  <2>2. Head(ring) \in Entry /\ Tail(ring) \in Seq(Entry)
    BY <2>1, <1>t, Popped
  <2>3. Head(ring).len \in Nat
    BY <2>2, CacheEntryIsSome
  <2> QED BY <1>15, <2>2, <2>3 DEF PrunePop, CacheTypeOK, HeldOk
<1>16. CASE PruneSub
  <2>1. quota' \in 0 .. Modulus - 1
    BY <1>16, <1>0, <1>t DEF PruneSub
  <2> QED BY <1>16, <2>1 DEF PruneSub, CacheTypeOK, HeldOk
<1>17. CASE PruneUnlock
  BY <1>17, <1>t DEF PruneUnlock, CacheTypeOK, HeldOk
<1>18. CASE UNCHANGED cacheVars
  BY <1>18 DEF cacheVars, CacheTypeOK, HeldOk
<1> QED
  BY <1>1, <1>2, <1>3, <1>4, <1>5, <1>6, <1>7, <1>8, <1>9, <1>10, <1>11, <1>12,
     <1>13, <1>14, <1>15, <1>16, <1>17, <1>18 DEF CacheNext

\* What each step does to the bytes in the deque and on their way out of it,
\* to those not counted yet and to the counter.
LEMMA TotalStep ==
    ASSUME CacheTypeOK, HeldOk, [CacheNext]_cacheVars
    PROVE  \/ Total' = Total /\ Uncounted' = Uncounted /\ UNCHANGED quota
           \/ /\ pc = "push" /\ pc' = "add" /\ Unlocked /\ ~Rejects
              /\ Total' = Total + item.len /\ Uncounted = 0 /\ Uncounted' = item.len
              /\ UNCHANGED quota
           \/ /\ pc = "add" /\ Total' = Total /\ Uncounted' = 0
              /\ quota' = (quota + Uncounted) % Modulus
           \/ \E n \in Nat :
                 /\ Total' = Total - n /\ Uncounted' = Uncounted
                 /\ quota' = (quota - n) % Modulus
<1> USE DEF pruneVars
<1>t. ring \in Seq(Entry) /\ owed \in Nat /\ Bytes(ring) \in Nat
  BY BytesNat DEF CacheTypeOK
<1>1. CASE InsertNoSlot \/ InsertReject \/ EnforceLen \/ EnforceQuota \/ EnforceEmpty
           \/ Expire \/ PruneStart \/ PruneLock \/ PruneUnlock
  BY <1>1 DEF InsertNoSlot, InsertReject, EnforceLen, EnforceQuota, EnforceEmpty,
              Expire, PruneStart, PruneLock, PruneUnlock, Total, VictimBytes, Uncounted
<1>2. ASSUME NEW s \in Slot, NEW n \in Size, InsertReserve(s, n)
      PROVE  Total' = Total /\ Uncounted' = Uncounted /\ UNCHANGED quota
  BY <1>2 DEF InsertReserve, Total, VictimBytes, Uncounted
<1>3. CASE InsertPush
  <2>1. CASE Rejects
    BY <1>3, <2>1 DEF InsertPush, Total, VictimBytes, Uncounted
  <2>2. CASE ~Rejects
    <3>1. item \in Entry
      BY <1>3 DEF InsertPush, HeldOk
    <3>2. ring' = Append(ring, item) /\ pc = "push" /\ pc' = "add" /\ Unlocked
          /\ UNCHANGED <<quota, item, owed>>
      BY <1>3, <2>2 DEF InsertPush
    <3>3. Bytes(ring') = Bytes(ring) + item.len
      BY <3>1, <3>2, <1>t, BytesAppend
    <3>4. item.len \in Nat
      BY <3>1, CacheEntryIsSome
    <3>5. VictimBytes = 0 /\ VictimBytes' = 0
      BY <3>2 DEF VictimBytes
    <3>6. Total' = Total + item.len
      BY <3>2, <3>3, <3>4, <3>5, <1>t DEF Total
    <3> QED BY <2>2, <3>2, <3>6 DEF Uncounted
  <2> QED BY <2>1, <2>2
<1>4. CASE InsertAddQuota
  BY <1>4 DEF InsertAddQuota, Total, VictimBytes, Uncounted
<1>5. CASE EvictPop
  <2>1. CASE ring = <<>>
    BY <1>5, <2>1 DEF EvictPop, Total, VictimBytes, Uncounted
  <2>2. CASE ring # <<>>
    <3>1. Head(ring) \in Entry /\ Bytes(ring) = Head(ring).len + Bytes(Tail(ring))
          /\ Tail(ring) \in Seq(Entry)
      BY <2>2, <1>t, Popped
    <3>2. Head(ring).len \in Nat /\ Bytes(Tail(ring)) \in Nat
      BY <3>1, CacheEntryIsSome, BytesNat
    <3>3. VictimBytes = 0 /\ VictimBytes' = Head(ring).len
      BY <1>5, <2>2 DEF EvictPop, VictimBytes
    <3>4. ring' = Tail(ring) /\ UNCHANGED <<quota, owed>> /\ pc # "add" /\ pc' # "add"
      BY <1>5, <2>2 DEF EvictPop
    <3>5. Total' = Total
      BY <3>1, <3>2, <3>3, <3>4, <1>t DEF Total
    <3> QED BY <3>4, <3>5 DEF Uncounted
  <2> QED BY <2>1, <2>2
<1>6. CASE EvictRelease
  <2>1. victim.len \in Nat
    BY <1>6, CacheEntryIsSome DEF EvictRelease, HeldOk
  <2>2. VictimBytes = victim.len /\ VictimBytes' = 0 /\ pc # "add" /\ pc' # "add"
        /\ UNCHANGED <<ring, owed>> /\ quota' = (quota - victim.len) % Modulus
    BY <1>6 DEF EvictRelease, VictimBytes
  <2>3. Total' = Total - victim.len
    BY <2>1, <2>2, <1>t DEF Total
  <2> QED BY <2>1, <2>2, <2>3 DEF Uncounted
<1>7. CASE EnforceInstance
  <2>1. /\ Gone \in Seq(Entry) /\ ring' \in Seq(Entry)
        /\ Bytes(ring) = Bytes(Gone) + Bytes(ring')
        /\ quota' = (quota - Bytes(Gone)) % Modulus
        /\ pc = "instance" /\ pc' = "idle"
    BY <1>7, InstanceStep
  <2>2. Bytes(Gone) \in Nat /\ Bytes(ring') \in Nat
    BY <2>1, BytesNat
  <2>3. VictimBytes = 0 /\ VictimBytes' = 0 /\ Uncounted = 0 /\ Uncounted' = 0
    BY <2>1 DEF VictimBytes, Uncounted
  <2>4. UNCHANGED owed
    BY <1>7 DEF EnforceInstance
  <2>5. Total' = Total - Bytes(Gone)
    BY <2>1, <2>2, <2>3, <2>4, <1>t DEF Total
  <2> QED BY <2>1, <2>2, <2>3, <2>5
<1>8. CASE PrunePop
  <2>1. ring # <<>> /\ ring' = Tail(ring) /\ owed' = Head(ring).len /\ owed = 0
        /\ UNCHANGED <<quota, pc, item, victim>>
    BY <1>8 DEF PrunePop, FrontExpired, HeldOk
  <2>2. Head(ring) \in Entry /\ Bytes(ring) = Head(ring).len + Bytes(Tail(ring))
        /\ Tail(ring) \in Seq(Entry)
    BY <2>1, <1>t, Popped
  <2>3. Head(ring).len \in Nat /\ Bytes(Tail(ring)) \in Nat
    BY <2>2, CacheEntryIsSome, BytesNat
  <2>4. VictimBytes' = VictimBytes /\ VictimBytes \in Nat
    BY <2>1, CacheEntryIsSome DEF VictimBytes, HeldOk
  <2>5. Total' = Total
    BY <2>1, <2>2, <2>3, <2>4 DEF Total
  <2> QED BY <2>1, <2>5 DEF Uncounted
<1>9. CASE PruneSub
  <2>1. /\ owed' = 0 /\ quota' = (quota - owed) % Modulus
        /\ UNCHANGED <<ring, pc, item, victim>>
    BY <1>9 DEF PruneSub
  <2>2. VictimBytes' = VictimBytes /\ VictimBytes \in Nat
    BY <2>1, CacheEntryIsSome DEF VictimBytes, HeldOk
  <2>3. Total' = Total - owed
    BY <2>1, <2>2, <1>t DEF Total
  <2> QED BY <2>1, <2>3, <1>t DEF Uncounted
<1>10. CASE UNCHANGED cacheVars
  BY <1>10 DEF cacheVars, Total, VictimBytes, Uncounted
<1> QED
  BY <1>1, <1>2, <1>3, <1>4, <1>5, <1>6, <1>7, <1>8, <1>9, <1>10 DEF CacheNext

\* The bytes are numbers.
LEMMA TotalNat ==
    ASSUME CacheTypeOK, HeldOk
    PROVE  Total \in Nat /\ Uncounted \in Nat /\ Bytes(ring) \in Nat
           /\ VictimBytes \in Nat
<1>1. Bytes(ring) \in Nat /\ owed \in Nat
  BY BytesNat DEF CacheTypeOK
<1>2. VictimBytes \in Nat /\ Uncounted \in Nat
  BY CacheEntryIsSome DEF HeldOk, VictimBytes, Uncounted
<1> QED BY <1>1, <1>2 DEF Total

\* Every addition to the counter and every subtraction from it, wherever it
\* happens, keeps it equal to the bytes it stands for.
LEMMA CounterStep ==
    ASSUME CacheTypeOK, HeldOk, CounterOk, [CacheNext]_cacheVars
    PROVE  CounterOk'
<1>1. Total \in Nat /\ Uncounted \in Nat
  BY TotalNat
<1>2. quota = (Total - Uncounted) % Modulus /\ Total - Uncounted \in Int
  BY <1>1 DEF CounterOk
<1>3. CASE Total' = Total /\ Uncounted' = Uncounted /\ UNCHANGED quota
  BY <1>2, <1>3 DEF CounterOk
<1>4. CASE /\ Total' = Total + item.len /\ Uncounted = 0 /\ Uncounted' = item.len
           /\ pc = "push" /\ UNCHANGED quota
  <2>1. item.len \in Nat
    BY <1>4, CacheEntryIsSome DEF HeldOk
  <2>2. Total' - Uncounted' = Total - Uncounted
    BY <1>1, <1>4, <2>1
  <2> QED BY <1>2, <1>4, <2>2 DEF CounterOk
<1>5. CASE /\ Total' = Total /\ Uncounted' = 0 /\ quota' = (quota + Uncounted) % Modulus
  <2>1. quota' = ((Total - Uncounted) + Uncounted) % Modulus
    BY <1>1, <1>2, <1>5, ModShift
  <2>2. Total' - Uncounted' = (Total - Uncounted) + Uncounted
    BY <1>1, <1>5
  <2> QED BY <2>1, <2>2 DEF CounterOk
<1>6. ASSUME NEW n \in Nat, Total' = Total - n, Uncounted' = Uncounted,
             quota' = (quota - n) % Modulus
      PROVE  CounterOk'
  <2>0. quota - n = quota + (-n) /\ -n \in Int
    BY DEF CacheTypeOK
  <2>1. quota' = ((Total - Uncounted) + (-n)) % Modulus
    BY <1>2, <1>6, <2>0, ModShift
  <2>2. Total' - Uncounted' = (Total - Uncounted) + (-n)
    BY <1>1, <1>6
  <2> QED BY <2>1, <2>2 DEF CounterOk
<1> QED
  BY <1>3, <1>4, <1>5, <1>6, TotalStep

\* The slots of the deque.
RingSlots == {ring[i].slot : i \in 1 .. Len(ring)}

\* Taking entries off the front of the deque frees their slots and no other.
LEMMA FrontSlots ==
    ASSUME CacheTypeOK, SlotsOk, NEW n \in 0 .. Len(ring),
           ring' \in Seq(Entry), Len(ring') = Len(ring) - n,
           \A i \in 1 .. Len(ring') : ring'[i] = ring[n + i]
    PROVE  /\ RingSlots' = RingSlots \ {ring[i].slot : i \in 1 .. n}
           /\ \A i, j \in 1 .. Len(ring') : ring'[i].slot = ring'[j].slot => i = j
           /\ \A i \in 1 .. Len(ring') : \E j \in 1 .. Len(ring) :
                 ring'[i] = ring[j] /\ j > n
<1>0. Len(ring) \in Nat
  BY LenProperties DEF CacheTypeOK
<1>1. \A i \in 1 .. Len(ring') : n + i \in 1 .. Len(ring) /\ n + i > n
  BY <1>0
<1>2. \A i, j \in 1 .. Len(ring) : ring[i].slot = ring[j].slot => i = j
  BY DEF SlotsOk
<1>3. ASSUME NEW i \in 1 .. Len(ring'), NEW j \in 1 .. Len(ring'),
             ring'[i].slot = ring'[j].slot
      PROVE  i = j
  <2>1. n + i = n + j
    BY <1>1, <1>2, <1>3
  <2> QED BY <1>0, <2>1
<1>4. \A i \in 1 .. Len(ring') : \E j \in 1 .. Len(ring) : ring'[i] = ring[j] /\ j > n
  BY <1>1
<1>5. ASSUME NEW i \in 1 .. Len(ring')
      PROVE  /\ ring'[i].slot \in RingSlots
             /\ ring'[i].slot \notin {ring[k].slot : k \in 1 .. n}
  <2>1. PICK j \in 1 .. Len(ring) : ring'[i] = ring[j] /\ j > n
    BY <1>4
  <2>2. ASSUME NEW k \in 1 .. n PROVE ring[k].slot # ring[j].slot
    BY <1>0, <1>2, <2>1
  <2> QED BY <2>1, <2>2 DEF RingSlots
<1>6. ASSUME NEW j \in 1 .. Len(ring), ring[j].slot \notin {ring[k].slot : k \in 1 .. n}
      PROVE  ring[j].slot \in RingSlots'
  <2>1. j \notin 1 .. n
    BY <1>6
  <2>2. j - n \in 1 .. Len(ring') /\ n + (j - n) = j
    BY <1>0, <2>1
  <2>3. ring'[j - n] = ring[j]
    BY <2>2
  <2> QED BY <2>2, <2>3 DEF RingSlots
<1>7. RingSlots' = RingSlots \ {ring[i].slot : i \in 1 .. n}
  BY <1>5, <1>6 DEF RingSlots
<1> QED BY <1>3, <1>4, <1>7

\* Every way into the deque and out of it, the error path included, keeps the
\* account of the slots.
LEMMA SlotsStep ==
    ASSUME CacheTypeOK, HeldOk, SlotsOk, [CacheNext]_cacheVars
    PROVE  SlotsOk'
<1> USE DEF pruneVars
<1>t. ring \in Seq(Entry) /\ Len(ring) \in Nat
  BY LenProperties DEF CacheTypeOK
<1>u. /\ pc \in {"push", "reject"} => used = RingSlots \cup {item.slot}
      /\ pc \in {"freeLen", "freeQuota"} => used = RingSlots \cup {victim.slot}
      /\ pc \notin {"push", "reject", "freeLen", "freeQuota"} => used = RingSlots
  BY DEF SlotsOk, RingSlots
<1>1. CASE /\ UNCHANGED <<ring, used, item, victim>>
           /\ \/ pc' = pc
              \/ pc = "push" /\ pc' = "reject"
              \/ {pc, pc'} \cap {"push", "reject", "freeLen", "freeQuota"} = {}
  BY <1>1 DEF SlotsOk
<1>2. ASSUME NEW s \in Slot, NEW n \in Size, InsertReserve(s, n)
      PROVE  SlotsOk'
  <2>1. /\ item'.slot = s /\ s \notin used /\ used' = used \cup {s} /\ UNCHANGED ring
        /\ pc = "idle" /\ pc' = "push"
    BY <1>2 DEF InsertReserve
  <2>2. used = RingSlots /\ RingSlots' = RingSlots
    BY <1>u, <2>1 DEF RingSlots
  <2>3. \A i \in 1 .. Len(ring) : ring[i].slot # s
    BY <2>1, <2>2 DEF RingSlots
  <2>4. used' = RingSlots' \cup {item'.slot}
    BY <2>1, <2>2
  <2> QED BY <2>1, <2>3, <2>4 DEF SlotsOk, RingSlots
<1>3. CASE InsertPush
  <2>1. CASE Rejects
    BY <1>1, <1>3, <2>1 DEF InsertPush
  <2>2. CASE ~Rejects
    <3>1. item \in Entry
      BY <1>3 DEF InsertPush, HeldOk
    <3>2. ring' = Append(ring, item) /\ pc = "push" /\ pc' = "add" /\ UNCHANGED used
      BY <1>3, <2>2 DEF InsertPush
    <3>3. /\ Len(ring') = Len(ring) + 1 /\ ring'[Len(ring) + 1] = item
          /\ \A i \in 1 .. Len(ring) : ring'[i] = ring[i]
      BY <3>1, <3>2, <1>t, AppendProperties
    <3>4. \A i \in 1 .. Len(ring') : i \in 1 .. Len(ring) \/ i = Len(ring) + 1
      BY <3>3, <1>t
    <3>5. RingSlots' = RingSlots \cup {item.slot}
      <4>1. ASSUME NEW x \in RingSlots' PROVE x \in RingSlots \cup {item.slot}
        <5>1. PICK i \in 1 .. Len(ring') : x = ring'[i].slot
          BY DEF RingSlots
        <5> QED BY <5>1, <3>3, <3>4 DEF RingSlots
      <4>2. ASSUME NEW x \in RingSlots PROVE x \in RingSlots'
        <5>1. PICK i \in 1 .. Len(ring) : x = ring[i].slot
          BY DEF RingSlots
        <5>2. i \in 1 .. Len(ring') /\ ring'[i] = ring[i]
          BY <3>3, <1>t
        <5> QED BY <5>1, <5>2 DEF RingSlots
      <4>3. item.slot \in RingSlots'
        <5>1. Len(ring) + 1 \in 1 .. Len(ring')
          BY <3>3, <1>t
        <5> QED BY <5>1, <3>3 DEF RingSlots
      <4> QED BY <4>1, <4>2, <4>3
    <3>6. used' = RingSlots'
      BY <1>u, <3>2, <3>5
    <3>7. \A i, j \in 1 .. Len(ring') : ring'[i].slot = ring'[j].slot => i = j
      BY <3>2, <3>3, <3>4 DEF SlotsOk
    <3> QED BY <3>2, <3>6, <3>7 DEF SlotsOk, RingSlots
  <2> QED BY <2>1, <2>2
<1>4. CASE InsertReject
  <2>1. /\ used' = used \ {item.slot} /\ UNCHANGED ring /\ pc = "reject" /\ pc' = "idle"
    BY <1>4 DEF InsertReject
  <2>2. item.slot \notin RingSlots /\ used = RingSlots \cup {item.slot}
    BY <1>u, <2>1 DEF SlotsOk, RingSlots
  <2>3. used' = RingSlots'
    BY <2>1, <2>2 DEF RingSlots
  <2> QED BY <2>1, <2>3 DEF SlotsOk, RingSlots
<1>5. CASE InsertAddQuota
  <2>1. UNCHANGED <<ring, used>> /\ pc = "add" /\ pc' \in {"idle", "len"}
    BY <1>5 DEF InsertAddQuota
  <2> QED BY <2>1 DEF SlotsOk
<1>6. CASE InsertNoSlot \/ EnforceLen \/ EnforceQuota \/ EnforceEmpty \/ Expire
           \/ PruneStart \/ PruneLock \/ PruneSub \/ PruneUnlock
  BY <1>1, <1>6 DEF InsertNoSlot, EnforceLen, EnforceQuota, EnforceEmpty, Expire,
                    PruneStart, PruneLock, PruneSub, PruneUnlock
<1>7. CASE EvictPop
  <2>1. CASE ring = <<>>
    <3>1. UNCHANGED <<ring, used>> /\ pc \in {"evictLen", "evictQuota"}
          /\ pc' \in {"len", "quota"}
      BY <1>7, <2>1 DEF EvictPop
    <3> QED BY <3>1 DEF SlotsOk
  <2>2. CASE ring # <<>>
    <3>1. /\ victim' = Head(ring) /\ ring' = Tail(ring) /\ UNCHANGED used
          /\ pc \in {"evictLen", "evictQuota"} /\ pc' \in {"freeLen", "freeQuota"}
      BY <1>7, <2>2 DEF EvictPop
    <3>2. /\ ring' \in Seq(Entry) /\ Len(ring') = Len(ring) - 1 /\ Len(ring) > 0
          /\ Head(ring) = ring[1]
          /\ \A i \in 1 .. Len(ring) - 1 : ring'[i] = ring[i + 1]
      BY <2>2, <3>1, <1>t, Popped
    <3>3. \A i \in 1 .. Len(ring') : ring'[i] = ring[1 + i]
      BY <3>2, <1>t
    <3>4. 1 \in 0 .. Len(ring)
      BY <3>2, <1>t
    <3>5. /\ RingSlots' = RingSlots \ {ring[i].slot : i \in 1 .. 1}
          /\ \A i, j \in 1 .. Len(ring') : ring'[i].slot = ring'[j].slot => i = j
      BY <3>2, <3>3, <3>4, FrontSlots
    <3>6. {ring[i].slot : i \in 1 .. 1} = {ring[1].slot}
      OBVIOUS
    <3>7. used = RingSlots /\ ring[1].slot \in RingSlots
      <4>1. 1 \in 1 .. Len(ring)
        BY <3>2, <1>t
      <4> QED BY <4>1, <1>u, <3>1 DEF RingSlots
    <3>8. used' = RingSlots' \cup {victim'.slot} /\ victim'.slot \notin RingSlots'
      BY <3>1, <3>2, <3>5, <3>6, <3>7
    <3> QED BY <3>1, <3>5, <3>8 DEF SlotsOk, RingSlots
  <2> QED BY <2>1, <2>2
<1>8. CASE EvictRelease
  <2>1. /\ used' = used \ {victim.slot} /\ UNCHANGED ring
        /\ pc \in {"freeLen", "freeQuota"} /\ pc' \in {"len", "quota"}
    BY <1>8 DEF EvictRelease
  <2>2. victim.slot \notin RingSlots /\ used = RingSlots \cup {victim.slot}
    BY <1>u, <2>1 DEF SlotsOk, RingSlots
  <2>3. used' = RingSlots'
    BY <2>1, <2>2 DEF RingSlots
  <2> QED BY <2>1, <2>3 DEF SlotsOk, RingSlots
<1>9. CASE EnforceInstance
  <2>1. /\ Surplus \in 0 .. Len(ring) /\ ring' \in Seq(Entry)
        /\ Len(ring') = Len(ring) - Surplus
        /\ \A i \in 1 .. Len(ring') : ring'[i] = ring[Surplus + i]
        /\ used' = used \ {ring[i].slot : i \in 1 .. Surplus}
        /\ pc = "instance" /\ pc' = "idle"
    BY <1>9, InstanceStep
  <2>2. /\ RingSlots' = RingSlots \ {ring[i].slot : i \in 1 .. Surplus}
        /\ \A i, j \in 1 .. Len(ring') : ring'[i].slot = ring'[j].slot => i = j
    BY <2>1, FrontSlots
  <2>3. used' = RingSlots'
    BY <1>u, <2>1, <2>2
  <2> QED BY <2>1, <2>2, <2>3 DEF SlotsOk, RingSlots
<1>10. CASE PrunePop
  <2>1. /\ ring # <<>> /\ ring' = Tail(ring) /\ used' = used \ {Head(ring).slot}
        /\ UNCHANGED <<pc, item, victim>>
    BY <1>10 DEF PrunePop, FrontExpired
  <2>2. /\ ring' \in Seq(Entry) /\ Len(ring') = Len(ring) - 1 /\ Len(ring) > 0
        /\ Head(ring) = ring[1]
        /\ \A i \in 1 .. Len(ring) - 1 : ring'[i] = ring[i + 1]
    BY <2>1, <1>t, Popped
  <2>3. \A i \in 1 .. Len(ring') : ring'[i] = ring[1 + i]
    BY <2>2, <1>t
  <2>4. 1 \in 0 .. Len(ring) /\ 1 \in 1 .. Len(ring)
    BY <2>2, <1>t
  <2>5. /\ RingSlots' = RingSlots \ {ring[i].slot : i \in 1 .. 1}
        /\ \A i, j \in 1 .. Len(ring') : ring'[i].slot = ring'[j].slot => i = j
        /\ \A i \in 1 .. Len(ring') : \E j \in 1 .. Len(ring) :
              ring'[i] = ring[j] /\ j > 1
    BY <2>2, <2>3, <2>4, FrontSlots
  <2>6. {ring[i].slot : i \in 1 .. 1} = {ring[1].slot}
    OBVIOUS
  <2>7. RingSlots' = RingSlots \ {ring[1].slot} /\ used' = used \ {ring[1].slot}
    BY <2>1, <2>2, <2>5, <2>6
  <2>8. CASE pc \in {"push", "reject"}
    <3>1. /\ used = RingSlots \cup {item.slot} /\ item.slot # ring[1].slot
          /\ \A i \in 1 .. Len(ring) : ring[i].slot # item.slot
      BY <1>u, <2>4, <2>8 DEF SlotsOk
    <3>2. used' = RingSlots' \cup {item.slot}
      BY <2>7, <3>1
    <3>3. \A i \in 1 .. Len(ring') : ring'[i].slot # item.slot
      BY <2>5, <3>1
    <3> QED BY <2>1, <2>5, <2>8, <3>2, <3>3 DEF SlotsOk, RingSlots
  <2>9. CASE pc \in {"freeLen", "freeQuota"}
    <3>1. /\ used = RingSlots \cup {victim.slot} /\ victim.slot # ring[1].slot
          /\ \A i \in 1 .. Len(ring) : ring[i].slot # victim.slot
      BY <1>u, <2>4, <2>9 DEF SlotsOk
    <3>2. used' = RingSlots' \cup {victim.slot}
      BY <2>7, <3>1
    <3>3. \A i \in 1 .. Len(ring') : ring'[i].slot # victim.slot
      BY <2>5, <3>1
    <3> QED BY <2>1, <2>5, <2>9, <3>2, <3>3 DEF SlotsOk, RingSlots
  <2>10. CASE pc \notin {"push", "reject", "freeLen", "freeQuota"}
    <3>1. used' = RingSlots'
      BY <1>u, <2>7, <2>10
    <3> QED BY <2>1, <2>5, <2>10, <3>1 DEF SlotsOk, RingSlots
  <2> QED BY <2>8, <2>9, <2>10
<1>11. CASE UNCHANGED cacheVars
  BY <1>1, <1>11 DEF cacheVars
<1> QED
  BY <1>2, <1>3, <1>4, <1>5, <1>6, <1>7, <1>8, <1>9, <1>10, <1>11 DEF CacheNext

\* While no lifespan has run out nothing comes between the test of a loop of
\* enforce_limits and the eviction it decides on.
LEMMA AloneStep ==
    ASSUME CacheTypeOK, HeldOk, CounterOk, AloneOk, [CacheNext]_cacheVars
    PROVE  AloneOk'
<1> USE DEF pruneVars
<1> SUFFICES ASSUME expired' = 0
             PROVE  /\ ppc' = "idle" /\ early' = {}
                    /\ pc' = "evictLen" => Len(ring') > MaxSamples
                    /\ pc' \in {"empty", "evictQuota"} => Bytes(ring') > MaxQuota
  BY DEF AloneOk
<1>0. expired \in Nat
  BY DEF CacheTypeOK
<1>1. expired = 0 /\ ~Expire
  BY <1>0 DEF CacheNext, cacheVars, InsertNoSlot, InsertReserve, InsertPush, InsertReject,
     InsertAddQuota, EnforceLen, EnforceQuota, EnforceEmpty, EvictPop, EvictRelease,
     EnforceInstance, Expire, PruneStart, PruneLock, PrunePop, PruneSub, PruneUnlock
<1>2. /\ ppc = "idle" /\ early = {}
      /\ pc = "evictLen" => Len(ring) > MaxSamples
      /\ pc \in {"empty", "evictQuota"} => Bytes(ring) > MaxQuota
  BY <1>1 DEF AloneOk
<1>3. CASE InsertNoSlot \/ (\E s \in Slot, n \in Size : InsertReserve(s, n))
           \/ InsertPush \/ InsertReject \/ InsertAddQuota \/ EvictRelease
           \/ EnforceInstance
  BY <1>2, <1>3 DEF InsertNoSlot, InsertReserve, InsertPush, InsertReject,
     InsertAddQuota, EvictRelease, EnforceInstance
<1>4. CASE EnforceLen
  BY <1>2, <1>4 DEF EnforceLen
<1>5. CASE EnforceQuota
  <2>1. Total = Bytes(ring) /\ Uncounted = 0 /\ Bytes(ring) \in Nat
    <3>1. owed = 0 /\ VictimBytes = 0 /\ Uncounted = 0
      BY <1>2, <1>5 DEF EnforceQuota, HeldOk, VictimBytes, Uncounted
    <3>2. Bytes(ring) \in Nat
      BY TotalNat
    <3> QED BY <3>1, <3>2 DEF Total
  <2>2. quota <= Bytes(ring)
    <3>1. quota = Bytes(ring) % Modulus
      BY <2>1 DEF CounterOk
    <3> QED BY <2>1, <3>1, ModBelow
  <2>3. quota > MaxQuota => Bytes(ring) > MaxQuota
    BY <2>1, <2>2, CacheAssumption DEF CacheTypeOK
  <2> QED BY <1>2, <1>5, <2>3 DEF EnforceQuota
<1>6. CASE EnforceEmpty
  BY <1>2, <1>6 DEF EnforceEmpty
<1>7. CASE EvictPop
  <2>1. Len(ring) \in Nat /\ Bytes(ring) \in Nat
    BY TotalNat, LenProperties DEF CacheTypeOK
  <2>2. ~(Len(ring) <= MaxSamples /\ Bytes(ring) <= MaxQuota)
    BY <1>2, <1>7, <2>1, CacheAssumption DEF EvictPop
  <2>3. early' = {}
    BY <1>2, <1>7, <2>2 DEF EvictPop
  <2> QED BY <1>2, <1>7, <2>3 DEF EvictPop
<1>8. CASE PruneStart \/ PruneLock \/ PrunePop \/ PruneSub \/ PruneUnlock
  BY <1>0, <1>1, <1>2, <1>8 DEF PruneStart, PruneLock, PrunePop, PruneSub, PruneUnlock
<1>9. CASE UNCHANGED cacheVars
  BY <1>2, <1>9 DEF cacheVars
<1> QED
  BY <1>1, <1>3, <1>4, <1>5, <1>6, <1>7, <1>8, <1>9 DEF CacheNext

\* The account of the slots as the property states it, over one sequence of
\* all the entries that are held.
LEMMA SlotsAgree ==
    ASSUME CacheTypeOK, HeldOk, SlotsOk
    PROVE  SlotsAccounted
<1> DEFINE h == [i \in DOMAIN ring |-> ring[i].slot]
           a == IF pc \in {"push", "reject"} THEN <<item.slot>> ELSE <<>>
           b == IF victim # <<>> THEN <<victim.slot>> ELSE <<>>
           held == h \o a \o b
<1>t. ring \in Seq(Entry) /\ Len(ring) \in Nat /\ DOMAIN ring = 1 .. Len(ring)
  BY LenProperties DEF CacheTypeOK
<1>h. h \in Seq(Slot) /\ Len(h) = Len(ring) /\ \A i \in 1 .. Len(ring) : h[i] = ring[i].slot
  <2>1. \A i \in 1 .. Len(ring) : ring[i].slot \in Slot
    BY <1>t, CacheEntryIsSome
  <2> QED BY <1>t, <2>1
<1>v. victim # <<>> <=> pc \in {"freeLen", "freeQuota"}
  BY CacheEntryIsSome DEF HeldOk
<1>u. /\ pc \in {"push", "reject"} => used = RingSlots \cup {item.slot}
      /\ pc \in {"freeLen", "freeQuota"} => used = RingSlots \cup {victim.slot}
      /\ pc \notin {"push", "reject", "freeLen", "freeQuota"} => used = RingSlots
  BY DEF SlotsOk, RingSlots
<1>r. \A i, j \in 1 .. Len(ring) : h[i] = h[j] => i = j
  BY <1>h DEF SlotsOk
<1>s. RingSlots = {h[i] : i \in 1 .. Len(ring)}
  BY <1>h DEF RingSlots
<1> HIDE DEF h
<1>c. h \o <<>> = h
  BY <1>h, ConcatEmptySeq
<1>d. ASSUME NEW x \in Slot
      PROVE  h \o <<x>> = Append(h, x) /\ (h \o <<x>>) \o <<>> = Append(h, x)
  <2>1. Append(h, x) = h \o <<x>> /\ Append(h, x) \in Seq(Slot)
    BY <1>h, AppendIsConcat, AppendProperties
  <2>2. Append(h, x) \o <<>> = Append(h, x)
    BY <2>1, ConcatEmptySeq
  <2> QED BY <2>1, <2>2, Zenon
<1>1. ASSUME NEW x \in Slot, held = Append(h, x), used = RingSlots \cup {x},
             \A i \in 1 .. Len(ring) : h[i] # x
      PROVE  /\ used = {held[i] : i \in DOMAIN held}
             /\ \A i, j \in DOMAIN held : held[i] = held[j] => i = j
  <2> HIDE DEF held
  <2>1. /\ DOMAIN held = 1 .. Len(ring) + 1 /\ held[Len(ring) + 1] = x
        /\ \A i \in 1 .. Len(ring) : held[i] = h[i]
    BY <1>1, <1>h, <1>t, AppendProperties
  <2>2. \A i \in DOMAIN held : i \in 1 .. Len(ring) \/ i = Len(ring) + 1
    BY <2>1, <1>t
  <2>3. \A i \in 1 .. Len(ring) : i \in DOMAIN held
    BY <2>1, <1>t
  <2>4. Len(ring) + 1 \in DOMAIN held
    BY <2>1, <1>t
  <2>5. used = {held[i] : i \in DOMAIN held}
    BY <1>1, <1>s, <2>1, <2>2, <2>3, <2>4
  <2>6. \A i, j \in DOMAIN held : held[i] = held[j] => i = j
    BY <1>1, <1>r, <2>1, <2>2
  <2> QED BY <2>5, <2>6
<1>2. CASE pc \in {"push", "reject"}
  <2>1. a = <<item.slot>> /\ b = <<>>
    BY <1>2, <1>v
  <2>2. item.slot \in Slot
    BY <1>2, CacheEntryIsSome DEF HeldOk
  <2>3. held = Append(h, item.slot)
    <3> HIDE DEF a, b
    <3>1. held = (h \o <<item.slot>>) \o <<>>
      BY <2>1, Zenon
    <3> HIDE DEF held
    <3> QED BY <2>2, <3>1, <1>d, Zenon
  <2>4. used = RingSlots \cup {item.slot} /\ \A i \in 1 .. Len(ring) : h[i] # item.slot
    BY <1>2, <1>u, <1>h DEF SlotsOk
  <2>5. /\ used = {held[i] : i \in DOMAIN held}
        /\ \A i, j \in DOMAIN held : held[i] = held[j] => i = j
    BY <1>1, <2>2, <2>3, <2>4
  <2> QED BY <2>5 DEF SlotsAccounted, h
<1>3. CASE pc \in {"freeLen", "freeQuota"}
  <2>1. a = <<>> /\ b = <<victim.slot>>
    BY <1>3, <1>v
  <2>2. victim.slot \in Slot
    BY <1>3, CacheEntryIsSome DEF HeldOk
  <2>3. held = Append(h, victim.slot)
    <3> HIDE DEF a, b
    <3>1. held = (h \o <<>>) \o <<victim.slot>>
      BY <2>1, Zenon
    <3> HIDE DEF held
    <3> QED BY <2>2, <3>1, <1>c, <1>d, Zenon
  <2>4. used = RingSlots \cup {victim.slot} /\ \A i \in 1 .. Len(ring) : h[i] # victim.slot
    BY <1>3, <1>u, <1>h DEF SlotsOk
  <2>5. /\ used = {held[i] : i \in DOMAIN held}
        /\ \A i, j \in DOMAIN held : held[i] = held[j] => i = j
    BY <1>1, <2>2, <2>3, <2>4
  <2> QED BY <2>5 DEF SlotsAccounted, h
<1>4. CASE pc \notin {"push", "reject", "freeLen", "freeQuota"}
  <2>1. a = <<>> /\ b = <<>>
    BY <1>4, <1>v
  <2>2. held = h
    <3> HIDE DEF a, b
    <3> QED BY <2>1, <1>c, Zenon
  <2>3. DOMAIN held = 1 .. Len(ring)
    <3> HIDE DEF held
    <3>1. DOMAIN h = 1 .. Len(h)
      BY <1>h, LenProperties
    <3> QED BY <2>2, <3>1, <1>h
  <2>4. used = {held[i] : i \in DOMAIN held}
    BY <1>4, <1>u, <1>s, <2>2, <2>3
  <2>5. \A i, j \in DOMAIN held : held[i] = held[j] => i = j
    BY <1>r, <2>2, <2>3
  <2> QED BY <2>4, <2>5 DEF SlotsAccounted, h
<1> QED BY <1>2, <1>3, <1>4

\* The counter as the property states it.
LEMMA CounterAgrees ==
    ASSUME CacheTypeOK, HeldOk, CounterOk
    PROVE  QuotaMatches
<1>1. Bytes(ring) \in Nat /\ owed \in Nat /\ VictimBytes \in Nat /\ Uncounted \in Nat
  BY TotalNat DEF CacheTypeOK
<1>2. VictimBytes = IF victim # <<>> THEN victim.len ELSE 0
  BY CacheEntryIsSome DEF HeldOk, VictimBytes
<1>3. Total - Uncounted = Bytes(ring) - Uncounted + (owed + VictimBytes)
  BY <1>1 DEF Total
<1>4. quota = (Bytes(ring) - Uncounted + (owed + VictimBytes)) % Modulus
  BY <1>3 DEF CounterOk
<1> QED BY <1>2, <1>4, Zenon DEF QuotaMatches, Uncounted

\* The byte counter, the slots and the deque of the history cache agree in
\* every interleaving of insert with its evictions and prune_expired, for
\* every limit, history kind and number of slots, also when the counter wraps
\* around; and while no lifespan runs out a sample is evicted only if a limit
\* is exceeded (insert_keyed, enforce_limits, evict_oldest, prune_expired).
THEOREM CacheConsistent ==
    CacheSpec => [](/\ CacheTypeOK /\ QuotaMatches /\ SlotsAccounted
                    /\ EvictsOnlyWhenFullUnpruned)
<1>1. CacheInit => CacheInv
  BY CacheInitInv
<1>2. CacheInv /\ [CacheNext]_cacheVars => CacheInv'
  BY CacheTypeStep, CounterStep, SlotsStep, AloneStep DEF CacheInv
<1>3. CacheInv => /\ CacheTypeOK /\ QuotaMatches /\ SlotsAccounted
                  /\ EvictsOnlyWhenFullUnpruned
  BY CounterAgrees, SlotsAgree DEF CacheInv, AloneOk, EvictsOnlyWhenFullUnpruned,
     EvictsOnlyWhenFull
<1> QED
  BY <1>1, <1>2, <1>3, PTL DEF CacheSpec

\* The writing thread leaves each loop of enforce_limits with its limit kept,
\* and the pruning thread takes none of it back.
LEMMA LimitsStep ==
    ASSUME NoOverflow, CacheInv, LimitsOk, [CacheNext]_cacheVars
    PROVE  LimitsOk'
<1> USE DEF pruneVars
<1>t. /\ CacheTypeOK /\ HeldOk /\ CounterOk /\ ring \in Seq(Entry) /\ Len(ring) \in Nat
      /\ Modulus \in Nat /\ MaxQuota \in Nat /\ MaxSamples \in Nat /\ PerInstance \in Nat
      /\ MaxQuota < Modulus
  BY CacheAssumption, LenProperties DEF CacheInv, CacheTypeOK
<1>n. Total \in Nat /\ Uncounted \in Nat /\ Bytes(ring) \in Nat /\ quota \in Nat
  BY TotalNat, <1>t DEF CacheTypeOK
<1>o. CacheTypeOK' /\ HeldOk'
  BY <1>t, CacheTypeStep
<1>p. Total' \in Nat
  <2>1. Bytes(ring') \in Nat /\ owed' \in Nat
    BY <1>o, BytesNat DEF CacheTypeOK
  <2>2. VictimBytes' \in Nat
    BY <1>o, CacheEntryIsSome DEF HeldOk, VictimBytes
  <2> QED BY <2>1, <2>2 DEF Total
<1>q. Uncounted = 0 => quota = Total
  <2>1. Total \in 0 .. Modulus - 1
    BY <1>n, <1>t DEF LimitsOk
  <2> QED BY <1>n, <1>t, <2>1, ModSmall DEF CounterOk
\* a step that only takes samples away and does not leave a loop
<1>1. ASSUME Total' <= Total, Len(ring') <= Len(ring), Len(ring') \in Nat,
             UNCHANGED keepAll,
             pc' \in {"instance", "idle", "push", "reject"} \/ keepAll => Total <= MaxQuota,
             pc' \notin {"add", "len", "evictLen", "freeLen"} \/ keepAll =>
                 Len(ring) <= MaxSamples,
             pc' \in {"idle", "push", "reject"} \/ keepAll => Len(ring) <= PerInstance
      PROVE  LimitsOk'
  BY <1>1, <1>n, <1>p, <1>t DEF LimitsOk
<1>2. CASE InsertNoSlot \/ InsertReject \/ Expire \/ PruneStart \/ PruneLock \/ PruneUnlock
           \/ PruneSub \/ UNCHANGED cacheVars \/ (InsertPush /\ Rejects)
           \/ (\E s \in Slot, n \in Size : InsertReserve(s, n))
           \/ EvictRelease \/ EnforceLen \/ InsertAddQuota
  <2>1. Total' <= Total
    <3>1. ~(pc = "push" /\ pc' = "add")
      BY <1>2 DEF InsertNoSlot, InsertReject, Expire, PruneStart, PruneLock, PruneUnlock,
         PruneSub, cacheVars, InsertPush, InsertReserve, EvictRelease, EnforceLen,
         InsertAddQuota
    <3>2. Total' = Total \/ \E n \in Nat : Total' = Total - n
      BY <3>1, <1>t, TotalStep
    <3> QED BY <3>2, <1>n
  <2>2. /\ UNCHANGED <<ring, keepAll>>
        /\ \/ pc' = pc
           \/ {pc, pc'} \subseteq {"idle", "push", "reject"}
           \/ pc = "freeLen" /\ pc' = "len"
           \/ pc = "freeQuota" /\ pc' = "quota"
           \/ pc = "len" /\ pc' = "evictLen"
           \/ pc = "len" /\ pc' = "quota" /\ Len(ring) <= MaxSamples
           \/ pc = "add" /\ pc' = "len"
           \/ pc = "add" /\ keepAll
    BY <1>2, <1>t DEF InsertNoSlot, InsertReject, Expire, PruneStart, PruneLock,
         PruneUnlock, PruneSub, cacheVars, InsertPush, InsertReserve, EvictRelease,
         EnforceLen, InsertAddQuota
  <2> QED BY <1>1, <1>t, <2>1, <2>2 DEF LimitsOk
<1>3. CASE InsertPush /\ ~Rejects
  <2>1. /\ pc = "push" /\ pc' = "add" /\ Unlocked /\ ring' = Append(ring, item)
        /\ item \in Entry /\ UNCHANGED <<keepAll, quota>>
    BY <1>3, <1>t DEF InsertPush, HeldOk
  <2>2. Uncounted = 0 /\ Total <= MaxQuota /\ Len(ring) <= MaxSamples
    BY <2>1 DEF Uncounted, LimitsOk
  <2>3. item.len \in Nat /\ MaxQuota + item.len < Modulus
    BY <2>1, CacheEntryIsSome DEF Entry, NoOverflow
  <2>4. Total' = Total + item.len
    <3>1. item.len = 0 => Total + item.len = Total
      BY <1>n
    <3>2. Bytes(ring') = Bytes(ring) + item.len
      BY <2>1, <1>t, BytesAppend
    <3>3. VictimBytes = 0 /\ VictimBytes' = 0 /\ UNCHANGED owed /\ owed \in Nat
      BY <1>3, <1>t, <2>1 DEF VictimBytes, InsertPush, CacheTypeOK
    <3> QED BY <3>2, <3>3, <2>3, <1>n DEF Total
  <2>5. Total' < Modulus
    BY <2>2, <2>3, <2>4, <1>n, <1>t
  <2>6. Len(ring') = Len(ring) + 1
    BY <2>1, <1>t, AppendProperties
  <2>7. CASE keepAll
    <3>1. quota = Total
      BY <1>q, <2>2
    <3>2. SaturatingAdd(quota, item.len) = Total'
      BY <2>4, <2>5, <3>1 DEF SaturatingAdd
    <3>3. Total' <= MaxQuota /\ Len(ring) + 1 <= MaxSamples /\ Len(ring) < PerInstance
      BY <1>3, <2>7, <3>2, <1>p, <1>t DEF Rejects
    <3> QED BY <2>1, <2>5, <2>6, <3>3, <1>t DEF LimitsOk
  <2>8. CASE ~keepAll
    BY <2>1, <2>5, <2>8 DEF LimitsOk
  <2> QED BY <2>7, <2>8
<1>4. CASE EnforceQuota
  <2>1. /\ pc = "quota" /\ pc' = IF quota > MaxQuota THEN "empty" ELSE "instance"
        /\ UNCHANGED <<keepAll, ring, owed>>
    BY <1>4 DEF EnforceQuota
  <2>2. Total' = Total /\ quota = Total
    BY <1>q, <2>1 DEF Total, VictimBytes, Uncounted
  <2>3. pc' \in {"empty", "instance"} /\ (pc' = "instance" => Total <= MaxQuota)
    BY <2>1, <2>2, <1>n, <1>t
  <2> QED BY <1>1, <1>n, <1>t, <2>1, <2>2, <2>3 DEF LimitsOk
<1>5. CASE EnforceEmpty
  <2>1. /\ pc = "empty" /\ pc' = IF ring = <<>> THEN "instance" ELSE "evictQuota"
        /\ UNCHANGED <<keepAll, ring, owed>> /\ Unlocked
    BY <1>5 DEF EnforceEmpty
  <2>2. Total' = Total
    BY <2>1 DEF Total, VictimBytes
  <2>3. ring = <<>> => Total = 0
    <3>1. owed = 0 /\ VictimBytes = 0
      BY <2>1, <1>t DEF HeldOk, VictimBytes, Unlocked
    <3> QED BY <3>1, BytesEmpty DEF Total
  <2>4. pc' \in {"evictQuota", "instance"} /\ (pc' = "instance" => Total <= MaxQuota)
    BY <2>1, <2>3, <1>n, <1>t
  <2> QED BY <1>1, <1>n, <1>t, <2>1, <2>2, <2>4 DEF LimitsOk
<1>6. CASE EvictPop
  <2>1. Total' <= Total
    <3>1. ~(pc = "push" /\ pc' = "add")
      BY <1>6 DEF EvictPop
    <3>2. Total' = Total \/ \E n \in Nat : Total' = Total - n
      BY <3>1, <1>t, TotalStep
    <3> QED BY <3>2, <1>n
  <2>2. Len(ring') <= Len(ring) /\ Len(ring') \in Nat
    <3>1. CASE ring = <<>>
      BY <1>6, <3>1, <1>t DEF EvictPop
    <3>2. CASE ring # <<>>
      BY <1>6, <3>2, <1>t, Popped DEF EvictPop
    <3> QED BY <3>1, <3>2
  <2>3. UNCHANGED keepAll
        /\ \/ pc = "evictLen" /\ pc' \in {"len", "freeLen"}
           \/ pc = "evictQuota" /\ pc' \in {"quota", "freeQuota"}
    BY <1>6 DEF EvictPop
  <2> QED BY <1>1, <1>t, <2>1, <2>2, <2>3 DEF LimitsOk
<1>7. CASE EnforceInstance
  <2>1. /\ ring' \in Seq(Entry) /\ Len(ring') = Len(ring) - Surplus
        /\ pc = "instance" /\ pc' = "idle" /\ Surplus \in 0 .. Len(ring)
    BY <1>7, <1>t, InstanceStep
  <2>2. Len(ring') <= PerInstance /\ Len(ring') <= Len(ring)
    BY <2>1, <1>t DEF Surplus
  <2>3. Total' <= Total
    <3>1. Total' = Total \/ \E n \in Nat : Total' = Total - n
      BY <2>1, <1>t, TotalStep
    <3> QED BY <3>1, <1>n
  <2>4. Total <= MaxQuota /\ Total < Modulus /\ Len(ring) <= MaxSamples
    BY <2>1 DEF LimitsOk
  <2>5. Len(ring') \in Nat /\ Len(ring') <= MaxSamples
    BY <2>1, <2>2, <2>4, <1>t
  <2>6. Total' <= MaxQuota /\ Total' < Modulus
    BY <2>3, <2>4, <1>n, <1>p, <1>t
  <2> QED BY <2>1, <2>2, <2>5, <2>6 DEF LimitsOk
<1>8. CASE PrunePop
  <2>1. Total' <= Total
    <3>1. ~(pc = "push" /\ pc' = "add")
      BY <1>8 DEF PrunePop
    <3>2. Total' = Total \/ \E n \in Nat : Total' = Total - n
      BY <3>1, <1>t, TotalStep
    <3> QED BY <3>2, <1>n
  <2>2. Len(ring') <= Len(ring) /\ Len(ring') \in Nat /\ UNCHANGED <<keepAll, pc>>
    BY <1>8, <1>t, Popped DEF PrunePop, FrontExpired
  <2> QED BY <1>1, <2>1, <2>2 DEF LimitsOk
<1> QED
  BY <1>2, <1>3, <1>4, <1>5, <1>6, <1>7, <1>8 DEF CacheNext

\* Whenever insert has returned and no pruning is under way the cache keeps
\* max_samples, max_quota_bytes and max_samples_per_instance, for both history
\* kinds and every limit, provided no payload takes the byte counter, a usize,
\* past its end on top of a full quota.
THEOREM CacheKeepsLimits ==
    ASSUME NoOverflow
    PROVE  CacheSpec => []LimitsKept
<1>1. CacheInit => CacheInv /\ LimitsOk
  BY CacheInitInv
<1>2. CacheInv /\ LimitsOk /\ [CacheNext]_cacheVars => CacheInv' /\ LimitsOk'
  BY CacheTypeStep, CounterStep, SlotsStep, AloneStep, LimitsStep DEF CacheInv
<1>3. CacheInv /\ LimitsOk => LimitsKept
  <2> SUFFICES ASSUME CacheInv, LimitsOk, pc = "idle", ppc = "idle"
               PROVE  /\ Len(ring) <= MaxSamples /\ Len(ring) <= PerInstance
                      /\ Bytes(ring) <= MaxQuota
    BY DEF LimitsKept
  <2>1. Total = Bytes(ring)
    <3>1. owed = 0 /\ VictimBytes = 0 /\ Bytes(ring) \in Nat
      BY TotalNat DEF CacheInv, HeldOk, VictimBytes
    <3> QED BY <3>1 DEF Total
  <2> QED BY <2>1 DEF LimitsOk
<1> QED
  BY <1>1, <1>2, <1>3, PTL DEF CacheSpec
=============================================================================
