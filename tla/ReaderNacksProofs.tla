--------------------------- MODULE ReaderNacksProofs ---------------------------
(***************************************************************************)
(* Proofs about ReaderNacks, for any number of writers, any depth, any     *)
(* number of gap ranges and retries, and any loss or order of arrival.     *)
(***************************************************************************)
EXTENDS ReaderNacks, TLAPS

-------------------------------------------------------------------------------
(* The tracker.                                                            *)

\* merge_and_compact drops only numbers the tracker has.
LEMMA ExcessInside ==
    ASSUME NEW S
    PROVE  Excess(S) \subseteq S
BY DEF Excess, RunOf

\* What on_receive makes of the gaps: the numbers between the highest number
\* and the new one become gaps, the new one is none, and what is dropped is
\* accounted for.
LEMMA GapsAfter ==
    ASSUME NEW last \in Nat, NEW S \in SUBSET Nat, NEW s \in Nat, \A t \in S : t < last
    PROVE  /\ Gaps(last, S, s) \subseteq (S \cup (last + 1) .. (s - 1)) \ {s}
           /\ (S \cup (last + 1) .. (s - 1)) \ {s}
                 \subseteq Gaps(last, S, s) \cup Dropped(last, S, s)
           /\ Dropped(last, S, s) \subseteq S \cup (last + 1) .. (s - 1)
<1>1. CASE s > last + 1
  <2> DEFINE all == S \cup (last + 1) .. (s - 1)
  <2>1. Gaps(last, S, s) = all \ Excess(all) /\ Dropped(last, S, s) = Excess(all)
    BY <1>1 DEF Gaps, Dropped
  <2>2. Excess(all) \subseteq all
    BY ExcessInside
  <2>3. s \notin all
    BY <1>1
  <2> HIDE DEF all
  <2>4. /\ Gaps(last, S, s) \subseteq all \ {s}
        /\ all \ {s} \subseteq Gaps(last, S, s) \cup Dropped(last, S, s)
        /\ Dropped(last, S, s) \subseteq all
    BY <2>1, <2>2, <2>3
  <2> QED BY <2>4 DEF all
<1>2. CASE s <= last
  <2>1. Gaps(last, S, s) = S \ {s} /\ Dropped(last, S, s) = {} /\ (last + 1) .. (s - 1) = {}
    BY <1>2 DEF Gaps, Dropped, Filled
  <2> QED BY <2>1
<1>3. CASE s = last + 1
  <2>1. Gaps(last, S, s) = S /\ Dropped(last, S, s) = {} /\ (last + 1) .. (s - 1) = {} /\ s \notin S
    BY <1>3 DEF Gaps, Dropped
  <2> QED BY <2>1
<1> QED BY <1>1, <1>2, <1>3

-------------------------------------------------------------------------------
(* The inductive invariant.                                                *)

\* The tracker's highest number covers all it was told of.
TopInv == \A s \in TakenNumbers \cup skipped : s <= top

\* The handler's mark is set by the first heartbeat and covers it.
HeardInv ==
    \A w \in Writers : /\ heard[w] <= lastSeen[w]
                       /\ heard[w] = Unseen => lastSeen[w] = Unseen

IInv == TypeOK /\ TopInv /\ GapsExact /\ TimerCovers /\ HeardInv /\ RequestedOnce

\* It holds before anything is written.
LEMMA InitIInv == Init => IInv
<1> SUFFICES ASSUME Init PROVE IInv
  OBVIOUS
<1>1. TypeOK
  <2>1. hbCount \in [Writers -> [Sources -> 0 .. MaxHb]]
    <3>1. 0 \in 0 .. MaxHb /\ 1 \in 0 .. MaxHb
      BY ReaderNacksAssumption
    <3> QED BY <3>1 DEF Init
  <2>2. Unseen \in Unseen .. MaxSeq /\ Unseen \in Unseen .. MaxHb - 1 /\ 0 \in 0 .. MaxSeq
        /\ 0 \in 0 .. MaxRetries - 1
    BY ReaderNacksAssumption DEF Unseen
  <2> QED BY <2>1, <2>2 DEF Init, TypeOK
<1>2. TakenNumbers = {} /\ skipped = {} /\ top = 0 /\ gaps = {}
  BY DEF Init, TakenNumbers
<1>3. TopInv /\ GapsExact /\ TimerCovers
  BY <1>2 DEF Init, TopInv, GapsExact, TimerCovers
<1>4. HeardInv /\ RequestedOnce
  BY DEF Init, HeardInv, RequestedOnce, Unseen
<1> QED BY <1>1, <1>3, <1>4 DEF IInv

-------------------------------------------------------------------------------
\* The oldest sample a cache has is one that was written.
LEMMA OldestIs ==
    ASSUME NEW n \in 1 .. MaxSeq
    PROVE  Oldest(n) \in Seqs
BY ReaderNacksAssumption DEF Oldest, Seqs

\* A heartbeat that a writer with n samples sends on one of its counters.
LEMMA AnnouncesType ==
    ASSUME TypeOK, NEW w \in Writers, NEW c \in Sources, hbCount[w][c] < MaxHb,
           NEW n \in 1 .. MaxSeq, NEW last \in Seqs
    PROVE  /\ Announces(w, c, Oldest(n), last)
                 \in [writer : Writers, count : 0 .. MaxHb - 1, first : Seqs, last : Seqs]
           /\ [hbCount EXCEPT ![w][c] = @ + 1] \in [Writers -> [Sources -> 0 .. MaxHb]]
<1>1. hbCount[w][c] \in 0 .. MaxHb - 1 /\ hbCount[w][c] + 1 \in 0 .. MaxHb
  BY ReaderNacksAssumption DEF TypeOK
<1>2. Oldest(n) \in Seqs
  BY OldestIs
<1>3. [hbCount EXCEPT ![w][c] = @ + 1] \in [Writers -> [Sources -> 0 .. MaxHb]]
  BY <1>1 DEF TypeOK
<1> QED BY <1>1, <1>2, <1>3 DEF Announces

\* Where the handler starts: not below the mark.
LEMMA SeenIs ==
    ASSUME TypeOK, NEW h \in hbs
    PROVE  /\ h.writer \in Writers /\ h.last \in Seqs /\ h.first \in Seqs
           /\ h.count \in 0 .. MaxHb - 1
           /\ Seen(h) \in 0 .. MaxSeq
           /\ lastSeen[h.writer] <= Seen(h)
<1>1. h \in [writer : Writers, count : 0 .. MaxHb - 1, first : Seqs, last : Seqs]
  BY DEF TypeOK
<1>2. h.writer \in Writers /\ h.last \in Seqs /\ h.first \in Seqs /\ h.count \in 0 .. MaxHb - 1
  BY <1>1
<1>3. lastSeen[h.writer] \in Unseen .. MaxSeq
  BY <1>2 DEF TypeOK
<1>4. Seen(h) \in 0 .. MaxSeq /\ lastSeen[h.writer] <= Seen(h)
  BY <1>2, <1>3, ReaderNacksAssumption DEF Seen, Seqs, Unseen
<1> QED BY <1>2, <1>4

\* on_receive keeps the timer in step with the gaps.
LEMMA SchedulerCovers ==
    ASSUME TypeOK, TimerCovers, SchedulerAfter(gaps')
    PROVE  /\ TimerCovers'
           /\ timer' \in {"off", "armed", "due"} /\ retries' \in 0 .. MaxRetries - 1
           /\ gaveUp' \in BOOLEAN
<1>1. timer' \in {"off", "armed", "due"} /\ retries' \in 0 .. MaxRetries - 1 /\ gaveUp' \in BOOLEAN
  BY ReaderNacksAssumption DEF SchedulerAfter, TypeOK
<1>2. TimerCovers'
  BY DEF SchedulerAfter, TimerCovers, TypeOK
<1> QED BY <1>1, <1>2

\* So does sending a request.
LEMMA FlushCovers ==
    ASSUME TypeOK, gaps # {}, gaps' = gaps, Flush
    PROVE  /\ TimerCovers'
           /\ timer' \in {"off", "armed", "due"} /\ retries' \in 0 .. MaxRetries - 1
           /\ gaveUp' \in BOOLEAN
<1>1. timer' \in {"off", "armed", "due"} /\ retries' \in 0 .. MaxRetries - 1 /\ gaveUp' \in BOOLEAN
  BY ReaderNacksAssumption DEF Flush, TypeOK
<1>2. TimerCovers'
  BY DEF Flush, TimerCovers
<1> QED BY <1>1, <1>2

\* What the tracker was told of are sequence numbers.
LEMMA ToldAreSeqs ==
    ASSUME TypeOK
    PROVE  TakenNumbers \subseteq Seqs /\ skipped \subseteq Seqs
<1>1. ASSUME NEW n \in TakenNumbers PROVE n \in Seqs
  <2>1. PICK y \in taken : n = y[2]
    BY DEF TakenNumbers
  <2>2. y \in Writers \X Seqs
    BY DEF TypeOK
  <2> QED BY <2>1, <2>2
<1> QED BY <1>1 DEF TypeOK

\* Taking one sample, by either path, keeps the tracker exact.
LEMMA TrackerTakes ==
    ASSUME TypeOK, TopInv, GapsExact, NEW x \in ring,
           taken' = taken \cup {x}, gaps' = Gaps(top, gaps, x[2]), skipped' = skipped,
           overflow' = overflow \cup Dropped(top, gaps, x[2]), top' = Top(top, x[2])
    PROVE  /\ TopInv' /\ GapsExact'
           /\ gaps' \subseteq Seqs /\ overflow' \subseteq Seqs /\ top' \in 0 .. MaxSeq
<1> DEFINE s == x[2]
<1>1. s \in Seqs /\ s \in Nat /\ top \in Nat /\ gaps \in SUBSET Nat /\ MaxSeq \in Nat
  BY ReaderNacksAssumption DEF TypeOK, Seqs
<1>2. TakenNumbers' = TakenNumbers \cup {s}
  BY DEF TakenNumbers
<1> HIDE DEF s
<1>3. /\ gaps' = Gaps(top, gaps, s) /\ overflow' = overflow \cup Dropped(top, gaps, s)
      /\ top' >= top /\ top' >= s /\ top' \in 0 .. MaxSeq /\ (top' = top \/ top' = s)
  <2>1. /\ gaps' = Gaps(top, gaps, s) /\ overflow' = overflow \cup Dropped(top, gaps, s)
        /\ top' = Top(top, s)
    BY DEF s
  <2>2. top' = IF s > top THEN s ELSE top
    BY <2>1 DEF Top
  <2> QED BY <1>1, <2>1, <2>2 DEF Seqs, TypeOK
<1>4. /\ gaps' \subseteq (gaps \cup (top + 1) .. (s - 1)) \ {s}
      /\ (gaps \cup (top + 1) .. (s - 1)) \ {s} \subseteq gaps' \cup overflow'
      /\ Dropped(top, gaps, s) \subseteq gaps \cup (top + 1) .. (s - 1)
  BY <1>1, <1>3, GapsAfter DEF GapsExact
<1>5. \A n \in TakenNumbers \cup skipped : n \in Nat /\ n <= top
  BY ToldAreSeqs DEF TopInv, Seqs
<1>6. TopInv'
  BY <1>1, <1>2, <1>3, <1>5 DEF TopInv
<1>7. gaps' \cap (TakenNumbers' \cup skipped') = {}
  BY <1>1, <1>2, <1>4, <1>5 DEF GapsExact
<1>8. (1 .. top') \ (TakenNumbers' \cup skipped' \cup overflow') \subseteq gaps'
  <2> SUFFICES ASSUME NEW n \in 1 .. top', n \notin TakenNumbers', n \notin skipped',
                      n \notin overflow'
               PROVE  n \in gaps'
    OBVIOUS
  <2>1. n # s /\ n \notin TakenNumbers /\ n \notin skipped /\ n \notin overflow /\ n \in Nat
    BY <1>2, <1>3
  <2>2. n \in gaps \cup (top + 1) .. (s - 1)
    BY <1>1, <1>3, <2>1 DEF GapsExact
  <2> QED BY <1>4, <2>1, <2>2
<1>9. \A n \in gaps' : n < top'
  BY <1>1, <1>3, <1>4 DEF GapsExact
<1>10. gaps' \subseteq Seqs /\ overflow' \subseteq Seqs
  <2>1. gaps \cup (top + 1) .. (s - 1) \subseteq Seqs
    BY <1>1 DEF TypeOK, Seqs
  <2> QED BY <1>3, <1>4, <2>1 DEF TypeOK
<1> QED BY <1>3, <1>6, <1>7, <1>8, <1>9, <1>10 DEF GapsExact

\* A heartbeat that finds m missing keeps it exact: everything from the first of
\* m to what was announced is accounted for at once.
LEMMA TrackerSkips ==
    ASSUME TypeOK, TopInv, GapsExact, NEW a \in 1 .. MaxSeq, NEW b \in a .. MaxSeq,
           taken' = taken, gaps' = Gaps(top, gaps, a) \ (a .. b),
           skipped' = skipped \cup (a .. b),
           overflow' = overflow \cup Dropped(top, gaps, a), top' = Top(top, b)
    PROVE  /\ TopInv' /\ GapsExact'
           /\ gaps' \subseteq Seqs /\ overflow' \subseteq Seqs /\ top' \in 0 .. MaxSeq
           /\ skipped' \subseteq Seqs
<1>1. a \in Nat /\ b \in Nat /\ a <= b /\ top \in Nat /\ gaps \in SUBSET Nat /\ MaxSeq \in Nat
  BY ReaderNacksAssumption DEF TypeOK, Seqs
<1>2. TakenNumbers' = TakenNumbers
  BY DEF TakenNumbers
<1>3. top' >= top /\ top' >= b /\ top' \in 0 .. MaxSeq /\ (top' = top \/ top' = b)
  <2>1. top' = IF b > top THEN b ELSE top
    BY DEF Top
  <2> QED BY <1>1, <2>1 DEF TypeOK
<1>4. /\ gaps' \subseteq (gaps \cup (top + 1) .. (a - 1)) \ (a .. b)
      /\ (gaps \cup (top + 1) .. (a - 1)) \ (a .. b) \subseteq gaps' \cup overflow'
      /\ Dropped(top, gaps, a) \subseteq gaps \cup (top + 1) .. (a - 1)
  <2>1. /\ Gaps(top, gaps, a) \subseteq (gaps \cup (top + 1) .. (a - 1)) \ {a}
        /\ (gaps \cup (top + 1) .. (a - 1)) \ {a}
              \subseteq Gaps(top, gaps, a) \cup Dropped(top, gaps, a)
        /\ Dropped(top, gaps, a) \subseteq gaps \cup (top + 1) .. (a - 1)
    BY <1>1, GapsAfter DEF GapsExact
  <2>2. a \in a .. b
    BY <1>1
  <2> QED BY <2>1, <2>2
<1>5. \A n \in TakenNumbers \cup skipped : n \in Nat /\ n <= top
  BY ToldAreSeqs DEF TopInv, Seqs
<1>6. TopInv'
  BY <1>1, <1>2, <1>3, <1>5 DEF TopInv
<1>7. gaps' \cap (TakenNumbers' \cup skipped') = {}
  <2> SUFFICES ASSUME NEW n \in gaps', n \in TakenNumbers' \cup skipped' PROVE FALSE
    OBVIOUS
  <2>1. n \notin a .. b /\ (n \in gaps \/ n \in (top + 1) .. (a - 1))
    BY <1>4
  <2>2. n \in TakenNumbers \cup skipped
    BY <1>2, <2>1
  <2>3. n \notin (top + 1) .. (a - 1)
    BY <1>1, <1>5, <2>2
  <2> QED BY <2>1, <2>2, <2>3 DEF GapsExact
<1>8. (1 .. top') \ (TakenNumbers' \cup skipped' \cup overflow') \subseteq gaps'
  <2> SUFFICES ASSUME NEW n \in 1 .. top', n \notin TakenNumbers', n \notin skipped',
                      n \notin overflow'
               PROVE  n \in gaps'
    OBVIOUS
  <2>1. /\ n \notin a .. b /\ n \notin TakenNumbers /\ n \notin skipped
        /\ n \notin overflow /\ n \in Nat
    BY <1>2, <1>3
  <2>2. n \in gaps \cup (top + 1) .. (a - 1)
    <3>1. CASE n <= top
      BY <1>1, <2>1, <3>1 DEF GapsExact
    <3>2. CASE n > top
      BY <1>1, <1>3, <2>1, <3>2
    <3> QED BY <1>1, <2>1, <3>1, <3>2
  <2> QED BY <1>4, <2>1, <2>2
<1>9. \A n \in gaps' : n < top'
  BY <1>1, <1>3, <1>4 DEF GapsExact
<1>10. gaps' \subseteq Seqs /\ overflow' \subseteq Seqs /\ skipped' \subseteq Seqs
  <2>1. gaps \cup (top + 1) .. (a - 1) \subseteq Seqs /\ a .. b \subseteq Seqs
    BY <1>1 DEF TypeOK, Seqs
  <2> QED BY <1>4, <2>1 DEF TypeOK
<1> QED BY <1>3, <1>6, <1>7, <1>8, <1>9, <1>10 DEF GapsExact

-------------------------------------------------------------------------------
\* Every step keeps the invariant.
LEMMA NextIInv ==
    ASSUME IInv, [Next]_vars
    PROVE  IInv'
<1> USE DEF writerVars, readerVars, handlerVars, trackerVars, schedVars
<1>0. TypeOK /\ TopInv /\ GapsExact /\ TimerCovers /\ HeardInv /\ RequestedOnce
  BY DEF IInv
<1>1. ASSUME UNCHANGED <<trackerVars, taken, skipped>>
      PROVE  TopInv' /\ GapsExact'
  BY <1>0, <1>1 DEF TopInv, GapsExact, TakenNumbers
<1>2. ASSUME UNCHANGED <<gaps, timer, gaveUp>>
      PROVE  TimerCovers'
  BY <1>0, <1>2 DEF TimerCovers
<1>3. ASSUME UNCHANGED <<heard, lastSeen, asked>>
      PROVE  HeardInv' /\ RequestedOnce'
  BY <1>0, <1>3 DEF HeardInv, RequestedOnce
<1>4. ASSUME NEW w \in Writers, NEW beat \in BOOLEAN, Write(w, beat) PROVE IInv'
  <2>1. written[w] + 1 \in Seqs /\ written[w] + 1 \in 0 .. MaxSeq /\ written[w] + 1 \in 1 .. MaxSeq
    BY <1>0, <1>4, ReaderNacksAssumption DEF TypeOK, Write, Seqs
  <2>2. /\ hbCount' \in [Writers -> [Sources -> 0 .. MaxHb]]
        /\ hbs' \subseteq [writer : Writers, count : 0 .. MaxHb - 1, first : Seqs, last : Seqs]
    <3>1. CASE ~beat
      BY <1>0, <1>4, <3>1 DEF TypeOK, Write
    <3>2. CASE beat
      <4> DEFINE h == Announces(w, "write", Oldest(written[w] + 1), written[w] + 1)
      <4>1. /\ hbCount[w]["write"] < MaxHb /\ hbCount' = [hbCount EXCEPT ![w]["write"] = @ + 1]
            /\ hbs' = hbs \cup {h}
        BY <1>4, <3>2 DEF Write
      <4>2. "write" \in Sources
        BY DEF Sources
      <4>3. /\ h \in [writer : Writers, count : 0 .. MaxHb - 1, first : Seqs, last : Seqs]
            /\ [hbCount EXCEPT ![w]["write"] = @ + 1] \in [Writers -> [Sources -> 0 .. MaxHb]]
        BY <1>0, <2>1, <4>1, <4>2, AnnouncesType
      <4> HIDE DEF h
      <4> QED BY <1>0, <4>1, <4>3 DEF TypeOK
    <3> QED BY <3>1, <3>2
  <2>3. TypeOK'
    <3>1. /\ written' = [written EXCEPT ![w] = @ + 1]
          /\ ring' = ring \cup {<<w, written[w] + 1>>}
          /\ UNCHANGED <<loaded, readerVars, taking, reqs, handlerVars, trackerVars,
                         schedVars, taken, skipped>>
      BY <1>4 DEF Write
    <3>2. written' \in [Writers -> 0 .. MaxSeq] /\ ring' \subseteq Writers \X Seqs
      BY <1>0, <2>1, <3>1 DEF TypeOK
    <3> QED BY <1>0, <2>2, <3>1, <3>2 DEF TypeOK
  <2> QED BY <1>1, <1>2, <1>3, <1>4, <2>3 DEF IInv, Write
<1>5. ASSUME NEW w \in Writers, NEW last \in Seqs, HeartbeatLoop(w, last) PROVE IInv'
  <2>0. PICK n \in last .. written[w] : hbs' = hbs \cup {Announces(w, "thread", Oldest(n), last)}
    BY <1>5 DEF HeartbeatLoop
  <2> DEFINE h == Announces(w, "thread", Oldest(n), last)
  <2>1. /\ hbCount[w]["thread"] < MaxHb /\ hbCount' = [hbCount EXCEPT ![w]["thread"] = @ + 1]
        /\ hbs' = hbs \cup {h} /\ loaded' = [loaded EXCEPT ![w] = last]
    BY <1>5, <2>0 DEF HeartbeatLoop
  <2>2. "thread" \in Sources /\ last \in 0 .. MaxSeq
    BY ReaderNacksAssumption DEF Sources, Seqs
  <2>3. n \in 1 .. MaxSeq
    BY <1>0, <2>0, ReaderNacksAssumption DEF TypeOK, Seqs
  <2>4. /\ h \in [writer : Writers, count : 0 .. MaxHb - 1, first : Seqs, last : Seqs]
        /\ [hbCount EXCEPT ![w]["thread"] = @ + 1] \in [Writers -> [Sources -> 0 .. MaxHb]]
    BY <1>0, <2>1, <2>2, <2>3, AnnouncesType
  <2> HIDE DEF h
  <2>5. TypeOK'
    <3>1. UNCHANGED <<written, readerVars, taking, ring, reqs, handlerVars, trackerVars,
                      schedVars, taken, skipped>>
      BY <1>5 DEF HeartbeatLoop
    <3> QED BY <1>0, <2>1, <2>2, <2>4, <3>1 DEF TypeOK
  <2> QED BY <1>1, <1>2, <1>3, <1>5, <2>5 DEF IInv, HeartbeatLoop
<1>6. ASSUME NEW q \in reqs, OnNack(q) PROVE IInv'
  <2>1. {x \in Writers \X q : x[2] \in Oldest(written[x[1]]) .. written[x[1]]} \subseteq Writers \X Seqs
    BY <1>0 DEF TypeOK
  <2>2. TypeOK'
    BY <1>0, <1>6, <2>1 DEF TypeOK, OnNack
  <2> QED BY <1>1, <1>2, <1>3, <1>6, <2>2 DEF IInv, OnNack
<1>7. ASSUME Create PROVE IInv'
  <2>1. TypeOK'
    BY <1>0, <1>7 DEF TypeOK, Create
  <2> QED BY <1>1, <1>2, <1>3, <1>7, <2>1 DEF IInv, Create
<1>8. ASSUME NEW x \in ring, OnReceive(x), taking' \in BOOLEAN PROVE IInv'
  <2>1. /\ TopInv' /\ GapsExact'
        /\ gaps' \subseteq Seqs /\ overflow' \subseteq Seqs /\ top' \in 0 .. MaxSeq
    BY <1>0, <1>8, TrackerTakes DEF OnReceive
  <2>2. /\ TimerCovers'
        /\ timer' \in {"off", "armed", "due"} /\ retries' \in 0 .. MaxRetries - 1
        /\ gaveUp' \in BOOLEAN
    BY <1>0, <1>8, SchedulerCovers DEF OnReceive
  <2>3. TypeOK'
    BY <1>0, <1>8, <2>1, <2>2 DEF TypeOK, OnReceive
  <2> QED BY <1>3, <1>8, <2>1, <2>2, <2>3 DEF IInv, OnReceive
<1>9. ASSUME NEW x \in ring, TryTake(x) \/ PumpOne(x) PROVE IInv'
  BY <1>8, <1>9 DEF TryTake, PumpOne
<1>10. ASSUME MaybeSendNack PROVE IInv'
  <2>1. \/ gaps # {} /\ Flush
        \/ UNCHANGED <<reqs, schedVars>>
    BY <1>10 DEF MaybeSendNack
  <2>2. /\ UNCHANGED <<writerVars, readerVars, ring, hbs, handlerVars, trackerVars, taken, skipped>>
        /\ taking' = FALSE
    BY <1>10 DEF MaybeSendNack
  <2>3. /\ TimerCovers'
        /\ timer' \in {"off", "armed", "due"} /\ retries' \in 0 .. MaxRetries - 1
        /\ gaveUp' \in BOOLEAN /\ reqs' \subseteq SUBSET Seqs
    <3>1. CASE gaps # {} /\ Flush
      <4>1. reqs' \subseteq SUBSET Seqs
        BY <1>0, <3>1 DEF Flush, TypeOK
      <4> QED BY <1>0, <2>2, <3>1, <4>1, FlushCovers
    <3>2. CASE UNCHANGED <<reqs, schedVars>>
      BY <1>0, <1>2, <2>2, <3>2 DEF TypeOK
    <3> QED BY <2>1, <3>1, <3>2
  <2>4. TypeOK'
    BY <1>0, <2>2, <2>3 DEF TypeOK
  <2> QED BY <1>1, <1>3, <2>2, <2>3, <2>4 DEF IInv
<1>11. ASSUME Expire PROVE IInv'
  <2>1. TypeOK' /\ TimerCovers'
    BY <1>0, <1>11 DEF TypeOK, Expire, TimerCovers
  <2> QED BY <1>1, <1>3, <1>11, <2>1 DEF IInv, Expire
<1>12. ASSUME NEW h \in hbs, OnHeartbeat(h) PROVE IInv'
  <2> DEFINE w == h.writer
             m == MissingBy(h)
  <2>1. /\ w \in Writers /\ h.last \in Seqs /\ h.count \in 0 .. MaxHb - 1
        /\ Seen(h) \in 0 .. MaxSeq /\ lastSeen[w] <= Seen(h)
    BY <1>0, SeenIs
  <2>2. m \subseteq Seqs /\ \A s \in m : s > Seen(h) /\ s <= h.last
    BY <2>1, ReaderNacksAssumption DEF MissingBy, Seqs
  <2>3. /\ TopInv' /\ GapsExact' /\ TimerCovers'
        /\ gaps' \subseteq Seqs /\ overflow' \subseteq Seqs /\ top' \in 0 .. MaxSeq
        /\ skipped' \subseteq Seqs
        /\ timer' \in {"off", "armed", "due"} /\ retries' \in 0 .. MaxRetries - 1
        /\ gaveUp' \in BOOLEAN
    <3>1. CASE m = {}
      <4>1. UNCHANGED <<trackerVars, schedVars, taken, skipped>>
        BY <1>12, <3>1 DEF OnHeartbeat
      <4> QED BY <1>0, <1>1, <1>2, <4>1 DEF TypeOK
    <3>2. CASE m # {}
      <4>1. /\ m = Seen(h) + 1 .. h.last
            /\ Seen(h) + 1 \in 1 .. MaxSeq /\ h.last \in Seen(h) + 1 .. MaxSeq
        BY <2>1, <3>2, ReaderNacksAssumption DEF MissingBy, Seqs
      <4>2. /\ gaps' = Gaps(top, gaps, Seen(h) + 1) \ m
            /\ overflow' = overflow \cup Dropped(top, gaps, Seen(h) + 1)
            /\ top' = Top(top, h.last) /\ SchedulerAfter(gaps')
            /\ taken' = taken /\ skipped' = skipped \cup m
        BY <1>12, <3>2 DEF OnHeartbeat
      <4>3. /\ TopInv' /\ GapsExact'
            /\ gaps' \subseteq Seqs /\ overflow' \subseteq Seqs /\ top' \in 0 .. MaxSeq
            /\ skipped' \subseteq Seqs
        BY <1>0, <4>1, <4>2, TrackerSkips
      <4> QED BY <1>0, <4>2, <4>3, SchedulerCovers
    <3> QED BY <3>1, <3>2
  <2>4. /\ hbs' \subseteq hbs /\ UNCHANGED <<writerVars, readerVars, taking, ring, taken>>
        /\ heard' = [heard EXCEPT ![w] = IF @ = Unseen THEN h.last ELSE @]
        /\ asked' = [asked EXCEPT ![w] = @ \cup m]
        /\ lastSeen' = [lastSeen EXCEPT ![w] = Top(Seen(h), h.last)]
        /\ reqs' \subseteq reqs \cup {m}
    BY <1>12 DEF OnHeartbeat
  <2>5. lastCount' \in [Writers -> Unseen .. MaxHb - 1]
    <3>1. \/ lastCount' = [lastCount EXCEPT ![w] = h.count]
          \/ lastCount' = [lastCount EXCEPT ![w] = lastCount[w]]
      BY <1>12 DEF OnHeartbeat
    <3>2. h.count \in Unseen .. MaxHb - 1 /\ lastCount[w] \in Unseen .. MaxHb - 1
      BY <1>0, <2>1, ReaderNacksAssumption DEF TypeOK, Unseen
    <3> QED BY <1>0, <3>1, <3>2 DEF TypeOK
  <2>6. /\ Top(Seen(h), h.last) \in 0 .. MaxSeq /\ Top(Seen(h), h.last) >= Seen(h)
        /\ Top(Seen(h), h.last) \in Unseen .. MaxSeq /\ Top(Seen(h), h.last) >= h.last
        /\ h.last \in Unseen .. MaxSeq
    BY <2>1, ReaderNacksAssumption DEF Top, Seqs, Unseen
  <2>7. Volatile /\ lastSeen[w] = Unseen => m = {}
    BY <2>1 DEF MissingBy, Seen, Seqs
  <2> HIDE DEF w, m
  <2>8. heard' \in [Writers -> Unseen .. MaxSeq]
    BY <1>0, <2>1, <2>4, <2>6 DEF TypeOK
  <2>9. TypeOK'
    <3>1. asked' \in [Writers -> SUBSET Seqs] /\ lastSeen' \in [Writers -> Unseen .. MaxSeq]
      BY <1>0, <2>1, <2>2, <2>4, <2>6 DEF TypeOK
    <3>2. reqs' \subseteq SUBSET Seqs
      BY <1>0, <2>2, <2>4 DEF TypeOK
    <3>3. hbs' \subseteq [writer : Writers, count : 0 .. MaxHb - 1, first : Seqs, last : Seqs]
      BY <1>0, <2>4 DEF TypeOK
    <3> QED BY <1>0, <2>3, <2>4, <2>5, <2>8, <3>1, <3>2, <3>3 DEF TypeOK
  <2>10. /\ lastSeen'[w] = Top(Seen(h), h.last)
         /\ heard'[w] = IF heard[w] = Unseen THEN h.last ELSE heard[w]
         /\ \A v \in Writers : v # w => lastSeen'[v] = lastSeen[v] /\ heard'[v] = heard[v]
    BY <1>0, <2>1, <2>4 DEF TypeOK
  <2>11. /\ lastSeen[w] \in Int /\ heard[w] \in Int /\ Seen(h) \in Int /\ h.last \in Int
         /\ Top(Seen(h), h.last) \in Int /\ Unseen < 0
    BY <1>0, <2>1, <2>6, ReaderNacksAssumption DEF TypeOK, Seqs, Unseen
  <2>12. HeardInv'
    <3>1. heard'[w] <= lastSeen'[w] /\ heard'[w] # Unseen
      BY <1>0, <2>1, <2>6, <2>10, <2>11 DEF HeardInv, Seqs, Unseen
    <3> QED BY <1>0, <2>10, <3>1 DEF HeardInv
  <2>13. RequestedOnce'
    <3>1. ASSUME NEW v \in Writers, NEW s \in asked'[v]
          PROVE  s <= lastSeen'[v] /\ (Volatile => s > heard'[v])
      <4>1. s \in asked[v] \/ (v = w /\ s \in m)
        BY <1>0, <2>1, <2>4 DEF TypeOK
      <4>2. CASE v # w
        BY <1>0, <2>10, <4>1, <4>2 DEF RequestedOnce
      <4>3. CASE v = w /\ s \in asked[v]
        <5>1. s \in Seqs /\ s \in Int /\ s > 0 /\ s <= lastSeen[w] /\ (Volatile => s > heard[w])
          BY <1>0, <4>3 DEF TypeOK, RequestedOnce, Seqs
        <5>2. lastSeen[w] # Unseen
          BY <2>11, <5>1
        <5>3. heard[w] # Unseen
          BY <1>0, <2>1, <5>2 DEF HeardInv
        <5> QED BY <2>1, <2>6, <2>10, <2>11, <4>3, <5>1, <5>3
      <4>4. CASE v = w /\ s \in m
        <5>1. s \in Int /\ s > Seen(h) /\ s <= h.last
          BY <2>2, <4>4 DEF Seqs
        <5>2. ASSUME Volatile PROVE s > heard'[v]
          <6>1. heard[w] # Unseen /\ heard[w] <= lastSeen[w]
            BY <1>0, <2>1, <2>7, <4>4, <5>2 DEF HeardInv
          <6> QED BY <2>1, <2>10, <2>11, <4>4, <5>1, <6>1
        <5> QED BY <2>6, <2>10, <2>11, <4>4, <5>1, <5>2
      <4> QED BY <4>1, <4>2, <4>3, <4>4
    <3> QED BY <3>1 DEF RequestedOnce
  <2> QED BY <2>3, <2>9, <2>12, <2>13 DEF IInv
<1>13. ASSUME UNCHANGED vars PROVE IInv'
  <2>1. TypeOK'
    BY <1>0, <1>13 DEF vars, TypeOK
  <2> QED BY <1>1, <1>2, <1>3, <1>13, <2>1 DEF IInv, vars
<1> QED
  BY <1>4, <1>5, <1>6, <1>7, <1>8, <1>9, <1>10, <1>11, <1>12, <1>13 DEF Next

-------------------------------------------------------------------------------
\* GapTracker and NackScheduler agree in every order of arrival: up to the
\* highest number seen the tracker has exactly what is missing, and its timer
\* runs exactly while something is, until the scheduler gives up.
THEOREM TrackerExact == Spec => [](TypeOK /\ GapsExact /\ TimerCovers)
<1>1. Init => IInv
  BY InitIInv
<1>2. IInv /\ [Next]_vars => IInv'
  BY NextIInv
<1> QED BY <1>1, <1>2, PTL DEF Spec, IInv

\* The heartbeat handler requests a number at most once, and for a VOLATILE reader
\* none up to the last number of the first heartbeat it handled, however heartbeats
\* are delayed, lost, overtaken or sent before the reader existed
\* (ReaderHeartbeatHandler::on_heartbeat).
THEOREM HandlerAsksOnce == Spec => []RequestedOnce
<1>1. Init => IInv
  BY InitIInv
<1>2. IInv /\ [Next]_vars => IInv'
  BY NextIInv
<1> QED BY <1>1, <1>2, PTL DEF Spec, IInv
===============================================================================
