------------------------- MODULE IntraProcessProofs -------------------------
(***************************************************************************)
(* Delivery inside a process, for any number of readers, slots and samples *)
(* and any size of ring and cache.                                         *)
(*                                                                         *)
(* Slots: every reserved slot is with the writer, in the history cache, in *)
(* a ring or in the hands of a reader.  While one reader has joined a      *)
(* writer without replay each slot is in one of these places only, so the  *)
(* one who releases it is the last to use it.                              *)
(*                                                                         *)
(* Replay: the cache is the end of what was stored, a joining reader has   *)
(* had pushed or is still to be pushed all of it, and its ring has room    *)
(* for the rest of it.                                                     *)
(***************************************************************************)
EXTENDS IntraProcess, SequenceTheorems, FiniteSetTheorems, TLAPS

-----------------------------------------------------------------------------
(* The inductive invariant *)

\* Where the writer is: it has an entry while it pushes one, and the number
\* it took is the last one.
WriterOk ==
    /\ wpc \in {"lock", "push"} => entry \in Entry
    /\ wpc # "idle" => nextSeq > 1

\* A reader is registered once, at the end of add_reader; until it has
\* begun its ring is empty and it holds nothing.
BoundOk ==
    /\ \A i \in 1 .. Len(bound) : jpc[bound[i]] \in {"bound", "dropped"}
    /\ \A i, j \in 1 .. Len(bound) : bound[i] = bound[j] => i = j
    /\ \A r \in Reader : jpc[r] = "new" => rings[r] = <<>> /\ hand[r] = <<>>

\* The push goes through the readers registered when it took the lock, and
\* before it has tried the first of them nothing is pushed.
PushOk ==
    wpc = "push" =>
        /\ \A i \in 1 .. Len(todo) : jpc[todo[i]] \in {"bound", "dropped"}
        /\ Len(todo) <= Len(bound)
        /\ pushed => Len(todo) < Len(bound)

\* Slot s belongs to an entry of the history cache, of a ring or of a reader.
Kept(s) ==
    \/ \E i \in 1 .. Len(cache) : cache[i].slot = s
    \/ \E r \in Reader : \E i \in 1 .. Len(rings[r]) : rings[r][i].slot = s
    \/ \E r \in Reader : hand[r] # <<>> /\ hand[r].slot = s

\* The writer still owns the slot of its entry.
Writing == wpc = "lock" \/ (wpc = "push" /\ ~pushed)

\* A reserved slot is accounted for.
Accounted == \A s \in used : Kept(s) \/ (Writing /\ entry.slot = s)

\* At most one reader has begun to join, and there is no replay.
Sole ==
    /\ ~durable
    /\ \A r, q \in Reader : jpc[r] # "new" /\ jpc[q] # "new" => r = q

\* The slot of e is reserved and holds the sample of e.
Intact(e) == e.slot \in used /\ content[e.slot] = e.seq

\* Every entry that is held is intact ...
AllIntact ==
    /\ \A i \in 1 .. Len(cache) : Intact(cache[i])
    /\ \A r \in Reader : \A i \in 1 .. Len(rings[r]) : Intact(rings[r][i])
    /\ \A r \in Reader : hand[r] # <<>> => Intact(hand[r])
    /\ Writing => Intact(entry)

\* ... and has the slot to itself.
Disjoint ==
    /\ \A i, j \in 1 .. Len(cache) : cache[i].slot = cache[j].slot => i = j
    /\ \A r \in Reader :
        /\ \A i, j \in 1 .. Len(rings[r]) :
              rings[r][i].slot = rings[r][j].slot => i = j
        /\ \A i \in 1 .. Len(rings[r]), j \in 1 .. Len(cache) :
              rings[r][i].slot # cache[j].slot
        /\ hand[r] # <<>> =>
            /\ \A i \in 1 .. Len(rings[r]) : rings[r][i].slot # hand[r].slot
            /\ \A j \in 1 .. Len(cache) : cache[j].slot # hand[r].slot
    /\ Writing => ~ Kept(entry.slot)

NoReplay == ~ durable => \A r \in Reader : replay[r] = <<>>

Owned == Sole => AllIntact /\ Disjoint

\* The numbers of the cache grow, and the cache holds the last Depth of the
\* samples that were stored.
CacheOk ==
    /\ \A i, j \in 1 .. Len(cache) : i < j => cache[i].seq < cache[j].seq
    /\ \A i \in 1 .. Len(cache) : cache[i].seq \in stored
    /\ \A n \in stored :
        \/ \E i \in 1 .. Len(cache) : cache[i].seq = n
        \/ Len(cache) = Depth /\ \A i \in 1 .. Len(cache) : cache[i].seq > n

\* A sample counts as written when write is done with it.
WroteOk ==
    /\ \A n \in stored \cup bypassed :
        n < nextSeq /\ (wpc # "idle" => n < nextSeq - 1)
    /\ \A r \in Reader : promised[r] \subseteq stored \cup bypassed

\* What the cache owes to a joining reader is in its ring, was in it, or is
\* still to be pushed, and there is room for it.
ServedSoFar(r) ==
    /\ jpc[r] = "replay" =>
        /\ Len(rings[r]) + Len(replay[r]) <= Depth
        /\ durable => \A n \in promised[r] \cap stored :
             n \in offered[r] \/ \E i \in 1 .. Len(replay[r]) : replay[r][i].seq = n
    /\ jpc[r] = "bound" /\ durable => promised[r] \cap stored \subseteq offered[r]

ReplayOk == \A r \in Reader : ServedSoFar(r)

IInv ==
    /\ TypeOK /\ WriterOk
    /\ BoundOk /\ PushOk /\ NoReplay
    /\ Accounted
    /\ Owned

SInv == CacheOk /\ WroteOk /\ ReplayOk

-----------------------------------------------------------------------------
(* Sequences and rings *)

\* What Append leaves and adds.
LEMMA AppendFacts ==
    ASSUME NEW S, NEW s \in Seq(S), NEW e \in S
    PROVE  /\ Append(s, e) \in Seq(S)
           /\ Len(Append(s, e)) = Len(s) + 1
           /\ \A i \in 1 .. Len(s) : Append(s, e)[i] = s[i]
           /\ Append(s, e)[Len(s) + 1] = e
BY AppendProperties

\* What Tail leaves and takes.
LEMMA TailFacts ==
    ASSUME NEW S, NEW s \in Seq(S), s # <<>>
    PROVE  /\ Len(s) \in Nat /\ Len(s) > 0
           /\ Head(s) = s[1] /\ Head(s) \in S
           /\ Tail(s) \in Seq(S)
           /\ Len(Tail(s)) = Len(s) - 1
           /\ \A i \in 1 .. Len(s) - 1 : Tail(s)[i] = s[i + 1]
<1>1. Len(s) \in Nat /\ Len(s) # 0
  BY EmptySeq, LenProperties
<1>2. Tail(s) \in Seq(S) /\ Len(Tail(s)) = Len(s) - 1
  BY HeadTailProperties
<1>3. Head(s) = s[1] /\ Head(s) \in S
  BY HeadTailProperties
<1>4. \A i \in 1 .. Len(s) - 1 : Tail(s)[i] = s[i + 1]
  BY HeadTailProperties, <1>2
<1> QED
  BY <1>1, <1>2, <1>3, <1>4

\* An entry is not the empty sequence, which stands for none.
LEMMA EntryIsSome == ASSUME NEW e \in Entry PROVE e # <<>>
BY DEF Entry

\* An entry has a number and a slot.
LEMMA EntryFields ==
    ASSUME NEW e \in Entry
    PROVE  e.seq \in 1 .. MaxSeq /\ e.slot \in Slot
BY DEF Entry

\* A push into the ring of r appends the entry if there is room and leaves
\* the rings of the other readers alone.
LEMMA PutFacts ==
    ASSUME TypeOK, NEW r \in Reader, NEW e \in Entry, Put(r, e)
    PROVE  /\ rings' \in [Reader -> Seq(Entry)]
           /\ \A q \in Reader : Len(rings'[q]) <= RingCap
           /\ offered' \in [Reader -> SUBSET (1 .. MaxSeq)]
           /\ \A q \in Reader : q # r => rings'[q] = rings[q] /\ offered'[q] = offered[q]
           /\ \/ /\ Len(rings[r]) < RingCap
                 /\ Len(rings'[r]) = Len(rings[r]) + 1
                 /\ \A i \in 1 .. Len(rings[r]) : rings'[r][i] = rings[r][i]
                 /\ rings'[r][Len(rings[r]) + 1] = e
                 /\ offered'[r] = offered[r] \cup {e.seq}
              \/ /\ Len(rings[r]) >= RingCap
                 /\ rings' = rings /\ offered' = offered
<1>1. /\ rings \in [Reader -> Seq(Entry)] /\ \A q \in Reader : Len(rings[q]) <= RingCap
      /\ offered \in [Reader -> SUBSET (1 .. MaxSeq)] /\ RingCap \in Nat
      /\ Len(rings[r]) \in Nat
  BY IntraAssumption, LenProperties DEF TypeOK
<1>2. CASE Len(rings[r]) < RingCap
  <2>1. /\ rings' = [rings EXCEPT ![r] = Append(rings[r], e)]
        /\ offered' = [offered EXCEPT ![r] = offered[r] \cup {e.seq}]
    BY <1>2 DEF Put
  <2>2. /\ Append(rings[r], e) \in Seq(Entry)
        /\ Len(Append(rings[r], e)) = Len(rings[r]) + 1
        /\ \A i \in 1 .. Len(rings[r]) : Append(rings[r], e)[i] = rings[r][i]
        /\ Append(rings[r], e)[Len(rings[r]) + 1] = e
    BY <1>1, AppendFacts
  <2>3. rings'[r] = Append(rings[r], e) /\ offered'[r] = offered[r] \cup {e.seq}
    BY <1>1, <2>1
  <2>4. \A q \in Reader : q # r => rings'[q] = rings[q] /\ offered'[q] = offered[q]
    BY <1>1, <2>1
  <2>5. rings' \in [Reader -> Seq(Entry)]
    BY <1>1, <2>1, <2>2
  <2>6. e.seq \in 1 .. MaxSeq
    BY EntryFields
  <2>7. offered' \in [Reader -> SUBSET (1 .. MaxSeq)]
    BY <1>1, <2>1, <2>6
  <2>8. \A q \in Reader : Len(rings'[q]) <= RingCap
    BY <1>1, <1>2, <2>2, <2>3, <2>4
  <2> QED
    BY <1>2, <2>2, <2>3, <2>4, <2>5, <2>7, <2>8
<1>3. CASE ~ (Len(rings[r]) < RingCap)
  <2>1. rings' = rings /\ offered' = offered
    BY <1>3 DEF Put
  <2> QED
    BY <1>1, <1>3, <2>1
<1> QED
  BY <1>2, <1>3

\* So every ring keeps what it had.
LEMMA PutGrows ==
    ASSUME TypeOK, NEW r \in Reader, NEW e \in Entry, Put(r, e)
    PROVE  \A q \in Reader :
             /\ Len(rings[q]) \in Nat /\ Len(rings'[q]) \in Nat
             /\ Len(rings[q]) <= Len(rings'[q])
             /\ \A i \in 1 .. Len(rings[q]) : rings'[q][i] = rings[q][i]
<1> SUFFICES ASSUME NEW q \in Reader
             PROVE  /\ Len(rings[q]) \in Nat /\ Len(rings'[q]) \in Nat
                    /\ Len(rings[q]) <= Len(rings'[q])
                    /\ \A i \in 1 .. Len(rings[q]) : rings'[q][i] = rings[q][i]
  OBVIOUS
<1>1. Len(rings[q]) \in Nat
  BY LenProperties DEF TypeOK
<1>2. CASE q # r
  <2>1. rings'[q] = rings[q]
    BY <1>2, PutFacts
  <2> QED
    BY <1>1, <2>1
<1>3. CASE q = r
  BY <1>1, <1>3, PutFacts
<1> QED
  BY <1>2, <1>3

\* A pop takes the first entry of the ring of r.
LEMMA PopFacts ==
    ASSUME TypeOK, NEW r \in Reader, rings[r] # <<>>,
           rings' = [rings EXCEPT ![r] = Tail(@)]
    PROVE  /\ rings' \in [Reader -> Seq(Entry)]
           /\ \A q \in Reader : Len(rings'[q]) <= RingCap
           /\ \A q \in Reader : q # r => rings'[q] = rings[q]
           /\ Len(rings[r]) \in Nat /\ Len(rings[r]) > 0
           /\ Len(rings'[r]) = Len(rings[r]) - 1
           /\ \A i \in 1 .. Len(rings[r]) - 1 : rings'[r][i] = rings[r][i + 1]
           /\ Head(rings[r]) = rings[r][1] /\ Head(rings[r]) \in Entry
<1>1. /\ rings \in [Reader -> Seq(Entry)] /\ \A q \in Reader : Len(rings[q]) <= RingCap
      /\ RingCap \in Nat /\ rings[r] \in Seq(Entry)
  BY IntraAssumption DEF TypeOK
<1>2. /\ Len(rings[r]) \in Nat /\ Len(rings[r]) > 0
      /\ Head(rings[r]) = rings[r][1] /\ Head(rings[r]) \in Entry
      /\ Tail(rings[r]) \in Seq(Entry)
      /\ Len(Tail(rings[r])) = Len(rings[r]) - 1
      /\ \A i \in 1 .. Len(rings[r]) - 1 : Tail(rings[r])[i] = rings[r][i + 1]
  BY <1>1, TailFacts
<1>3. rings'[r] = Tail(rings[r]) /\ \A q \in Reader : q # r => rings'[q] = rings[q]
  BY <1>1
<1>4. rings' \in [Reader -> Seq(Entry)]
  BY <1>1, <1>2
<1>5. \A q \in Reader : Len(rings'[q]) <= RingCap
  BY <1>1, <1>2, <1>3
<1> QED
  BY <1>2, <1>3, <1>4, <1>5

\* HistoryCache::insert appends the sample to the cache and, if it was full,
\* takes out the first entry and releases its slot.
LEMMA InsertFacts ==
    ASSUME TypeOK, WriterOk, NEW s \in Slot, CacheInsert(s)
    PROVE  /\ cache' \in Seq(Entry) /\ Len(cache') \in Nat /\ Len(cache') <= Depth
           /\ Len(cache) \in Nat /\ nextSeq - 1 \in 1 .. MaxSeq
           /\ \/ /\ Len(cache) < Depth /\ Len(cache') = Len(cache) + 1
                 /\ \A i \in 1 .. Len(cache) : cache'[i] = cache[i]
                 /\ cache'[Len(cache) + 1] = [seq |-> nextSeq - 1, slot |-> s]
                 /\ used' = used \cup {s}
              \/ /\ Len(cache) = Depth /\ Len(cache') = Depth /\ Depth > 0
                 /\ \A i \in 1 .. Len(cache) - 1 : cache'[i] = cache[i + 1]
                 /\ cache'[Len(cache)] = [seq |-> nextSeq - 1, slot |-> s]
                 /\ used' = (used \cup {s}) \ {cache[1].slot}
<1> DEFINE new == [seq |-> nextSeq - 1, slot |-> s]
           full == Append(cache, new)
<1>1. /\ cache \in Seq(Entry) /\ Len(cache) \in Nat /\ Len(cache) <= Depth
      /\ Depth \in Nat /\ Depth > 0
  BY IntraAssumption, LenProperties DEF TypeOK
<1>2. nextSeq - 1 \in 1 .. MaxSeq
  BY IntraAssumption DEF TypeOK, WriterOk, CacheInsert
<1>3. new \in Entry
  BY <1>2 DEF Entry
<1>4. IF Len(full) > Depth
      THEN cache' = Tail(full) /\ used' = (used \cup {s}) \ {Head(full).slot}
      ELSE cache' = full /\ used' = used \cup {s}
  BY DEF CacheInsert
<1> HIDE DEF new
<1>5. /\ full \in Seq(Entry) /\ Len(full) = Len(cache) + 1
      /\ \A i \in 1 .. Len(cache) : full[i] = cache[i]
      /\ full[Len(cache) + 1] = new
  BY <1>1, <1>3, AppendFacts
<1> HIDE DEF full
<1>6. CASE Len(full) > Depth
  <2>1. full # <<>>
    BY <1>1, <1>5, EmptySeq
  <2>2. /\ Head(full) = full[1] /\ Tail(full) \in Seq(Entry)
        /\ Len(Tail(full)) = Len(full) - 1
        /\ \A i \in 1 .. Len(full) - 1 : Tail(full)[i] = full[i + 1]
    BY <1>5, <2>1, TailFacts
  <2>3. Len(cache) = Depth
    BY <1>1, <1>5, <1>6
  <2>4. \A i \in 1 .. Len(cache) : cache'[i] = full[i + 1]
    BY <1>1, <1>4, <1>5, <1>6, <2>2
  <2>5. \A i \in 1 .. Len(cache) - 1 : cache'[i] = cache[i + 1]
    BY <1>1, <1>5, <2>4
  <2>6. cache'[Len(cache)] = new /\ cache[1] = full[1]
    BY <1>1, <1>5, <2>3, <2>4
  <2> QED
    BY <1>1, <1>2, <1>4, <1>5, <1>6, <2>2, <2>3, <2>5, <2>6 DEF new
<1>7. CASE ~ (Len(full) > Depth)
  BY <1>1, <1>2, <1>4, <1>5, <1>7 DEF new
<1> QED
  BY <1>6, <1>7

-----------------------------------------------------------------------------
(* Types *)

\* The last samples written are samples.
LEMMA LastWrittenType == ASSUME TypeOK PROVE LastWritten \subseteq 1 .. MaxSeq
BY DEF TypeOK, LastWritten

\* Every step of the writer, of a joining reader and of a reader that takes
\* keeps the types.
LEMMA TypeStep ==
    ASSUME TypeOK, WriterOk, [Next]_vars
    PROVE  TypeOK' /\ WriterOk'
<1> USE IntraAssumption DEF TypeOK, WriterOk
<1>1. ASSUME NEW remote \in Remote, NEW s \in Slot, WriteReserve(remote, s)
      PROVE  TypeOK' /\ WriterOk'
  <2>1. /\ used' = used \cup {s} /\ content' = [content EXCEPT ![s] = nextSeq]
        /\ entry' = [seq |-> nextSeq, slot |-> s] /\ fast' = ~ remote
        /\ nextSeq' = nextSeq + 1 /\ wpc' = "lock" /\ nextSeq <= MaxSeq
        /\ UNCHANGED <<durable, cache, joinVars, readerVars, todo, pushed, stored,
                       bypassed>>
    BY <1>1 DEF WriteReserve, Reserve
  <2>2. entry' \in Entry
    BY <2>1 DEF Entry
  <2>3. content' \in [Slot -> 0 .. MaxSeq] /\ used' \subseteq Slot
    BY <2>1
  <2>4. nextSeq' \in 1 .. MaxSeq + 1 /\ nextSeq' > 1 /\ fast' \in BOOLEAN
    BY <2>1
  <2> QED
    BY <2>1, <2>2, <2>3, <2>4 DEF joinVars, readerVars
<1>2. ASSUME NEW remote \in Remote, WriteNoSlot(remote)
      PROVE  TypeOK' /\ WriterOk'
  <2>1. nextSeq' \in 1 .. MaxSeq + 1 /\ nextSeq' > 1
    BY <1>2 DEF WriteNoSlot
  <2>2. wpc' \in {"idle", "cache"}
    BY <1>2 DEF WriteNoSlot
  <2> QED
    BY <1>2, <2>1, <2>2 DEF WriteNoSlot, joinVars, readerVars, slabVars
<1>3. ASSUME WriteRemoteOnly
      PROVE  TypeOK' /\ WriterOk'
  <2>1. nextSeq' \in 1 .. MaxSeq + 1 /\ nextSeq' > 1
    BY <1>3 DEF WriteRemoteOnly
  <2> QED
    BY <1>3, <2>1 DEF WriteRemoteOnly, joinVars, readerVars, slabVars
<1>4. ASSUME PushLock
      PROVE  TypeOK' /\ WriterOk'
  BY <1>4 DEF PushLock, joinVars, readerVars, slabVars
<1>5. ASSUME PushNext
      PROVE  TypeOK' /\ WriterOk'
  <2>1. Head(todo) \in Reader /\ Tail(todo) \in Seq(Reader)
    BY <1>5, TailFacts DEF PushNext
  <2>2. entry \in Entry /\ Put(Head(todo), entry)
    BY <1>5 DEF PushNext
  <2>3. /\ rings' \in [Reader -> Seq(Entry)]
        /\ \A q \in Reader : Len(rings'[q]) <= RingCap
        /\ offered' \in [Reader -> SUBSET (1 .. MaxSeq)]
    BY <2>1, <2>2, PutFacts
  <2>4. pushed' \in BOOLEAN
    BY <1>5 DEF PushNext
  <2> QED
    BY <1>5, <2>1, <2>3, <2>4 DEF PushNext, joinVars, slabVars
<1>6. ASSUME PushDone
      PROVE  TypeOK' /\ WriterOk'
  <2>1. /\ wpc' \in {"idle", "cache"} /\ entry' = <<>>
        /\ bypassed' \in {bypassed, bypassed \cup {nextSeq - 1}}
        /\ UNCHANGED <<durable, stored>>
    BY <1>6 DEF PushDone, Finish
  <2>2. nextSeq - 1 \in 1 .. MaxSeq
    BY <1>6 DEF PushDone
  <2>3. used' \subseteq Slot /\ content' = content
    BY <1>6 DEF PushDone, Release, slabVars
  <2>4. bypassed' \subseteq 1 .. MaxSeq
    BY <2>1, <2>2
  <2>5. wpc # "idle" /\ UNCHANGED <<cache, joinVars, readerVars, todo, pushed, fast, nextSeq>>
    BY <1>6 DEF PushDone
  <2> QED
    BY <2>1, <2>3, <2>4, <2>5 DEF joinVars, readerVars
<1>7. ASSUME CacheNoSlot
      PROVE  TypeOK' /\ WriterOk'
  BY <1>7 DEF CacheNoSlot, joinVars, readerVars, slabVars
<1>8. ASSUME NEW s \in Slot, CacheInsert(s)
      PROVE  TypeOK' /\ WriterOk'
  <2>1. cache' \in Seq(Entry) /\ Len(cache') <= Depth /\ nextSeq - 1 \in 1 .. MaxSeq
    BY <1>8, InsertFacts
  <2>2. used' \subseteq Slot
    BY <1>8 DEF CacheInsert
  <2>3. /\ content' = [content EXCEPT ![s] = nextSeq - 1] /\ wpc' = "idle"
        /\ stored' = stored \cup {nextSeq - 1}
        /\ UNCHANGED <<durable, joinVars, readerVars, entry, todo, pushed, fast,
                       nextSeq, bypassed>>
    BY <1>8 DEF CacheInsert
  <2>4. content' \in [Slot -> 0 .. MaxSeq]
    BY <2>1, <2>3
  <2>5. stored' \subseteq 1 .. MaxSeq
    BY <2>1, <2>3
  <2> QED
    BY <2>1, <2>2, <2>3, <2>4, <2>5 DEF joinVars, readerVars
<1>9. ASSUME NEW r \in Reader, JoinSnapshot(r)
      PROVE  TypeOK' /\ WriterOk'
  <2>1. /\ replay' = [replay EXCEPT ![r] = IF durable THEN cache ELSE <<>>]
        /\ promised' = [promised EXCEPT ![r] = LastWritten]
        /\ jpc' = [jpc EXCEPT ![r] = "replay"]
        /\ UNCHANGED <<durable, slabVars, cache, bound, missed, readerVars, writerVars>>
    BY <1>9 DEF JoinSnapshot
  <2>2. promised' \in [Reader -> SUBSET (1 .. MaxSeq)]
    BY <2>1, LastWrittenType
  <2>3. (IF durable THEN cache ELSE <<>>) \in Seq(Entry)
    OBVIOUS
  <2>4. replay' \in [Reader -> Seq(Entry)]
    BY <2>1, <2>3
  <2>5. jpc' \in [Reader -> {"new", "replay", "bound", "dropped"}]
    BY <2>1
  <2> QED
    BY <2>1, <2>2, <2>4, <2>5 DEF slabVars, readerVars, writerVars
<1>10. ASSUME NEW r \in Reader, JoinReplay(r)
       PROVE  TypeOK' /\ WriterOk'
  <2>1. replay[r] \in Seq(Entry) /\ replay[r] # <<>>
    BY <1>10 DEF JoinReplay
  <2>2. Head(replay[r]) \in Entry /\ Tail(replay[r]) \in Seq(Entry)
    BY <2>1, TailFacts
  <2>3. Put(r, Head(replay[r])) /\ replay' = [replay EXCEPT ![r] = Tail(replay[r])]
    BY <1>10 DEF JoinReplay
  <2>4. /\ rings' \in [Reader -> Seq(Entry)]
        /\ \A q \in Reader : Len(rings'[q]) <= RingCap
        /\ offered' \in [Reader -> SUBSET (1 .. MaxSeq)]
    BY <2>2, <2>3, PutFacts
  <2>5. replay' \in [Reader -> Seq(Entry)]
    BY <2>2, <2>3
  <2> QED
    BY <1>10, <2>4, <2>5 DEF JoinReplay, slabVars, writerVars
<1>11. ASSUME NEW r \in Reader, JoinRegister(r)
       PROVE  TypeOK' /\ WriterOk'
  <2>1. bound' \in Seq(Reader)
    BY <1>11, AppendFacts DEF JoinRegister
  <2>2. jpc' \in [Reader -> {"new", "replay", "bound", "dropped"}]
    BY <1>11 DEF JoinRegister
  <2>3. missed' \in [Reader -> SUBSET (1 .. MaxSeq)]
    BY <1>11, LastWrittenType DEF JoinRegister
  <2> QED
    BY <1>11, <2>1, <2>2, <2>3 DEF JoinRegister, slabVars, readerVars, writerVars
<1>12. ASSUME NEW r \in Reader, TakePop(r)
       PROVE  TypeOK' /\ WriterOk'
  <2>1. rings[r] # <<>> /\ rings' = [rings EXCEPT ![r] = Tail(@)]
    BY <1>12 DEF TakePop
  <2>2. /\ rings' \in [Reader -> Seq(Entry)]
        /\ \A q \in Reader : Len(rings'[q]) <= RingCap
        /\ Head(rings[r]) \in Entry
    BY <2>1, PopFacts
  <2>3. hand' \in [Reader -> Entry \cup {<<>>}]
    BY <1>12, <2>2 DEF TakePop
  <2> QED
    BY <1>12, <2>2, <2>3 DEF TakePop, slabVars, joinVars, writerVars
<1>13. ASSUME NEW r \in Reader, TakeRelease(r)
       PROVE  TypeOK' /\ WriterOk'
  <2>1. hand' \in [Reader -> Entry \cup {<<>>}]
    BY <1>13 DEF TakeRelease
  <2>2. used' \subseteq Slot /\ content' = content
    BY <1>13 DEF TakeRelease, Release
  <2> QED
    BY <1>13, <2>1, <2>2 DEF TakeRelease, joinVars, writerVars
<1>14. ASSUME NEW r \in Reader, DropReader(r)
       PROVE  TypeOK' /\ WriterOk'
  <2>1. jpc' \in [Reader -> {"new", "replay", "bound", "dropped"}]
    BY <1>14 DEF DropReader
  <2> QED
    BY <1>14, <2>1 DEF DropReader, slabVars, readerVars, writerVars
<1>15. ASSUME UNCHANGED vars
       PROVE  TypeOK' /\ WriterOk'
  BY <1>15 DEF vars, slabVars, joinVars, readerVars, writerVars
<1> QED
  BY <1>1, <1>2, <1>3, <1>4, <1>5, <1>6, <1>7, <1>8, <1>9, <1>10, <1>11,
     <1>12, <1>13, <1>14, <1>15 DEF Next

-----------------------------------------------------------------------------
(* Registration and push *)

\* The steps that touch neither the merger nor the rings.
Aside ==
    \/ \E remote \in Remote :
        WriteNoSlot(remote) \/ \E s \in Slot : WriteReserve(remote, s)
    \/ WriteRemoteOnly \/ PushDone
    \/ CacheNoSlot \/ \E s \in Slot : CacheInsert(s)

\* What they leave alone.
LEMMA AsideFacts ==
    ASSUME Aside
    PROVE  /\ UNCHANGED <<durable, bound, jpc, replay, promised, rings, hand, offered>>
           /\ wpc' # "push"
<1>1. ASSUME NEW remote \in Remote, NEW s \in Slot, WriteReserve(remote, s)
      PROVE  UNCHANGED <<durable, joinVars, readerVars>> /\ wpc' # "push"
  BY <1>1 DEF WriteReserve
<1>2. ASSUME NEW remote \in Remote, WriteNoSlot(remote)
      PROVE  UNCHANGED <<durable, joinVars, readerVars>> /\ wpc' # "push"
  BY <1>2 DEF WriteNoSlot
<1>3. ASSUME WriteRemoteOnly
      PROVE  UNCHANGED <<durable, joinVars, readerVars>> /\ wpc' # "push"
  BY <1>3 DEF WriteRemoteOnly
<1>4. ASSUME PushDone
      PROVE  UNCHANGED <<durable, joinVars, readerVars>> /\ wpc' # "push"
  BY <1>4 DEF PushDone, Finish
<1>5. ASSUME CacheNoSlot
      PROVE  UNCHANGED <<durable, joinVars, readerVars>> /\ wpc' # "push"
  BY <1>5 DEF CacheNoSlot
<1>6. ASSUME NEW s \in Slot, CacheInsert(s)
      PROVE  UNCHANGED <<durable, joinVars, readerVars>> /\ wpc' # "push"
  BY <1>6 DEF CacheInsert
<1>7. UNCHANGED <<durable, joinVars, readerVars>> /\ wpc' # "push"
  BY <1>1, <1>2, <1>3, <1>4, <1>5, <1>6 DEF Aside
<1> QED
  BY <1>7 DEF joinVars, readerVars

\* The order in which add_reader and TopicMerger::push take the lock keeps
\* the list of readers and what is left of a push in agreement.
LEMMA BoundStep ==
    ASSUME TypeOK, WriterOk, BoundOk, PushOk, NoReplay, [Next]_vars
    PROVE  BoundOk' /\ PushOk' /\ NoReplay'
<1> USE DEF BoundOk, PushOk, NoReplay
<1>0. /\ bound \in Seq(Reader) /\ Len(bound) \in Nat /\ todo \in Seq(Reader)
      /\ jpc \in [Reader -> {"new", "replay", "bound", "dropped"}]
      /\ Len(todo) \in Nat /\ replay \in [Reader -> Seq(Entry)]
      /\ hand \in [Reader -> Entry \cup {<<>>}] /\ pushed \in BOOLEAN
  BY LenProperties DEF TypeOK
<1>1. ASSUME Aside
      PROVE  BoundOk' /\ PushOk' /\ NoReplay'
  BY <1>1, AsideFacts
<1>2. ASSUME PushLock
      PROVE  BoundOk' /\ PushOk' /\ NoReplay'
  BY <1>0, <1>2 DEF PushLock, joinVars, readerVars
<1>3. ASSUME PushNext
      PROVE  BoundOk' /\ PushOk' /\ NoReplay'
  <2>1. /\ wpc = "push" /\ todo # <<>> /\ todo' = Tail(todo)
        /\ UNCHANGED <<durable, bound, jpc, replay, hand>>
    BY <1>3 DEF PushNext, joinVars
  <2>2. /\ Head(todo) = todo[1] /\ Head(todo) \in Reader /\ Len(todo) > 0
        /\ Len(todo') = Len(todo) - 1
        /\ \A i \in 1 .. Len(todo) - 1 : todo'[i] = todo[i + 1]
    BY <1>0, <2>1, TailFacts
  <2>3. PushOk'
    BY <1>0, <2>1, <2>2
  <2>4. jpc[Head(todo)] # "new"
    BY <2>1, <2>2
  <2>5. entry \in Entry /\ Put(Head(todo), entry)
    BY <1>3 DEF PushNext, WriterOk
  <2>6. \A q \in Reader : q # Head(todo) => rings'[q] = rings[q]
    BY <2>2, <2>5, PutFacts
  <2> QED
    BY <2>1, <2>3, <2>4, <2>6
<1>4. ASSUME NEW r \in Reader, JoinSnapshot(r)
      PROVE  BoundOk' /\ PushOk' /\ NoReplay'
  <2>1. /\ jpc[r] = "new" /\ jpc' = [jpc EXCEPT ![r] = "replay"]
        /\ replay' = [replay EXCEPT ![r] = IF durable THEN cache ELSE <<>>]
        /\ UNCHANGED <<durable, bound, wpc, todo, pushed, rings, hand>>
    BY <1>4 DEF JoinSnapshot, readerVars, writerVars
  <2>2. /\ \A i \in 1 .. Len(bound) : bound[i] \in Reader
        /\ \A i \in 1 .. Len(todo) : todo[i] \in Reader
    BY <1>0, ElementOfSeq
  <2> QED
    BY <1>0, <2>1, <2>2
<1>5. ASSUME NEW r \in Reader, JoinReplay(r)
      PROVE  BoundOk' /\ PushOk' /\ NoReplay'
  <2>1. /\ jpc[r] = "replay" /\ replay[r] # <<>> /\ Put(r, Head(replay[r]))
        /\ UNCHANGED <<durable, bound, jpc, wpc, todo, pushed, hand>>
    BY <1>5 DEF JoinReplay, writerVars
  <2>2. Head(replay[r]) \in Entry
    BY <1>0, <2>1, TailFacts
  <2>3. \A q \in Reader : q # r => rings'[q] = rings[q]
    BY <2>1, <2>2, PutFacts
  <2> QED
    BY <1>0, <2>1, <2>3
<1>6. ASSUME NEW r \in Reader, JoinRegister(r)
      PROVE  BoundOk' /\ PushOk' /\ NoReplay'
  <2>1. /\ jpc[r] = "replay" /\ wpc # "push" /\ bound' = Append(bound, r)
        /\ jpc' = [jpc EXCEPT ![r] = "bound"]
        /\ UNCHANGED <<durable, replay, rings, hand, wpc, todo>>
    BY <1>6 DEF JoinRegister, readerVars, writerVars
  <2>2. /\ Len(bound') = Len(bound) + 1 /\ bound'[Len(bound) + 1] = r
        /\ \A i \in 1 .. Len(bound) : bound'[i] = bound[i]
    BY <1>0, <2>1, AppendFacts
  <2>3. \A i \in 1 .. Len(bound) : bound[i] \in Reader /\ bound[i] # r
    BY <1>0, <2>1, ElementOfSeq
  <2>4. \A i \in 1 .. Len(bound') : jpc'[bound'[i]] \in {"bound", "dropped"}
    BY <1>0, <2>1, <2>2, <2>3
  <2>5. ASSUME NEW i \in 1 .. Len(bound'), NEW j \in 1 .. Len(bound'),
               bound'[i] = bound'[j]
        PROVE  i = j
    <3>1. i \in 1 .. Len(bound) \/ i = Len(bound) + 1
      BY <1>0, <2>2
    <3>2. j \in 1 .. Len(bound) \/ j = Len(bound) + 1
      BY <1>0, <2>2
    <3>3. CASE i \in 1 .. Len(bound) /\ j \in 1 .. Len(bound)
      BY <2>2, <2>5, <3>3
    <3>4. CASE i = Len(bound) + 1 /\ j \in 1 .. Len(bound)
      BY <2>2, <2>3, <2>5, <3>4
    <3>5. CASE i \in 1 .. Len(bound) /\ j = Len(bound) + 1
      BY <2>2, <2>3, <2>5, <3>5
    <3> QED
      BY <3>1, <3>2, <3>3, <3>4, <3>5
  <2> QED
    BY <1>0, <2>1, <2>4, <2>5
<1>7. ASSUME NEW r \in Reader, TakePop(r)
      PROVE  BoundOk' /\ PushOk' /\ NoReplay'
  <2>1. /\ rings[r] # <<>> /\ rings' = [rings EXCEPT ![r] = Tail(@)]
        /\ hand' = [hand EXCEPT ![r] = Head(rings[r])]
        /\ UNCHANGED <<durable, bound, jpc, replay, wpc, todo, pushed>>
    BY <1>7 DEF TakePop, joinVars, writerVars
  <2>2. \A q \in Reader : q # r => rings'[q] = rings[q] /\ hand'[q] = hand[q]
    BY <1>0, <2>1, PopFacts
  <2> QED
    BY <2>1, <2>2
<1>8. ASSUME NEW r \in Reader, TakeRelease(r)
      PROVE  BoundOk' /\ PushOk' /\ NoReplay'
  <2>1. /\ hand' = [hand EXCEPT ![r] = <<>>]
        /\ UNCHANGED <<durable, bound, jpc, replay, rings, wpc, todo, pushed>>
    BY <1>8 DEF TakeRelease, joinVars, writerVars
  <2> QED
    BY <1>0, <2>1
<1>9. ASSUME NEW r \in Reader, DropReader(r)
      PROVE  BoundOk' /\ PushOk' /\ NoReplay'
  <2>1. /\ jpc' = [jpc EXCEPT ![r] = "dropped"]
        /\ UNCHANGED <<durable, bound, replay, rings, hand, wpc, todo, pushed>>
    BY <1>9 DEF DropReader, readerVars, writerVars
  <2>2. /\ \A i \in 1 .. Len(bound) : bound[i] \in Reader
        /\ \A i \in 1 .. Len(todo) : todo[i] \in Reader
    BY <1>0, ElementOfSeq
  <2> QED
    BY <1>0, <2>1, <2>2
<1>10. ASSUME UNCHANGED vars
       PROVE  BoundOk' /\ PushOk' /\ NoReplay'
  BY <1>10 DEF vars, joinVars, readerVars, writerVars
<1> QED
  BY <1>1, <1>2, <1>3, <1>4, <1>5, <1>6, <1>7, <1>8, <1>9, <1>10 DEF Next, Aside

-----------------------------------------------------------------------------
(* No slot leaks *)

\* What holds a slot goes on holding it while the cache, the rings and the
\* hands only gain entries.
LEMMA KeptStays ==
    ASSUME TypeOK, NEW s,
           Len(cache) <= Len(cache') /\ Len(cache') \in Nat,
           \A i \in 1 .. Len(cache) : cache'[i] = cache[i],
           \A r \in Reader : Len(rings[r]) <= Len(rings'[r]) /\ Len(rings'[r]) \in Nat,
           \A r \in Reader : \A i \in 1 .. Len(rings[r]) : rings'[r][i] = rings[r][i],
           \A r \in Reader : hand[r] # <<>> => hand'[r] = hand[r],
           Kept(s)
    PROVE  Kept(s)'
<1>1. Len(cache) \in Nat /\ \A r \in Reader : Len(rings[r]) \in Nat
  BY LenProperties DEF TypeOK
<1> QED
  BY <1>1 DEF Kept

\* Every step keeps the slots accounted for: the writer releases the slot
\* of an entry that no reader took, the cache the slot of the entry it
\* evicts, the reader the slot of the entry it took.
LEMMA AccountedStep ==
    ASSUME TypeOK, WriterOk, Accounted, [Next]_vars
    PROVE  Accounted'
<1>0. /\ cache \in Seq(Entry) /\ Len(cache) \in Nat
      /\ rings \in [Reader -> Seq(Entry)] /\ \A r \in Reader : Len(rings[r]) \in Nat
      /\ hand \in [Reader -> Entry \cup {<<>>}] /\ pushed \in BOOLEAN
      /\ replay \in [Reader -> Seq(Entry)]
  BY LenProperties DEF TypeOK
<1>a. ASSUME UNCHANGED <<cache, rings, hand>>, NEW s
      PROVE  Kept(s)' <=> Kept(s)
  BY <1>a DEF Kept
<1>1. ASSUME NEW remote \in Remote, NEW t \in Slot, WriteReserve(remote, t)
      PROVE  Accounted'
  <2>1. /\ wpc = "idle" /\ wpc' = "lock" /\ used' = used \cup {t} /\ entry'.slot = t
        /\ UNCHANGED <<cache, rings, hand>>
    BY <1>1 DEF WriteReserve, Reserve, readerVars
  <2> QED
    BY <1>a, <2>1 DEF Accounted, Writing
<1>2. ASSUME UNCHANGED <<cache, rings, hand, used>>, ~ Writing
      PROVE  Accounted'
  BY <1>a, <1>2 DEF Accounted
<1>3. ASSUME NEW remote \in Remote, WriteNoSlot(remote)
      PROVE  Accounted'
  BY <1>2, <1>3 DEF WriteNoSlot, Writing, slabVars, readerVars
<1>4. ASSUME WriteRemoteOnly
      PROVE  Accounted'
  BY <1>2, <1>4 DEF WriteRemoteOnly, Writing, slabVars, readerVars
<1>5. ASSUME PushLock
      PROVE  Accounted'
  BY <1>a, <1>5 DEF PushLock, Accounted, Writing, slabVars, readerVars
<1>6. ASSUME PushNext
      PROVE  Accounted'
  <2> DEFINE q == Head(todo)
  <2>1. /\ wpc = "push" /\ wpc' = "push" /\ entry' = entry /\ used' = used
        /\ UNCHANGED <<cache, hand>> /\ Put(q, entry)
        /\ pushed' = (pushed \/ Len(rings[q]) < RingCap)
    BY <1>6 DEF PushNext, slabVars
  <2>2. q \in Reader /\ entry \in Entry
    BY <1>6, TailFacts DEF PushNext, TypeOK, WriterOk
  <2> HIDE DEF q
  <2>3. CASE Len(rings[q]) < RingCap
    <3>1. /\ Len(rings'[q]) = Len(rings[q]) + 1
          /\ rings'[q][Len(rings[q]) + 1] = entry
      <4>1. ~ (Len(rings[q]) >= RingCap)
        BY <1>0, <2>2, <2>3, IntraAssumption
      <4> QED
        BY <2>1, <2>2, <4>1, PutFacts
    <3>2. \A r \in Reader : Len(rings[r]) <= Len(rings'[r]) /\ Len(rings'[r]) \in Nat
      BY <2>1, <2>2, PutGrows
    <3>3. \A r \in Reader : \A i \in 1 .. Len(rings[r]) : rings'[r][i] = rings[r][i]
      BY <2>1, <2>2, PutGrows
    <3>4. ASSUME NEW s, Kept(s)
          PROVE  Kept(s)'
      BY <1>0, <2>1, <3>2, <3>3, <3>4, KeptStays
    <3>5. Kept(entry.slot)'
      <4>1. Len(rings[q]) + 1 \in 1 .. Len(rings'[q])
        BY <1>0, <2>2, <3>1
      <4> QED
        BY <2>2, <3>1, <4>1, <2>1 DEF Kept
    <3> QED
      BY <2>1, <3>4, <3>5 DEF Accounted, Writing
  <2>4. CASE ~ (Len(rings[q]) < RingCap)
    <3>1. rings' = rings /\ pushed' = pushed
      BY <1>0, <2>1, <2>4 DEF Put
    <3> QED
      BY <1>a, <2>1, <3>1 DEF Accounted, Writing
  <2> QED
    BY <2>3, <2>4
<1>7. ASSUME PushDone
      PROVE  Accounted'
  <2>1. /\ wpc = "push" /\ UNCHANGED <<cache, rings, hand>>
        /\ IF pushed THEN used' = used ELSE used' = used \ {entry.slot}
    BY <1>7 DEF PushDone, readerVars, slabVars, Release
  <2> QED
    BY <1>a, <2>1 DEF Accounted, Writing
<1>8. ASSUME CacheNoSlot
      PROVE  Accounted'
  BY <1>2, <1>8 DEF CacheNoSlot, Writing, slabVars, readerVars
<1>9. ASSUME NEW t \in Slot, CacheInsert(t)
      PROVE  Accounted'
  <2>1. wpc = "cache" /\ UNCHANGED <<rings, hand>>
    BY <1>9 DEF CacheInsert, readerVars
  <2>2. \A s \in used : Kept(s)
    BY <2>1 DEF Accounted, Writing
  <2>3. CASE /\ Len(cache) < Depth /\ Len(cache') = Len(cache) + 1
             /\ \A i \in 1 .. Len(cache) : cache'[i] = cache[i]
             /\ cache'[Len(cache) + 1] = [seq |-> nextSeq - 1, slot |-> t]
             /\ used' = used \cup {t}
    <3>1. Kept(t)'
      BY <1>0, <2>3 DEF Kept
    <3>2. \A s : Kept(s) => Kept(s)'
      BY <1>0, <2>1, <2>3, KeptStays
    <3> QED
      BY <2>2, <2>3, <3>1, <3>2 DEF Accounted
  <2>4. CASE /\ Len(cache) = Depth /\ Len(cache') = Depth /\ Depth > 0
             /\ \A i \in 1 .. Len(cache) - 1 : cache'[i] = cache[i + 1]
             /\ cache'[Len(cache)] = [seq |-> nextSeq - 1, slot |-> t]
             /\ used' = (used \cup {t}) \ {cache[1].slot}
    <3>1. Kept(t)'
      BY <1>0, <2>4 DEF Kept
    <3>2. ASSUME NEW s \in used, s # cache[1].slot
          PROVE  Kept(s)'
      <4>1. CASE \E i \in 1 .. Len(cache) : cache[i].slot = s
        <5>1. PICK i \in 1 .. Len(cache) : cache[i].slot = s
          BY <4>1
        <5>2. i - 1 \in 1 .. Len(cache) - 1
          BY <1>0, <3>2, <5>1
        <5>3. cache'[i - 1].slot = s
          BY <1>0, <2>4, <5>1, <5>2
        <5>4. i - 1 \in 1 .. Len(cache')
          BY <1>0, <2>4, <5>2
        <5> QED
          BY <5>3, <5>4 DEF Kept
      <4>2. CASE ~ \E i \in 1 .. Len(cache) : cache[i].slot = s
        BY <2>1, <2>2, <3>2, <4>2 DEF Kept
      <4> QED
        BY <4>1, <4>2
    <3> QED
      BY <2>4, <3>1, <3>2 DEF Accounted
  <2> QED
    BY <1>9, <2>3, <2>4, InsertFacts
<1>10. ASSUME NEW r \in Reader, JoinSnapshot(r)
       PROVE  Accounted'
  BY <1>a, <1>10 DEF JoinSnapshot, Accounted, Writing, slabVars, readerVars, writerVars
<1>11. ASSUME NEW r \in Reader, JoinReplay(r)
       PROVE  Accounted'
  <2>1. /\ replay[r] # <<>> /\ Put(r, Head(replay[r]))
        /\ UNCHANGED <<used, cache, hand, wpc, entry, pushed>>
    BY <1>11 DEF JoinReplay, slabVars, writerVars
  <2>2. Head(replay[r]) \in Entry
    BY <1>0, <2>1, TailFacts
  <2>3. \A q \in Reader : Len(rings[q]) <= Len(rings'[q]) /\ Len(rings'[q]) \in Nat
    BY <2>1, <2>2, PutGrows
  <2>4. \A q \in Reader : \A i \in 1 .. Len(rings[q]) : rings'[q][i] = rings[q][i]
    BY <2>1, <2>2, PutGrows
  <2>5. Len(cache) <= Len(cache') /\ Len(cache') \in Nat
    BY <1>0, <2>1
  <2>6. \A i \in 1 .. Len(cache) : cache'[i] = cache[i]
    BY <2>1
  <2>7. \A q \in Reader : hand[q] # <<>> => hand'[q] = hand[q]
    BY <2>1
  <2>8. ASSUME NEW s, Kept(s)
        PROVE  Kept(s)'
    BY <2>3, <2>4, <2>5, <2>6, <2>7, <2>8, KeptStays
  <2> QED
    BY <2>1, <2>8 DEF Accounted, Writing
<1>12. ASSUME NEW r \in Reader, JoinRegister(r)
       PROVE  Accounted'
  BY <1>a, <1>12 DEF JoinRegister, Accounted, Writing, slabVars, readerVars, writerVars
<1>13. ASSUME NEW r \in Reader, TakePop(r)
       PROVE  Accounted'
  <2>1. /\ rings[r] # <<>> /\ rings' = [rings EXCEPT ![r] = Tail(@)]
        /\ hand[r] = <<>> /\ hand' = [hand EXCEPT ![r] = Head(rings[r])]
        /\ UNCHANGED <<used, cache, wpc, entry, pushed>>
    BY <1>13 DEF TakePop, slabVars, writerVars
  <2>2. /\ \A q \in Reader : q # r => rings'[q] = rings[q]
        /\ Len(rings[r]) > 0 /\ Len(rings'[r]) = Len(rings[r]) - 1
        /\ \A i \in 1 .. Len(rings[r]) - 1 : rings'[r][i] = rings[r][i + 1]
        /\ Head(rings[r]) = rings[r][1] /\ Head(rings[r]) \in Entry
    BY <2>1, PopFacts
  <2>3. hand'[r] = rings[r][1] /\ hand'[r] # <<>>
    BY <1>0, <2>1, <2>2, EntryIsSome
  <2>4. \A q \in Reader : q # r => hand'[q] = hand[q]
    BY <1>0, <2>1
  <2>5. ASSUME NEW s, Kept(s)
        PROVE  Kept(s)'
    <3>1. CASE \E i \in 1 .. Len(cache) : cache[i].slot = s
      BY <2>1, <3>1 DEF Kept
    <3>2. CASE \E q \in Reader : hand[q] # <<>> /\ hand[q].slot = s
      BY <2>1, <2>4, <3>2 DEF Kept
    <3>3. CASE \E q \in Reader : \E i \in 1 .. Len(rings[q]) : rings[q][i].slot = s
      <4>0. PICK q \in Reader : \E i \in 1 .. Len(rings[q]) : rings[q][i].slot = s
        BY <3>3
      <4>1. PICK i \in 1 .. Len(rings[q]) : rings[q][i].slot = s
        BY <4>0
      <4>2. CASE q # r
        BY <2>2, <4>1, <4>2 DEF Kept
      <4>3. CASE q = r /\ i = 1
        BY <2>3, <4>1, <4>3 DEF Kept
      <4>4. CASE q = r /\ i # 1
        <5>1. i - 1 \in 1 .. Len(rings[r]) - 1 /\ i - 1 \in 1 .. Len(rings'[r])
          BY <1>0, <2>2, <4>1, <4>4
        <5>2. rings'[r][i - 1].slot = s
          BY <1>0, <2>2, <4>1, <4>4, <5>1
        <5> QED
          BY <5>1, <5>2 DEF Kept
      <4> QED
        BY <4>2, <4>3, <4>4
    <3> QED
      BY <2>5, <3>1, <3>2, <3>3 DEF Kept
  <2> QED
    BY <2>1, <2>5 DEF Accounted, Writing
<1>14. ASSUME NEW r \in Reader, TakeRelease(r)
       PROVE  Accounted'
  <2>1. /\ hand[r] # <<>> /\ used' = used \ {hand[r].slot}
        /\ hand' = [hand EXCEPT ![r] = <<>>]
        /\ UNCHANGED <<cache, rings, wpc, entry, pushed>>
    BY <1>14 DEF TakeRelease, Release, writerVars
  <2>2. \A q \in Reader : q # r => hand'[q] = hand[q]
    BY <1>0, <2>1
  <2>3. \A s : Kept(s) /\ s # hand[r].slot => Kept(s)'
    BY <2>1, <2>2 DEF Kept
  <2> QED
    BY <2>1, <2>3 DEF Accounted, Writing
<1>15. ASSUME NEW r \in Reader, DropReader(r)
       PROVE  Accounted'
  BY <1>a, <1>15 DEF DropReader, Accounted, Writing, slabVars, readerVars, writerVars
<1>16. ASSUME UNCHANGED vars
       PROVE  Accounted'
  BY <1>a, <1>16 DEF vars, Accounted, Writing, slabVars, readerVars, writerVars
<1> QED
  BY <1>1, <1>3, <1>4, <1>5, <1>6, <1>7, <1>8, <1>9, <1>10, <1>11,
     <1>12, <1>13, <1>14, <1>15, <1>16 DEF Next

-----------------------------------------------------------------------------
(* One reader, no replay: every slot has one owner *)

\* A reader that has begun to join never becomes new again.
LEMMA SoleBefore ==
    ASSUME TypeOK, [Next]_vars, Sole'
    PROVE  Sole
<1>0. jpc \in [Reader -> {"new", "replay", "bound", "dropped"}]
  BY DEF TypeOK
<1>1. ASSUME durable' = durable, \A r \in Reader : jpc[r] # "new" => jpc'[r] # "new"
      PROVE  Sole
  BY <1>1 DEF Sole
<1>2. CASE Aside
  BY <1>1, <1>2, AsideFacts
<1>3. CASE PushLock \/ PushNext
  BY <1>1, <1>3 DEF PushLock, PushNext, joinVars
<1>4. ASSUME NEW r \in Reader, JoinSnapshot(r) \/ JoinReplay(r) \/ JoinRegister(r)
      PROVE  Sole
  <2>1. durable' = durable /\ \/ jpc' = jpc \/ jpc' = [jpc EXCEPT ![r] = "replay"]
                              \/ jpc' = [jpc EXCEPT ![r] = "bound"]
    BY <1>4 DEF JoinSnapshot, JoinReplay, JoinRegister
  <2> QED
    BY <1>0, <1>1, <2>1
<1>5. ASSUME NEW r \in Reader, TakePop(r) \/ TakeRelease(r) \/ DropReader(r)
      PROVE  Sole
  <2>1. durable' = durable /\ (jpc' = jpc \/ jpc' = [jpc EXCEPT ![r] = "dropped"])
    BY <1>5 DEF TakePop, TakeRelease, DropReader, joinVars
  <2> QED
    BY <1>0, <1>1, <2>1
<1>6. CASE UNCHANGED vars
  BY <1>1, <1>6 DEF vars, joinVars
<1> QED
  BY <1>2, <1>3, <1>4, <1>5, <1>6 DEF Next, Aside

\* With one reader, what is left of a push has not been pushed before.
LEMMA SolePush ==
    ASSUME TypeOK, BoundOk, PushOk, Sole, wpc = "push", todo # <<>>
    PROVE  ~ pushed
<1>1. /\ Len(todo) \in Nat /\ Len(todo) > 0 /\ Len(bound) \in Nat
      /\ \A i \in 1 .. Len(bound) : bound[i] \in Reader
  BY TailFacts, LenProperties, ElementOfSeq DEF TypeOK
<1>2. ASSUME pushed
      PROVE  FALSE
  <2>1. 1 \in 1 .. Len(bound) /\ 2 \in 1 .. Len(bound)
    BY <1>1, <1>2 DEF PushOk
  <2>2. jpc[bound[1]] # "new" /\ jpc[bound[2]] # "new"
    BY <2>1 DEF BoundOk
  <2>3. bound[1] = bound[2]
    BY <1>1, <2>1, <2>2 DEF Sole
  <2> QED
    BY <2>1, <2>3 DEF BoundOk
<1> QED
  BY <1>2

\* With one reader, only that one has entries.
LEMMA SoleHolder ==
    ASSUME TypeOK, BoundOk, Sole, NEW r \in Reader, NEW q \in Reader, q # r,
           rings[r] # <<>> \/ hand[r] # <<>>
    PROVE  rings[q] = <<>> /\ hand[q] = <<>>
BY DEF BoundOk, Sole

\* Nothing is held in a slot that is free.
LEMMA FreeNotKept ==
    ASSUME AllIntact, NEW s, s \notin used
    PROVE  ~ Kept(s)
BY DEF AllIntact, Intact, Kept

\* A step that moves no entry.
LEMMA SameOwners ==
    ASSUME AllIntact, Disjoint, UNCHANGED <<used, content, cache, rings, hand>>,
           Writing' => Writing /\ entry' = entry
    PROVE  AllIntact' /\ Disjoint'
<1>1. \A s : Kept(s)' <=> Kept(s)
  BY DEF Kept
<1>2. AllIntact'
  BY DEF AllIntact, Intact
<1>3. (Writing => ~ Kept(entry.slot))'
  BY <1>1 DEF Disjoint
<1> QED
  BY <1>2, <1>3 DEF Disjoint

\* TopicMerger::push hands the slot of the writer over to the one reader.
LEMMA OwnedPushNext ==
    ASSUME TypeOK, WriterOk, BoundOk, PushOk, Sole, AllIntact, Disjoint, PushNext
    PROVE  AllIntact' /\ Disjoint'
<1> DEFINE q == Head(todo)
<1>1. /\ wpc = "push" /\ wpc' = "push" /\ entry' = entry /\ todo # <<>>
      /\ UNCHANGED <<used, content, cache, hand>> /\ Put(q, entry)
      /\ pushed' = (pushed \/ Len(rings[q]) < RingCap)
  BY DEF PushNext, slabVars
<1>2. q \in Reader /\ entry \in Entry
  BY <1>1, TailFacts DEF TypeOK, WriterOk
<1> HIDE DEF q
<1>3. ~ pushed /\ Writing /\ Intact(entry) /\ ~ Kept(entry.slot)
  BY <1>1, SolePush DEF Writing, AllIntact, Disjoint
<1>4. /\ \A r \in Reader : Len(rings[r]) \in Nat
      /\ Len(cache) \in Nat /\ RingCap \in Nat
  BY LenProperties, IntraAssumption DEF TypeOK
<1>5. CASE Len(rings[q]) < RingCap
  <2>1. ~ (Len(rings[q]) >= RingCap)
    BY <1>2, <1>4, <1>5
  <2>2. /\ \A r \in Reader : r # q => rings'[r] = rings[r]
        /\ Len(rings'[q]) = Len(rings[q]) + 1
        /\ \A i \in 1 .. Len(rings[q]) : rings'[q][i] = rings[q][i]
        /\ rings'[q][Len(rings[q]) + 1] = entry
    BY <1>1, <1>2, <2>1, PutFacts
  <2>3. ~ Writing'
    BY <1>1, <1>5 DEF Writing
  <2>5. ASSUME NEW r \in Reader, NEW i \in 1 .. Len(rings'[r])
        PROVE  \/ i \in 1 .. Len(rings[r]) /\ rings'[r][i] = rings[r][i]
               \/ r = q /\ i = Len(rings[q]) + 1 /\ rings'[r][i] = entry
    <3>1. CASE r # q
      BY <2>2, <3>1
    <3>2. CASE r = q
      BY <1>2, <1>4, <2>2, <3>2
    <3> QED
      BY <3>1, <3>2
  <2>6. \A r \in Reader : \A i \in 1 .. Len(rings[r]) : rings[r][i].slot # entry.slot
    BY <1>3 DEF Kept
  <2>7. \A j \in 1 .. Len(cache) : cache[j].slot # entry.slot
    BY <1>3 DEF Kept
  <2>8. \A r \in Reader : hand[r] # <<>> => hand[r].slot # entry.slot
    BY <1>3 DEF Kept
  <2>9. AllIntact'
    <3>1. ASSUME NEW r \in Reader, NEW i \in 1 .. Len(rings'[r])
          PROVE  Intact(rings[r][i])'
      BY <1>1, <1>3, <2>5 DEF AllIntact, Intact
    <3>2. (\A i \in 1 .. Len(cache) : Intact(cache[i]))'
      BY <1>1 DEF AllIntact, Intact
    <3>3. (\A r \in Reader : hand[r] # <<>> => Intact(hand[r]))'
      BY <1>1 DEF AllIntact, Intact
    <3> QED
      BY <2>3, <3>1, <3>2, <3>3 DEF AllIntact
  <2>10. ASSUME NEW r \in Reader, NEW i \in 1 .. Len(rings'[r]),
                NEW j \in 1 .. Len(rings'[r]), rings'[r][i].slot = rings'[r][j].slot
         PROVE  i = j
    <3>1. CASE i \in 1 .. Len(rings[r]) /\ rings'[r][i] = rings[r][i]
      BY <2>5, <2>6, <2>10, <3>1 DEF Disjoint
    <3>2. CASE r = q /\ i = Len(rings[q]) + 1 /\ rings'[r][i] = entry
      BY <2>5, <2>6, <2>10, <3>2
    <3> QED
      BY <2>5, <3>1, <3>2
  <2>11. \A r \in Reader : \A i \in 1 .. Len(rings'[r]), j \in 1 .. Len(cache) :
            rings'[r][i].slot # cache[j].slot
    BY <2>5, <2>7 DEF Disjoint
  <2>12. \A r \in Reader : hand[r] # <<>> =>
            \A i \in 1 .. Len(rings'[r]) : rings'[r][i].slot # hand[r].slot
    BY <2>5, <2>8 DEF Disjoint
  <2>13. Disjoint'
    BY <1>1, <2>3, <2>10, <2>11, <2>12 DEF Disjoint
  <2> QED
    BY <2>9, <2>13
<1>6. CASE ~ (Len(rings[q]) < RingCap)
  <2>1. rings' = rings /\ ~ pushed'
    BY <1>1, <1>3, <1>6 DEF Put
  <2> QED
    BY <1>1, <1>3, <2>1, SameOwners
<1> QED
  BY <1>5, <1>6

\* reserve_and_write gives the writer a slot that nothing else is in.
LEMMA OwnedReserve ==
    ASSUME TypeOK, AllIntact, Disjoint, NEW remote \in Remote, NEW t \in Slot,
           WriteReserve(remote, t)
    PROVE  AllIntact' /\ Disjoint'
<1>1. /\ t \notin used /\ used' = used \cup {t}
      /\ content' = [content EXCEPT ![t] = nextSeq]
      /\ entry' = [seq |-> nextSeq, slot |-> t]
      /\ UNCHANGED <<cache, rings, hand>>
  BY DEF WriteReserve, Reserve, readerVars
<1>2. content \in [Slot -> 0 .. MaxSeq] /\ used \subseteq Slot
  BY DEF TypeOK
<1>3. ASSUME NEW e, Intact(e)
      PROVE  e.slot \in used' /\ content'[e.slot] = e.seq
  BY <1>1, <1>2, <1>3 DEF Intact
<1>4. Intact(entry)'
  BY <1>1, <1>2 DEF Intact
<1>5. (\A i \in 1 .. Len(cache) : Intact(cache[i]))'
  BY <1>1, <1>3 DEF AllIntact, Intact
<1>6. (\A r \in Reader : \A i \in 1 .. Len(rings[r]) : Intact(rings[r][i]))'
  BY <1>1, <1>3 DEF AllIntact, Intact
<1>7. (\A r \in Reader : hand[r] # <<>> => Intact(hand[r]))'
  BY <1>1, <1>3 DEF AllIntact, Intact
<1>8. ~ Kept(t)
  BY <1>1, FreeNotKept
<1>9. (~ Kept(entry.slot))'
  BY <1>1, <1>8 DEF Kept
<1>10. AllIntact'
  BY <1>4, <1>5, <1>6, <1>7 DEF AllIntact
<1>11. Disjoint'
  BY <1>1, <1>9 DEF Disjoint
<1> QED
  BY <1>10, <1>11

\* A slot that no entry is in can be released.
LEMMA OwnedFree ==
    ASSUME AllIntact, Disjoint, NEW s, ~ Kept(s), ~ Writing',
           used' = used \ {s}, UNCHANGED <<content, cache, rings, hand>>
    PROVE  AllIntact' /\ Disjoint'
<1>1. (\A i \in 1 .. Len(cache) : Intact(cache[i]))'
  BY DEF AllIntact, Intact, Kept
<1>2. (\A r \in Reader : \A i \in 1 .. Len(rings[r]) : Intact(rings[r][i]))'
  BY DEF AllIntact, Intact, Kept
<1>3. (\A r \in Reader : hand[r] # <<>> => Intact(hand[r]))'
  BY DEF AllIntact, Intact, Kept
<1>4. AllIntact'
  BY <1>1, <1>2, <1>3 DEF AllIntact
<1>5. Disjoint'
  BY DEF Disjoint
<1> QED
  BY <1>4, <1>5

\* write releases the slot of an entry that the reader did not take.
LEMMA OwnedPushDone ==
    ASSUME AllIntact, Disjoint, PushDone
    PROVE  AllIntact' /\ Disjoint'
<1>1. /\ wpc = "push" /\ wpc' \in {"idle", "cache"}
      /\ UNCHANGED <<cache, rings, hand, content>>
      /\ IF pushed THEN used' = used ELSE used' = used \ {entry.slot}
  BY DEF PushDone, Finish, readerVars, slabVars, Release
<1>2. ~ Writing'
  BY <1>1 DEF Writing
<1>3. CASE pushed
  BY <1>1, <1>2, <1>3, SameOwners
<1>4. CASE ~ pushed
  <2>1. ~ Kept(entry.slot)
    BY <1>1, <1>4 DEF Disjoint, Writing
  <2> QED
    BY <1>1, <1>2, <1>4, <2>1, OwnedFree
<1> QED
  BY <1>3, <1>4

\* HistoryCache::insert uses a free slot and releases that of the entry it
\* takes out of the cache.
LEMMA OwnedInsert ==
    ASSUME TypeOK, WriterOk, AllIntact, Disjoint, NEW t \in Slot, CacheInsert(t)
    PROVE  AllIntact' /\ Disjoint'
<1>1. /\ wpc' = "idle" /\ t \notin used /\ UNCHANGED <<rings, hand>>
      /\ content' = [content EXCEPT ![t] = nextSeq - 1]
  BY DEF CacheInsert, readerVars
<1>2. /\ content \in [Slot -> 0 .. MaxSeq] /\ used \subseteq Slot
      /\ Len(cache) \in Nat /\ Len(cache') \in Nat
  BY InsertFacts DEF TypeOK
<1>3. ~ Writing' /\ ~ Kept(t)
  BY <1>1, FreeNotKept DEF Writing
<1>4. PICK out \in SUBSET {cache[1].slot} :
        /\ used' = (used \cup {t}) \ out
        /\ \A i \in 1 .. Len(cache') :
             \/ cache'[i].slot = t /\ cache'[i].seq = nextSeq - 1 /\ i = Len(cache')
             \/ \E j \in 1 .. Len(cache) :
                  /\ cache'[i] = cache[j] /\ i + Len(cache) = j + Len(cache') - 1
                  /\ out # {} => j # 1
        /\ out # {} => Len(cache) > 0
  <2>1. CASE /\ Len(cache) < Depth /\ Len(cache') = Len(cache) + 1
             /\ \A i \in 1 .. Len(cache) : cache'[i] = cache[i]
             /\ cache'[Len(cache) + 1] = [seq |-> nextSeq - 1, slot |-> t]
             /\ used' = used \cup {t}
    <3>1. ASSUME NEW i \in 1 .. Len(cache')
          PROVE  \/ cache'[i].slot = t /\ cache'[i].seq = nextSeq - 1 /\ i = Len(cache')
                 \/ \E j \in 1 .. Len(cache) :
                      cache'[i] = cache[j] /\ i + Len(cache) = j + Len(cache') - 1
      BY <1>2, <2>1
    <3>2. {} \in SUBSET {cache[1].slot} /\ used' = (used \cup {t}) \ {}
      BY <2>1
    <3> QED
      BY <3>1, <3>2
  <2>2. CASE /\ Len(cache) = Depth /\ Len(cache') = Depth /\ Depth > 0
             /\ \A i \in 1 .. Len(cache) - 1 : cache'[i] = cache[i + 1]
             /\ cache'[Len(cache)] = [seq |-> nextSeq - 1, slot |-> t]
             /\ used' = (used \cup {t}) \ {cache[1].slot}
    <3>1. ASSUME NEW i \in 1 .. Len(cache')
          PROVE  \/ cache'[i].slot = t /\ cache'[i].seq = nextSeq - 1 /\ i = Len(cache')
                 \/ \E j \in 1 .. Len(cache) :
                      cache'[i] = cache[j] /\ i + Len(cache) = j + Len(cache') - 1 /\ j # 1
      <4>1. CASE i = Len(cache)
        BY <2>2, <4>1
      <4>2. CASE i # Len(cache)
        <5>1. i \in 1 .. Len(cache) - 1 /\ i + 1 \in 1 .. Len(cache) /\ i + 1 # 1
          BY <1>2, <2>2, <4>2
        <5>2. cache'[i] = cache[i + 1] /\ i + Len(cache) = (i + 1) + Len(cache') - 1
          BY <1>2, <2>2, <5>1
        <5> QED
          BY <5>1, <5>2
      <4> QED
        BY <4>1, <4>2
    <3> QED
      BY <2>2, <3>1
  <2> QED
    BY <2>1, <2>2, InsertFacts
<1>5. \A r \in Reader : \A i \in 1 .. Len(rings[r]) :
        rings[r][i].slot \notin out /\ rings[r][i].slot # t /\ rings[r][i].slot \in used
  <2>1. ASSUME NEW r \in Reader, NEW i \in 1 .. Len(rings[r]), out # {}
        PROVE  rings[r][i].slot # cache[1].slot
    BY <1>2, <1>4, <2>1 DEF Disjoint
  <2> QED
    BY <1>1, <2>1 DEF AllIntact, Intact
<1>6. \A r \in Reader : hand[r] # <<>> =>
        hand[r].slot \notin out /\ hand[r].slot # t /\ hand[r].slot \in used
  <2>1. ASSUME NEW r \in Reader, hand[r] # <<>>, out # {}
        PROVE  hand[r].slot # cache[1].slot
    BY <1>2, <1>4, <2>1 DEF Disjoint
  <2> QED
    BY <1>1, <2>1 DEF AllIntact, Intact
<1>7. t \notin out
  <2>1. out # {} => cache[1].slot \in used
    BY <1>2, <1>4 DEF AllIntact, Intact
  <2> QED
    BY <1>1, <2>1
<1>8. ASSUME NEW j \in 1 .. Len(cache), out # {} => j # 1
      PROVE  cache[j].slot \notin out /\ cache[j].slot # t /\ cache[j].slot \in used
  <2>1. ASSUME out # {}
        PROVE  cache[j].slot # cache[1].slot
    BY <1>2, <1>4, <1>8, <2>1 DEF Disjoint
  <2> QED
    BY <1>1, <2>1 DEF AllIntact, Intact
<1>9. ASSUME NEW s \in used, s # t, s \notin out
      PROVE  s \in used' /\ content'[s] = content[s]
  BY <1>1, <1>2, <1>4, <1>9
<1>10. AllIntact'
  <2>1. ASSUME NEW i \in 1 .. Len(cache')
        PROVE  Intact(cache[i])'
    <3>1. CASE cache'[i].slot = t /\ cache'[i].seq = nextSeq - 1
      BY <1>1, <1>2, <1>4, <1>7, <3>1 DEF Intact
    <3>2. CASE \E j \in 1 .. Len(cache) : cache'[i] = cache[j] /\ (out # {} => j # 1)
      <4>1. PICK j \in 1 .. Len(cache) : cache'[i] = cache[j] /\ (out # {} => j # 1)
        BY <3>2
      <4>2. cache[j].slot \in used' /\ content'[cache[j].slot] = content[cache[j].slot]
        BY <1>8, <1>9, <4>1
      <4> QED
        BY <4>1, <4>2 DEF AllIntact, Intact
    <3> QED
      BY <1>4, <3>1, <3>2
  <2>2. (\A r \in Reader : \A i \in 1 .. Len(rings[r]) : Intact(rings[r][i]))'
    BY <1>1, <1>5, <1>9 DEF AllIntact, Intact
  <2>3. (\A r \in Reader : hand[r] # <<>> => Intact(hand[r]))'
    BY <1>1, <1>6, <1>9 DEF AllIntact, Intact
  <2> QED
    BY <1>3, <2>1, <2>2, <2>3 DEF AllIntact
<1>11. Disjoint'
  <2>1. ASSUME NEW i \in 1 .. Len(cache'), NEW j \in 1 .. Len(cache'),
               cache'[i].slot = cache'[j].slot
        PROVE  i = j
    <3>1. CASE cache'[i].slot = t /\ i = Len(cache')
      BY <1>4, <1>8, <2>1, <3>1
    <3>2. CASE cache'[j].slot = t /\ j = Len(cache')
      BY <1>4, <1>8, <2>1, <3>2
    <3>3. CASE /\ \E k \in 1 .. Len(cache) :
                    cache'[i] = cache[k] /\ i + Len(cache) = k + Len(cache') - 1
               /\ \E k \in 1 .. Len(cache) :
                    cache'[j] = cache[k] /\ j + Len(cache) = k + Len(cache') - 1
      <4>1. PICK k \in 1 .. Len(cache) :
                    cache'[i] = cache[k] /\ i + Len(cache) = k + Len(cache') - 1
        BY <3>3
      <4>2. PICK m \in 1 .. Len(cache) :
                    cache'[j] = cache[m] /\ j + Len(cache) = m + Len(cache') - 1
        BY <3>3
      <4>3. k = m
        BY <2>1, <4>1, <4>2 DEF Disjoint
      <4> QED
        BY <1>2, <4>1, <4>2, <4>3
    <3> QED
      BY <1>4, <3>1, <3>2, <3>3
  <2>2. ASSUME NEW r \in Reader, NEW i \in 1 .. Len(rings[r]), NEW j \in 1 .. Len(cache')
        PROVE  rings[r][i].slot # cache'[j].slot
    BY <1>4, <1>5 DEF Disjoint
  <2>3. ASSUME NEW r \in Reader, hand[r] # <<>>, NEW j \in 1 .. Len(cache')
        PROVE  cache'[j].slot # hand[r].slot
    BY <1>4, <1>6, <2>3 DEF Disjoint
  <2> QED
    BY <1>1, <1>3, <2>1, <2>2, <2>3 DEF Disjoint
<1> QED
  BY <1>10, <1>11

\* The reader takes over the slot of the first entry of its ring.
LEMMA OwnedPop ==
    ASSUME TypeOK, AllIntact, Disjoint, NEW r \in Reader, TakePop(r)
    PROVE  AllIntact' /\ Disjoint'
<1>1. /\ rings[r] # <<>> /\ rings' = [rings EXCEPT ![r] = Tail(@)]
      /\ hand[r] = <<>> /\ hand' = [hand EXCEPT ![r] = Head(rings[r])]
      /\ UNCHANGED <<used, content, cache, wpc, entry, pushed>>
  BY DEF TakePop, slabVars, writerVars
<1>2. /\ \A q \in Reader : q # r => rings'[q] = rings[q]
      /\ Len(rings[r]) \in Nat /\ Len(rings[r]) > 0
      /\ Len(rings'[r]) = Len(rings[r]) - 1
      /\ \A i \in 1 .. Len(rings[r]) - 1 : rings'[r][i] = rings[r][i + 1]
      /\ Head(rings[r]) = rings[r][1]
  BY <1>1, PopFacts
<1>3. hand'[r] = rings[r][1] /\ \A q \in Reader : q # r => hand'[q] = hand[q]
  BY <1>1, <1>2 DEF TypeOK
<1>4. ASSUME NEW q \in Reader, NEW i \in 1 .. Len(rings'[q])
      PROVE  \E k \in 1 .. Len(rings[q]) :
                /\ rings'[q][i] = rings[q][k]
                /\ q = r => k = i + 1
                /\ q # r => k = i
  <2>1. CASE q # r
    BY <1>2, <2>1
  <2>2. CASE q = r
    <3>1. i \in 1 .. Len(rings[r]) - 1 /\ i + 1 \in 1 .. Len(rings[r])
      BY <1>2, <2>2
    <3> QED
      BY <1>2, <2>2, <3>1
  <2> QED
    BY <2>1, <2>2
<1>5. 1 \in 1 .. Len(rings[r])
  BY <1>2
<1>6. Writing' <=> Writing
  BY <1>1 DEF Writing
<1>7. AllIntact'
  <2>1. (\A i \in 1 .. Len(cache) : Intact(cache[i]))'
    BY <1>1 DEF AllIntact, Intact
  <2>2. ASSUME NEW q \in Reader, NEW i \in 1 .. Len(rings'[q])
        PROVE  Intact(rings[q][i])'
    BY <1>1, <1>4 DEF AllIntact, Intact
  <2>3. ASSUME NEW q \in Reader, hand'[q] # <<>>
        PROVE  Intact(hand[q])'
    BY <1>1, <1>3, <1>5, <2>3 DEF AllIntact, Intact
  <2>4. (Writing => Intact(entry))'
    BY <1>1, <1>6 DEF AllIntact, Intact
  <2> QED
    BY <2>1, <2>2, <2>3, <2>4 DEF AllIntact
<1>8. Disjoint'
  <2>1. ASSUME NEW q \in Reader, NEW i \in 1 .. Len(rings'[q]),
               NEW j \in 1 .. Len(rings'[q]), rings'[q][i].slot = rings'[q][j].slot
        PROVE  i = j
    <3>1. PICK k \in 1 .. Len(rings[q]) :
             rings'[q][i] = rings[q][k] /\ (q = r => k = i + 1) /\ (q # r => k = i)
      BY <1>4
    <3>2. PICK m \in 1 .. Len(rings[q]) :
             rings'[q][j] = rings[q][m] /\ (q = r => m = j + 1) /\ (q # r => m = j)
      BY <1>4
    <3>3. k = m
      BY <2>1, <3>1, <3>2 DEF Disjoint
    <3> QED
      BY <3>1, <3>2, <3>3
  <2>2. ASSUME NEW q \in Reader, NEW i \in 1 .. Len(rings'[q]), NEW j \in 1 .. Len(cache)
        PROVE  rings'[q][i].slot # cache[j].slot
    BY <1>4 DEF Disjoint
  <2>3. ASSUME NEW q \in Reader, hand'[q] # <<>>, NEW i \in 1 .. Len(rings'[q])
        PROVE  rings'[q][i].slot # hand'[q].slot
    <3>1. PICK k \in 1 .. Len(rings[q]) :
             rings'[q][i] = rings[q][k] /\ (q = r => k = i + 1) /\ (q # r => k = i)
      BY <1>4
    <3>2. CASE q = r
      <4>1. k # 1
        BY <3>1, <3>2, <1>2
      <4>2. rings[r][k].slot # rings[r][1].slot
        BY <1>5, <3>1, <3>2, <4>1 DEF Disjoint
      <4> QED
        BY <1>3, <3>1, <3>2, <4>2
    <3>3. CASE q # r
      BY <1>3, <2>3, <3>1, <3>3 DEF Disjoint
    <3> QED
      BY <3>2, <3>3
  <2>4. ASSUME NEW q \in Reader, hand'[q] # <<>>, NEW j \in 1 .. Len(cache)
        PROVE  cache[j].slot # hand'[q].slot
    BY <1>3, <1>5, <2>4 DEF Disjoint
  <2>5. ASSUME Writing
        PROVE  ~ Kept(entry.slot)'
    <3>1. ~ Kept(entry.slot)
      BY <2>5 DEF Disjoint
    <3>2. ~ \E i \in 1 .. Len(cache') : cache'[i].slot = entry'.slot
      BY <1>1, <3>1 DEF Kept
    <3>3. ~ \E q \in Reader : \E i \in 1 .. Len(rings'[q]) : rings'[q][i].slot = entry'.slot
      BY <1>1, <1>4, <3>1 DEF Kept
    <3>4. ~ \E q \in Reader : hand'[q] # <<>> /\ hand'[q].slot = entry'.slot
      BY <1>1, <1>3, <1>5, <3>1 DEF Kept
    <3> QED
      BY <1>1, <3>2, <3>3, <3>4 DEF Kept
  <2> QED
    BY <1>1, <1>6, <2>1, <2>2, <2>3, <2>4, <2>5 DEF Disjoint
<1> QED
  BY <1>7, <1>8

\* The reader releases a slot that nobody else is in.
LEMMA OwnedRelease ==
    ASSUME TypeOK, BoundOk, Sole, AllIntact, Disjoint, NEW r \in Reader, TakeRelease(r)
    PROVE  AllIntact' /\ Disjoint'
<1>1. /\ hand[r] # <<>> /\ used' = used \ {hand[r].slot}
      /\ hand' = [hand EXCEPT ![r] = <<>>]
      /\ UNCHANGED <<content, cache, rings, wpc, entry, pushed>>
  BY DEF TakeRelease, Release, writerVars
<1>2. \A q \in Reader : hand'[q] = <<>>
  BY <1>1, SoleHolder DEF TypeOK
<1>3. (\A i \in 1 .. Len(cache) : Intact(cache[i]))'
  BY <1>1 DEF AllIntact, Intact, Disjoint
<1>4. ASSUME NEW q \in Reader, NEW i \in 1 .. Len(rings[q])
      PROVE  Intact(rings[q][i])'
  <2>1. CASE q = r
    BY <1>1, <2>1 DEF AllIntact, Intact, Disjoint
  <2>2. CASE q # r
    <3>1. rings[q] = <<>>
      BY <1>1, <2>2, SoleHolder
    <3> QED
      BY <3>1
  <2> QED
    BY <2>1, <2>2
<1>5. Writing' <=> Writing
  BY <1>1 DEF Writing
<1>6. ASSUME Writing
      PROVE  entry.slot # hand[r].slot /\ ~ Kept(entry.slot)
  BY <1>1, <1>6 DEF Disjoint, Kept
<1>7. (Writing => Intact(entry))'
  BY <1>1, <1>5, <1>6 DEF AllIntact, Intact
<1>8. (Writing => ~ Kept(entry.slot))'
  BY <1>1, <1>2, <1>5, <1>6 DEF Kept
<1>9. AllIntact'
  BY <1>1, <1>2, <1>3, <1>4, <1>7 DEF AllIntact
<1>10. Disjoint'
  BY <1>1, <1>2, <1>8 DEF Disjoint
<1> QED
  BY <1>9, <1>10

\* With one reader and no replay every step keeps the owners apart.
LEMMA OwnedStep ==
    ASSUME TypeOK, WriterOk, BoundOk, PushOk, NoReplay, Owned, [Next]_vars
    PROVE  Owned'
<1> SUFFICES ASSUME Sole'
             PROVE  AllIntact' /\ Disjoint'
  BY DEF Owned
<1>0. Sole /\ AllIntact /\ Disjoint
  BY SoleBefore DEF Owned
<1>1. ASSUME NEW remote \in Remote, NEW t \in Slot, WriteReserve(remote, t)
      PROVE  AllIntact' /\ Disjoint'
  BY <1>0, <1>1, OwnedReserve
<1>2. ASSUME \/ \E remote \in Remote : WriteNoSlot(remote)
             \/ WriteRemoteOnly \/ PushLock \/ CacheNoSlot
      PROVE  AllIntact' /\ Disjoint'
  <2>1. /\ UNCHANGED <<used, content, cache, rings, hand, entry>>
        /\ Writing' => Writing
    BY <1>2 DEF WriteNoSlot, WriteRemoteOnly, PushLock, CacheNoSlot, Writing,
                slabVars, readerVars
  <2> QED
    BY <1>0, <2>1, SameOwners
<1>3. ASSUME PushNext
      PROVE  AllIntact' /\ Disjoint'
  BY <1>0, <1>3, OwnedPushNext
<1>4. ASSUME PushDone
      PROVE  AllIntact' /\ Disjoint'
  BY <1>0, <1>4, OwnedPushDone
<1>5. ASSUME NEW t \in Slot, CacheInsert(t)
      PROVE  AllIntact' /\ Disjoint'
  BY <1>0, <1>5, OwnedInsert
<1>6. ASSUME NEW r \in Reader, JoinSnapshot(r) \/ JoinRegister(r) \/ DropReader(r)
      PROVE  AllIntact' /\ Disjoint'
  <2>1. UNCHANGED <<used, content, cache, rings, hand, entry, wpc, pushed>>
    BY <1>6 DEF JoinSnapshot, JoinRegister, DropReader, slabVars, readerVars, writerVars
  <2> QED
    BY <1>0, <2>1, SameOwners DEF Writing
<1>7. ASSUME NEW r \in Reader, JoinReplay(r)
      PROVE  FALSE
  BY <1>0, <1>7 DEF JoinReplay, NoReplay, Sole
<1>8. ASSUME NEW r \in Reader, TakePop(r)
      PROVE  AllIntact' /\ Disjoint'
  BY <1>0, <1>8, OwnedPop
<1>9. ASSUME NEW r \in Reader, TakeRelease(r)
      PROVE  AllIntact' /\ Disjoint'
  BY <1>0, <1>9, OwnedRelease
<1>10. ASSUME UNCHANGED vars
       PROVE  AllIntact' /\ Disjoint'
  <2>1. UNCHANGED <<used, content, cache, rings, hand, entry, wpc, pushed>>
    BY <1>10 DEF vars, slabVars, readerVars, writerVars
  <2> QED
    BY <1>0, <2>1, SameOwners DEF Writing
<1> QED
  BY <1>1, <1>2, <1>3, <1>4, <1>5, <1>6, <1>7, <1>8, <1>9, <1>10 DEF Next

-----------------------------------------------------------------------------
(* The slots of the pool *)

\* The start of the process establishes the invariant.
LEMMA InitIInv == Init => IInv
<1> SUFFICES ASSUME Init PROVE IInv
  OBVIOUS
<1>1. /\ cache = <<>> /\ bound = <<>> /\ todo = <<>> /\ wpc = "idle" /\ used = {}
      /\ rings = [r \in Reader |-> <<>>] /\ hand = [r \in Reader |-> <<>>]
      /\ replay = [r \in Reader |-> <<>>] /\ jpc = [r \in Reader |-> "new"]
      /\ durable \in BOOLEAN
  BY IntraAssumption DEF Init
<1>2. TypeOK
  <2>1. /\ <<>> \in Seq(Entry) /\ <<>> \in Seq(Reader) /\ Len(<<>>) = 0
    OBVIOUS
  <2>2. /\ used \subseteq Slot /\ content \in [Slot -> 0 .. MaxSeq]
        /\ cache \in Seq(Entry) /\ Len(cache) <= Depth /\ bound \in Seq(Reader)
        /\ entry \in Entry \cup {<<>>} /\ todo \in Seq(Reader)
        /\ nextSeq \in 1 .. MaxSeq + 1
    BY <1>1, <2>1, IntraAssumption DEF Init
  <2>3. /\ jpc \in [Reader -> {"new", "replay", "bound", "dropped"}]
        /\ rings \in [Reader -> Seq(Entry)] /\ replay \in [Reader -> Seq(Entry)]
        /\ hand \in [Reader -> Entry \cup {<<>>}]
    BY <1>1, <2>1
  <2>4. \A r \in Reader : Len(rings[r]) <= RingCap
    BY <1>1, <2>1, IntraAssumption
  <2>5. /\ offered \in [Reader -> SUBSET (1 .. MaxSeq)]
        /\ promised \in [Reader -> SUBSET (1 .. MaxSeq)]
        /\ missed \in [Reader -> SUBSET (1 .. MaxSeq)]
        /\ stored \subseteq 1 .. MaxSeq /\ bypassed \subseteq 1 .. MaxSeq
    BY DEF Init
  <2>6. pushed \in BOOLEAN /\ fast \in BOOLEAN /\ wpc \in {"idle", "lock", "push", "cache"}
    BY DEF Init
  <2> QED
    BY <1>1, <2>2, <2>3, <2>4, <2>5, <2>6 DEF TypeOK
<1>3. WriterOk /\ BoundOk /\ PushOk /\ Accounted /\ NoReplay
  BY <1>1 DEF WriterOk, BoundOk, PushOk, Accounted, NoReplay
<1>4. AllIntact /\ Disjoint
  BY <1>1 DEF AllIntact, Disjoint, Writing
<1> QED
  BY <1>2, <1>3, <1>4 DEF IInv, Owned

\* Every step keeps it.
LEMMA StepIInv == ASSUME IInv, [Next]_vars PROVE IInv'
BY TypeStep, BoundStep, AccountedStep, OwnedStep DEF IInv

\* Who holds a pending entry.
LEMMA PendingCases ==
    ASSUME NEW e
    PROVE  e \in Pending <=>
             \/ e \in Range(cache)
             \/ \E r \in Reader : jpc[r] # "dropped" /\ e \in Range(rings[r])
             \/ \E r \in Reader : hand[r] # <<>> /\ e = hand[r]
             \/ /\ wpc = "lock" \/ (wpc = "push" /\ (todo # <<>> \/ ~ pushed))
                /\ e = entry
<1> DEFINE W == wpc = "lock" \/ (wpc = "push" /\ (todo # <<>> \/ ~ pushed))
           R == UNION {Range(rings[r]) : r \in {q \in Reader : jpc[q] # "dropped"}}
           H == {hand[r] : r \in {q \in Reader : hand[q] # <<>>}}
           E == IF W THEN {entry} ELSE {}
<1>1. Pending = Range(cache) \cup R \cup H \cup E
  BY DEF Pending
<1>2. e \in R <=> \E r \in Reader : jpc[r] # "dropped" /\ e \in Range(rings[r])
  OBVIOUS
<1>3. e \in H <=> \E r \in Reader : hand[r] # <<>> /\ e = hand[r]
  OBVIOUS
<1>4. e \in E <=> W /\ e = entry
  OBVIOUS
<1> HIDE DEF R, H, E
<1>5. e \in Pending <=> e \in Range(cache) \/ e \in R \/ e \in H \/ e \in E
  BY <1>1
<1> QED
  BY <1>2, <1>3, <1>4, <1>5

\* A reserved slot that is accounted for is the slot of a pending entry when
\* no reader was dropped.
LEMMA AccountedNoLeak == ASSUME IInv PROVE NoSlotLeakAlive
<1> SUFFICES ASSUME \A r \in Reader : jpc[r] # "dropped", NEW s \in used
             PROVE  \E e \in Pending : e.slot = s
  BY DEF NoSlotLeakAlive, NoSlotLeak
<1>1. /\ cache \in Seq(Entry) /\ rings \in [Reader -> Seq(Entry)]
      /\ \A r \in Reader : rings[r] \in Seq(Entry)
  BY DEF IInv, TypeOK
<1>2. Kept(s) \/ (Writing /\ entry.slot = s)
  BY DEF IInv, Accounted
<1>3. CASE Writing /\ entry.slot = s
  <2>1. entry \in Pending
    BY <1>3, PendingCases DEF Writing
  <2> QED
    BY <1>3, <2>1
<1>4. CASE \E i \in 1 .. Len(cache) : cache[i].slot = s
  <2>1. PICK i \in 1 .. Len(cache) : cache[i].slot = s
    BY <1>4
  <2>2. cache[i] \in Range(cache)
    BY <1>1, LenProperties DEF Range
  <2> QED
    BY <2>1, <2>2, PendingCases
<1>5. CASE \E r \in Reader : \E i \in 1 .. Len(rings[r]) : rings[r][i].slot = s
  <2>1. PICK r \in Reader : \E i \in 1 .. Len(rings[r]) : rings[r][i].slot = s
    BY <1>5
  <2>2. PICK i \in 1 .. Len(rings[r]) : rings[r][i].slot = s
    BY <2>1
  <2>3. rings[r][i] \in Range(rings[r])
    BY <1>1, LenProperties DEF Range
  <2> QED
    BY <2>2, <2>3, PendingCases
<1>6. CASE \E r \in Reader : hand[r] # <<>> /\ hand[r].slot = s
  BY <1>6, PendingCases
<1> QED
  BY <1>2, <1>3, <1>4, <1>5, <1>6 DEF Kept

\* At most one reader in the sense of the property is at most one reader.
LEMMA OneReader ==
    ASSUME TypeOK, ~ durable, Cardinality({r \in Reader : jpc[r] # "new"}) <= 1
    PROVE  Sole
<1> DEFINE J == {r \in Reader : jpc[r] # "new"}
<1>1. IsFiniteSet(J)
  BY IntraAssumption, FS_Subset
<1>2. ASSUME NEW r \in J, NEW q \in J, r # q
      PROVE  FALSE
  <2>1. {r, q} \subseteq J /\ IsFiniteSet({r, q})
    BY <1>1, FS_Subset
  <2>2. Cardinality({r, q}) <= Cardinality(J)
    BY <1>1, <2>1, FS_Subset
  <2>3. Cardinality({r}) = 1 /\ IsFiniteSet({r})
    BY FS_Singleton
  <2>4. {r} \cup {q} = {r, q} /\ q \notin {r}
    BY <1>2
  <2>5. Cardinality({r} \cup {q}) = Cardinality({r}) + 1
    BY <2>3, <2>4, FS_AddElement
  <2> QED
    BY <2>2, <2>3, <2>4, <2>5, <1>1, FS_CardinalityType
<1> QED
  BY <1>2 DEF Sole

\* Slots with one owner are intact.
LEMMA OwnedHandles == ASSUME IInv PROVE HandlesIntactSoleReader
<1> SUFFICES ASSUME ~ durable, Cardinality({r \in Reader : jpc[r] # "new"}) <= 1,
                    NEW e \in Pending
             PROVE  Intact(e)
  BY DEF HandlesIntactSoleReader, HandlesIntact, Intact
<1>1. /\ cache \in Seq(Entry) /\ \A r \in Reader : rings[r] \in Seq(Entry)
      /\ TypeOK /\ BoundOk /\ PushOk
  BY DEF IInv, TypeOK
<1>2. Sole
  BY <1>1, OneReader
<1>3. AllIntact
  BY <1>2 DEF IInv, Owned
<1>4. CASE e \in Range(cache)
  <2>1. PICK i \in DOMAIN cache : e = cache[i]
    BY <1>4 DEF Range
  <2>2. i \in 1 .. Len(cache)
    BY <1>1, <2>1, LenProperties
  <2> QED
    BY <1>3, <2>1, <2>2 DEF AllIntact
<1>5. CASE \E r \in Reader : e \in Range(rings[r])
  <2>1. PICK r \in Reader : e \in Range(rings[r])
    BY <1>5
  <2>2. PICK i \in DOMAIN rings[r] : e = rings[r][i]
    BY <2>1 DEF Range
  <2>3. i \in 1 .. Len(rings[r])
    BY <1>1, <2>2, LenProperties
  <2> QED
    BY <1>3, <2>2, <2>3 DEF AllIntact
<1>6. CASE \E r \in Reader : hand[r] # <<>> /\ e = hand[r]
  BY <1>3, <1>6 DEF AllIntact
<1>7. CASE /\ wpc = "lock" \/ (wpc = "push" /\ (todo # <<>> \/ ~ pushed))
           /\ e = entry
  <2>1. Writing
    BY <1>1, <1>2, <1>7, SolePush DEF Writing
  <2> QED
    BY <1>3, <1>7, <2>1 DEF AllIntact
<1>8. \/ e \in Range(cache)
      \/ \E r \in Reader : e \in Range(rings[r])
      \/ \E r \in Reader : hand[r] # <<>> /\ e = hand[r]
      \/ (wpc = "lock" \/ (wpc = "push" /\ (todo # <<>> \/ ~ pushed))) /\ e = entry
  BY PendingCases
<1> QED
  BY <1>4, <1>5, <1>6, <1>7, <1>8

\* No step of a writer, of a joining reader or of a reader that takes leaks
\* a slot of the pool while no reader is dropped, and with one reader and no
\* replay whoever reads through a handle finds the sample it was made for
\* (SlabPool::reserve and release, TopicMerger::push, HistoryCache::insert).
THEOREM SlotsSafe ==
    Spec => [](TypeOK /\ NoSlotLeakAlive /\ HandlesIntactSoleReader)
<1>1. Init => IInv
  BY InitIInv
<1>2. IInv /\ [Next]_vars => IInv'
  BY StepIInv
<1>3. IInv => TypeOK /\ NoSlotLeakAlive /\ HandlesIntactSoleReader
  BY AccountedNoLeak, OwnedHandles DEF IInv
<1> QED
  BY <1>1, <1>2, <1>3, PTL DEF Spec

-----------------------------------------------------------------------------
(* What the history cache owes to a late joiner *)

\* The cache holds every stored sample that is among the last Depth written:
\* a stored sample that is not in it has Depth younger ones.
LEMMA LastStored ==
    ASSUME TypeOK, CacheOk, NEW n \in LastWritten \cap stored
    PROVE  \E i \in 1 .. Len(cache) : cache[i].seq = n
<1> DEFINE wrote == stored \cup bypassed
           younger == {m \in wrote : m > n}
           f == [i \in 1 .. Depth |-> cache[i].seq]
<1> SUFFICES ASSUME Len(cache) = Depth,
                    \A i \in 1 .. Len(cache) : cache[i].seq > n
             PROVE  FALSE
  BY DEF CacheOk
<1>1. Cardinality(younger) < Depth
  BY DEF LastWritten
<1>2. /\ wrote \subseteq 1 .. MaxSeq /\ MaxSeq \in Nat /\ Depth \in Nat /\ Depth > 0
      /\ n \in Int
  <2>1. n \in stored /\ stored \subseteq 1 .. MaxSeq /\ bypassed \subseteq 1 .. MaxSeq
    BY DEF TypeOK
  <2> QED
    BY <2>1, IntraAssumption
<1>3. IsFiniteSet(younger)
  <2>1. IsFiniteSet(1 .. MaxSeq)
    BY <1>2, FS_Interval
  <2> QED
    BY <1>2, <2>1, FS_Subset
<1>4. f \in [1 .. Depth -> younger]
  BY DEF CacheOk
<1>5. ASSUME NEW i \in 1 .. Depth, NEW j \in 1 .. Depth, f[i] = f[j]
      PROVE  i = j
  <2>1. cache[i].seq = cache[j].seq /\ cache[i].seq \in Int
    BY <1>2, <1>5 DEF CacheOk
  <2>2. ~ (i < j) /\ ~ (j < i)
    BY <2>1 DEF CacheOk
  <2> QED
    BY <1>2, <2>2
<1>6. f \in Injection(1 .. Depth, younger)
  BY <1>4, <1>5 DEF Injection, IsInjective
<1>7. Cardinality(1 .. Depth) <= Cardinality(younger)
  BY <1>3, <1>6, FS_Injection
<1>8. Cardinality(1 .. Depth) = Depth
  BY <1>2, FS_Interval
<1> QED
  BY <1>1, <1>2, <1>3, <1>7, <1>8, FS_CardinalityType

\* The steps that change neither the cache nor what was stored.
LEMMA CacheSame ==
    ASSUME CacheOk, UNCHANGED <<cache, stored>>
    PROVE  CacheOk'
BY DEF CacheOk

\* HistoryCache::insert keeps the cache in order and complete.
LEMMA CacheStep ==
    ASSUME TypeOK, WriterOk, CacheOk, WroteOk, NEW t \in Slot, CacheInsert(t)
    PROVE  CacheOk'
<1> DEFINE new == nextSeq - 1
<1>1. stored' = stored \cup {new} /\ wpc # "idle"
  BY DEF CacheInsert
<1>2. /\ Len(cache) \in Nat /\ Len(cache') \in Nat /\ new \in Int /\ Depth \in Nat
      /\ stored \subseteq Int
  BY InsertFacts, IntraAssumption DEF TypeOK
<1>3. \A n \in stored : n < new
  BY <1>1 DEF WroteOk
<1> HIDE DEF new
<1>4. CASE /\ Len(cache) < Depth /\ Len(cache') = Len(cache) + 1
           /\ \A i \in 1 .. Len(cache) : cache'[i] = cache[i]
           /\ cache'[Len(cache) + 1].seq = new
  <2>1. ASSUME NEW i \in 1 .. Len(cache')
        PROVE  \/ i \in 1 .. Len(cache) /\ cache'[i] = cache[i] /\ cache[i].seq \in stored
               \/ i = Len(cache) + 1 /\ cache'[i].seq = new
    BY <1>2, <1>4 DEF CacheOk
  <2>2. ASSUME NEW i \in 1 .. Len(cache'), NEW j \in 1 .. Len(cache'), i < j
        PROVE  cache'[i].seq < cache'[j].seq
    <3>1. i \in 1 .. Len(cache) /\ cache'[i] = cache[i] /\ cache[i].seq \in stored
      BY <1>2, <1>4, <2>1, <2>2
    <3>2. CASE j = Len(cache) + 1 /\ cache'[j].seq = new
      BY <1>3, <3>1, <3>2
    <3>3. CASE j \in 1 .. Len(cache) /\ cache'[j] = cache[j]
      BY <2>2, <3>1, <3>3 DEF CacheOk
    <3> QED
      BY <2>1, <3>2, <3>3
  <2>3. \A i \in 1 .. Len(cache') : cache'[i].seq \in stored'
    BY <1>1, <2>1
  <2>4. ASSUME NEW n \in stored'
        PROVE  \E i \in 1 .. Len(cache') : cache'[i].seq = n
    <3>1. CASE n = new
      <4>1. Len(cache) + 1 \in 1 .. Len(cache')
        BY <1>2, <1>4
      <4> QED
        BY <1>4, <3>1, <4>1
    <3>2. CASE n \in stored
      <4>1. PICK i \in 1 .. Len(cache) : cache[i].seq = n
        BY <1>2, <1>4, <3>2 DEF CacheOk
      <4>2. i \in 1 .. Len(cache') /\ cache'[i].seq = n
        BY <1>2, <1>4, <4>1
      <4> QED
        BY <4>2
    <3> QED
      BY <1>1, <3>1, <3>2
  <2> QED
    BY <2>2, <2>3, <2>4 DEF CacheOk
<1>5. CASE /\ Len(cache) = Depth /\ Len(cache') = Depth /\ Depth > 0
           /\ \A i \in 1 .. Len(cache) - 1 : cache'[i] = cache[i + 1]
           /\ cache'[Len(cache)].seq = new
  <2>1. ASSUME NEW i \in 1 .. Len(cache')
        PROVE  \/ /\ i + 1 \in 1 .. Len(cache) /\ cache'[i] = cache[i + 1]
                  /\ cache[i + 1].seq \in stored
               \/ i = Len(cache) /\ cache'[i].seq = new
    <3>1. CASE i = Len(cache)
      BY <1>5, <3>1
    <3>2. CASE i # Len(cache)
      <4>1. i \in 1 .. Len(cache) - 1 /\ i + 1 \in 1 .. Len(cache)
        BY <1>2, <1>5, <3>2
      <4> QED
        BY <1>5, <4>1 DEF CacheOk
    <3> QED
      BY <3>1, <3>2
  <2>2. ASSUME NEW i \in 1 .. Len(cache'), NEW j \in 1 .. Len(cache'), i < j
        PROVE  cache'[i].seq < cache'[j].seq
    <3>1. i + 1 \in 1 .. Len(cache) /\ cache'[i] = cache[i + 1] /\ cache[i + 1].seq \in stored
      BY <1>2, <1>5, <2>1, <2>2
    <3>2. CASE j = Len(cache) /\ cache'[j].seq = new
      BY <1>3, <3>1, <3>2
    <3>3. CASE j + 1 \in 1 .. Len(cache) /\ cache'[j] = cache[j + 1]
      <4>1. i + 1 < j + 1
        BY <2>2
      <4> QED
        BY <3>1, <3>3, <4>1 DEF CacheOk
    <3> QED
      BY <2>1, <3>2, <3>3
  <2>3. \A i \in 1 .. Len(cache') : cache'[i].seq \in stored'
    BY <1>1, <2>1
  <2>4. 1 \in 1 .. Len(cache) /\ cache[1].seq \in stored
    BY <1>2, <1>5 DEF CacheOk
  <2>5. \A i \in 1 .. Len(cache') : cache'[i].seq > cache[1].seq
    <3>1. ASSUME NEW i \in 1 .. Len(cache')
          PROVE  cache'[i].seq > cache[1].seq
      <4>1. CASE cache'[i].seq = new
        BY <1>2, <1>3, <2>4, <4>1
      <4>2. CASE i + 1 \in 1 .. Len(cache) /\ cache'[i] = cache[i + 1] /\ cache[i + 1].seq \in stored
        <5>1. 1 < i + 1
          BY <1>2
        <5>2. cache[1].seq < cache[i + 1].seq
          BY <2>4, <4>2, <5>1 DEF CacheOk
        <5> QED
          BY <1>2, <2>4, <4>2, <5>2
      <4> QED
        BY <2>1, <4>1, <4>2
    <3> QED
      BY <3>1
  <2>6. ASSUME NEW n \in stored'
        PROVE  \/ \E i \in 1 .. Len(cache') : cache'[i].seq = n
               \/ Len(cache') = Depth /\ \A i \in 1 .. Len(cache') : cache'[i].seq > n
    <3>1. CASE n = new
      <4>1. Len(cache) \in 1 .. Len(cache')
        BY <1>2, <1>5
      <4> QED
        BY <1>5, <3>1, <4>1
    <3>2. CASE n \in stored /\ \E i \in 1 .. Len(cache) : cache[i].seq = n
      <4>1. PICK i \in 1 .. Len(cache) : cache[i].seq = n
        BY <3>2
      <4>2. CASE i = 1
        BY <1>5, <2>5, <4>1, <4>2
      <4>3. CASE i # 1
        <5>1. i - 1 \in 1 .. Len(cache) - 1 /\ i - 1 \in 1 .. Len(cache')
          BY <1>2, <1>5, <4>3
        <5>2. cache'[i - 1].seq = n
          BY <1>2, <1>5, <4>1, <5>1
        <5> QED
          BY <5>1, <5>2
      <4> QED
        BY <4>2, <4>3
    <3>3. CASE n \in stored /\ \A i \in 1 .. Len(cache) : cache[i].seq > n
      <4>1. ASSUME NEW i \in 1 .. Len(cache')
            PROVE  cache'[i].seq > n
        BY <1>2, <1>3, <2>1, <3>3
      <4> QED
        BY <1>5, <4>1
    <3> QED
      BY <1>1, <3>1, <3>2, <3>3 DEF CacheOk
  <2> QED
    BY <2>2, <2>3, <2>6 DEF CacheOk
<1>6. [seq |-> nextSeq - 1, slot |-> t].seq = new
  BY DEF new
<1> QED
  BY <1>4, <1>5, <1>6, InsertFacts

\* A number counts as written when write is done with it, and what a reader
\* was promised has been written.
LEMMA WroteStep ==
    ASSUME TypeOK, WriterOk, WroteOk, [Next]_vars
    PROVE  WroteOk'
<1>0. /\ nextSeq \in Int /\ stored \subseteq Int /\ bypassed \subseteq Int
      /\ promised \in [Reader -> SUBSET (1 .. MaxSeq)]
  BY IntraAssumption DEF TypeOK
<1>1. ASSUME UNCHANGED <<stored, bypassed, promised>>, nextSeq' = nextSeq + 1
      PROVE  WroteOk'
  BY <1>0, <1>1 DEF WroteOk
<1>2. ASSUME UNCHANGED <<stored, bypassed, promised, nextSeq>>,
             wpc' # "idle" => wpc # "idle"
      PROVE  WroteOk'
  BY <1>2 DEF WroteOk
<1>3. ASSUME NEW remote \in Remote, NEW s \in Slot, WriteReserve(remote, s)
      PROVE  WroteOk'
  BY <1>1, <1>3 DEF WriteReserve, joinVars
<1>4. ASSUME \/ \E remote \in Remote : WriteNoSlot(remote)
             \/ WriteRemoteOnly
      PROVE  WroteOk'
  BY <1>1, <1>4 DEF WriteNoSlot, WriteRemoteOnly, joinVars
<1>5. ASSUME PushLock \/ PushNext \/ CacheNoSlot
      PROVE  WroteOk'
  BY <1>2, <1>5 DEF PushLock, PushNext, CacheNoSlot, joinVars
<1>6. ASSUME PushDone
      PROVE  WroteOk'
  <2>1. /\ wpc = "push" /\ stored' = stored /\ promised' = promised /\ nextSeq' = nextSeq
        /\ \/ wpc' = "idle" /\ bypassed' = bypassed \cup {nextSeq - 1}
           \/ bypassed' = bypassed
    BY <1>6 DEF PushDone, Finish, joinVars
  <2>2. \A n \in stored \cup bypassed : n < nextSeq - 1 /\ n < nextSeq
    BY <2>1 DEF WroteOk
  <2> QED
    BY <1>0, <2>1, <2>2 DEF WroteOk
<1>7. ASSUME NEW s \in Slot, CacheInsert(s)
      PROVE  WroteOk'
  <2>1. /\ wpc' = "idle" /\ stored' = stored \cup {nextSeq - 1}
        /\ UNCHANGED <<bypassed, promised, nextSeq>>
    BY <1>7 DEF CacheInsert, joinVars
  <2> QED
    BY <1>0, <2>1 DEF WroteOk
<1>8. ASSUME NEW r \in Reader, JoinSnapshot(r)
      PROVE  WroteOk'
  <2>1. /\ promised' = [promised EXCEPT ![r] = LastWritten]
        /\ UNCHANGED <<stored, bypassed, nextSeq, wpc>>
    BY <1>8 DEF JoinSnapshot, writerVars
  <2>2. LastWritten \subseteq stored \cup bypassed
    BY DEF LastWritten
  <2> QED
    BY <1>0, <2>1, <2>2 DEF WroteOk
<1>9. ASSUME NEW r \in Reader, JoinReplay(r) \/ JoinRegister(r) \/ DropReader(r)
      PROVE  WroteOk'
  BY <1>2, <1>9 DEF JoinReplay, JoinRegister, DropReader, writerVars
<1>10. ASSUME NEW r \in Reader, TakePop(r) \/ TakeRelease(r)
       PROVE  WroteOk'
  BY <1>2, <1>10 DEF TakePop, TakeRelease, joinVars, writerVars
<1>11. ASSUME UNCHANGED vars
       PROVE  WroteOk'
  BY <1>2, <1>11 DEF vars, joinVars, writerVars
<1> QED
  BY <1>3, <1>4, <1>5, <1>6, <1>7, <1>8, <1>9, <1>10, <1>11 DEF Next

\* A reader that a step does not join to the writer loses nothing by it, even
\* if the step stores a sample that the reader was not promised.
LEMMA ServedStays ==
    ASSUME NEW r \in Reader, ServedSoFar(r),
           durable' = durable, replay'[r] = replay[r], promised'[r] = promised[r],
           jpc'[r] = jpc[r] \/ jpc'[r] = "dropped",
           offered[r] \subseteq offered'[r],
           jpc[r] = "replay" => Len(rings'[r]) \in Int /\ Len(rings'[r]) <= Len(rings[r]),
           Len(rings[r]) \in Int, Len(replay[r]) \in Int, Depth \in Int,
           promised[r] \cap stored' \subseteq stored
    PROVE  ServedSoFar(r)'
<1>1. ASSUME jpc'[r] = "replay"
      PROVE  Len(rings'[r]) + Len(replay'[r]) <= Depth
  <2>1. jpc[r] = "replay"
    BY <1>1
  <2>2. Len(rings[r]) + Len(replay[r]) <= Depth
    BY <2>1 DEF ServedSoFar
  <2>3. Len(replay'[r]) = Len(replay[r])
    OBVIOUS
  <2>4. Len(rings'[r]) \in Int /\ Len(rings'[r]) <= Len(rings[r])
    BY <2>1
  <2>5. \A a, b, c, d \in Int : a <= b /\ b + c <= d => a + c <= d
    OBVIOUS
  <2> QED
    BY <2>2, <2>3, <2>4, <2>5, Zenon
<1>2. ASSUME jpc'[r] = "replay", durable, NEW n \in promised'[r] \cap stored'
      PROVE  n \in offered'[r] \/ \E i \in 1 .. Len(replay'[r]) : replay'[r][i].seq = n
  <2>1. jpc[r] = "replay" /\ n \in promised[r] \cap stored
    BY <1>2
  <2> QED
    BY <1>2, <2>1 DEF ServedSoFar
<1>3. jpc'[r] = "bound" /\ durable => promised'[r] \cap stored' \subseteq offered'[r]
  BY DEF ServedSoFar
<1> QED
  BY <1>1, <1>2, <1>3 DEF ServedSoFar

\* With a ring that can hold the whole cache, the replay of add_reader loses
\* nothing of it.
LEMMA ReplayStep ==
    ASSUME Depth <= RingCap, TypeOK, WriterOk, BoundOk, PushOk, CacheOk, WroteOk, ReplayOk,
           [Next]_vars
    PROVE  ReplayOk'
<1> SUFFICES ASSUME NEW r \in Reader
             PROVE  ServedSoFar(r)'
  BY DEF ReplayOk
<1>0. ServedSoFar(r)
  BY DEF ReplayOk
<1>1. /\ \A q \in Reader : Len(rings[q]) \in Nat /\ Len(replay[q]) \in Nat
      /\ Depth \in Nat /\ RingCap \in Nat /\ Len(cache) \in Nat /\ Len(cache) <= Depth
      /\ \A q \in Reader : rings[q] \in Seq(Entry) /\ replay[q] \in Seq(Entry)
      /\ jpc \in [Reader -> {"new", "replay", "bound", "dropped"}]
      /\ replay \in [Reader -> Seq(Entry)] /\ promised \in [Reader -> SUBSET (1 .. MaxSeq)]
  BY IntraAssumption, LenProperties DEF TypeOK
<1>2. ASSUME UNCHANGED <<durable, jpc, replay, promised, stored, offered>>,
             Len(rings'[r]) \in Int, Len(rings'[r]) <= Len(rings[r])
      PROVE  ServedSoFar(r)'
  BY <1>0, <1>1, <1>2, ServedStays
<1>3. ASSUME NEW remote \in Remote, NEW s \in Slot, WriteReserve(remote, s)
      PROVE  ServedSoFar(r)'
  <2>1. UNCHANGED <<durable, jpc, replay, promised, stored, offered, rings>>
    BY <1>3 DEF WriteReserve, joinVars, readerVars
  <2> QED
    BY <1>1, <1>2, <2>1
<1>4. ASSUME \/ \E remote \in Remote : WriteNoSlot(remote)
             \/ WriteRemoteOnly \/ CacheNoSlot \/ PushLock \/ PushDone
      PROVE  ServedSoFar(r)'
  <2>1. UNCHANGED <<durable, jpc, replay, promised, stored, offered, rings>>
    BY <1>4 DEF WriteNoSlot, WriteRemoteOnly, CacheNoSlot, PushLock, PushDone, Finish,
                joinVars, readerVars
  <2> QED
    BY <1>1, <1>2, <2>1
<1>5. ASSUME PushNext
      PROVE  ServedSoFar(r)'
  <2> DEFINE q == Head(todo)
  <2>1. /\ Put(q, entry) /\ todo # <<>> /\ wpc = "push"
        /\ UNCHANGED <<durable, jpc, replay, promised, stored>>
    BY <1>5 DEF PushNext, joinVars
  <2>2. q \in Reader /\ entry \in Entry /\ jpc[q] \in {"bound", "dropped"}
    BY <2>1, TailFacts DEF TypeOK, WriterOk, PushOk
  <2> HIDE DEF q
  <2>3. offered[r] \subseteq offered'[r]
    BY <2>1, <2>2, PutFacts
  <2>4. r # q => rings'[r] = rings[r]
    BY <2>1, <2>2, PutFacts
  <2>5. jpc[r] = "replay" => rings'[r] = rings[r]
    BY <2>2, <2>4
  <2> QED
    BY <1>0, <1>1, <2>1, <2>3, <2>5, ServedStays
<1>6. ASSUME NEW s \in Slot, CacheInsert(s)
      PROVE  ServedSoFar(r)'
  <2>1. /\ wpc # "idle" /\ stored' = stored \cup {nextSeq - 1}
        /\ UNCHANGED <<durable, jpc, replay, promised, offered, rings>>
    BY <1>6 DEF CacheInsert, joinVars, readerVars
  <2>2. nextSeq - 1 \notin promised[r]
    <3>1. \A n \in promised[r] : n < nextSeq - 1
      BY <2>1 DEF WroteOk
    <3>2. nextSeq - 1 \in Int
      BY DEF TypeOK
    <3> QED
      BY <3>1, <3>2
  <2>3. promised[r] \cap stored' \subseteq stored
    BY <2>1, <2>2
  <2> QED
    BY <1>0, <1>1, <2>1, <2>3, ServedStays
<1>7. ASSUME NEW q \in Reader, q # r,
             \/ JoinSnapshot(q) \/ JoinReplay(q) \/ JoinRegister(q)
             \/ TakePop(q) \/ TakeRelease(q) \/ DropReader(q)
      PROVE  ServedSoFar(r)'
  <2>1. UNCHANGED <<durable, stored>>
    BY <1>7 DEF JoinSnapshot, JoinReplay, JoinRegister, TakePop, TakeRelease,
                DropReader, writerVars
  <2>2. replay'[r] = replay[r] /\ promised'[r] = promised[r] /\ jpc'[r] = jpc[r]
    <3>1. CASE JoinSnapshot(q)
      BY <1>1, <1>7, <3>1 DEF JoinSnapshot
    <3>2. CASE JoinReplay(q)
      BY <1>1, <1>7, <3>2 DEF JoinReplay
    <3>3. CASE JoinRegister(q)
      BY <1>1, <1>7, <3>3 DEF JoinRegister
    <3>4. CASE TakePop(q) \/ TakeRelease(q)
      BY <3>4 DEF TakePop, TakeRelease, joinVars
    <3>5. CASE DropReader(q)
      BY <1>1, <1>7, <3>5 DEF DropReader
    <3> QED
      BY <1>7, <3>1, <3>2, <3>3, <3>4, <3>5
  <2>3. rings'[r] = rings[r] /\ offered'[r] = offered[r]
    <3>1. CASE JoinReplay(q)
      <4>1. replay[q] # <<>> /\ Put(q, Head(replay[q]))
        BY <3>1 DEF JoinReplay
      <4>2. Head(replay[q]) \in Entry
        BY <1>1, <4>1, TailFacts
      <4> QED
        BY <1>7, <4>1, <4>2, PutFacts
    <3>2. CASE TakePop(q)
      <4>1. offered' = offered /\ rings[q] # <<>> /\ rings' = [rings EXCEPT ![q] = Tail(@)]
        BY <3>2 DEF TakePop
      <4> QED
        BY <1>7, <4>1, PopFacts
    <3>3. CASE JoinSnapshot(q) \/ JoinRegister(q) \/ TakeRelease(q) \/ DropReader(q)
      BY <3>3 DEF JoinSnapshot, JoinRegister, TakeRelease, DropReader, readerVars
    <3> QED
      BY <1>7, <3>1, <3>2, <3>3
  <2>4. /\ offered[r] \subseteq offered'[r] /\ promised[r] \cap stored' \subseteq stored
        /\ jpc'[r] = jpc[r] \/ jpc'[r] = "dropped"
    BY <2>1, <2>2, <2>3
  <2>5. /\ Len(rings'[r]) \in Int /\ Len(rings[r]) \in Int /\ Len(replay[r]) \in Int
        /\ Len(rings'[r]) <= Len(rings[r]) /\ Depth \in Int
    BY <1>1, <2>3
  <2> QED
    BY <1>0, <2>1, <2>2, <2>4, <2>5, ServedStays
<1>8. ASSUME JoinSnapshot(r)
      PROVE  ServedSoFar(r)'
  <2>1. /\ jpc[r] = "new" /\ jpc' = [jpc EXCEPT ![r] = "replay"]
        /\ replay' = [replay EXCEPT ![r] = IF durable THEN cache ELSE <<>>]
        /\ promised' = [promised EXCEPT ![r] = LastWritten]
        /\ UNCHANGED <<durable, stored, rings, offered>>
    BY <1>8 DEF JoinSnapshot, readerVars, writerVars
  <2>2. rings[r] = <<>> /\ jpc'[r] = "replay" /\ promised'[r] = LastWritten
    BY <1>1, <2>1 DEF BoundOk
  <2>3. replay'[r] = IF durable THEN cache ELSE <<>>
    BY <1>1, <2>1
  <2>4. Len(rings'[r]) + Len(replay'[r]) <= Depth
    BY <1>1, <2>1, <2>2, <2>3
  <2>5. durable => \A n \in promised'[r] \cap stored' :
          \E i \in 1 .. Len(replay'[r]) : replay'[r][i].seq = n
    BY <2>1, <2>2, <2>3, LastStored
  <2> QED
    BY <2>1, <2>2, <2>4, <2>5 DEF ServedSoFar
<1>9. ASSUME JoinReplay(r)
      PROVE  ServedSoFar(r)'
  <2> DEFINE e == Head(replay[r])
  <2>1. /\ jpc[r] = "replay" /\ replay[r] # <<>> /\ Put(r, e)
        /\ replay' = [replay EXCEPT ![r] = Tail(replay[r])]
        /\ UNCHANGED <<durable, jpc, promised, stored>>
    BY <1>9 DEF JoinReplay, writerVars
  <2>2. /\ e = replay[r][1] /\ e \in Entry /\ Len(replay[r]) > 0
        /\ Len(Tail(replay[r])) = Len(replay[r]) - 1
        /\ \A i \in 1 .. Len(replay[r]) - 1 : Tail(replay[r])[i] = replay[r][i + 1]
    BY <1>1, <2>1, TailFacts
  <2> HIDE DEF e
  <2>3. replay'[r] = Tail(replay[r])
    BY <1>1, <2>1
  <2>4. Len(rings[r]) < RingCap
    BY <1>0, <1>1, <2>1, <2>2 DEF ServedSoFar
  <2>5. ~ (Len(rings[r]) >= RingCap)
    BY <1>1, <2>4
  <2>6. Len(rings'[r]) = Len(rings[r]) + 1 /\ offered'[r] = offered[r] \cup {e.seq}
    BY <2>1, <2>2, <2>5, PutFacts
  <2>7. Len(rings'[r]) + Len(replay'[r]) <= Depth
    BY <1>0, <1>1, <2>1, <2>2, <2>3, <2>6 DEF ServedSoFar
  <2>8. ASSUME durable, NEW n \in promised[r] \cap stored
        PROVE  n \in offered'[r] \/ \E i \in 1 .. Len(replay'[r]) : replay'[r][i].seq = n
    <3>1. CASE n \in offered[r]
      BY <2>6, <3>1
    <3>2. CASE \E i \in 1 .. Len(replay[r]) : replay[r][i].seq = n
      <4>1. PICK i \in 1 .. Len(replay[r]) : replay[r][i].seq = n
        BY <3>2
      <4>2. CASE i = 1
        BY <2>2, <2>6, <4>1, <4>2
      <4>3. CASE i # 1
        <5>1. i - 1 \in 1 .. Len(replay[r]) - 1
          BY <1>1, <4>3
        <5>2. replay'[r][i - 1].seq = n /\ i - 1 \in 1 .. Len(replay'[r])
          BY <1>1, <2>2, <2>3, <4>1, <5>1
        <5> QED
          BY <5>2
      <4> QED
        BY <4>2, <4>3
    <3> QED
      BY <1>0, <2>1, <2>8, <3>1, <3>2 DEF ServedSoFar
  <2> QED
    BY <2>1, <2>7, <2>8 DEF ServedSoFar
<1>10. ASSUME JoinRegister(r)
       PROVE  ServedSoFar(r)'
  <2>1. /\ jpc[r] = "replay" /\ replay[r] = <<>> /\ jpc' = [jpc EXCEPT ![r] = "bound"]
        /\ UNCHANGED <<durable, promised, stored, offered>>
    BY <1>10 DEF JoinRegister, readerVars, writerVars
  <2>2. jpc'[r] = "bound"
    BY <1>1, <2>1
  <2>3. durable => promised[r] \cap stored \subseteq offered[r]
    BY <1>0, <2>1 DEF ServedSoFar
  <2> QED
    BY <2>1, <2>2, <2>3 DEF ServedSoFar
<1>11. ASSUME TakePop(r)
       PROVE  ServedSoFar(r)'
  <2>1. /\ UNCHANGED <<durable, jpc, replay, promised, stored, offered>>
        /\ rings[r] # <<>> /\ rings' = [rings EXCEPT ![r] = Tail(@)]
    BY <1>11 DEF TakePop, joinVars, writerVars
  <2>2. Len(rings'[r]) = Len(rings[r]) - 1
    BY <2>1, PopFacts
  <2> QED
    BY <1>1, <1>2, <2>1, <2>2
<1>12. ASSUME TakeRelease(r)
       PROVE  ServedSoFar(r)'
  <2>1. UNCHANGED <<durable, jpc, replay, promised, stored, offered, rings>>
    BY <1>12 DEF TakeRelease, joinVars, writerVars
  <2> QED
    BY <1>1, <1>2, <2>1
<1>13. ASSUME DropReader(r)
       PROVE  ServedSoFar(r)'
  <2>1. jpc' = [jpc EXCEPT ![r] = "dropped"]
    BY <1>13 DEF DropReader
  <2>2. jpc'[r] = "dropped"
    BY <1>1, <2>1
  <2> QED
    BY <2>2 DEF ServedSoFar
<1>14. ASSUME UNCHANGED vars
       PROVE  ServedSoFar(r)'
  <2>1. UNCHANGED <<durable, jpc, replay, promised, stored, offered, rings>>
    BY <1>14 DEF vars, joinVars, readerVars, writerVars
  <2> QED
    BY <1>1, <1>2, <2>1
<1> QED
  BY <1>3, <1>4, <1>5, <1>6, <1>7, <1>8, <1>9, <1>10, <1>11, <1>12, <1>13,
     <1>14 DEF Next

\* All that the replay depends on is kept together.
LEMMA ServeStep ==
    ASSUME Depth <= RingCap, IInv, SInv, [Next]_vars
    PROVE  SInv'
<1>1. WroteOk' /\ ReplayOk'
  BY WroteStep, ReplayStep DEF IInv, SInv
<1>2. CASE \E s \in Slot : CacheInsert(s)
  BY <1>1, <1>2, CacheStep DEF IInv, SInv
<1>3. CASE ~ \E s \in Slot : CacheInsert(s)
  <2>1. UNCHANGED <<cache, stored>>
    <3>1. CASE \/ \E remote \in Remote :
                    WriteNoSlot(remote) \/ \E s \in Slot : WriteReserve(remote, s)
               \/ WriteRemoteOnly \/ PushLock \/ PushNext \/ PushDone \/ CacheNoSlot
      BY <3>1 DEF WriteNoSlot, WriteReserve, WriteRemoteOnly, PushLock, PushNext,
                  PushDone, Finish, CacheNoSlot
    <3>2. CASE \E r \in Reader : JoinSnapshot(r) \/ JoinReplay(r) \/ JoinRegister(r)
      BY <3>2 DEF JoinSnapshot, JoinReplay, JoinRegister, writerVars
    <3>3. CASE \E r \in Reader : TakePop(r) \/ TakeRelease(r) \/ DropReader(r)
      BY <3>3 DEF TakePop, TakeRelease, DropReader, writerVars
    <3>4. CASE UNCHANGED vars
      BY <3>4 DEF vars, writerVars
    <3> QED
      BY <1>3, <3>1, <3>2, <3>3, <3>4 DEF Next
  <2> QED
    BY <1>1, <2>1, CacheSame DEF SInv
<1> QED
  BY <1>2, <1>3

\* Before anything is written nothing is owed.
LEMMA InitSInv == Init => SInv
<1> SUFFICES ASSUME Init PROVE SInv
  OBVIOUS
<1>1. /\ cache = <<>> /\ stored = {} /\ bypassed = {}
      /\ jpc = [r \in Reader |-> "new"] /\ promised = [r \in Reader |-> {}]
  BY DEF Init
<1>2. CacheOk /\ WroteOk
  BY <1>1 DEF CacheOk, WroteOk
<1>3. ReplayOk
  BY <1>1 DEF ReplayOk, ServedSoFar
<1> QED
  BY <1>2, <1>3 DEF SInv

\* A reader whose ring can hold the whole history cache has been offered, by
\* the time add_reader registers it, every sample of the last Depth written
\* that write had put into the cache, whatever the writer and the reader do
\* meanwhile (TopicMerger::add_reader).
THEOREM LateJoinerGetsStored ==
    ASSUME Depth <= RingCap
    PROVE  Spec => []StoredServed
<1>1. Init => IInv /\ SInv
  BY InitIInv, InitSInv
<1>2. IInv /\ SInv /\ [Next]_vars => IInv' /\ SInv'
  BY StepIInv, ServeStep
<1>3. SInv => StoredServed
  BY DEF SInv, ReplayOk, ServedSoFar, StoredServed
<1> QED
  BY <1>1, <1>2, <1>3, PTL DEF Spec
=============================================================================
