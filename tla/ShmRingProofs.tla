----------------------------- MODULE ShmRingProofs -----------------------------
(***************************************************************************)
(* Proofs about ShmRing, for a machine on which the writing mark is seen   *)
(* before the payload it protects: any capacity, any number of readers,    *)
(* any payload and a writer that may die at any store.                     *)
(***************************************************************************)
EXTENDS ShmRing, TLAPS

-------------------------------------------------------------------------------
(* Arithmetic of the slots.                                                *)

\* A multiple of c that is larger than another one is larger by at least c.
LEMMA Multiples ==
    ASSUME NEW c \in Nat \ {0}, NEW a \in Int, NEW b \in Int, c * a < c * b
    PROVE  c * b >= c * a + c
<1> DEFINE d == b - a
<1>1. d \in Int /\ b = a + d
  OBVIOUS
<1> HIDE DEF d
<1>2. c * b = c * a + c * d
  BY <1>1
<1>3. d >= 1
  BY <1>1, <1>2
<1> DEFINE e == d - 1
<1>4. e \in Nat /\ d = e + 1
  BY <1>1, <1>3
<1> HIDE DEF e
<1>5. c * d = c * e + c /\ c * e >= 0
  BY <1>4
<1> QED BY <1>2, <1>5

\* The slot of a message is a slot.
LEMMA IndexType ==
    ASSUME NEW m \in Nat
    PROVE  Index(m) \in Slots
BY CapacityAssumption DEF Index, Slots

\* Two messages that share a slot are at least a whole ring apart.
LEMMA IndexGap ==
    ASSUME NEW m \in Nat, NEW n \in Nat, m < n, Index(m) = Index(n)
    PROVE  n >= m + Capacity
<1>1. Capacity \in Int /\ Capacity > 0
  BY CapacityAssumption
<1>2. m = Capacity * (m \div Capacity) + Index(m) /\ m \div Capacity \in Int
  BY <1>1, Z3T(30) DEF Index
<1>3. n = Capacity * (n \div Capacity) + Index(n) /\ n \div Capacity \in Int
  BY <1>1, Z3T(30) DEF Index
<1> DEFINE a == m \div Capacity
           b == n \div Capacity
<1> HIDE DEF a, b
<1>4. a \in Int /\ b \in Int /\ m = Capacity * a + Index(m) /\ n = Capacity * b + Index(n)
  BY <1>2, <1>3 DEF a, b
<1>5. Index(m) \in Int
  BY IndexType, CapacityAssumption DEF Slots
<1>6. Capacity * a \in Int /\ Capacity * b \in Int /\ Capacity * a < Capacity * b
  BY <1>1, <1>4, <1>5
<1>7. Capacity * b >= Capacity * a + Capacity
  BY <1>4, <1>6, Multiples, CapacityAssumption
<1> QED BY <1>1, <1>4, <1>5, <1>6, <1>7

-------------------------------------------------------------------------------
(* The inductive invariant.                                                *)

Mark(m) == mark[Index(m)]
Whole(f, m) == \A w \in Words : f[w] = m
Reading == {"check", "len", "copy"}

\* The messages whose slot the writer has begun to overwrite.
Begun == IF wpc = "idle" \/ "mark" \in wleft THEN wseq ELSE wseq + 1

\* Where push is: how far head and val are, and what is in the slot.
WriterInv ==
    /\ wpc \in {"idle", "store", "publish"} => head = wseq /\ val = wseq
    /\ wpc = "bump" => head = wseq + 1 /\ val = wseq
    /\ wpc = "wake" => head = wseq + 1 /\ val = wseq + 1
    /\ wpc \notin {"idle", "dead"} => wseq < MaxMsg
    /\ wpc \notin {"store", "dead"} => wleft = {}
    /\ val <= head
    /\ wpc = "store" =>
         /\ "mark" \in wleft => wleft = Stores
         /\ "mark" \notin wleft => Mark(wseq) = Writing(wseq)
         /\ \A w \in Words \ wleft : word[Index(wseq)][w] = wseq
    /\ wpc = "publish" => Mark(wseq) = Committed(wseq) /\ Whole(word[Index(wseq)], wseq)

\* A message published is whole under its mark, or the mark has moved on,
\* which a living writer does only when it is a whole ring further.
SlotInv ==
    \A m \in 0 .. head - 1 :
       \/ Mark(m) = Committed(m) /\ Whole(word[Index(m)], m)
       \/ Mark(m) > Committed(m) /\ (wpc # "dead" => Begun > m + Capacity)

\* A reader reads a published message, and what it has copied is of this
\* message as long as the mark has not moved.
CopyOf(r) ==
    /\ pc[r] \in Reading => next[r] < head
    /\ pc[r] = "copy" /\ Mark(next[r]) = Committed(next[r]) =>
         \A w \in Words : copy[r][w] \in {next[r], Unread}

CopyInv == \A r \in Readers : CopyOf(r)

\* At the snapshot there was nothing to read, or what was there is excused or
\* has been overwritten by a living writer.
Excused(r) ==
    \/ jumped[r] = TRUE
    \/ next[r] \in Large
    \/ next[r] >= snap[r]
    \/ snap[r] <= next[r] + Capacity /\ (wpc # "dead" => Begun > next[r] + Capacity)

\* Why a reader may sleep: a wake-up is on its way, or the counter is still the
\* snapshot, after which it has looked again.
SleepOf(r) ==
    /\ snap[r] <= val
    /\ pass[r] = 2 /\ pc[r] \in Reading => snap[r] <= next[r] + Capacity
    /\ pc[r] \in {"wait", "asleep"} => Excused(r)
    /\ pc[r] = "asleep" => val = snap[r] \/ wpc \in {"wake", "dead"}

SleepInv == \A r \in Readers : SleepOf(r)

IInv == TypeOK /\ WriterInv /\ SlotInv /\ CopyInv /\ SleepInv

\* A fresh segment without readers satisfies it.
LEMMA InitIInv == Init => IInv
<1> SUFFICES ASSUME Init PROVE IInv
  OBVIOUS
<1>1. TypeOK
  BY CapacityAssumption, MaxMsgAssumption DEF Init, TypeOK, Modes
<1>2. WriterInv
  BY DEF Init, WriterInv
<1>3. SlotInv
  BY DEF Init, SlotInv
<1>4. CopyInv
  BY DEF Init, CopyInv, CopyOf, Reading
<1>5. SleepInv
  <2>1. ASSUME NEW r \in Readers
        PROVE  snap[r] = 0 /\ val = 0 /\ pass[r] = 1 /\ pc[r] = "detached"
    BY DEF Init
  <2>2. ASSUME NEW r \in Readers
        PROVE  snap[r] <= val /\ pass[r] # 2 /\ pc[r] \notin {"wait", "asleep"}
    BY <2>1
  <2> QED BY <2>1, <2>2 DEF SleepInv, SleepOf
<1> QED BY <1>1, <1>2, <1>3, <1>4, <1>5 DEF IInv

-------------------------------------------------------------------------------
\* Every step keeps the types; publishing needs that push began below MaxMsg.
LEMMA TypeNext ==
    ASSUME TypeOK, WriterInv, [Next]_vars
    PROVE  TypeOK'
<1> USE DEF TypeOK, shared, writer, reader
<1>1. ASSUME PushBegin PROVE TypeOK'
  BY <1>1 DEF PushBegin
<1>2. ASSUME PushMark PROVE TypeOK'
  <2>1. Writing(wseq) \in Nat /\ Index(wseq) \in Slots
    BY IndexType, MaxMsgAssumption DEF Writing
  <2> QED BY <1>2, <2>1 DEF PushMark
<1>3. ASSUME NEW w \in Words, PushWord(w) PROVE TypeOK'
  <2>1. wseq \in Nat /\ Index(wseq) \in Slots
    BY IndexType, MaxMsgAssumption
  <2> QED BY <1>3, <2>1 DEF PushWord
<1>4. ASSUME PushCommit PROVE TypeOK'
  <2>1. Committed(wseq) \in Nat /\ Index(wseq) \in Slots
    BY IndexType, MaxMsgAssumption DEF Committed
  <2> QED BY <1>4, <2>1 DEF PushCommit
<1>5. ASSUME PushPublish PROVE TypeOK'
  BY <1>5, MaxMsgAssumption DEF PushPublish, WriterInv
<1>6. ASSUME PushBump PROVE TypeOK'
  BY <1>6 DEF PushBump
<1>7. ASSUME PushWake PROVE TypeOK'
  BY <1>7, MaxMsgAssumption DEF PushWake, WriterInv
<1>8. ASSUME WriterCrash PROVE TypeOK'
  BY <1>8 DEF WriterCrash
<1>9. ASSUME NEW r \in Readers, Attach(r) PROVE TypeOK'
  BY <1>9, MaxMsgAssumption DEF Attach
<1>10. ASSUME NEW r \in Readers, NEW m \in Modes, Call(r, m) PROVE TypeOK'
  BY <1>10 DEF Call, Modes
<1>11. ASSUME NEW r \in Readers, Poll(r) PROVE TypeOK'
  <2>1. Overruns(r) => head - 1 \in Nat
    BY CapacityAssumption, MaxMsgAssumption DEF Overruns
  <2>2. Overruns(r) \in BOOLEAN
    BY DEF Overruns
  <2> QED BY <1>11, <2>1, <2>2 DEF Poll, AfterNone
<1>12. ASSUME NEW r \in Readers, Check(r) PROVE TypeOK'
  BY <1>12 DEF Check, AfterNone
<1>13. ASSUME NEW r \in Readers, CopyLen(r) PROVE TypeOK'
  <2>1. word[Index(next[r])]["len"] \in Nat \cup {Zero}
    BY IndexType DEF Words
  <2> QED BY <1>13, <2>1 DEF CopyLen, AfterNone
<1>14. ASSUME NEW r \in Readers, NEW w \in Payload, CopyWord(r, w) PROVE TypeOK'
  <2>1. w \in Words /\ word[Index(next[r])][w] \in Nat \cup {Zero}
    BY IndexType DEF Words
  <2> QED BY <1>14, <2>1 DEF CopyWord
<1>15. ASSUME NEW r \in Readers, Recheck(r) PROVE TypeOK'
  <2>1. copy[r] \in [Words -> Nat \cup {Zero}]
    <3>1. copy[r] \in [Words -> Nat \cup {Zero, Unread}] /\ \A w \in Words : copy[r][w] # Unread
      BY <1>15 DEF Recheck
    <3> QED BY <3>1
  <2>2. out' \in [Readers -> [Words -> Nat \cup {Zero}]]
    <3>1. out' = out \/ out' = [out EXCEPT ![r] = copy[r]]
      BY <1>15 DEF Recheck
    <3> QED BY <3>1, <2>1
  <2>4. next' \in [Readers -> Nat]
    <3>1. next \in [Readers -> Nat] /\ next[r] + 1 \in Nat
      OBVIOUS
    <3>2. next' = next \/ next' = [next EXCEPT ![r] = next[r] + 1]
      BY <1>15 DEF Recheck
    <3> QED BY <3>1, <3>2
  <2>3. pc' \in [Readers -> {"detached", "idle", "poll", "check", "len", "copy",
                             "snap", "wait", "asleep"}]
    BY <1>15 DEF Recheck, AfterNone
  <2> QED BY <1>15, <2>2, <2>3, <2>4 DEF Recheck
<1>16. ASSUME NEW r \in Readers, Snapshot(r) PROVE TypeOK'
  BY <1>16 DEF Snapshot
<1>17. ASSUME NEW r \in Readers, Deadline(r) PROVE TypeOK'
  BY <1>17 DEF Deadline
<1>18. ASSUME NEW r \in Readers, FutexWait(r) PROVE TypeOK'
  BY <1>18 DEF FutexWait
<1>19. ASSUME NEW r \in Readers, FutexTimeout(r) PROVE TypeOK'
  BY <1>19 DEF FutexTimeout
<1>20. CASE UNCHANGED vars
  BY <1>20 DEF vars
<1> QED
  BY <1>1, <1>2, <1>3, <1>4, <1>5, <1>6, <1>7, <1>8, <1>9, <1>10, <1>11, <1>12, <1>13,
     <1>14, <1>15, <1>16, <1>17, <1>18, <1>19, <1>20 DEF Next, Push, Read

\* A reader changes neither the segment nor the writer.
LEMMA ReaderFrame ==
    ASSUME NEW r \in Readers, Read(r)
    PROVE  UNCHANGED <<shared, writer>>
BY DEF Read, Attach, Call, Poll, Check, CopyLen, CopyWord, Recheck, Snapshot,
   Deadline, FutexWait, FutexTimeout, shared, writer

\* Every step keeps what is known of push.
LEMMA WriterNext ==
    ASSUME MarkFirst = TRUE, TypeOK, WriterInv, [Next]_vars
    PROVE  WriterInv'
<1> USE DEF WriterInv, Mark, Whole, shared
<1>0. wseq \in Nat /\ Index(wseq) \in Slots
  BY IndexType, MaxMsgAssumption DEF TypeOK
<1>1. ASSUME PushBegin PROVE WriterInv'
  BY <1>1 DEF PushBegin, Stores
<1>2. ASSUME PushMark PROVE WriterInv'
  <2>1. wleft = Stores /\ wleft' = Words
    BY <1>2, PayloadAssumption DEF PushMark, Stores, Words
  <2>2. Mark(wseq)' = Writing(wseq)
    BY <1>0, <1>2 DEF PushMark, TypeOK
  <2> QED BY <1>2, <2>1, <2>2, PayloadAssumption DEF PushMark, Words
<1>3. ASSUME NEW w \in Words, PushWord(w) PROVE WriterInv'
  <2>1. "mark" \notin wleft /\ "mark" \notin wleft'
    BY <1>3 DEF PushWord
  <2>2. \A v \in Words \ wleft' : word'[Index(wseq)][v] = wseq
    BY <1>0, <1>3 DEF PushWord, TypeOK
  <2> QED BY <1>3, <2>1, <2>2 DEF PushWord
<1>4. ASSUME PushCommit PROVE WriterInv'
  <2>1. Words \cap wleft = {}
    BY <1>4, PayloadAssumption DEF PushCommit, Words
  <2>2. Mark(wseq)' = Committed(wseq)
    BY <1>0, <1>4 DEF PushCommit, TypeOK
  <2> QED BY <1>4, <2>1, <2>2 DEF PushCommit
<1>5. ASSUME PushPublish PROVE WriterInv'
  BY <1>0, <1>5 DEF PushPublish
<1>6. ASSUME PushBump PROVE WriterInv'
  BY <1>0, <1>6 DEF PushBump
<1>7. ASSUME PushWake PROVE WriterInv'
  BY <1>0, <1>7 DEF PushWake
<1>8. ASSUME WriterCrash PROVE WriterInv'
  BY <1>8 DEF WriterCrash
<1>9. ASSUME UNCHANGED <<shared, writer>> PROVE WriterInv'
  BY <1>9 DEF writer
<1> QED
  BY <1>1, <1>2, <1>3, <1>4, <1>5, <1>6, <1>7, <1>8, <1>9, ReaderFrame
     DEF Next, Push, vars, writer

\* Every step keeps the account of the slots.  PushMark is where a message is
\* given up: the next of its slot is a whole ring later.
LEMMA SlotNext ==
    ASSUME MarkFirst = TRUE, TypeOK, WriterInv, SlotInv, [Next]_vars
    PROVE  SlotInv'
<1> USE DEF Mark, shared
<1>0. wseq \in Nat /\ Index(wseq) \in Slots /\ head \in Nat /\ Capacity \in Nat
  BY IndexType, MaxMsgAssumption, CapacityAssumption DEF TypeOK
<1>1. ASSUME PushBegin PROVE SlotInv'
  BY <1>0, <1>1 DEF PushBegin, SlotInv, WriterInv, Begun, Stores
<1>2. ASSUME PushMark PROVE SlotInv'
  <2> SUFFICES ASSUME NEW m \in 0 .. head - 1
               PROVE  \/ Mark(m)' = Committed(m) /\ Whole(word[Index(m)], m)
                      \/ Mark(m)' > Committed(m) /\ Begun' > m + Capacity
    BY <1>2 DEF PushMark, SlotInv, Whole
  <2>1. Begun = wseq /\ Begun' = wseq + 1 /\ m \in Nat /\ m < wseq /\ wpc # "dead"
    BY <1>0, <1>2 DEF PushMark, WriterInv, Begun
  <2>2. CASE Index(m) = Index(wseq)
    <3>1. wseq >= m + Capacity
      BY <1>0, <2>1, <2>2, IndexGap
    <3>2. Mark(m)' = Writing(wseq)
      BY <1>0, <1>2, <2>2 DEF PushMark, TypeOK
    <3> QED BY <1>0, <2>1, <3>1, <3>2 DEF Writing, Committed
  <2>3. CASE Index(m) # Index(wseq)
    <3>1. Mark(m)' = Mark(m)
      BY <1>0, <1>2, <2>3 DEF PushMark, TypeOK
    <3> QED BY <1>0, <2>1, <3>1 DEF SlotInv
  <2> QED BY <2>2, <2>3
<1>3. ASSUME NEW w \in Words, PushWord(w) PROVE SlotInv'
  <2> SUFFICES ASSUME NEW m \in 0 .. head - 1
               PROVE  \/ Mark(m) = Committed(m) /\ Whole(word'[Index(m)], m)
                      \/ Mark(m) > Committed(m) /\ Begun > m + Capacity
    BY <1>3, PayloadAssumption DEF PushWord, SlotInv, Whole, Begun, Words
  <2>1. m \in Nat /\ m < wseq /\ wpc # "dead"
    BY <1>0, <1>3 DEF PushWord, WriterInv
  <2>2. CASE Index(m) = Index(wseq)
    <3>1. Mark(m) = Writing(wseq)
      BY <1>3, <2>2 DEF PushWord, WriterInv
    <3> QED BY <1>0, <2>1, <3>1 DEF SlotInv, Writing, Committed
  <2>3. CASE Index(m) # Index(wseq)
    <3>1. word'[Index(m)] = word[Index(m)]
      BY <1>0, <1>3, <2>3 DEF PushWord, TypeOK
    <3> QED BY <2>1, <3>1 DEF SlotInv, Whole
  <2> QED BY <2>2, <2>3
<1>4. ASSUME PushCommit PROVE SlotInv'
  <2>1. "mark" \notin wleft /\ Mark(wseq) = Writing(wseq) /\ head = wseq
    BY <1>4, PayloadAssumption DEF PushCommit, WriterInv, Stores, Words
  <2> SUFFICES ASSUME NEW m \in 0 .. head - 1
               PROVE  \/ Mark(m)' = Committed(m) /\ Whole(word[Index(m)], m)
                      \/ Mark(m)' > Committed(m) /\ Begun > m + Capacity
    BY <1>4, <2>1 DEF PushCommit, SlotInv, Whole, Begun
  <2>2. m \in Nat /\ m < wseq /\ wpc # "dead"
    BY <1>0, <1>4, <2>1 DEF PushCommit
  <2>3. CASE Index(m) = Index(wseq)
    <3>1. Mark(m) = Writing(wseq) /\ Mark(m)' = Committed(wseq)
      BY <1>0, <1>4, <2>1, <2>3 DEF PushCommit, TypeOK
    <3> QED BY <1>0, <2>2, <3>1 DEF SlotInv, Writing, Committed
  <2>4. CASE Index(m) # Index(wseq)
    <3>1. Mark(m)' = Mark(m)
      BY <1>0, <1>4, <2>4 DEF PushCommit, TypeOK
    <3> QED BY <2>2, <3>1 DEF SlotInv
  <2> QED BY <2>3, <2>4
<1>5. ASSUME PushPublish PROVE SlotInv'
  <2> SUFFICES ASSUME NEW m \in 0 .. wseq
               PROVE  \/ Mark(m) = Committed(m) /\ Whole(word[Index(m)], m)
                      \/ Mark(m) > Committed(m) /\ Begun > m + Capacity
    BY <1>0, <1>5 DEF PushPublish, SlotInv, Whole, Begun
  <2>1. head = wseq /\ wpc = "publish"
    BY <1>5 DEF PushPublish, WriterInv
  <2>2. CASE m = wseq
    BY <2>1, <2>2 DEF WriterInv
  <2>3. CASE m # wseq
    <3>1. m \in 0 .. head - 1
      BY <1>0, <2>1, <2>3
    <3> QED BY <2>1, <3>1 DEF SlotInv
  <2> QED BY <2>2, <2>3
<1>6. ASSUME PushBump PROVE SlotInv'
  BY <1>6 DEF PushBump, SlotInv, Begun, Whole
<1>7. ASSUME PushWake PROVE SlotInv'
  <2>1. Begun' = Begun /\ wpc # "dead"
    BY <1>0, <1>7 DEF PushWake, Begun, WriterInv
  <2> QED BY <1>7, <2>1 DEF PushWake, SlotInv, Whole
<1>8. ASSUME WriterCrash PROVE SlotInv'
  BY <1>8 DEF WriterCrash, SlotInv, Whole
<1>9. ASSUME UNCHANGED <<shared, writer>> PROVE SlotInv'
  BY <1>9 DEF SlotInv, Whole, Begun, writer
<1> QED
  BY <1>1, <1>2, <1>3, <1>4, <1>5, <1>6, <1>7, <1>8, <1>9, ReaderFrame
     DEF Next, Push, vars, writer

\* A message under its own mark is whole.
LEMMA MarkedIsWhole ==
    ASSUME TypeOK, SlotInv, NEW m \in Nat, m < head, Mark(m) = Committed(m)
    PROVE  \A w \in Words : word[Index(m)][w] = m
<1>1. m \in 0 .. head - 1
  BY MaxMsgAssumption DEF TypeOK
<1>2. ~(Mark(m) > Committed(m))
  BY DEF Committed
<1> QED BY <1>1, <1>2 DEF SlotInv, Whole

\* Every step keeps the copies: what a reader copies under the mark is whole,
\* and the mark never comes back to a number it has left.
LEMMA CopyNext ==
    ASSUME MarkFirst = TRUE, TypeOK, WriterInv, SlotInv, CopyInv, [Next]_vars
    PROVE  CopyInv'
<1> USE DEF shared, reader
<1>0. wseq \in Nat /\ Index(wseq) \in Slots /\ head \in Nat
  BY IndexType, MaxMsgAssumption DEF TypeOK
<1>a. ASSUME NEW r \in Readers PROVE next[r] \in Nat /\ Index(next[r]) \in Slots /\ CopyOf(r)
  BY IndexType DEF TypeOK, CopyInv
<1>1. ASSUME PushMark \/ PushCommit PROVE CopyInv'
  <2> SUFFICES ASSUME NEW r \in Readers PROVE CopyOf(r)'
    BY DEF CopyInv
  <2>1. UNCHANGED <<reader, head>> /\ head = wseq
    BY <1>1 DEF PushMark, PushCommit, WriterInv
  <2>2. ASSUME pc[r] = "copy", Mark(next[r])' = Committed(next[r])
        PROVE  Mark(next[r]) = Committed(next[r])
    <3>1. next[r] < wseq
      BY <2>1, <2>2, <1>a DEF CopyOf, Reading
    <3>2. mark' = [mark EXCEPT ![Index(wseq)] = Writing(wseq)] \/
          mark' = [mark EXCEPT ![Index(wseq)] = Committed(wseq)]
      BY <1>1 DEF PushMark, PushCommit
    <3>3. mark'[Index(next[r])] = Committed(next[r])
      BY <2>1, <2>2 DEF Mark
    <3>4. Committed(next[r]) # Writing(wseq) /\ Committed(next[r]) # Committed(wseq)
      BY <1>0, <1>a, <3>1 DEF Committed, Writing
    <3>5. Index(next[r]) # Index(wseq)
      BY <1>0, <3>2, <3>3, <3>4 DEF TypeOK
    <3> QED BY <1>0, <1>a, <3>2, <3>3, <3>5 DEF Mark, TypeOK
  <2> QED BY <1>a, <2>1, <2>2 DEF CopyOf, Mark
<1>2. ASSUME \/ PushBegin \/ PushBump \/ WriterCrash \/ PushPublish
             \/ \E w \in Words : PushWord(w)
      PROVE  CopyInv'
  <2>1. UNCHANGED <<reader, mark>> /\ head' >= head
    BY <1>0, <1>2 DEF PushBegin, PushBump, WriterCrash, PushPublish, PushWord, WriterInv
  <2>2. head' \in Nat
    BY TypeNext, MaxMsgAssumption DEF TypeOK
  <2> QED BY <1>0, <1>a, <2>1, <2>2 DEF CopyInv, CopyOf, Mark
<1>3. ASSUME PushWake PROVE CopyInv'
  BY <1>3, <1>a DEF PushWake, CopyInv, CopyOf, Mark, Reading
<1>4. ASSUME NEW q \in Readers, Read(q) PROVE CopyInv'
  <2>0. UNCHANGED shared
    BY <1>4, ReaderFrame
  <2> SUFFICES ASSUME NEW r \in Readers PROVE CopyOf(r)'
    BY DEF CopyInv
  <2>1. CASE r # q
    <3>1. pc'[r] = pc[r] /\ next'[r] = next[r] /\ copy'[r] = copy[r]
      BY <1>4, <2>1 DEF Read, Attach, Call, Poll, Check, CopyLen, CopyWord, Recheck,
         Snapshot, Deadline, FutexWait, FutexTimeout, TypeOK
    <3> QED BY <1>a, <2>0, <3>1 DEF CopyOf, Mark
  <2>2. CASE r = q
    <3>1. CASE CopyLen(r)
      <4>1. next' = next /\ next[r] < head
        BY <1>a, <3>1 DEF CopyLen, CopyOf, Reading
      <4>2. copy'[r] = [w \in Words |-> IF w = "len" THEN word[Index(next[r])]["len"] ELSE Unread]
        BY <3>1 DEF CopyLen, TypeOK
      <4>3. Mark(next[r]) = Committed(next[r]) => word[Index(next[r])]["len"] = next[r]
        BY <1>a, <4>1, MarkedIsWhole DEF Words
      <4>4. Mark(next[r]) = Committed(next[r]) => \A w \in Words : copy'[r][w] \in {next[r], Unread}
        BY <4>2, <4>3
      <4> QED BY <2>0, <4>1, <4>4 DEF CopyOf, Mark
    <3>2. ASSUME NEW v \in Payload, CopyWord(r, v) PROVE CopyOf(r)'
      <4>1. next' = next /\ pc' = pc /\ pc[r] = "copy" /\ next[r] < head
        BY <1>a, <3>2 DEF CopyWord, CopyOf, Reading
      <4>2. \A w \in Words : copy'[r][w] = copy[r][w] \/ copy'[r][w] = word[Index(next[r])][w]
        BY <3>2 DEF CopyWord, TypeOK
      <4>3. Mark(next[r]) = Committed(next[r]) => \A w \in Words : word[Index(next[r])][w] = next[r]
        BY <1>a, <4>1, MarkedIsWhole
      <4>4. Mark(next[r]) = Committed(next[r]) => \A w \in Words : copy'[r][w] \in {next[r], Unread}
        BY <1>a, <4>1, <4>2, <4>3 DEF CopyOf
      <4> QED BY <2>0, <4>1, <4>4 DEF CopyOf, Mark
    <3>3. CASE Poll(r)
      <4>1. pc'[r] \in Reading => next[r] < head /\ next'[r] = next[r]
        BY <3>3 DEF Poll, AfterNone, Reading, TypeOK
      <4>2. pc'[r] # "copy"
        BY <3>3 DEF Poll, AfterNone, TypeOK
      <4> QED BY <2>0, <4>1, <4>2 DEF CopyOf
    <3>4. CASE Check(r)
      <4>1. next' = next /\ next[r] < head /\ pc'[r] # "copy"
        BY <1>a, <3>4 DEF Check, AfterNone, CopyOf, Reading, TypeOK
      <4> QED BY <2>0, <4>1 DEF CopyOf
    <3>5. CASE \/ Attach(r) \/ (\E m \in Modes : Call(r, m)) \/ Recheck(r) \/ Snapshot(r)
               \/ Deadline(r) \/ FutexWait(r) \/ FutexTimeout(r)
      <4>1. pc'[r] \notin Reading
        BY <3>5 DEF Attach, Call, Recheck, Snapshot, Deadline, FutexWait, FutexTimeout,
           AfterNone, Reading, TypeOK
      <4> QED BY <4>1 DEF CopyOf, Reading
    <3> QED BY <1>4, <2>2, <3>1, <3>2, <3>3, <3>4, <3>5 DEF Read
  <2> QED BY <2>1, <2>2
<1>5. CASE UNCHANGED vars
  BY <1>5 DEF vars, CopyInv, CopyOf, Mark
<1> QED BY <1>1, <1>2, <1>3, <1>4, <1>5 DEF Next, Push

\* Where a failed poll leads.
LEMMA AfterNoneIs ==
    ASSUME NEW r \in Readers, TypeOK
    PROVE  /\ AfterNone(r) \in {"idle", "snap", "wait"}
           /\ AfterNone(r) = "wait" => pass[r] = 2
BY DEF AfterNone, TypeOK

\* A living writer never takes back an overwrite it has begun.
LEMMA BegunGrows ==
    ASSUME TypeOK, WriterInv, [Next]_vars, wpc' # "dead"
    PROVE  Begun \in Nat /\ Begun' \in Nat /\ Begun' >= Begun /\ wpc # "dead"
<1>0. wseq \in Nat
  BY MaxMsgAssumption DEF TypeOK
<1>1. ASSUME UNCHANGED writer PROVE Begun' = Begun /\ wpc # "dead"
  BY <1>1 DEF Begun, writer
<1>2. ASSUME Push
      PROVE  Begun' \in Nat /\ Begun' >= Begun /\ wpc # "dead"
  BY <1>0, <1>2 DEF Push, PushBegin, PushMark, PushWord, PushCommit, PushPublish, PushBump,
     PushWake, Begun, WriterInv, Stores
<1>3. Begun \in Nat
  BY <1>0 DEF Begun
<1> QED BY <1>1, <1>2, <1>3, ReaderFrame DEF Next, vars, writer, WriterCrash

\* An excuse lasts: the counter, the cursor and the flag of a reader that does
\* not move stay, and the writer only goes on.
LEMMA ExcuseLasts ==
    ASSUME TypeOK, WriterInv, [Next]_vars, NEW r \in Readers, Excused(r),
           next'[r] = next[r], snap'[r] = snap[r], jumped'[r] = jumped[r]
    PROVE  Excused(r)'
<1>1. next[r] \in Nat /\ Capacity \in Nat
  BY CapacityAssumption DEF TypeOK
<1> QED BY <1>1, BegunGrows DEF Excused

\* A reader whose read failed after the snapshot is excused.
LEMMA FailedIsExcused ==
    ASSUME TypeOK, SlotInv, CopyInv, SleepInv, NEW r \in Readers,
           pc[r] \in Reading, pass[r] = 2, Mark(next[r]) # Committed(next[r])
    PROVE  Excused(r)
<1>1. next[r] \in 0 .. head - 1
  BY MaxMsgAssumption DEF TypeOK, CopyInv, CopyOf
<1>2. wpc # "dead" => Begun > next[r] + Capacity
  BY <1>1 DEF SlotInv
<1>3. snap[r] <= next[r] + Capacity
  BY DEF SleepInv, SleepOf
<1> QED BY <1>2, <1>3 DEF Excused

\* Every step keeps the reasons to sleep.
LEMMA SleepNext ==
    ASSUME TypeOK, WriterInv, SlotInv, CopyInv, SleepInv, [Next]_vars
    PROVE  SleepInv'
<1> SUFFICES ASSUME NEW r \in Readers PROVE SleepOf(r)'
  BY DEF SleepInv
<1> USE DEF shared, reader
<1>0. /\ val \in Nat /\ head \in Nat /\ wseq \in Nat /\ Capacity \in Nat
      /\ next[r] \in Nat /\ snap[r] \in Nat /\ SleepOf(r)
  BY MaxMsgAssumption, CapacityAssumption DEF TypeOK, SleepInv
<1>1. ASSUME PushBump PROVE SleepOf(r)'
  <2>1. val' = val + 1 /\ wpc' = "wake" /\ UNCHANGED reader
    BY <1>1 DEF PushBump
  <2>2. Excused(r) => Excused(r)'
    BY <2>1, ExcuseLasts
  <2> QED BY <1>0, <2>1, <2>2 DEF SleepOf
<1>2. ASSUME \/ PushBegin \/ PushMark \/ (\E w \in Words : PushWord(w))
             \/ PushCommit \/ PushPublish \/ WriterCrash
      PROVE  SleepOf(r)'
  <2>1. val' = val /\ UNCHANGED reader /\ (wpc \in {"wake", "dead"} => wpc' = "dead")
    BY <1>2 DEF PushBegin, PushMark, PushWord, PushCommit, PushPublish, WriterCrash
  <2>2. Excused(r) => Excused(r)'
    BY <2>1, ExcuseLasts
  <2> QED BY <1>0, <2>1, <2>2 DEF SleepOf
<1>3. ASSUME PushWake PROVE SleepOf(r)'
  <2>1. /\ val' = val /\ UNCHANGED <<next, snap, jumped>> /\ pc'[r] # "asleep"
        /\ (pc'[r] = pc[r] /\ pass'[r] = pass[r]) \/ pc'[r] = "poll"
    BY <1>3 DEF PushWake
  <2>2. Excused(r) => Excused(r)'
    BY <2>1, ExcuseLasts
  <2> QED BY <1>0, <2>1, <2>2 DEF SleepOf, Reading
<1>4. ASSUME NEW q \in Readers, Read(q) PROVE SleepOf(r)'
  <2>0. UNCHANGED <<shared, writer>>
    BY <1>4, ReaderFrame
  <2>1. CASE r # q
    <3>1. /\ pc'[r] = pc[r] /\ next'[r] = next[r] /\ pass'[r] = pass[r]
          /\ snap'[r] = snap[r] /\ jumped'[r] = jumped[r]
      BY <1>4, <2>1 DEF Read, Attach, Call, Poll, Check, CopyLen, CopyWord, Recheck,
         Snapshot, Deadline, FutexWait, FutexTimeout, TypeOK
    <3>2. Excused(r) => Excused(r)'
      BY <3>1, ExcuseLasts
    <3> QED BY <1>0, <2>0, <3>1, <3>2 DEF SleepOf, writer
  <2>2. CASE r = q
    <3>1. CASE Poll(r)
      <4>1. UNCHANGED <<pass, snap, val>> /\ pc'[r] # "asleep" /\ val <= head
        BY <3>1, AfterNoneIs DEF Poll, TypeOK, WriterInv
      <4>2. CASE Overruns(r)
        <5>1. jumped'[r] = TRUE /\ pc'[r] \notin Reading
          BY <3>1, <4>2, AfterNoneIs DEF Poll, TypeOK, Reading
        <5> QED BY <1>0, <4>1, <5>1 DEF SleepOf, Excused
      <4>3. CASE ~Overruns(r)
        <5>1. next' = next /\ head <= next[r] + Capacity
          BY <1>0, <3>1, <4>3 DEF Poll, Overruns, TypeOK
        <5>2. pc'[r] = "wait" => next[r] >= head
          BY <1>0, <3>1, <4>3 DEF Poll, TypeOK
        <5>3. pc'[r] = "wait" => next'[r] >= snap'[r]
          BY <1>0, <4>1, <5>1, <5>2 DEF SleepOf
        <5> QED BY <1>0, <4>1, <5>1, <5>3 DEF SleepOf, Excused
      <4> QED BY <4>2, <4>3
    <3>2. CASE Check(r) \/ Recheck(r)
      <4>1. UNCHANGED <<pass, snap, val, jumped>> /\ pc[r] \in Reading /\ pc'[r] # "asleep"
        BY <3>2, AfterNoneIs DEF Check, Recheck, TypeOK, Reading
      <4>2. pc'[r] \in Reading => next' = next
        BY <3>2, AfterNoneIs DEF Check, Recheck, TypeOK, Reading
      <4>3. pc'[r] = "wait" => pass[r] = 2 /\ next' = next /\ Mark(next[r]) # Committed(next[r])
        BY <3>2, AfterNoneIs DEF Check, Recheck, TypeOK, Mark
      <4>4. pc'[r] = "wait" => Excused(r)'
        BY <4>1, <4>3, FailedIsExcused, ExcuseLasts
      <4> QED BY <1>0, <4>1, <4>2, <4>4 DEF SleepOf
    <3>3. CASE CopyLen(r)
      <4>1. UNCHANGED <<pass, snap, val, next, jumped>> /\ pc[r] \in Reading /\ pc'[r] # "asleep"
        BY <3>3, AfterNoneIs DEF CopyLen, TypeOK, Reading
      <4>2. pc'[r] = "wait" => pass[r] = 2 /\ word[Index(next[r])]["len"] \in Large
        BY <3>3, AfterNoneIs DEF CopyLen, TypeOK
      <4>3. Mark(next[r]) = Committed(next[r]) => word[Index(next[r])]["len"] = next[r]
        BY <1>0, <4>1, MarkedIsWhole DEF CopyInv, CopyOf, Words
      <4>4. pc'[r] = "wait" => Excused(r)
        BY <4>1, <4>2, <4>3, FailedIsExcused DEF Excused
      <4>5. pc'[r] = "wait" => Excused(r)'
        BY <4>1, <4>4, ExcuseLasts
      <4> QED BY <1>0, <4>1, <4>5 DEF SleepOf
    <3>4. ASSUME NEW w \in Payload, CopyWord(r, w) PROVE SleepOf(r)'
      <4>1. UNCHANGED <<pc, pass, snap, val, next, jumped>> /\ pc[r] = "copy"
        BY <3>4 DEF CopyWord
      <4> QED BY <1>0, <4>1 DEF SleepOf
    <3>5. CASE \/ Attach(r) \/ (\E m \in Modes : Call(r, m)) \/ Snapshot(r) \/ Deadline(r)
               \/ FutexTimeout(r)
      <4>1. pc'[r] \in {"idle", "poll"} /\ snap'[r] \in {snap[r], val} /\ val' = val
        BY <3>5 DEF Attach, Call, Snapshot, Deadline, FutexTimeout, TypeOK
      <4> QED BY <1>0, <4>1 DEF SleepOf, Reading
    <3>6. CASE FutexWait(r)
      <4>1. UNCHANGED <<snap, val, next, jumped>> /\ pc[r] = "wait"
        BY <3>6 DEF FutexWait
      <4>2. pc'[r] = "poll" \/ (pc'[r] = "asleep" /\ val = snap[r])
        BY <3>6 DEF FutexWait, TypeOK
      <4>3. Excused(r)'
        BY <1>0, <4>1, ExcuseLasts DEF SleepOf
      <4> QED BY <1>0, <4>1, <4>2, <4>3 DEF SleepOf, Reading
    <3> QED BY <1>4, <2>2, <3>1, <3>2, <3>3, <3>4, <3>5, <3>6 DEF Read
  <2> QED BY <2>1, <2>2
<1>5. CASE UNCHANGED vars
  <2>1. Excused(r) => Excused(r)'
    BY <1>5, ExcuseLasts DEF vars
  <2> QED BY <1>0, <1>5, <2>1 DEF vars, SleepOf
<1> QED BY <1>1, <1>2, <1>3, <1>4, <1>5 DEF Next, Push

-------------------------------------------------------------------------------
\* The invariant holds throughout, if the mark is seen before the payload.
LEMMA InvariantHolds ==
    ASSUME MarkFirst = TRUE
    PROVE  Spec => []IInv
<1>1. Init => IInv
  BY InitIInv
<1>2. IInv /\ [Next]_vars => IInv'
  BY TypeNext, WriterNext, SlotNext, CopyNext, SleepNext DEF IInv
<1> QED BY <1>1, <1>2, PTL DEF Spec

\* take_blocking loses no wake-up: with any number of readers and any capacity,
\* a reader sleeps on a message while the writer is idle only after an overrun
\* or in front of a message that does not fit its buffer.
THEOREM WakeUpsCovered ==
    ASSUME MarkFirst = TRUE
    PROVE  Spec => [](TypeOK /\ WakeCovered)
<1>1. IInv => TypeOK /\ WakeCovered
  <2> SUFFICES ASSUME IInv, NEW r \in Readers, MissedBy(r)
               PROVE  jumped[r] \/ next[r] \in Large
    BY DEF IInv, WakeCovered
  <2>1. /\ next[r] \in Nat /\ head \in Nat /\ Capacity \in Nat
        /\ pc[r] = "asleep" /\ wpc = "idle" /\ next[r] < head
    BY MaxMsgAssumption, CapacityAssumption DEF IInv, TypeOK, MissedBy
  <2>2. head = wseq /\ val = wseq /\ Begun = wseq
    BY <2>1 DEF IInv, WriterInv, Begun
  <2>3. Excused(r) /\ val = snap[r]
    BY <2>1 DEF IInv, SleepInv, SleepOf
  <2>4. ~(next[r] >= snap[r]) /\ ~(snap[r] <= next[r] + Capacity /\ Begun > next[r] + Capacity)
    BY <2>1, <2>2, <2>3
  <2> QED BY <2>1, <2>3, <2>4 DEF Excused
<1> QED BY <1>1, InvariantHolds, PTL

\* The ring implements the lossy broadcast: publishing head is Send, attaching is
\* Join, an overrun is Lose, a second look at the mark that finds it unchanged is
\* Deliver, and every other access to the segment is a stutter.
THEOREM RingIsBroadcast ==
    ASSUME MarkFirst = TRUE
    PROVE  Spec => BroadcastSpec
<1>1. Init => Broadcast!Init
  BY DEF Init, Broadcast!Init, Message, Words, Zero
<1>2. IInv /\ [Next]_vars => [Broadcast!Next]_(Broadcast!vars)
  <2> SUFFICES ASSUME IInv, [Next]_vars
               PROVE  [Broadcast!Next]_(Broadcast!vars)
    OBVIOUS
  <2> USE DEF shared, reader
  <2>1. ASSUME PushPublish PROVE Broadcast!Send
    BY <2>1 DEF PushPublish, Broadcast!Send, IInv, WriterInv
  <2>2. ASSUME NEW r \in Readers, Attach(r) PROVE Broadcast!Join(r)
    BY <2>2, MaxMsgAssumption DEF Attach, Broadcast!Join, IInv, TypeOK
  <2>3. ASSUME NEW r \in Readers, Poll(r), Overruns(r) PROVE Broadcast!Lose(r)
    BY <2>3, AfterNoneIs DEF Poll, Overruns, Broadcast!Lose, IInv, TypeOK
  <2>4. ASSUME NEW r \in Readers, Recheck(r), Mark(next[r]) = Committed(next[r])
        PROVE  Broadcast!Deliver(r)
    <3>1. next[r] < head /\ \A w \in Words : copy[r][w] = next[r]
      BY <2>4 DEF Recheck, IInv, CopyInv, CopyOf, Reading
    <3>2. Message(copy[r]) = next[r]
      BY <3>1 DEF Message, Words
    <3>3. /\ next' = [next EXCEPT ![r] = @ + 1] /\ out' = [out EXCEPT ![r] = copy[r]]
          /\ pc[r] = "copy" /\ pc' = [pc EXCEPT ![r] = "idle"] /\ head' = head
      BY <2>4 DEF Recheck, Mark
    <3>4. [q \in Readers |-> Message(out'[q])]
            = [[q \in Readers |-> Message(out[q])] EXCEPT ![r] = next[r]]
      BY <3>2, <3>3 DEF IInv, TypeOK
    <3>5. {q \in Readers : pc'[q] # "detached"} = {q \in Readers : pc[q] # "detached"}
      BY <3>3 DEF IInv, TypeOK
    <3> QED BY <3>1, <3>3, <3>4, <3>5 DEF Broadcast!Deliver
  <2>5. ASSUME UNCHANGED <<head, next, out>>,
               \A r \in Readers : pc'[r] = "detached" <=> pc[r] = "detached"
        PROVE  UNCHANGED Broadcast!vars
    BY <2>5 DEF Broadcast!vars
  <2>6. ASSUME Push \/ WriterCrash, ~PushPublish PROVE UNCHANGED Broadcast!vars
    <3>1. /\ UNCHANGED <<head, next, out>>
          /\ \A r \in Readers : pc'[r] = "detached" <=> pc[r] = "detached"
      BY <2>6 DEF Push, PushBegin, PushMark, PushWord, PushCommit, PushBump, PushWake, WriterCrash
    <3> QED BY <2>5, <3>1
  <2>7. ASSUME NEW q \in Readers, Read(q), ~Attach(q), ~(Poll(q) /\ Overruns(q)),
               ~(Recheck(q) /\ Mark(next[q]) = Committed(next[q]))
        PROVE  UNCHANGED Broadcast!vars
    <3>1. /\ UNCHANGED <<head, next, out>>
          /\ \A r \in Readers : pc'[r] = "detached" <=> pc[r] = "detached"
      <4>1. TypeOK
        BY DEF IInv
      <4> QED BY <2>7, <4>1, AfterNoneIs DEF Read, Call, Poll, Check, CopyLen, CopyWord,
              Recheck, Snapshot, Deadline, FutexWait, FutexTimeout, TypeOK, Mark
    <3> QED BY <2>5, <3>1
  <2>8. CASE UNCHANGED vars
    BY <2>5, <2>8 DEF vars
  <2>9. CASE Push \/ WriterCrash
    BY <2>1, <2>6, <2>9 DEF Broadcast!Next
  <2>10. ASSUME NEW q \in Readers, Read(q) PROVE [Broadcast!Next]_(Broadcast!vars)
    BY <2>2, <2>3, <2>4, <2>7, <2>10 DEF Broadcast!Next
  <2> QED BY <2>8, <2>9, <2>10 DEF Next
<1> QED BY <1>1, <1>2, InvariantHolds, PTL DEF Spec, BroadcastSpec, Broadcast!Spec
===============================================================================
