-------------------------------- MODULE ShmRing --------------------------------
(***************************************************************************)
(* The shared-memory ring between one writer process and reader processes  *)
(* (transport/shm/ring.rs, slot.rs, notify.rs): a head, Capacity slots     *)
(* each with a mark (seq), a length and a payload, and the futex counter   *)
(* the writer bumps after every message.  No lock is taken, so push,       *)
(* try_pop and take_blocking are split at every access to shared memory.   *)
(*                                                                         *)
(* The content of a word of a slot is the number of the message that wrote *)
(* it, which is what tells an intact copy from a torn one.  The payload is *)
(* copied word by word in any order, as a memcpy may.                      *)
(***************************************************************************)
EXTENDS Integers

CONSTANTS
    Readers,    \* the reader processes
    Capacity,   \* slots of the ring, a power of two
    Payload,    \* the words of a payload
    Large,      \* the messages longer than the buffer of the readers
    MarkFirst,  \* TRUE: the writing mark is visible before the payload is
                \* touched (x86-64); FALSE: it is a Relaxed store, which other
                \* machines and the compiler may delay past the payload
    MaxMsg      \* bound: messages pushed (far below 2^32, where val wraps)

ASSUME CapacityAssumption == Capacity \in Nat \ {0}
ASSUME MaxMsgAssumption == MaxMsg \in Nat
ASSUME LargeAssumption == Large \subseteq Nat
ASSUME MarkFirstAssumption == MarkFirst \in BOOLEAN
ASSUME PayloadAssumption == "len" \notin Payload /\ "mark" \notin Payload

VARIABLES
    head,       \* ShmControl.head: messages published
    mark,       \* mark[i]: ShmSlot.seq
    word,       \* word[i][w]: the message that wrote word w of slot i, or Zero
    val,        \* NotifyBucket.val
    wseq,       \* the writer's next_seq
    wpc,        \* where the writer is in push
    wleft,      \* the stores of push that are not visible yet
    pc,         \* where each reader is
    mode,       \* the call it is in
    pass,       \* which of the two polls of take_blocking
    next,       \* its next_seq
    copy,       \* the words it has copied, the others Unread
    snap,       \* the snapshot of val it took
    jumped,     \* history: its last poll found an overrun
    out         \* history: the words of the last message it returned

shared == <<head, mark, word, val>>
writer == <<wseq, wpc, wleft>>
reader == <<pc, mode, pass, next, copy, snap, jumped, out>>
vars == <<head, mark, word, val, wseq, wpc, wleft,
          pc, mode, pass, next, copy, snap, jumped, out>>

Zero == -1
Unread == -2
Slots == 0 .. Capacity - 1
Words == Payload \cup {"len"}
Stores == Words \cup {"mark"}
Index(m) == m % Capacity
Writing(m) == 2 * m + 1
Committed(m) == 2 * m

\* ShmRingWriter::create zeroes the segment; no reader has attached yet.
Init ==
    /\ head = 0
    /\ mark = [i \in Slots |-> 0]
    /\ word = [i \in Slots |-> [w \in Words |-> Zero]]
    /\ val = 0
    /\ wseq = 0
    /\ wpc = "idle"
    /\ wleft = {}
    /\ pc = [r \in Readers |-> "detached"]
    /\ mode = [r \in Readers |-> "none"]
    /\ pass = [r \in Readers |-> 1]
    /\ next = [r \in Readers |-> 0]
    /\ copy = [r \in Readers |-> [w \in Words |-> Unread]]
    /\ snap = [r \in Readers |-> 0]
    /\ jumped = [r \in Readers |-> FALSE]
    /\ out = [r \in Readers |-> [w \in Words |-> Zero]]

-------------------------------------------------------------------------------
\* push.  A payload longer than a slot is refused before anything is stored.
PushBegin ==
    /\ wpc = "idle"
    /\ wseq < MaxMsg
    /\ wpc' = "store"
    /\ wleft' = Stores
    /\ UNCHANGED <<shared, wseq, reader>>

\* 1. Mark the slot as being written (odd).
PushMark ==
    /\ wpc = "store"
    /\ "mark" \in wleft
    /\ mark' = [mark EXCEPT ![Index(wseq)] = Writing(wseq)]
    /\ wleft' = wleft \ {"mark"}
    /\ UNCHANGED <<head, word, val, wseq, wpc, reader>>

\* 2. and 3. Store the length and copy the payload.
PushWord(w) ==
    /\ wpc = "store"
    /\ w \in wleft \ {"mark"}
    /\ MarkFirst => "mark" \notin wleft
    /\ word' = [word EXCEPT ![Index(wseq)][w] = wseq]
    /\ wleft' = wleft \ {w}
    /\ UNCHANGED <<head, mark, val, wseq, wpc, reader>>

\* 4. Commit (even), a Release store: every earlier store is visible.  The
\* mark is a store to the same word, so it is overwritten or never seen.
PushCommit ==
    /\ wpc = "store"
    /\ wleft \subseteq {"mark"}
    /\ mark' = [mark EXCEPT ![Index(wseq)] = Committed(wseq)]
    /\ wleft' = {}
    /\ wpc' = "publish"
    /\ UNCHANGED <<head, word, val, wseq, reader>>

\* Mutant: head is taken one message too far.
PushPublishAhead ==
    /\ wpc = "publish"
    /\ head' = wseq + 2
    /\ wpc' = "bump"
    /\ UNCHANGED <<mark, word, val, wseq, wleft, reader>>

\* 5. ShmControl::publish_head
PushPublish ==
    /\ wpc = "publish"
    /\ head' = wseq + 1
    /\ wpc' = "bump"
    /\ UNCHANGED <<mark, word, val, wseq, wleft, reader>>

\* 6. NotifyBucket::notify: count, then wake.
PushBump ==
    /\ wpc = "bump"
    /\ val' = val + 1
    /\ wpc' = "wake"
    /\ UNCHANGED <<head, mark, word, wseq, wleft, reader>>

\* futex_wake_all; then push advances next_seq and returns.
PushWake ==
    /\ wpc = "wake"
    /\ pc' = [r \in Readers |-> IF pc[r] = "asleep" THEN "poll" ELSE pc[r]]
    /\ pass' = [r \in Readers |-> IF pc[r] = "asleep" THEN 1 ELSE pass[r]]
    /\ wseq' = wseq + 1
    /\ wpc' = "idle"
    /\ UNCHANGED <<shared, wleft, mode, next, copy, snap, jumped, out>>

\* The writer process dies at any point; the segment stays.
WriterCrash ==
    /\ wpc # "dead"
    /\ wpc' = "dead"
    /\ UNCHANGED <<shared, wseq, wleft, reader>>

-------------------------------------------------------------------------------
\* ShmRingReader::attach starts at head, attach_from at a chosen number.
Attach(r) ==
    /\ pc[r] = "detached"
    /\ \E n \in {head} \cup 0 .. MaxMsg : next' = [next EXCEPT ![r] = n]
    /\ pc' = [pc EXCEPT ![r] = "idle"]
    /\ UNCHANGED <<shared, writer, mode, pass, copy, snap, jumped, out>>

\* The application calls try_pop, or take_blocking with or without a timeout.
Call(r, m) ==
    /\ pc[r] = "idle"
    /\ mode' = [mode EXCEPT ![r] = m]
    /\ pass' = [pass EXCEPT ![r] = 1]
    /\ pc' = [pc EXCEPT ![r] = "poll"]
    /\ UNCHANGED <<shared, writer, next, copy, snap, jumped, out>>

\* Where a reader goes whose try_pop returned None: back to the caller, to the
\* snapshot after the first poll, to the futex after the second.
AfterNone(r) ==
    IF mode[r] = "try" THEN "idle" ELSE IF pass[r] = 1 THEN "snap" ELSE "wait"

\* head.saturating_sub(next_seq) > capacity
Overruns(r) == head - next[r] > Capacity

\* try_pop loads head and decides whether it lost data, has none, or may read.
Poll(r) ==
    /\ pc[r] = "poll"
    /\ jumped' = [jumped EXCEPT ![r] = Overruns(r)]
    /\ next' = [next EXCEPT ![r] = IF Overruns(r) THEN head - 1 ELSE @]
    /\ pc' = [pc EXCEPT ![r] = IF ~Overruns(r) /\ next[r] < head
                               THEN "check" ELSE AfterNone(r)]
    /\ UNCHANGED <<shared, writer, mode, pass, copy, snap, out>>

\* 1. The slot must be committed with exactly this message.
Check(r) ==
    /\ pc[r] = "check"
    /\ pc' = [pc EXCEPT ![r] = IF mark[Index(next[r])] = Committed(next[r])
                               THEN "len" ELSE AfterNone(r)]
    /\ UNCHANGED <<shared, writer, mode, pass, next, copy, snap, jumped, out>>

\* 2. The length; one that does not fit the buffer ends the read, and next_seq
\* stays where it is.
CopyLen(r) ==
    /\ pc[r] = "len"
    /\ LET n == word[Index(next[r])]["len"] IN
        /\ copy' = [copy EXCEPT ![r] = [w \in Words |->
                                         IF w = "len" THEN n ELSE Unread]]
        /\ pc' = [pc EXCEPT ![r] = IF n \in Large THEN AfterNone(r) ELSE "copy"]
    /\ UNCHANGED <<shared, writer, mode, pass, next, snap, jumped, out>>

\* 3. Copy one word of the payload.
CopyWord(r, w) ==
    /\ pc[r] = "copy"
    /\ copy[r][w] = Unread
    /\ copy' = [copy EXCEPT ![r][w] = word[Index(next[r])][w]]
    /\ UNCHANGED <<shared, writer, pc, mode, pass, next, snap, jumped, out>>

\* Mutant: the mark is not compared again.
RecheckSkipped(r) ==
    /\ pc[r] = "copy"
    /\ \A w \in Words : copy[r][w] # Unread
    /\ next' = [next EXCEPT ![r] = @ + 1]
    /\ out' = [out EXCEPT ![r] = copy[r]]
    /\ pc' = [pc EXCEPT ![r] = "idle"]
    /\ UNCHANGED <<shared, writer, mode, pass, copy, snap, jumped>>

\* 4. Load the mark again; the message is returned only if it is the same.
Recheck(r) ==
    /\ pc[r] = "copy"
    /\ \A w \in Words : copy[r][w] # Unread
    /\ \/ /\ mark[Index(next[r])] = Committed(next[r])
          /\ next' = [next EXCEPT ![r] = @ + 1]
          /\ out' = [out EXCEPT ![r] = copy[r]]
          /\ pc' = [pc EXCEPT ![r] = "idle"]
       \/ /\ mark[Index(next[r])] # Committed(next[r])
          /\ pc' = [pc EXCEPT ![r] = AfterNone(r)]
          /\ UNCHANGED <<next, out>>
    /\ UNCHANGED <<shared, writer, mode, pass, copy, snap, jumped>>

\* Mutant: the poll after the snapshot is left out.
SnapshotNoRepoll(r) ==
    /\ pc[r] = "snap"
    /\ snap' = [snap EXCEPT ![r] = val]
    /\ pass' = [pass EXCEPT ![r] = 2]
    /\ pc' = [pc EXCEPT ![r] = "wait"]
    /\ UNCHANGED <<shared, writer, mode, next, copy, jumped, out>>

\* take_blocking, step 2: snapshot the counter, then poll again.
Snapshot(r) ==
    /\ pc[r] = "snap"
    /\ snap' = [snap EXCEPT ![r] = val]
    /\ pass' = [pass EXCEPT ![r] = 2]
    /\ pc' = [pc EXCEPT ![r] = "poll"]
    /\ UNCHANGED <<shared, writer, mode, next, copy, jumped, out>>

\* Step 4: the deadline has passed, take_blocking returns None.
Deadline(r) ==
    /\ pc[r] = "wait"
    /\ mode[r] = "timed"
    /\ pc' = [pc EXCEPT ![r] = "idle"]
    /\ UNCHANGED <<shared, writer, mode, pass, next, copy, snap, jumped, out>>

\* Step 5: futex_wait sleeps only while the counter is the snapshot; otherwise
\* it returns EAGAIN and the loop starts again.
FutexWait(r) ==
    /\ pc[r] = "wait"
    /\ pc' = [pc EXCEPT ![r] = IF val = snap[r] THEN "asleep" ELSE "poll"]
    /\ pass' = [pass EXCEPT ![r] = IF val = snap[r] THEN 2 ELSE 1]
    /\ UNCHANGED <<shared, writer, mode, next, copy, snap, jumped, out>>

\* The futex times out; the loop starts again.
FutexTimeout(r) ==
    /\ pc[r] = "asleep"
    /\ mode[r] = "timed"
    /\ pc' = [pc EXCEPT ![r] = "poll"]
    /\ pass' = [pass EXCEPT ![r] = 1]
    /\ UNCHANGED <<shared, writer, mode, next, copy, snap, jumped, out>>

Push ==
    \/ PushBegin \/ PushMark \/ (\E w \in Words : PushWord(w)) \/ PushCommit
    \/ PushPublish \/ PushBump \/ PushWake

Modes == {"try", "block", "timed"}

Read(r) ==
    \/ Attach(r) \/ (\E m \in Modes : Call(r, m))
    \/ Poll(r) \/ Check(r) \/ CopyLen(r) \/ (\E w \in Payload : CopyWord(r, w))
    \/ Recheck(r) \/ Snapshot(r) \/ Deadline(r) \/ FutexWait(r) \/ FutexTimeout(r)

Next == Push \/ WriterCrash \/ \E r \in Readers : Read(r)

Spec == Init /\ [][Next]_vars

-------------------------------------------------------------------------------
\* The types of the variables.
TypeOK ==
    /\ head \in 0 .. MaxMsg
    /\ mark \in [Slots -> Nat]
    /\ word \in [Slots -> [Words -> Nat \cup {Zero}]]
    /\ val \in Nat
    /\ wseq \in 0 .. MaxMsg
    /\ wpc \in {"idle", "store", "publish", "bump", "wake", "dead"}
    /\ wleft \subseteq Stores
    /\ pc \in [Readers -> {"detached", "idle", "poll", "check", "len", "copy",
                           "snap", "wait", "asleep"}]
    /\ mode \in [Readers -> Modes \cup {"none"}]
    /\ pass \in [Readers -> {1, 2}]
    /\ next \in [Readers -> Nat]
    /\ copy \in [Readers -> [Words -> Nat \cup {Zero, Unread}]]
    /\ snap \in [Readers -> Nat]
    /\ jumped \in [Readers -> BOOLEAN]
    /\ out \in [Readers -> [Words -> Nat \cup {Zero}]]

Torn == -3

\* The message a returned copy is, or Torn if its words are of different ones.
Message(f) == IF \A w \in Words : f[w] = f["len"] THEN f["len"] ELSE Torn

Broadcast == INSTANCE LossyBroadcast
    WITH sent <- head,
         joined <- {r \in Readers : pc[r] # "detached"},
         cursor <- next,
         got <- [r \in Readers |-> Message(out[r])]

\* try_pop and take_blocking, interleaved with push at every load and store,
\* return whole messages in the order they were pushed, and skip messages only
\* after head has moved more than capacity past next_seq.
BroadcastSpec == Broadcast!Spec

\* A message is published, the reader it is for sleeps, and the writer is not in
\* a push, whose end would wake it.
MissedBy(r) ==
    /\ pc[r] = "asleep"
    /\ next[r] < head
    /\ wpc = "idle"

\* "Uses double-check pattern to avoid lost wakes" (take_blocking): a reader
\* sleeps with a message to read only while the writer has yet to notify, unless
\* the second poll ended in an overrun, which moves next_seq back to a message
\* and reports None, or the message is larger than the reader's buffer.
WakeCovered ==
    \A r \in Readers : MissedBy(r) => jumped[r] \/ next[r] \in Large

\* The same without the exceptions; take_blocking does not keep it.
NoLostWake == \A r \in Readers : ~MissedBy(r)
===============================================================================
