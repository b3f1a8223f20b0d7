---------------------------- MODULE ReliableUdp ----------------------------
(***************************************************************************)
(* The reliable protocol of one RELIABLE writer and one remote reader over *)
(* UDP.  The threads are                                                   *)
(*   - the application's thread in DataWriter::write (one: the writer holds *)
(*     a RefCell and is not Sync),                                         *)
(*   - the "hdds-heartbeat" thread of the writer (heartbeat_scheduler.rs), *)
(*   - the "hdds-control" thread of the reader's participant, to which     *)
(*     every UDP listener hands the heartbeats (control.rs), and that of   *)
(*     the writer's participant, which hands the NACKs to                  *)
(*     WriterNackHandler (dds/writer/nack.rs).                             *)
(* The network, together with the bounded control channels that drop when  *)
(* full, loses, repeats and reorders messages.                             *)
(*                                                                         *)
(* Heartbeats are periodic and their counts grow without bound.  Counts    *)
(* from MaxCount on are all written MaxCount and mean "larger than every   *)
(* count before".  Two bounds go with it: at most one such heartbeat is in *)
(* flight (the next one replaces it, as if it had been lost), and it is    *)
(* not repeated.  Reordering and repetition happen to the earlier ones.    *)
(***************************************************************************)
EXTENDS Integers, Sequences, FiniteSets, Functions

CONSTANTS
    MaxSeq,     \* bound: samples written
    Depth,      \* max_samples of the history cache (KEEP_LAST)
    MaxInline,  \* bound: heartbeats sent from write
    MaxCount,   \* first count that stands for all larger ones
    MaxLoss,    \* bound: messages lost
    MaxDup,     \* bound: messages repeated
    MaxMatch,   \* bound: readers that match the writer
    Volatile    \* is the writer VOLATILE, with a listener?

ASSUME ReliableAssumption ==
    /\ MaxSeq \in Nat \ {0} /\ Depth \in Nat \ {0}
    /\ MaxInline \in Nat /\ MaxCount \in Nat \ {0} /\ MaxInline < MaxCount
    /\ MaxLoss \in Nat /\ MaxDup \in Nat /\ MaxMatch \in Nat
    /\ Volatile \in BOOLEAN

VARIABLES
    \* DataWriter
    wpc,        \* where the thread is in write
    nextSeq,    \* next_seq
    cache,      \* sequence numbers in the history cache, oldest first
    inlineCount,\* HeartbeatTx::count
    \* HeartbeatSchedulerState and the heartbeat thread
    lastSeq,    \* last_seq
    schedCount, \* count
    floor,      \* first_eligible_seq
    spc,        \* where the heartbeat thread is in its loop
    sLast,      \* the last_seq it loaded
    \* messages in flight
    data, hbs, nacks,
    \* ControlHandler of the reader
    batch,      \* <<>> or the WriterState gathered since the last flush
    hbCount,    \* last_hb_count of the ReliableReaderProxy
    answered,   \* has an ACKNACK been sent (last_acknack_time)?
    \* history
    delivered,  \* samples the reader received
    gone,       \* samples evicted from the cache or refused by it
    gapped,     \* samples for which the writer sent a GAP
    matches, matchedAt,     \* matches so far, last_seq at the first one
    losses, dups

writerVars == <<wpc, nextSeq, cache, inlineCount>>
schedVars == <<schedCount, spc, sLast>>
controlVars == <<batch, hbCount, answered>>
matchVars == <<floor, matches, matchedAt>>
faultVars == <<losses, dups>>
vars == <<writerVars, lastSeq, schedVars, matchVars, data, hbs, nacks,
          controlVars, delivered, gone, gapped, faultVars>>

SeqNum == 1 .. MaxSeq
Unmatched == MaxSeq + 1
Heartbeat == [first : 1 .. MaxSeq + 1, last : SeqNum, count : 0 .. MaxCount]

Larger(a, b) == IF a >= b THEN a ELSE b

Init ==
    /\ wpc = "idle" /\ nextSeq = 1 /\ cache = <<>> /\ inlineCount = 0
    /\ lastSeq = 0 /\ schedCount = 1 /\ spc = "sleep" /\ sLast = 0
    /\ floor = 0 /\ matches = 0 /\ matchedAt = Unmatched
    /\ data = {} /\ hbs = {} /\ nacks = {}
    /\ batch = <<>> /\ hbCount = 0 /\ answered = FALSE
    /\ delivered = {} /\ gone = {} /\ gapped = {}
    /\ losses = 0 /\ dups = 0

-----------------------------------------------------------------------------
(* DataWriter::write for a topic without local readers. *)

\* Mutant: the scheduler learns of the sample before the cache has it.
WriteSendEager ==
    /\ wpc = "idle"
    /\ nextSeq <= MaxSeq
    /\ nextSeq' = nextSeq + 1
    /\ data' = data \cup {nextSeq}
    /\ wpc' = "insert"
    /\ lastSeq' = nextSeq
    /\ UNCHANGED <<cache, inlineCount, schedVars, matchVars, hbs, nacks,
                   controlVars, delivered, gone, gapped, faultVars>>

\* Take the next number and send DATA.
WriteSend ==
    /\ wpc = "idle"
    /\ nextSeq <= MaxSeq
    /\ nextSeq' = nextSeq + 1
    /\ data' = data \cup {nextSeq}
    /\ wpc' = "insert"
    /\ UNCHANGED <<cache, inlineCount, lastSeq, schedVars, matchVars, hbs,
                   nacks, controlVars, delivered, gone, gapped, faultVars>>

\* Mutant: the limits of the cache are not enforced.
WriteInsertUnbounded ==
    /\ wpc = "insert"
    /\ cache' = Append(cache, nextSeq - 1)
    /\ wpc' = "heartbeat"
    /\ UNCHANGED <<nextSeq, inlineCount, lastSeq, schedVars, matchVars, data,
                   hbs, nacks, controlVars, delivered, gone, gapped, faultVars>>

\* HistoryCache::insert with KEEP_LAST: append, then evict the oldest.
WriteInsert ==
    /\ wpc = "insert"
    /\ IF Len(cache) < Depth
       THEN cache' = Append(cache, nextSeq - 1) /\ UNCHANGED gone
       ELSE /\ cache' = Append(Tail(cache), nextSeq - 1)
            /\ gone' = gone \cup {Head(cache)}
    /\ wpc' = "heartbeat"
    /\ UNCHANGED <<nextSeq, inlineCount, lastSeq, schedVars, matchVars, data,
                   hbs, nacks, controlVars, delivered, gapped, faultVars>>

\* HistoryCache::insert finds no slab; write logs it and goes on.
WriteInsertFails ==
    /\ wpc = "insert"
    /\ gone' = gone \cup {nextSeq - 1}
    /\ wpc' = "heartbeat"
    /\ UNCHANGED <<nextSeq, cache, inlineCount, lastSeq, schedVars, matchVars,
                   data, hbs, nacks, controlVars, delivered, gapped, faultVars>>

\* history_cache.oldest_seq().unwrap_or(1)
OldestSeq == IF cache = <<>> THEN 1 ELSE Head(cache)

\* HeartbeatSchedulerState::heartbeat_first_seq
FirstSeq == IF floor = 0 THEN OldestSeq ELSE Larger(OldestSeq, floor + 1)

\* maybe_send_heartbeat: publish the number to the heartbeat thread; the
\* deadline of the writer's own heartbeats has not passed.
WriteUpdateSeq ==
    /\ wpc = "heartbeat"
    /\ lastSeq' = nextSeq - 1
    /\ wpc' = "idle"
    /\ UNCHANGED <<nextSeq, cache, inlineCount, schedVars, matchVars, data,
                   hbs, nacks, controlVars, delivered, gone, gapped, faultVars>>

\* maybe_send_heartbeat: the deadline has passed; send a heartbeat whose
\* count comes from HeartbeatTx, not from the scheduler.
WriteHeartbeat ==
    /\ wpc = "heartbeat"
    /\ inlineCount < MaxInline
    /\ lastSeq' = nextSeq - 1
    /\ hbs' = hbs \cup {[first |-> FirstSeq, last |-> nextSeq - 1,
                         count |-> inlineCount]}
    /\ inlineCount' = inlineCount + 1
    /\ wpc' = "idle"
    /\ UNCHANGED <<nextSeq, cache, schedVars, matchVars, data, nacks,
                   controlVars, delivered, gone, gapped, faultVars>>

-----------------------------------------------------------------------------
(* heartbeat_loop *)

\* Wake up and load last_seq; nothing is sent before the first write.
SchedLoad ==
    /\ spc = "sleep"
    /\ lastSeq > 0
    /\ sLast' = lastSeq
    /\ spc' = "send"
    /\ UNCHANGED <<writerVars, lastSeq, schedCount, matchVars, data, hbs,
                   nacks, controlVars, delivered, gone, gapped, faultVars>>

\* Look up the oldest sample, take the next count and send.
SchedSend ==
    /\ spc = "send"
    /\ hbs' = {h \in hbs : h.count < MaxCount \/ schedCount < MaxCount}
              \cup {[first |-> FirstSeq, last |-> sLast, count |-> schedCount]}
    /\ schedCount' = IF schedCount < MaxCount THEN schedCount + 1 ELSE MaxCount
    /\ spc' = "sleep"
    /\ UNCHANGED <<writerVars, lastSeq, sLast, matchVars, data, nacks,
                   controlVars, delivered, gone, gapped, faultVars>>

\* The match callback of the writer, on the discovery thread: for a VOLATILE
\* writer, compare-and-swap the floor from 0 to the current last_seq.
Match ==
    /\ Volatile
    /\ matches < MaxMatch
    /\ matches' = matches + 1
    /\ floor' = IF floor = 0 THEN lastSeq ELSE floor
    /\ matchedAt' = IF matches = 0 THEN lastSeq ELSE matchedAt
    /\ UNCHANGED <<writerVars, lastSeq, schedVars, data, hbs, nacks,
                   controlVars, delivered, gone, gapped, faultVars>>

-----------------------------------------------------------------------------
(* The "hdds-control" thread of the reader. *)

\* run_loop: a heartbeat without the Final flag joins the batch entry of its
\* writer; the entry keeps the largest range and the count that came last.
ReceiveHb(h) ==
    /\ h \in hbs
    /\ hbs' = hbs \ {h}
    /\ batch' = IF batch = <<>> THEN <<h>>
                ELSE <<[first |-> Larger(batch[1].first, h.first),
                        last |-> Larger(batch[1].last, h.last),
                        count |-> h.count]>>
    /\ UNCHANGED <<writerVars, lastSeq, schedVars, matchVars, data, nacks,
                   hbCount, answered, delivered, gone, gapped, faultVars>>

\* Mutant: the proxy follows the highest number received.
HighestReceivedMax ==
    IF delivered = {} THEN 0
    ELSE CHOOSE s \in delivered : \A t \in delivered : s >= t

\* ReliableReaderProxy::highest_received_seq.  on_data is called for SEDP
\* data only, so the proxy of a user data writer stays at 0.
HighestReceived == 0

\* ReliableReaderProxy::on_heartbeat: same or lower count.
IsDuplicate(b) == b.count <= hbCount /\ hbCount > 0 /\ b.count < MaxCount

\* ReliableReaderProxy::on_heartbeat: the number the ACKNACK asks for, none
\* if the writer has no data or everything has been received.
Wanted(b) ==
    IF b.last < b.first \/ HighestReceived >= b.last THEN {}
    ELSE {Larger(HighestReceived + 1, b.first)}

FlushBatch ==
    /\ batch # <<>>
    /\ batch' = <<>>

\* run_loop, flush: ReliableReaderProxy::on_heartbeat ignores a duplicate.
FlushIgnore ==
    /\ FlushBatch
    /\ IsDuplicate(batch[1])
    /\ UNCHANGED <<writerVars, lastSeq, schedVars, matchVars, data, hbs, nacks,
                   hbCount, answered, delivered, gone, gapped, faultVars>>

\* run_loop, flush: send an ACKNACK.  One that asks for nothing is ignored by
\* the writer and is not represented.
FlushAnswer ==
    /\ FlushBatch
    /\ ~IsDuplicate(batch[1])
    /\ hbCount' = batch[1].count
    /\ nacks' = nacks \cup Wanted(batch[1])
    /\ answered' = TRUE
    /\ UNCHANGED <<writerVars, lastSeq, schedVars, matchVars, data, hbs,
                   delivered, gone, gapped, faultVars>>

\* run_loop, flush: the last ACKNACK is less than ACKNACK_RATE_LIMIT_MS old;
\* the count is used up all the same.
FlushRateLimited ==
    /\ FlushBatch
    /\ ~IsDuplicate(batch[1])
    /\ answered
    /\ batch[1].last >= batch[1].first
    /\ hbCount' = batch[1].count
    /\ UNCHANGED <<writerVars, lastSeq, schedVars, matchVars, data, hbs, nacks,
                   answered, delivered, gone, gapped, faultVars>>

-----------------------------------------------------------------------------
(* The "hdds-control" thread of the writer: deliver_nack and
   WriterRetransmitHandler::on_nack.  What the cache still has is sent again,
   a GAP is sent for the rest; readers ignore GAPs. *)

ReceiveNackHit(s) ==
    /\ s \in nacks
    /\ s \in Range(cache)
    /\ nacks' = nacks \ {s}
    /\ data' = data \cup {s}
    /\ UNCHANGED <<writerVars, lastSeq, schedVars, matchVars, hbs, controlVars,
                   delivered, gone, gapped, faultVars>>

ReceiveNackMiss(s) ==
    /\ s \in nacks
    /\ s \notin Range(cache)
    /\ nacks' = nacks \ {s}
    /\ gapped' = gapped \cup {s}
    /\ UNCHANGED <<writerVars, lastSeq, schedVars, matchVars, data, hbs,
                   controlVars, delivered, gone, faultVars>>

\* The router of the reader: module SampleAdmission has the details.
ReceiveData(s) ==
    /\ s \in data
    /\ data' = data \ {s}
    /\ delivered' = delivered \cup {s}
    /\ UNCHANGED <<writerVars, lastSeq, schedVars, matchVars, hbs, nacks,
                   controlVars, gone, gapped, faultVars>>

-----------------------------------------------------------------------------
(* Faults of the network and of the bounded control channels. *)

Lose ==
    /\ losses < MaxLoss
    /\ losses' = losses + 1
    /\ \/ \E s \in data : data' = data \ {s} /\ UNCHANGED <<hbs, nacks>>
       \/ \E h \in hbs : hbs' = hbs \ {h} /\ UNCHANGED <<data, nacks>>
       \/ \E s \in nacks : nacks' = nacks \ {s} /\ UNCHANGED <<data, hbs>>
    /\ UNCHANGED <<writerVars, lastSeq, schedVars, matchVars, controlVars,
                   delivered, gone, gapped, dups>>

\* A message that was sent before arrives again.
Repeat ==
    /\ dups < MaxDup
    /\ dups' = dups + 1
    /\ \/ \E s \in 1 .. nextSeq - 1 : data' = data \cup {s} /\ UNCHANGED <<hbs, nacks>>
       \/ \E b \in Range(batch) : /\ b.count < MaxCount
                                  /\ hbs' = hbs \cup {b}
                                  /\ UNCHANGED <<data, nacks>>
    /\ UNCHANGED <<writerVars, lastSeq, schedVars, matchVars, controlVars,
                   delivered, gone, gapped, losses>>

-----------------------------------------------------------------------------
Next ==
    \/ WriteSend \/ WriteInsert \/ WriteInsertFails
    \/ WriteUpdateSeq \/ WriteHeartbeat
    \/ SchedLoad \/ SchedSend \/ Match
    \/ \E h \in hbs : ReceiveHb(h)
    \/ FlushIgnore \/ FlushAnswer \/ FlushRateLimited
    \/ \E s \in SeqNum : ReceiveNackHit(s) \/ ReceiveNackMiss(s) \/ ReceiveData(s)
    \/ Lose \/ Repeat

\* A started write ends, the threads keep running, and a message that is sent
\* again and again arrives in the end.  The rate limit (10 ms) is shorter than
\* the period of the heartbeats (100 ms), so not every answer meets it.
Fairness ==
    /\ WF_vars(WriteInsert \/ WriteInsertFails)
    /\ WF_vars(WriteUpdateSeq \/ WriteHeartbeat)
    /\ WF_vars(SchedLoad) /\ WF_vars(SchedSend)
    /\ SF_vars(\E h \in hbs : ReceiveHb(h))
    /\ WF_vars(FlushIgnore \/ FlushAnswer \/ FlushRateLimited)
    /\ SF_vars(FlushAnswer)
    /\ \A s \in SeqNum : /\ SF_vars(ReceiveNackHit(s) \/ ReceiveNackMiss(s))
                         /\ SF_vars(ReceiveData(s))

Spec == Init /\ [][Next]_vars
FairSpec == Spec /\ Fairness

-----------------------------------------------------------------------------
(* Properties *)

\* Type correctness; the cache never exceeds its depth.
TypeOK ==
    /\ wpc \in {"idle", "insert", "heartbeat"}
    /\ nextSeq \in 1 .. MaxSeq + 1
    /\ cache \in Seq(SeqNum) /\ Len(cache) <= Depth
    /\ inlineCount \in 0 .. MaxInline
    /\ lastSeq \in 0 .. MaxSeq
    /\ schedCount \in 1 .. MaxCount
    /\ spc \in {"sleep", "send"} /\ sLast \in 0 .. MaxSeq
    /\ floor \in 0 .. MaxSeq
    /\ matches \in 0 .. MaxMatch /\ matchedAt \in 0 .. Unmatched
    /\ data \subseteq SeqNum /\ hbs \subseteq Heartbeat /\ nacks \subseteq SeqNum
    /\ batch = <<>> \/ batch \in {<<h>> : h \in Heartbeat}
    /\ hbCount \in 0 .. MaxCount /\ answered \in BOOLEAN
    /\ delivered \subseteq SeqNum /\ gone \subseteq SeqNum /\ gapped \subseteq SeqNum
    /\ losses \in 0 .. MaxLoss /\ dups \in 0 .. MaxDup

\* A GAP declares a sample irretrievably lost, so the writer may send one
\* only for a sample its cache evicted or refused, never for one that write
\* is still about to insert: no heartbeat runs ahead of the cache.
NoPrematureGap == gapped \subseteq gone

\* A sample a heartbeat may advertise: it is in the cache and above the floor.
Available(s) == s \in Range(cache) /\ s >= FirstSeq

\* The oldest sample on offer reaches the reader, whatever DATA, heartbeats,
\* NACKs and retransmissions were lost, unless it leaves the cache first.
OldestDelivered ==
    \A s \in SeqNum :
        (Available(s) /\ s = FirstSeq) ~> (s \in delivered \/ ~(Available(s) /\ s = FirstSeq))

\* "HDDS ensures all published samples are delivered to all matched readers,
\* even in the presence of packet loss": every sample the cache keeps reaches
\* the reader.
AllDelivered ==
    \A s \in SeqNum : Available(s) ~> (s \in delivered \/ ~Available(s))

\* The floor of a VOLATILE writer is "captured at the moment of the first
\* reader match": it never hides a sample written after that match.
FloorAtFirstMatch == matchedAt # Unmatched => floor <= matchedAt
=============================================================================
