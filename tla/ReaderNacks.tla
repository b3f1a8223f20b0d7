------------------------------ MODULE ReaderNacks ------------------------------
(***************************************************************************)
(* How a RELIABLE DataReader asks for what it missed: the heartbeat        *)
(* handler the router calls (dds/reader/heartbeat.rs, HeartbeatRx in       *)
(* reliability/reader.rs), and the NackScheduler with its GapTracker,      *)
(* which the reader feeds as the application takes samples                 *)
(* (dds/reader/runtime.rs).  One scheduler serves every writer of the      *)
(* topic, and it compares bare sequence numbers.                           *)
(*                                                                         *)
(* A list of gap ranges is the set of the numbers in them: the ranges are  *)
(* its maximal runs.  The lengths of the coalescing window and of the      *)
(* backoff are abstracted: an armed timer expires at some time.  What is   *)
(* under way is handled in any order or never: the network lost it, or the *)
(* reader kept the sample out for its history depth, its lifespan or the   *)
(* time based filter, of which the scheduler is not told.                  *)
(***************************************************************************)
EXTENDS Integers, FiniteSets

CONSTANTS
    Writers,     \* the writers of the topic
    Volatile,    \* the durability of the reader
    Depth,       \* samples a writer's history cache keeps
    MaxRanges,   \* MAX_GAP_RANGES
    MaxRetries,  \* MAX_RETRIES
    MaxSeq,      \* bound: samples of each writer
    MaxHb        \* bound: counts of each counter

ASSUME ReaderNacksAssumption ==
    /\ Volatile \in BOOLEAN
    /\ Depth \in Nat \ {0} /\ MaxRanges \in Nat \ {0} /\ MaxRetries \in Nat \ {0}
    /\ MaxSeq \in Nat /\ MaxHb \in Nat \ {0}

VARIABLES
    \* the writers
    written,     \* written[w]: the last sequence number
    loaded,      \* loaded[w]: last_seq as its heartbeat thread last loaded it
    hbCount,     \* hbCount[w][c]: the next count of counter c
    \* the reader
    created,     \* it exists and its handler is registered
    taking,      \* try_take has told the scheduler and may send a request
    \* in flight
    ring,        \* samples on their way to the application
    hbs,         \* heartbeats
    reqs,        \* requests, from the handler and from the scheduler
    \* ReaderHeartbeatHandler
    lastSeen,    \* last_seen[w], or Unseen
    lastCount,   \* HeartbeatRx.last_counts[w], or Unseen
    \* NackScheduler
    top,         \* tracker.last_seen
    gaps,        \* tracker.gaps
    timer,       \* next_flush: "off", "armed", or "due" once it has passed
    retries,     \* retry_count
    \* history
    joined,      \* joined[w]: written[w] when the reader was created
    heard,       \* heard[w]: last of the first heartbeat handled, or Unseen
    taken,       \* samples popped from the ring, of which the scheduler was told
    skipped,     \* numbers the scheduler was told of that were not taken
    overflow,    \* numbers the tracker dropped beyond MaxRanges
    gaveUp,      \* the scheduler gave up on gaps it still has
    asked        \* numbers the handler has requested, by writer

writerVars == <<written, loaded, hbCount>>
readerVars == <<created, joined>>
handlerVars == <<lastSeen, lastCount, heard, asked>>
trackerVars == <<top, gaps, overflow>>
schedVars == <<timer, retries, gaveUp>>
vars == <<writerVars, readerVars, taking, ring, hbs, reqs, handlerVars,
          trackerVars, schedVars, taken, skipped>>

Unseen == -1
Seqs == 1 .. MaxSeq

\* A writer's heartbeats have two counters: write's and its heartbeat thread's.
Sources == {"write", "thread"}

\* write counts from 0 and the heartbeat thread from 1.
Init ==
    /\ written = [w \in Writers |-> 0] /\ loaded = [w \in Writers |-> 0]
    /\ hbCount = [w \in Writers |-> [c \in Sources |-> IF c = "write" THEN 0 ELSE 1]]
    /\ created = FALSE /\ taking = FALSE
    /\ joined = [w \in Writers |-> 0]
    /\ ring = {} /\ hbs = {} /\ reqs = {}
    /\ lastSeen = [w \in Writers |-> Unseen]
    /\ lastCount = [w \in Writers |-> Unseen]
    /\ heard = [w \in Writers |-> Unseen]
    /\ asked = [w \in Writers |-> {}]
    /\ top = 0 /\ gaps = {} /\ overflow = {}
    /\ timer = "off" /\ retries = 0 /\ gaveUp = FALSE
    /\ taken = {} /\ skipped = {}

-------------------------------------------------------------------------------
(* The writers. *)

\* HistoryCache::oldest_seq, when n samples have been written.
Oldest(n) == IF n > Depth THEN n - Depth + 1 ELSE 1

\* A heartbeat of w on counter c that announces up to last.
Announces(w, c, oldest, last) ==
    [writer |-> w, count |-> hbCount[w][c], first |-> oldest, last |-> last]

\* write sends the sample and then, when its deadline has passed, a heartbeat.
Write(w, beat) ==
    /\ written[w] < MaxSeq
    /\ written' = [written EXCEPT ![w] = @ + 1]
    /\ ring' = ring \cup {<<w, written[w] + 1>>}
    /\ \/ ~beat /\ UNCHANGED <<hbCount, hbs>>
       \/ /\ beat /\ hbCount[w]["write"] < MaxHb
          /\ hbCount' = [hbCount EXCEPT ![w]["write"] = @ + 1]
          /\ hbs' = hbs \cup {Announces(w, "write", Oldest(written[w] + 1), written[w] + 1)}
    /\ UNCHANGED <<loaded, readerVars, taking, reqs, handlerVars, trackerVars,
                   schedVars, taken, skipped>>

\* The heartbeat thread loads last_seq, which write publishes once the sample is
\* sent and cached, and asks the cache for its oldest when it has n: last may be
\* behind both.
HeartbeatLoop(w, last) ==
    /\ last \in loaded[w] .. written[w] /\ last > 0
    /\ hbCount[w]["thread"] < MaxHb
    /\ loaded' = [loaded EXCEPT ![w] = last]
    /\ hbCount' = [hbCount EXCEPT ![w]["thread"] = @ + 1]
    /\ \E n \in last .. written[w] : hbs' = hbs \cup {Announces(w, "thread", Oldest(n), last)}
    /\ UNCHANGED <<written, readerVars, taking, ring, reqs, handlerVars, trackerVars,
                   schedVars, taken, skipped>>

\* WriterNackHandler::on_nack does not look at the writer the request names:
\* every writer sends again what it still has of the numbers asked for.
OnNack(q) ==
    /\ q \in reqs
    /\ reqs' = reqs \ {q}
    /\ ring' = ring \cup {x \in Writers \X q : x[2] \in Oldest(written[x[1]]) .. written[x[1]]}
    /\ UNCHANGED <<writerVars, readerVars, taking, hbs, handlerVars, trackerVars,
                   schedVars, taken, skipped>>

\* The reader is created.  Samples and heartbeats that are under way may reach it.
Create ==
    /\ ~created
    /\ created' = TRUE
    /\ joined' = written
    /\ UNCHANGED <<writerVars, taking, ring, hbs, reqs, handlerVars, trackerVars,
                   schedVars, taken, skipped>>

-------------------------------------------------------------------------------
(* GapTracker *)

\* The maximal runs of a set of numbers, by their first element.
Starts(S) == {s \in S : s - 1 \notin S}
RunOf(S, a) == {s \in S : s >= a /\ \A t \in a .. s : t \in S}

\* merge_and_compact: the oldest ranges beyond MaxRanges are forgotten.
Excess(S) ==
    UNION {RunOf(S, a) : a \in {b \in Starts(S) :
               Cardinality({c \in Starts(S) : c >= b}) > MaxRanges}}

\* Mutant: filling a number of a range forgets the rest of the range.
FilledRange(S, s) == S \ RunOf(S, CHOOSE a \in Starts(S) \cup {s} : s \in S => s \in RunOf(S, a))

\* mark_filled of one number: its range is cut or split.
Filled(S, s) == S \ {s}

\* GapTracker::on_receive
Gaps(last, S, s) ==
    IF s > last + 1 THEN LET all == S \cup (last + 1) .. (s - 1) IN all \ Excess(all)
    ELSE IF s <= last THEN Filled(S, s) ELSE S

Dropped(last, S, s) ==
    IF s > last + 1 THEN Excess(S \cup (last + 1) .. (s - 1)) ELSE {}

Top(last, s) == IF s > last THEN s ELSE last

-------------------------------------------------------------------------------
(* NackScheduler *)

\* on_receive: the first gap starts the window, the last one filled resets.
SchedulerAfter(newGaps) ==
    /\ timer' = IF newGaps = {} THEN "off"
                ELSE IF gaps = {} /\ timer = "off" THEN "armed" ELSE timer
    /\ retries' = IF newGaps = {} THEN 0 ELSE retries
    /\ gaveUp' = (gaveUp /\ newGaps # {})

\* Window or backoff has passed.
Expire ==
    /\ timer = "armed"
    /\ timer' = "due"
    /\ UNCHANGED <<writerVars, readerVars, taking, ring, hbs, reqs, handlerVars, trackerVars,
                   retries, gaveUp, taken, skipped>>

\* Mutant: the request is sent and the backoff is not armed.
FlushOnce ==
    /\ reqs' = reqs \cup {gaps}
    /\ timer' = "off"
    /\ retries' = retries + 1
    /\ UNCHANGED gaveUp

\* Mutant: one retry too many.
FlushLate ==
    /\ reqs' = reqs \cup {gaps}
    /\ timer' = IF retries >= MaxRetries THEN "off" ELSE "armed"
    /\ retries' = IF retries >= MaxRetries THEN 0 ELSE retries + 1
    /\ gaveUp' = (retries >= MaxRetries)

\* try_flush and on_nack_sent: after MaxRetries requests the scheduler resets,
\* and the gaps stay.
Flush ==
    /\ reqs' = reqs \cup {gaps}
    /\ timer' = IF retries + 1 >= MaxRetries THEN "off" ELSE "armed"
    /\ retries' = IF retries + 1 >= MaxRetries THEN 0 ELSE retries + 1
    /\ gaveUp' = (retries + 1 >= MaxRetries)

\* A sample leaves the ring and the scheduler is told of it.
OnReceive(x) ==
    /\ created /\ ~taking
    /\ x \in ring
    /\ ring' = ring \ {x}
    /\ taken' = taken \cup {x}
    /\ gaps' = Gaps(top, gaps, x[2])
    /\ overflow' = overflow \cup Dropped(top, gaps, x[2])
    /\ top' = Top(top, x[2])
    /\ SchedulerAfter(gaps')
    /\ UNCHANGED <<writerVars, readerVars, hbs, reqs, handlerVars, skipped>>

\* DataReader::try_take of a sample it can decode; it unlocks the scheduler before
\* it decodes.
TryTake(x) == OnReceive(x) /\ taking' = TRUE

\* pump_ring_to_cache, or try_take of a sample it cannot decode: no request is sent.
PumpOne(x) == OnReceive(x) /\ taking' = FALSE

\* The end of try_take: the scheduler is locked again, and a heartbeat may have
\* been handled in between.
MaybeSendNack ==
    /\ taking
    /\ taking' = FALSE
    /\ \/ timer = "due" /\ gaps # {} /\ Flush
       \/ ~(timer = "due" /\ gaps # {}) /\ UNCHANGED <<reqs, schedVars>>
    /\ UNCHANGED <<writerVars, readerVars, ring, hbs, handlerVars, trackerVars,
                   taken, skipped>>

-------------------------------------------------------------------------------
(* ReaderHeartbeatHandler::on_heartbeat *)

\* Mutant: every reader starts from the oldest sample of the writer.
SeedFromFirst(h) == IF lastSeen[h.writer] = Unseen THEN h.first - 1 ELSE lastSeen[h.writer]

\* last_seen of the writer, seeded by its first heartbeat.
Seen(h) ==
    IF lastSeen[h.writer] # Unseen THEN lastSeen[h.writer]
    ELSE IF Volatile THEN h.last ELSE h.first - 1

\* The numbers the handler finds missing; a heartbeat whose count is not new is
\* ignored.
MissingBy(h) == IF h.count > lastCount[h.writer] THEN Seen(h) + 1 .. h.last ELSE {}

\* The missing numbers are given to the scheduler's on_receive one by one, in
\* increasing order (the first may open a gap, the others only fill), and then
\* requested in one ACKNACK; last_seen moves to what the heartbeat announced,
\* whether or not it was ignored.
OnHeartbeat(h) ==
    /\ created
    /\ h \in hbs
    /\ hbs' = hbs \ {h}
    /\ heard' = [heard EXCEPT ![h.writer] = IF @ = Unseen THEN h.last ELSE @]
    /\ lastCount' = [lastCount EXCEPT ![h.writer] = IF h.count > @ THEN h.count ELSE @]
    /\ lastSeen' = [lastSeen EXCEPT ![h.writer] = Top(Seen(h), h.last)]
    /\ LET m == MissingBy(h) IN
        /\ asked' = [asked EXCEPT ![h.writer] = @ \cup m]
        /\ skipped' = skipped \cup m
        /\ reqs' = IF m = {} THEN reqs ELSE reqs \cup {m}
        /\ \/ m = {} /\ UNCHANGED <<trackerVars, schedVars>>
           \/ /\ m # {}
              /\ gaps' = Gaps(top, gaps, Seen(h) + 1) \ m
              /\ overflow' = overflow \cup Dropped(top, gaps, Seen(h) + 1)
              /\ top' = Top(top, h.last)
              /\ SchedulerAfter(gaps')
    /\ UNCHANGED <<writerVars, readerVars, taking, ring, taken>>

Next ==
    \/ \E w \in Writers : \/ \E beat \in BOOLEAN : Write(w, beat)
                          \/ \E last \in Seqs : HeartbeatLoop(w, last)
    \/ Create
    \/ \E q \in reqs : OnNack(q)
    \/ \E x \in ring : TryTake(x) \/ PumpOne(x)
    \/ MaybeSendNack \/ Expire
    \/ \E h \in hbs : OnHeartbeat(h)

Spec == Init /\ [][Next]_vars

-------------------------------------------------------------------------------
\* The types of the variables.
TypeOK ==
    /\ written \in [Writers -> 0 .. MaxSeq] /\ loaded \in [Writers -> 0 .. MaxSeq]
    /\ created \in BOOLEAN /\ taking \in BOOLEAN /\ joined \in [Writers -> 0 .. MaxSeq]
    /\ hbCount \in [Writers -> [Sources -> 0 .. MaxHb]]
    /\ ring \subseteq Writers \X Seqs /\ taken \subseteq Writers \X Seqs
    /\ hbs \subseteq [writer : Writers, count : 0 .. MaxHb - 1, first : Seqs, last : Seqs]
    /\ reqs \subseteq SUBSET Seqs
    /\ lastSeen \in [Writers -> Unseen .. MaxSeq] /\ heard \in [Writers -> Unseen .. MaxSeq]
    /\ lastCount \in [Writers -> Unseen .. MaxHb - 1]
    /\ asked \in [Writers -> SUBSET Seqs]
    /\ top \in 0 .. MaxSeq
    /\ gaps \subseteq Seqs /\ skipped \subseteq Seqs /\ overflow \subseteq Seqs
    /\ timer \in {"off", "armed", "due"}
    /\ retries \in 0 .. MaxRetries - 1
    /\ gaveUp \in BOOLEAN

TakenNumbers == {x[2] : x \in taken}

\* Up to the highest number seen, the tracker has exactly the numbers that
\* neither a sample nor a heartbeat accounted for, apart from the ranges dropped
\* beyond MAX_GAP_RANGES: splitting, filling and merging ranges in any order of
\* arrival loses and invents none.
GapsExact ==
    /\ gaps \cap (TakenNumbers \cup skipped) = {}
    /\ (1 .. top) \ (TakenNumbers \cup skipped \cup overflow) \subseteq gaps
    /\ \A s \in gaps : s < top

\* The window or the backoff runs exactly while there are gaps, until the
\* scheduler gives up.
TimerCovers ==
    /\ gaps # {} /\ ~gaveUp => timer # "off"
    /\ timer # "off" => gaps # {}

\* However heartbeats are queued, delayed, overtaken or counted twice, the handler
\* requests a number at most once: it is at or below the mark from then on, and
\* the mark does not go back.  The handler of a VOLATILE reader requests nothing
\* up to the last number of the first heartbeat it handled (the seed of
\* on_heartbeat).
RequestedOnce ==
    \A w \in Writers : \A s \in asked[w] :
        s <= lastSeen[w] /\ (Volatile => s > heard[w])

\* "clamp to writer's current last_seq on first heartbeat so we never NACK
\* historical samples" (on_heartbeat): the handler of a VOLATILE reader requests
\* no sample written before the reader was created.  It does after a heartbeat
\* that was under way or behind at the creation.
HandlerKeepsOut ==
    Volatile => \A w \in Writers : \A s \in asked[w] : s > joined[w]

\* The same of every request; the scheduler starts from 0 and does not keep it.
NoHistoryRequested ==
    Volatile /\ Cardinality(Writers) = 1 =>
        \A q \in reqs : \A w \in Writers : \A s \in q : s > joined[w]

\* "IDLE: No gaps, next_flush = None" (NackScheduler): a scheduler whose timer is
\* off has no gaps.
IdleMeansNoGaps == timer = "off" => gaps = {}

\* A heartbeat does not make the scheduler forget a gap that no sample filled.
HeartbeatKeepsGaps ==
    [][\A h \in hbs : OnHeartbeat(h) => gaps \subseteq gaps' \cup overflow']_vars

\* The handler requests every number between two heartbeats it has seen.
AnnouncedRequested ==
    \A w \in Writers : lastSeen[w] # Unseen /\ ~Volatile /\ Depth >= MaxSeq
                          => 1 .. lastSeen[w] \subseteq asked[w]

\* A gap that the scheduler has is of a number no writer's sample was taken for.
GapOfEachWriter ==
    \A w \in Writers : (joined[w] + 1 .. top) \cap 1 .. written[w]
        \subseteq gaps \cup {x[2] : x \in {y \in taken : y[1] = w}} \cup skipped \cup overflow
===============================================================================
