# HDDS in TLA+

HDDS is a DDS middleware in Rust: publishers and subscribers exchange typed
samples over RTPS, and inside one process over lock-free rings.  This directory
holds TLA+ models of the part every sample goes through, TLC configurations that
check them on small instances, and TLAPS proofs of their most important
properties.  Source paths below are relative to `src/crates/hdds/src/` unless
they begin with `crates/` or `docs/`.

`PROJECT.json` lists every component, run, mutant, hazard and theorem, and maps
each definition of a module to the lines of the source it stands for.

    tlc -workers 2 -config IndexRing.cfg IndexRing     # check a model
    tlapm IndexRingProofs.tla                          # check its proofs

## 1. The system

### The way of a sample

    DataWriter::write ──┬─ slab slot ─ TopicMerger::push ─┐
      (application)     │                                 ├─> IndexRing of the reader
                        ├─ DATA ─ UDP ─ router thread ─ ReaderSubscriber
                        │                                 │
                        ├─ HistoryCache <─ NACK ─ control │  pump_ring_to_cache
                        └─ heartbeat state ─ scheduler    v
                             HEARTBEAT ─> control      SampleCache ─ take / read
                             of the reader                ^
                                             StatusCondition ─ WaitSet::wait

`write` takes the next sequence number, copies the sample into a slot of the slab
pool and pushes the handle of the slot into the ring of every reader of the
process; it sends the sample to the network and puts another copy into the
history cache for retransmissions and late joiners.  Heartbeats tell remote
readers what exists; they answer with ACKNACKs, and the writer retransmits or
says with a GAP that a sample is gone.  On the receiving side the router thread
drops repeated packets, finds the readers of the topic and hands the sample to
each ReaderSubscriber, which filters repeated numbers and pushes into the same
kind of ring.  The application's thread pumps the ring into the cache of the
reader when it calls `take` or `read`; a wait set tells it when to.

### Threads

| thread | runs | shares |
|---|---|---|
| application, writing | `DataWriter::write` (a `RefCell` keeps it to one thread per writer) | rings, slab pool, history cache, heartbeat state |
| application, reading | `take`, `read`, `WaitSet::wait` | ring, slab pool, status condition |
| `hdds-router` | `engine/router.rs` -> `dds/reader/subscriber.rs` | ring, slab pool, status condition |
| `hdds-heartbeat` | `dds/writer/heartbeat_scheduler.rs` | heartbeat state, history cache |
| `hdds-control` | `core/discovery/multicast/control.rs` | reader proxies, history cache |
| any, creating endpoints | `dds/domain_registry.rs`, `TopicMerger::add_reader`, `dds/match_notification.rs` | registry, mergers, list of local endpoints |
| discovery listeners, several | `core/discovery/multicast/fsm/discovery.rs` | participant database, topic registry, routes |
| lease tracker | `core/discovery/multicast/lease.rs` | participant database |
| other processes | `transport/shm/*` | the shared segment, without a lock |

### Inventory

State, operations, difficulty and correctness of the components that are
modelled.

| component | state | operations | what is hard | what makes it correct |
|---|---|---|---|---|
| Index ring `core/rt/indexring.rs` | slots, head, tail | push, pop | interleaving of atomics, wrap-around, one unused slot | no slot is written while it is read; it is a bounded FIFO |
| Sample admission `dds/reader/subscriber.rs`, `engine/router.rs` | dedup cache, `SeenSeqs`, `SeqWindow`, reserved slots | route, admit, map, reserve, push | loss, repetition, reordering; the edge of the window; error paths | no sample twice, none lost as a repetition, no slot leaked |
| Reliable protocol `dds/writer/*`, `core/discovery/multicast/control.rs`, `core/reader/proxy.rs` | history, last advertised number, floor, counts, batch | write, heartbeat, match, flush, NACK, retransmit | four threads and an unreliable network; stale loads; rate limits | a GAP is never premature; what is kept is delivered |
| Domain registry `dds/domain_registry.rs` | entries by GUID, mergers | register, bind, drop a token | order of creation and destruction, one GUID for all readers | a compatible pair is bound unless the earlier one was taken out of the registry by the drop of another |
| History cache `reliability/history_cache.rs` | deque, byte counter, slots | insert, evict, prune | check-then-act around the lock, counter outside it | counter, slots and limits agree with the deque |
| Topic merger and writer `core/rt/merger.rs`, `dds/writer/runtime.rs` | slots, handles, rings, history | write on two paths, push, join with replay, drop | a handle with several owners; joining during a write | handles stay valid, slots come back, late joiners are served |
| Wait set `dds/waitset.rs`, `dds/condition.rs`, `core/rt/waitset/*` | bits, eventfd, hooks, entries, statuses | attach, detach, signal, wait, notify | coalesced signals, drain before take, clear after empty | no wake-up is lost, wait returns |
| Reader cache `dds/reader/cache.rs` | buffer, read cursor, READ flags | push, take, read, per instance and in batches | one cursor moved by every operation | read returns every cached sample once |
| Shared-memory ring `transport/shm/*` | head, slots with marks, futex counter, next number of each reader | push, try_pop, take_blocking, attach | no lock at all; a slot is overwritten while it is copied; the writer dies in the middle; a wake between poll and sleep | readers get whole messages in order, and do not sleep on one |
| Fragments `core/discovery/fragment_buffer.rs`, `engine/router.rs`, `dds/writer/nack.rs` | pending sets with ages, history cache | send, insert, request, retransmit, evict, time out | loss and repetition of parts; a request that overtakes the cache insertion; a full buffer | what is partly there is completed, and the exchange ends |
| Reader requests `dds/reader/heartbeat.rs`, `reliability/gap_tracker.rs`, `reliability/reader.rs` | last number and count per writer; gap ranges, window, retries | create, heartbeat, receive, flush, give up | heartbeats that are older than the reader or than the write; two counters per writer, one tracker for all writers, ranges cut, split and merged | nothing is requested twice; the tracker knows exactly what is missing and its timer runs while it does |
| Discovery `core/discovery/multicast/*`, `dds/match_notification.rs` | participants with ages, topic registry, routes, buffered SEDP, local entries | SPDP, SEDP, dispose, purge, lease, register, catch up | every table has its own lock; a handler's answer is stale when it acts | every match is reported, and a participant that left is forgotten |

Not modelled, with the reason, are listed in section 7 and in `PROJECT.json`.

## 2. Modules

| module | models | uses |
|---|---|---|
| `BoundedFifo` | what a ring promises: put at the end unless full, get from the front | |
| `IndexRing` | one step per atomic access of push and pop | `BoundedFifo` (refinement) |
| `IndexRingProofs` | proofs | `IndexRing` |
| `SampleAdmission` | packet to ring | |
| `SampleAdmissionProofs` | proofs | `SampleAdmission`, `Fragments` |
| `ReliableUdp` | one reliable writer and one remote reader over UDP | |
| `ReliableUdpProofs` | proofs | `ReliableUdp`, `HistoryCache` |
| `DomainRegistry` | endpoints of one topic in one process | |
| `HistoryCache` | insert against prune_expired | |
| `IntraProcess` | write, merger, late join, take: composes ring, cache, registry and pool as single steps | |
| `MCIntraProcess` | symmetry for TLC | `IntraProcess` |
| `IntraProcessProofs` | proofs | `IntraProcess` |
| `WaitSet` | wait and everyone who wakes it | |
| `WaitSetProofs` | proofs | `WaitSet` |
| `SampleCache` | the cache behind take and read | |
| `LossyBroadcast` | what a broadcast ring promises: whole messages, in order, skipping only when a reader is too slow | |
| `ShmRing` | one step per access to the shared segment | `LossyBroadcast` (refinement) |
| `ShmRingProofs` | proofs | `ShmRing` |
| `Fragments` | a large sample from write to reassembly | |
| `ReaderNacks` | the two ways a reader asks for missing numbers | |
| `ReaderNacksProofs` | proofs | `ReaderNacks` |
| `Discovery` | SPDP, SEDP, leases and match notifications of one participant | |
| `DiscoveryProofs` | proofs | `Discovery`, `DomainRegistry` |

Three proof modules extend two models each: the sending side (`ReliableUdp` and
the cache it retransmits from), the router (admission and reassembly), and
matching (remote and local).  That is why the specifications of `HistoryCache`,
`Fragments` and `DomainRegistry` are called `CacheSpec`, `FragSpec` and
`RegistrySpec`, and their parts likewise.

How state and steps correspond to the code:

**IndexRing.** `head`, `tail` and `slots` are the fields of the ring.  A push is
load head, compare with tail, write the slot, store head (Release); a pop is load
and compare, read, store tail.  Between any two the other thread may run.  The
refinement maps the entries between tail and head to the abstract queue: `Put`
happens at the store of head, `Get` at the store of tail.

**SampleAdmission.** The network holds every sample that was ever sent and any
of them may arrive at any time, any number of times: loss, repetition, reordering
and retransmission need no actions of their own.  `Routed` names the three ways to
the topic of a packet: its inline QoS, the writer's announcement (SEDP), and the
fallback of the environment.  `dedup` is the two-second cache of the router, any
part of which may be forgotten at any time.  `high` and `recent` are `SeenSeqs`, `win` is `SeqWindow` with the width of the local numbers as `U32Max`.
A sample is handled in two steps because the slot is reserved before the number is
mapped and the ring is tried.

**ReliableUdp.** `write` is four steps: send, insert into the cache, publish the
number to the scheduler, send a heartbeat inline every few writes.  The scheduler
loads `last_seq`, then reads the oldest number of the cache when it builds the
heartbeat.  The control thread gathers heartbeats of a writer and answers with an
ACKNACK at the flush, unless the count is old or the rate limit is on.  The
writer's control thread retransmits or sends a GAP.  Heartbeat counts that grow
for ever are cut at `MaxCount`, see the head of the module.

**DomainRegistry.** Registration and deregistration hold the write lock of the
endpoint map and are one step each.  A reader registers with `GUID::zero()`, and so
does a writer without an RTPS endpoint (`Bare`); deregistering removes every entry
with the GUID.  `clock`, `since` and `until` are history: they number registrations
and drops, so that the property can say which drop came between two registrations.

**HistoryCache.** The mutex protects the deque only, so a step is what happens
between two points where another thread can get in: the append, each `len`, each
`evict_oldest` under the lock and what it does after, the counter updates.
`quota_bytes` wraps at `Modulus`.  The history kind is chosen in `Init`.

**IntraProcess.** A handle is a slot and the number it was reserved for;
`content` says what is really in a slot.  `write` decides by `has_remote_peers`
between the fast path, which skips the network and the history cache, and the
full one.  `add_reader` takes its snapshot, replays and registers in separate
steps.  Push, pop, reserve and release are single steps here: `IndexRing` and the
registry's lock justify that.  Durability is chosen in `Init`.

**WaitSet.** One slot of the bitmap per word, which is the finest interleaving
`take_all` can meet.  A signal is: set the bit, and if it was clear write the
eventfd.  `wait` is: look at everything once, then poll, drain, take the words one
after the other, collect, keep what is triggered, or poll again.  Another thread
attaches and detaches conditions at any time, in the steps of `attach_condition`
(hook, signal, entry).  The history variable `known` holds the conditions that were
attached when the wait began and have stayed so.  The application
serves the readers that wait returned until `take` returns nothing.

**SampleCache.** Every method holds the mutex, so each is a step; the single and
the batch forms are one action with a maximum.

**ShmRing.** `mark[i]` is the `seq` of a slot (`2n + 1` while message n is written,
`2n` when it is committed), and a word of a slot holds the number of the message
that wrote it, so a torn copy is a copy with two numbers in it.  Payload words are
stored and copied in any order.  `MarkFirst` says whether the Relaxed store of the
writing mark is visible before the payload is touched, as it is on x86-64; the
loads of a reader are taken in program order, as they are there.  The refinement
maps `head` to the number of messages sent and what a reader returns to a
delivery; a reader that finds itself more than the capacity behind loses messages
there.  The futex counter is far from its 32-bit wrap.

**Fragments.** `net` holds DATA_FRAGs, HEARTBEAT_FRAGs and NACK_FRAGs in no order.
`pend` is the buffer, least recently updated first; age is counted in rounds of
the router's 50 ms check.  A round is longer than a packet's way, so a round only
ends when nothing is in flight.  `Write` sends everything before `CacheInsert`,
as the code does.  The form of a fragment tells what was sent first from what the
cache holds, which differ when the writer encrypts.

**ReaderNacks.** A list of gap ranges is the set of the numbers in it, the ranges
being its maximal runs: `Excess` gives the ranges `merge_and_compact` drops.  The
reader is created (`Create`) at any time, among samples and heartbeats that are
already under way and that nobody discards.  A heartbeat has one of two counters,
which begin at 0 and at 1: `Write` may send one inline, and `HeartbeatLoop` sends
one with any `last` from the number it last loaded up to the current one and the
oldest number of the cache at that or a later time.  What is under way is handled
in any order or never, which is how it is lost.  `TryTake` tells the scheduler and
`MaybeSendNack` takes the lock again to send; between them other threads run, and a
sample that cannot be decoded ends in `PumpOne`, as does `take`, which tells the
scheduler and never sends.  Requests of the handler and of the
scheduler go to every writer, because `on_nack` does not look at the writer id.

**Discovery.** One action is what a thread does under one lock.  A listener's `pc`
names the lock it takes next, `msg` the SPDP packet, `sedp` the SEDP packet it has
in hand and `queue` the buffered ones it has yet to replay, in any order.  The two
paths to a report judge the QoS on their own, `on_endpoint_discovered` (`AgreeFound`)
and `catch_up` (`AgreeScanned`); either reports a match or the policy that failed,
and nothing for an endpoint in `Silent`, whose partitions do not match.  A buffered
packet has a place of `pending_sedp`, so that the bound of the buffer and two copies
of one packet are kept.  `Remove` and `Wipe` are the two halves of `remove_participant`;
`CollectExpired` and `RemoveExpired` those of the lease tracker.  Ages are cut at
the value that decides.  The head of the module says what is left out.

## 3. Runs

Twelve runs; `PROJECT.json` has their properties and, for every property, a mutant (a plausible bug in one definition) that TLC finds.

| run | configuration | states | shows |
|---|---|---|---|
| `ring` | capacity 4, 7 pushes, 2 values | 18 643 | `NoSlotRace`, and `FifoSpec`: the ring implements `BoundedFifo` |
| `admission` | window 3, 4 numbers, 5 admissions, ring of 1, local numbers up to 1, all ways of routing | 2 406 624 | `NoDuplicateInWindow` while no number has outgrown the window; `RefusesOnlySeenOrOld`, `WindowSpacing` always; `SlabAccounting` |
| `reliable` | 2 samples, depth 1, inline heartbeats, repetition, a match | 1 066 068 | `NoPrematureGap` |
| `reliable_live` | 2 samples, depth 1, 2 losses | 53 513 | `OldestDelivered` under fairness |
| `registry` | 2 writers, one without an RTPS endpoint, 3 readers, both reliabilities | 326 011 | `BoundUnlessTakenOut` |
| `cache` | both kinds, 4 samples of 2 sizes, limits 3 / 3 bytes / 2, 4 slots | 156 590 | `QuotaMatches`, `SlotsAccounted`, `LimitsKept`, `EvictsOnlyWhenFullUnpruned` |
| `intra` | 2 readers, 3 slots, ring of 1, depth 1, 3 samples, both durabilities, both paths | 808 752 | `HandlesIntactSoleReader`, `NoSlotLeakAlive`, `StoredServed` |
| `waitset` | 2 conditions, attached at any time, one detached too; 2 signalling threads, 2 slots, timeouts, notify | 733 793 | `NoLostSignal`, `NeverSleepsTriggered`, `TriggeredReturns` under fairness |
| `shm` | 1 reader, 2 slots, 6 messages of a length and 2 words, one of them too large | 759 546 | `BroadcastSpec`: the ring implements `LossyBroadcast`; `WakeCovered` |
| `fragments` | 2 samples of 2 fragments, buffer and cache of 1, 3 losses, 1 duplicate | 53 405 | `BufferBounded`; `Recovered` and `Quiesces` under fairness |
| `reader_nacks` | 1 writer, 2 counters up to 2, 4 numbers, history of 3, 1 range, 2 retries, volatile reader | 1 917 688 | `GapsExact`, `TimerCovers`, `RequestedOnce` |
| `discovery` | 1 participant, 1 endpoint, 1 local entry, 2 listeners, each announcement twice | 614 172 | `NoMissedMatch`; `GoneIsForgotten` under fairness |

`SampleCache.cfg` checks `CursorSplits` of `SampleCache` in the same way (19 952
states: 5 samples, 2 instances, 3 places, batches of 2); it is not in the list of
runs.

Why the bounds are enough:

- `ring`: more pushes than the capacity, so that the indices wrap and full and
  empty are both met from every position.
- `admission`: one number more than the window and one admission more than that,
  so that the deque forgets and the floor moves; with `U32Max` 1 the mapping of
  numbers meets the first base, the stride and the number it cannot map.  A ring
  of one makes it full.  With one writer, because a second multiplies the states:
  two writers with 3 numbers, a window of 2 and 3 admissions (5 823 488 states) keep
  the same properties, which are proved for any number of writers.
- `reliable`: a depth below the number of samples, so that samples leave the
  cache while they are advertised, requested and in flight.  A message that is
  never received counts as lost, so the safety run covers loss with `MaxLoss` 0;
  the liveness run needs the explicit losses, because there a message that stays
  in flight is eventually received.
- `registry`: with three readers one can be dropped before, between and after the
  registrations of another and of a writer, and so take its entry out or not; the
  writer without an endpoint shares the GUID.  All are used up at the end, so the
  run may stop.
- `cache`: the three limits are different, each is the first to be exceeded for
  some sizes; four samples against four slots make eviction and pruning meet while
  an insert is under way.  The pool may be out of slots at any time, because others
  use it.
- `intra`: three slots are fewer than ring, hand, cache and write need together,
  so every "no slot" path is taken; a ring of one is full after one sample.
  Readers and slots are interchangeable; no definition of the model chooses among
  them, so the symmetry is sound.
- `waitset`: two threads and two slots give a signal that is coalesced with
  another and one that lands in a word `take_all` has passed.  One of the two
  conditions may be detached and attached again, so that a slot changes hands under
  a wait while the other condition is there throughout.  The safety properties are
  proved for every number of samples.
- `shm`: more messages than slots, so that a slot is overwritten while it is
  copied and a reader is overrun; one message is larger than the readers' buffer.
- `fragments`: two samples for a buffer of one set and a cache of one sample, so
  that each drives the other out; losses and duplicates are few because each adds
  an independent exchange.
- `reader_nacks`: four numbers leave two separate ranges with a limit of one, so
  that ranges are merged, split and dropped; two retries let the scheduler ask,
  ask again and give up.  A history of three is less than is written, so that the
  first number of a heartbeat moves, and with two counts of each counter heartbeats
  of before and after the creation, stale and repeated ones meet.
- `discovery`: two listeners, the tracker and a creating thread are at every pair
  of locks at once; with a second announcement an endpoint is lost and found
  again.  A second participant shares no state with the first except the order of
  `pending_sedp`.
- `SampleCache.cfg`: two more samples than places, so that eviction moves the cursor
  in front of, at and behind the samples read.

Deadlock is checked, except where all the samples have been written or all the
endpoints dropped and the system really stops.

### Fairness

Safety runs assume none.  `ReliableUdp!Fairness` says that each thread goes on
with what it is doing (weak fairness of write, of the scheduler's loop and of the
flush: operating-system threads, a loop with a sleep), that a message which is
sent again and again is received some time (strong fairness of each receive: a
lossy network that is not cut), and that the flush is not always inside the rate
limit (strong fairness of `FlushAnswer`: the scheduler's interval is longer than
the limit of the proxy).  Calls of the application (a new `write`) and faults are
not fair.  `WaitSet!FairSpec` says that a thread inside a call goes on with it and
that the application calls `wait` again; timeouts, notifications, pushes, attach
and detach may happen or not.  In particular `TriggeredReturns` does not rest on a
timeout, and it speaks of conditions attached when the wait began.
`Fragments!FragFairness` says that write caches what it has sent, that a
packet which is not lost arrives, and that the router's periodic check goes on;
losses and duplications are bounded in number, as an unbounded run of losses
defeats any retry.  `Discovery!Fairness` says only that time passes and that the
lease tracker's loop goes on; the listeners may stop anywhere.

## 4. Proofs

Every safety property of the twelve runs, refinements included, is also proved by
TLAPS, for every value of the constants.  Each inductive invariant was an invariant
of its run before it was proved.

| theorem | of | assumes |
|---|---|---|
| `TypeCorrect`, `NoRace`, `RingIsFifo` | `IndexRing` | capacity above 1, one producer |
| `SlotsNeverLost`, `RepeatsAreSpaced`, `NoRepeatInWindow`, `NothingNewRefused` | `SampleAdmission` | window above 0; any number of writers |
| `GapsAreFinal` | `ReliableUdp` | nothing but the types of the constants |
| `ReassemblyBounded` | `Fragments` | nothing but the types of the constants |
| `CacheConsistent` | `HistoryCache` | nothing but the types of the constants |
| `CacheKeepsLimits` | `HistoryCache` | a payload on top of a full quota does not overflow the counter (`NoOverflow`) |
| `SlotsSafe` | `IntraProcess` | nothing but the types of the constants; the properties themselves speak of a sole reader and of readers that are not dropped |
| `LateJoinerGetsStored` | `IntraProcess` | a ring holds the whole history cache, `Depth <= RingCap` |
| `RegistryBinds` | `DomainRegistry` | nothing but the types of the constants |
| `WaitWakes` | `WaitSet` | nothing but the types of the constants |
| `MatchesReported` | `Discovery` | nothing but the types of the constants |
| `WakeUpsCovered`, `RingIsBroadcast` | `ShmRing` | the writing mark is visible before the payload (`MarkFirst`) |
| `TrackerExact`, `HandlerAsksOnce` | `ReaderNacks` | nothing but the types of the constants |

The arguments:

- **Ring.** `IInv` says that the entries between tail and head (counted with
  `Pos`) are the abstract queue, that a producer between its check and its store
  of head is at a free slot, and that a consumer between its check and its store of
  tail is at a full one.  Race freedom and refinement follow from "free" and "full"
  being disjoint.  With two producers the second part fails, which is the
  counterexample in section 6.
- **Admission.** `SlabInv` is the type invariant with the account of slots.
  `SpacingInv` says that `recent` is exactly the suffix of the history of
  admissions of length at most the window, so a number that is not in it was last
  admitted more than a window ago.  While no number is larger than the window, the
  numbers admitted are different and at most a window many (the pigeonhole step,
  `FewAdmitted`), so the deque has all of them: nothing is delivered twice
  (`FreshInv` follows a sample from the router's hand to the ring).  What is refused
  (`NothingNewRefused`) was in `recent`, hence admitted, under its own writer or
  another, or below the floor, and the floor only rises (`FloorGrows`).
- **Reliability.** `NoPrematureGap` alone is not inductive: a GAP answers a NACK,
  which answers a heartbeat, which carries a number the scheduler loaded.  The
  strengthening follows that chain: heartbeats, the batch and the NACKs carry at
  most `lastSeq` (`AdvertisedInv`), the scheduler's copy is at most `lastSeq`
  (`LocalsInv`), and every number up to `lastSeq` has been through the cache
  (`SettledInv`), because write publishes after it inserts.
- **Registry.** `OrderInv` says how the history orders registrations and drops,
  `EntriesKept` that an endpoint that exists has an entry exactly if no drop under
  its GUID has come since its registration, and `OnlyCreated` that nobody is bound
  to a reader not yet created.  A later drop does not change which drops came
  before a registration, so the property is settled when the later of the two
  registers.
- **History cache.** Between the deque, the byte counter and the slots there is
  always an entry in somebody's hand, so none of the properties is inductive.
  `CacheInv` names what is in hand: `HeldOk` (which thread holds which entry at which
  step), `CounterOk` (the counter is the bytes in the deque and on their way out of
  it, less those not counted yet, modulo its width: whatever the order of the two
  threads' additions and subtractions), `SlotsOk` (a reserved slot is in exactly one
  place) and `AloneOk` (while nothing has expired, what insert saw still holds when
  it evicts).  `LimitsOk` adds how far insert has come in restoring each limit; it
  needs the true sum and not the sum modulo the counter's width, hence `NoOverflow`:
  `quota_bytes` is a 64-bit count of bytes in memory.  `Bytes` is a recursive
  function; what it is of a sequence that grows or loses a prefix (`BytesAppend`,
  `BytesSplit`) is proved by induction over a *set* of naturals (`SetInduction`,
  from the least element of a well-founded order), and so are division with
  remainder and `ModShift`, the facts about `%` that the counter needs.
- **In-process delivery.** `Accounted`: a reserved slot is with the writer, in the
  cache, in a ring or in a reader's hand; this needs that a push has handed the entry
  on to somebody before it is forgotten (`PushOk`).  `Owned` is stronger and holds for
  a sole reader without replay only: every entry held is intact and no two of the
  places share a slot, so a release never hits somebody else's entry.  For the late
  joiner, `CacheOk` says the cache is the end of what was stored, in order, and
  `ReplayOk` that each stored sample the reader is owed was offered to it or is still
  in the replay, and that the ring has room for the rest.  The last part is where
  `Depth <= RingCap` comes in.  `dds/reader/builder.rs:217` makes a ring
  of the reader's depth and at least 1024, rounded up to a power of two, of which
  all but one entry can be used: the hypothesis holds for every writer depth up to
  1023.  Beyond, a writer's history that is deeper than the ring (by one entry if
  both depths are the same power of two from 1024 on) overflows it in the replay,
  and TLC finds `StoredServed` violated with `Depth = 2` and `RingCap = 1`.
- **Reassembly.** `FragInv` is `BufferBounded` with the types and the fact that a
  sample which is being sent has its number.  The weight is in the buffer's
  operations: what `retain` keeps is a part of what there was, each place at most
  once (`RetainFacts`, again by `SetInduction`); hence removing, updating, evicting
  and timing out leave one set to a sample (`WithoutWithin`, `InsertWithin`,
  `ExpiredWithin`).
- **Wait set.** `NoLostSignal` is inductive with the types.  For
  `NeverSleepsTriggered` the invariant says where the signal of a triggered,
  attached condition is at every point of wait (`Seen`): a thread is about to set
  its bit, the bit is set, `take_all` has it, or the condition is already a
  candidate.  This is said of the conditions in `known` only: `EntriesInv` gives
  each of them its own slot with its entry in it, which an attach or detach of
  another cannot touch.
- **Discovery.** `NoMissedMatch` is inductive with the types; `FireReports` says what
  either path leaves behind, whatever it makes of the QoS.  The types carry the
  weight for replayed packets: a thread that is about to enlist or notify has an
  endpoint in hand, and no two buffered packets have the same place.  `MatchUntouched`
  disposes of the steps that touch neither side; `Enlist` against `Register` is the
  case that matters, where the registry entry is made before the list is read and
  the list entry before the registry is read.
- **Shared ring.** Two messages of one slot are a whole ring apart (`IndexGap`, the
  only fact about `%` that is used).  From it `SlotInv` says that a published message
  is whole under its own mark, or that the mark has moved on, which a living writer
  does only a whole ring later; `CopyInv` that what a reader has copied is of its
  message as long as the mark stands, so the second look at the mark proves the copy
  whole; `SleepInv` why a reader may sleep: the counter is still the snapshot, and
  after the snapshot there was nothing to read, or what was there is overwritten,
  too large, or given up after an overrun.  A message that is both announced by the
  snapshot and overwritten would put head more than a ring past the snapshot, which
  contradicts a counter that has not moved.  Without `MarkFirst` the word stores may
  come before the mark, and `SlotInv` fails at `PushWord` (section 6).
- **NACKs.** What `on_receive` makes of the gaps is one lemma (`GapsAfter`) in which
  the ranges dropped by `merge_and_compact` are opaque but for being gaps.
  `GapsExact` needs that the tracker's highest number covers all it was told of
  (`TopInv`); `RequestedOnce` needs that the mark of a writer is at or above the last
  number of the first heartbeat handled, and exists exactly if that does (`HeardInv`).

Only model-checked: liveness (`OldestDelivered`, `TriggeredReturns`, `Recovered`,
`Quiesces` and `GoneIsForgotten`), which needs fairness and is out of the prover's
reach; and `SampleCache`, whose configuration is not among the runs.  The
library's induction theorems take an operator as a parameter, which the provers
cannot instantiate; facts about recursive functions are therefore proved with
`SetInduction`, and models that are proved about contain no RECURSIVE operator.

## 5. Where the code and its words disagree

Configurations under which TLC finds a counterexample to what a comment, a test
or a document says, in seconds.  They are not in the list of runs.  The three that
touch every user:

- **A lost sample that is not the oldest is not requested** (`ReliableUdpAll.cfg`,
  `AllDelivered`).  The ACKNACK asks for the first number of the heartbeat only
  (`core/discovery/multicast/control.rs:588`); received user data never reaches the
  proxy, so the base does not move.  `reliability/mod.rs:11` promises that "HDDS
  ensures all published samples are delivered to all matched readers, even in the
  presence of packet loss".  What does hold is `OldestDelivered`.
- **One handle, several owners** (`IntraTwoReaders.cfg`, `HandlesIntact`).
  `TopicMerger::push` puts the same handle into the ring of every reader and each
  releases it; after the first release the slot may hold another sample when the
  second reader decodes it (`core/rt/merger.rs:215`).  `core/rt/slabpool.rs:524`
  requires "Handle must be valid and currently allocated".  With a sole reader it
  is (`HandlesIntactSoleReader`).
- **A wake-up is lost** (`WaitSetLostWakeup.cfg`, `DataIsTaken`).
  `pump_ring_to_cache` sees ring and cache empty and then clears the status; a push
  and its signal in between are wiped out, and the sample waits for the next one
  (`dds/reader/runtime.rs:568`).  `docs/getting-started.md:210` says the condition
  "triggers when data is available".

## 6. Further counterexamples

Each drops the restriction under which a property of section 3 holds, or states
what a comment claims.  "X.cfg, P" stands for the constants of `X.cfg` with P as
its only property.

| configuration | module | property | what happens |
|---|---|---|---|
| `IndexRingTwoProducers.cfg` | `IndexRing` | `NoSlotRace` | the router and a local writer push into one ring (`core/rt/indexring.rs:142`: "only ONE thread calls push()") |
| `AdmissionTwoWriters.cfg` | `SampleAdmission` | `DropsOnlyDuplicates` | `SeenSeqs` is kept per reader: number n of a second writer is refused |
| `AdmissionWindowEdge.cfg` | `SampleAdmission` | `NoDuplicateDelivery` | the floor admits one number the deque has forgotten |
| `AdmissionRetransmit.cfg` | `SampleAdmission` | `RefusedWereDelivered` | a sample is recorded, then dropped (no slot, full ring), and its retransmission refused |
| `ReliableUdpFloor.cfg` | `ReliableUdp` | `FloorAtFirstMatch` | a match before the first write leaves the floor at 0, a later match moves it |
| `DomainRegistryTwoReaders.cfg` | `DomainRegistry` | `AllBound` | dropping one of two readers takes out both: a writer created later misses the other (`dds/domain_registry.rs` promises that they "are automatically bound") |
| `DomainRegistry.cfg` | `DomainRegistry` | `NoDeadReaders` | a dropped reader stays in the mergers |
| `CacheOverEviction.cfg` | `HistoryCache` | `EvictsOnlyWhenFull` | pruning between the length check and the eviction |
| `IntraTwoReaders.cfg`, `Durable = {TRUE}`, one reader | `IntraProcess` | `HandlesIntact` | a joining reader releases the handles of the history cache |
| `IntraFastHistory.cfg` | `IntraProcess` | `LateJoinerServed` | the fast path stores nothing in the history cache |
| `IntraJoinGap.cfg` | `IntraProcess` | `NothingMissedWhileJoining` | a sample between snapshot and registration reaches the reader neither way |
| `IntraDroppedReader.cfg` | `IntraProcess` | `NoSlotLeak` | handles in the ring of a dropped reader are never released |
| `IntraProcess.cfg`, `Depth = 2` | `IntraProcess` | `StoredServed` | a writer's history deeper than the ring of a late joiner overflows it in the replay |
| `WaitSetNotify.cfg` | `WaitSet` | `NotifyReturns` | `notify` wakes wait, which finds nothing and polls again |
| `WaitSetLateAttach.cfg` | `WaitSet` | `AttachedWakes` | a condition is attached during a wait: the hook signals before the entry of the slot is stored |
| `SampleCache.cfg` | `SampleCache` | `ReadsUnread` | `read` returns a sample `read_instance` has marked READ |
| `SampleCache.cfg`, two writers | `SampleCache` | `SharedDelivered` | local writers all count from 1, and push drops equal numbers |
| `ShmRing.cfg`, `Large = {}` | `ShmRing` | `NoLostWake` | the second poll finds an overrun, moves back to a message and reports None; the reader sleeps on it until the next push |
| `ShmRingRelaxedMark.cfg` | `ShmRing` | `BroadcastSpec` | the Relaxed writing mark becomes visible after the payload: a torn message passes both checks |
| `FragmentsNeedlessNack.cfg` | `Fragments` | `NoNeedlessNack` | a HEARTBEAT_FRAG after completion requests every fragment again (`engine/router.rs:1019`: "No entry = we haven't received ANY fragment for this seq") |
| `FragmentsNeedlessNack.cfg` | `Fragments` | `HbfRecovers` | only HEARTBEAT_FRAGs arrive and their requests come before the cache insertion: nothing asks again |
| `FragmentsEncrypted.cfg` | `Fragments` | `OneForm` | retransmissions are made from the cached plaintext and mixed with encrypted fragments |
| `ReaderNacksLateJoin.cfg` | `ReaderNacks` | `HandlerKeepsOut` | a heartbeat that was under way or behind when the reader was created seeds `last_seen` below the creation, and the next one requests history (`dds/reader/heartbeat.rs:177`: "so we never NACK historical samples") |
| `ReaderNacksCounts.cfg` | `ReaderNacks` | `AnnouncedRequested` | a heartbeat of the counter that is behind is ignored and still moves `last_seen` |
| `ReaderNacksCounts.cfg` | `ReaderNacks` | `HeartbeatKeepsGaps` | the numbers of a heartbeat are fed to `on_receive` as if they were received |
| `ReaderNacksGiveUp.cfg` | `ReaderNacks` | `IdleMeansNoGaps` | after `MAX_RETRIES` the timer is off and the gaps remain |
| `ReaderNacksGiveUp.cfg` | `ReaderNacks` | `NoHistoryRequested` | the scheduler of a volatile reader starts from 0 and asks for history |
| `ReaderNacksTwoWriters.cfg` | `ReaderNacks` | `GapOfEachWriter` | one tracker for all writers: a sample of one fills the gap of another |
| `Discovery.cfg` | `Discovery` | `EndpointsHaveParticipant` | the lease tracker removes the participant and leaves its endpoints |
| `Discovery.cfg` | `Discovery` | `RouteKept` | the participant comes back between the two locks of `remove_participant`, which then removes its new route |
| `Discovery.cfg` | `Discovery` | `SedpReplayed` | an SEDP is buffered after the buffer was drained |
| `Discovery.cfg` | `Discovery` | `FreshKept` | a participant refreshed after the tracker's look is removed |
| `Discovery.cfg` | `Discovery` | `MatchesAreThere` | nothing tells an entry that a matched endpoint is gone |

## 7. What is left out

In the modules: instance registration, dispose and unregister; deadlines and
liveliness; content filters and listeners (a filtered sample is one that is
dropped); the size classes of the slab pool and its lock-free scan; the life of
the domain state; wait sets on other systems than Linux, read and guard
conditions.  In `ShmRing`, the spinning fallback and the life of segments; in
`Discovery`, the announcer, the QoS comparison and the security check.

Components without a module yet: matched-reader proxies, ownership, RPC, the
persistence service, the slab pool's scan.
Left out for good: sockets, wire formats, serialization and XTypes, security,
telemetry, bindings, code generation and the applications built on top; they are
I/O, encodings of unbounded data or wrappers, and the models take what they do
(messages may be lost, repeated, reordered) as given.

## 8. Plan

1. Ownership arbitration on top of discovery (who owns an instance when its
   writer expires), and the removal of matches.
2. The slab pool's scan, to justify the single-step reserve and release that
   `IntraProcess`, `HistoryCache` and `SampleAdmission` use.
3. RPC correlation, and the persistence service with crash and restart.
4. Proofs: `CursorSplits` of `SampleCache`; that samples in flight in
   `Fragments` were written; in `IntraProcess`, what still holds of handles with
   several readers (a slot is never released more often than it was handed out).

The order follows how much of the core each item covers.
