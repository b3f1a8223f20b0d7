---------------------------- MODULE IntraProcess ----------------------------
(***************************************************************************)
(* How a sample gets from a writer to the readers of the same process:     *)
(* DataWriter::write copies it into a slot of the slab pool and            *)
(* TopicMerger::push puts the handle of the slot into the ring of every    *)
(* reader, each of which decodes the slot and releases it.  While no       *)
(* remote participant is known, write takes a fast path that skips the     *)
(* network and the history cache.  A reader that joins a TRANSIENT_LOCAL   *)
(* writer is sent the samples of the history cache first.                  *)
(*                                                                         *)
(* Module IndexRing shows that a push and a pop are atomic, module         *)
(* HistoryCache how the cache keeps its limits, module DomainRegistry who  *)
(* is bound to whom; here they are single steps.                           *)
(***************************************************************************)
EXTENDS Integers, Sequences, FiniteSets, Functions

CONSTANTS
    Reader,         \* the local readers of the topic
    Slot,           \* the slots of the slab pool
    RingCap,        \* entries the ring of a reader can hold
    Depth,          \* max_samples of the history cache
    Durable,        \* may the writer be TRANSIENT_LOCAL, may it be VOLATILE?
    Remote,         \* what has_remote_peers may return
    MayDrop,        \* may the application drop its readers?
    MaxSeq          \* bound: samples written

ASSUME IntraAssumption ==
    /\ IsFiniteSet(Reader) /\ IsFiniteSet(Slot)
    /\ RingCap \in Nat \ {0} /\ Depth \in Nat \ {0} /\ MaxSeq \in Nat
    /\ Durable \subseteq BOOLEAN /\ MayDrop \in BOOLEAN
    /\ Remote \subseteq BOOLEAN

VARIABLES
    durable,    \* does the merger replay the history cache?
    used,       \* slots reserved in the slab pool
    content,    \* the sample in each slot, 0 for none
    cache,      \* entries of the history cache, oldest first
    bound,      \* readers of the merger, in the order of their registration
    rings,      \* entries in the ring of each reader
    hand,       \* <<>> or the entry each reader has popped
    jpc,        \* where each reader is in add_reader, "dropped" at the end
    replay,     \* the entries add_reader has still to push
    wpc,        \* where the writer is in write
    entry,      \* the entry it pushes
    todo,       \* readers to which it is still to be pushed
    pushed,     \* did a push succeed?
    fast,       \* is this the fast path?
    nextSeq,    \* next_seq
    stored,     \* history: samples that write put into the history cache
    bypassed,   \* history: samples written on the fast path
    offered,    \* history: samples pushed into the ring of each reader
    promised,   \* history: the last Depth samples written when a reader joined
    missed      \* history: of these, those written while it joined

writerVars == <<wpc, entry, todo, pushed, fast, nextSeq, stored, bypassed>>
readerVars == <<rings, hand, offered>>
joinVars == <<bound, jpc, replay, promised, missed>>
slabVars == <<used, content>>
vars == <<durable, slabVars, cache, joinVars, readerVars, writerVars>>

Entry == [seq : 1 .. MaxSeq, slot : Slot]

Init ==
    /\ durable \in Durable
    /\ used = {} /\ content = [s \in Slot |-> 0] /\ cache = <<>>
    /\ bound = <<>> /\ jpc = [r \in Reader |-> "new"]
    /\ replay = [r \in Reader |-> <<>>]
    /\ rings = [r \in Reader |-> <<>>] /\ hand = [r \in Reader |-> <<>>]
    /\ wpc = "idle" /\ entry = <<>> /\ todo = <<>> /\ pushed = FALSE
    /\ fast = FALSE /\ nextSeq = 1 /\ stored = {} /\ bypassed = {}
    /\ offered = [r \in Reader |-> {}]
    /\ promised = [r \in Reader |-> {}] /\ missed = [r \in Reader |-> {}]

-----------------------------------------------------------------------------
(* The slab pool *)

\* reserve_and_write
Reserve(s, n) ==
    /\ s \notin used
    /\ used' = used \cup {s}
    /\ content' = [content EXCEPT ![s] = n]

\* release; releasing a free slot changes nothing.
Release(s) == used' = used \ {s} /\ UNCHANGED content

\* A push into the ring of r; a full ring refuses the entry.
Put(r, e) ==
    IF Len(rings[r]) < RingCap
    THEN /\ rings' = [rings EXCEPT ![r] = Append(@, e)]
         /\ offered' = [offered EXCEPT ![r] = @ \cup {e.seq}]
    ELSE UNCHANGED <<rings, offered>>

-----------------------------------------------------------------------------
(* DataWriter::write *)

\* Take a number, see whether there are local readers and remote peers, and
\* reserve a slot for the local readers.
WriteReserve(remote, s) ==
    /\ wpc = "idle" /\ nextSeq <= MaxSeq
    /\ bound # <<>>
    /\ Reserve(s, nextSeq)
    /\ entry' = [seq |-> nextSeq, slot |-> s]
    /\ fast' = ~remote
    /\ nextSeq' = nextSeq + 1
    /\ wpc' = "lock"
    /\ UNCHANGED <<durable, cache, joinVars, readerVars, todo, pushed, stored,
                   bypassed>>

\* No slot is free: the fast path returns WouldBlock, the other one goes on
\* without the local readers.
WriteNoSlot(remote) ==
    /\ wpc = "idle" /\ nextSeq <= MaxSeq
    /\ bound # <<>> /\ used = Slot
    /\ nextSeq' = nextSeq + 1
    /\ wpc' = IF remote THEN "cache" ELSE "idle"
    /\ UNCHANGED <<durable, slabVars, cache, joinVars, readerVars, entry, todo,
                   pushed, fast, stored, bypassed>>

\* There are no local readers.
WriteRemoteOnly ==
    /\ wpc = "idle" /\ nextSeq <= MaxSeq
    /\ bound = <<>>
    /\ nextSeq' = nextSeq + 1
    /\ wpc' = "cache"
    /\ UNCHANGED <<durable, slabVars, cache, joinVars, readerVars, entry, todo,
                   pushed, fast, stored, bypassed>>

\* TopicMerger::push: take the read lock.
PushLock ==
    /\ wpc = "lock"
    /\ todo' = bound
    /\ pushed' = FALSE
    /\ wpc' = "push"
    /\ UNCHANGED <<durable, slabVars, cache, joinVars, readerVars, entry, fast,
                   nextSeq, stored, bypassed>>

\* TopicMerger::push: the next reader; one whose ring is full is skipped.
PushNext ==
    /\ wpc = "push" /\ todo # <<>>
    /\ Put(Head(todo), entry)
    /\ pushed' = (pushed \/ Len(rings[Head(todo)]) < RingCap)
    /\ todo' = Tail(todo)
    /\ UNCHANGED <<durable, slabVars, cache, joinVars, hand, wpc, entry, fast,
                   nextSeq, stored, bypassed>>

Finish ==
    /\ wpc' = IF fast THEN "idle" ELSE "cache"
    /\ bypassed' = IF fast THEN bypassed \cup {nextSeq - 1} ELSE bypassed
    /\ entry' = <<>>
    /\ UNCHANGED <<durable, stored>>

\* Mutant: the result of TopicMerger::push is ignored.
PushDoneLeaky ==
    /\ wpc = "push" /\ todo = <<>>
    /\ Finish
    /\ UNCHANGED <<slabVars, cache, joinVars, readerVars, todo, pushed, fast,
                   nextSeq>>

\* Mutant: write always gives up its slot.
PushDoneEager ==
    /\ wpc = "push" /\ todo = <<>>
    /\ Finish
    /\ Release(entry.slot)
    /\ UNCHANGED <<cache, joinVars, readerVars, todo, pushed, fast, nextSeq>>

\* Every reader has been tried: no reader took the entry, so release the
\* slot.  The fast path ends here.
PushDone ==
    /\ wpc = "push" /\ todo = <<>>
    /\ Finish
    /\ IF pushed THEN UNCHANGED slabVars ELSE Release(entry.slot)
    /\ UNCHANGED <<cache, joinVars, readerVars, todo, pushed, fast, nextSeq>>

\* Mutant: the history cache grows without bound.
CacheInsertUnbounded(s) ==
    /\ wpc = "cache"
    /\ s \notin used
    /\ cache' = Append(cache, [seq |-> nextSeq - 1, slot |-> s])
    /\ used' = used \cup {s}
    /\ content' = [content EXCEPT ![s] = nextSeq - 1]
    /\ wpc' = "idle"
    /\ stored' = stored \cup {nextSeq - 1}
    /\ UNCHANGED <<durable, joinVars, readerVars, entry, todo, pushed, fast,
                   nextSeq, bypassed>>

\* HistoryCache::insert: a slot of its own, the oldest entry makes room.
CacheInsert(s) ==
    /\ wpc = "cache"
    /\ s \notin used
    /\ LET full == Append(cache, [seq |-> nextSeq - 1, slot |-> s])
       IN  IF Len(full) > Depth
           THEN /\ cache' = Tail(full)
                /\ used' = (used \cup {s}) \ {Head(full).slot}
           ELSE /\ cache' = full
                /\ used' = used \cup {s}
    /\ content' = [content EXCEPT ![s] = nextSeq - 1]
    /\ wpc' = "idle"
    /\ stored' = stored \cup {nextSeq - 1}
    /\ UNCHANGED <<durable, joinVars, readerVars, entry, todo, pushed, fast,
                   nextSeq, bypassed>>

\* HistoryCache::insert finds no slot; write logs it and returns.
CacheNoSlot ==
    /\ wpc = "cache"
    /\ used = Slot
    /\ wpc' = "idle"
    /\ UNCHANGED <<durable, slabVars, cache, joinVars, readerVars, entry, todo,
                   pushed, fast, nextSeq, stored, bypassed>>

-----------------------------------------------------------------------------
(* TopicMerger::add_reader *)

\* The last Depth samples written.
LastWritten ==
    LET wrote == stored \cup bypassed
    IN  {n \in wrote : Cardinality({m \in wrote : m > n}) < Depth}

\* Mutant: the newest sample of the cache is not replayed.
JoinSnapshotShort(r) ==
    /\ jpc[r] = "new"
    /\ replay' = [replay EXCEPT ![r] =
        IF durable /\ cache # <<>> THEN SubSeq(cache, 1, Len(cache) - 1)
                                          ELSE <<>>]
    /\ promised' = [promised EXCEPT ![r] = LastWritten]
    /\ jpc' = [jpc EXCEPT ![r] = "replay"]
    /\ UNCHANGED <<durable, slabVars, cache, bound, missed, readerVars,
                   writerVars>>

\* get_all_samples: the handles of the history cache.
JoinSnapshot(r) ==
    /\ jpc[r] = "new"
    /\ replay' = [replay EXCEPT ![r] = IF durable THEN cache ELSE <<>>]
    /\ promised' = [promised EXCEPT ![r] = LastWritten]
    /\ jpc' = [jpc EXCEPT ![r] = "replay"]
    /\ UNCHANGED <<durable, slabVars, cache, bound, missed, readerVars,
                   writerVars>>

\* Push one of them into the ring of the reader.
JoinReplay(r) ==
    /\ jpc[r] = "replay" /\ replay[r] # <<>>
    /\ Put(r, Head(replay[r]))
    /\ replay' = [replay EXCEPT ![r] = Tail(@)]
    /\ UNCHANGED <<durable, slabVars, cache, bound, jpc, promised, missed,
                   hand, writerVars>>

\* Take the write lock, which waits for TopicMerger::push, and register.
JoinRegister(r) ==
    /\ jpc[r] = "replay" /\ replay[r] = <<>>
    /\ wpc # "push"
    /\ bound' = Append(bound, r)
    /\ jpc' = [jpc EXCEPT ![r] = "bound"]
    /\ missed' = [missed EXCEPT ![r] =
                    LastWritten \ (promised[r] \cup offered[r])]
    /\ UNCHANGED <<durable, slabVars, cache, replay, promised, readerVars,
                   writerVars>>

-----------------------------------------------------------------------------
(* The reader: try_take or pump_ring_to_cache *)

\* Pop an entry.
TakePop(r) ==
    /\ jpc[r] # "dropped"
    /\ hand[r] = <<>> /\ rings[r] # <<>>
    /\ hand' = [hand EXCEPT ![r] = Head(rings[r])]
    /\ rings' = [rings EXCEPT ![r] = Tail(@)]
    /\ UNCHANGED <<durable, slabVars, cache, joinVars, offered, writerVars>>

\* Decode the slot and release it.
TakeRelease(r) ==
    /\ hand[r] # <<>>
    /\ Release(hand[r].slot)
    /\ hand' = [hand EXCEPT ![r] = <<>>]
    /\ UNCHANGED <<durable, cache, joinVars, rings, offered, writerVars>>

\* The application drops the DataReader: the merger keeps its ring and goes
\* on pushing, and nobody pops what is in it.
DropReader(r) ==
    /\ MayDrop
    /\ jpc[r] = "bound" /\ hand[r] = <<>>
    /\ jpc' = [jpc EXCEPT ![r] = "dropped"]
    /\ UNCHANGED <<durable, slabVars, cache, bound, replay, promised, missed,
                   readerVars, writerVars>>

Next ==
    \/ \E remote \in Remote :
        WriteNoSlot(remote) \/ \E s \in Slot : WriteReserve(remote, s)
    \/ WriteRemoteOnly \/ PushLock \/ PushNext \/ PushDone
    \/ CacheNoSlot \/ \E s \in Slot : CacheInsert(s)
    \/ \E r \in Reader : \/ JoinSnapshot(r) \/ JoinReplay(r) \/ JoinRegister(r)
                         \/ TakePop(r) \/ TakeRelease(r) \/ DropReader(r)

Spec == Init /\ [][Next]_vars

-----------------------------------------------------------------------------
(* Properties *)

\* Type correctness.
TypeOK ==
    /\ used \subseteq Slot /\ content \in [Slot -> 0 .. MaxSeq]
    /\ cache \in Seq(Entry) /\ Len(cache) <= Depth
    /\ bound \in Seq(Reader)
    /\ jpc \in [Reader -> {"new", "replay", "bound", "dropped"}]
    /\ rings \in [Reader -> Seq(Entry)] /\ replay \in [Reader -> Seq(Entry)]
    /\ \A r \in Reader : Len(rings[r]) <= RingCap
    /\ hand \in [Reader -> Entry \cup {<<>>}]
    /\ offered \in [Reader -> SUBSET (1 .. MaxSeq)]
    /\ promised \in [Reader -> SUBSET (1 .. MaxSeq)]
    /\ missed \in [Reader -> SUBSET (1 .. MaxSeq)]
    /\ wpc \in {"idle", "lock", "push", "cache"}
    /\ entry \in Entry \cup {<<>>} /\ todo \in Seq(Reader)
    /\ pushed \in BOOLEAN /\ fast \in BOOLEAN
    /\ nextSeq \in 1 .. MaxSeq + 1 /\ durable \in BOOLEAN
    /\ stored \subseteq 1 .. MaxSeq /\ bypassed \subseteq 1 .. MaxSeq

\* The entries that some thread will still read through.
Pending ==
    Range(cache)
    \cup (UNION {Range(rings[r]) : r \in {q \in Reader : jpc[q] # "dropped"}})
    \cup {hand[r] : r \in {q \in Reader : hand[q] # <<>>}}
    \cup (IF wpc = "lock" \/ (wpc = "push" /\ (todo # <<>> \/ ~pushed))
          THEN {entry} ELSE {})

\* get_buffer: "Handle must be valid and currently allocated": whoever reads
\* through a handle finds the slot reserved and in it the sample the handle
\* was made for, never a slot that was released and given to another sample.
HandlesIntact ==
    \A e \in Pending : e.slot \in used /\ content[e.slot] = e.seq

\* So it is as long as the topic has had one reader and no replay: then every
\* handle has one owner, whatever the order in which writer, history cache
\* and reader reserve and release slots.
HandlesIntactSoleReader ==
    ~ durable /\ Cardinality({r \in Reader : jpc[r] # "new"}) <= 1
        => HandlesIntact

\* A slot that no thread will read any more is free: no write, full ring,
\* eviction or dropped reader leaks a slot of the pool that all readers and
\* writers of the process share.
NoSlotLeak == used \subseteq {e.slot : e \in Pending}

\* So it is as long as no reader was dropped, with any number of readers and
\* replays.
NoSlotLeakAlive == (\A r \in Reader : jpc[r] # "dropped") => NoSlotLeak

\* "Caches samples in the writer so that late-joining subscribers receive"
\* them: the last Depth samples written before the reader joined have been
\* offered to it by the time it is registered.
LateJoinerServed ==
    \A r \in Reader : jpc[r] = "bound" => promised[r] \subseteq offered[r]

\* Of these, the ones that write put into the history cache are offered to a
\* reader of a TRANSIENT_LOCAL writer.
StoredServed ==
    durable => \A r \in Reader :
        jpc[r] = "bound" => promised[r] \cap stored \subseteq offered[r]

\* A sample written while a late joiner is being registered reaches it too,
\* by the replay or by the merger.
NothingMissedWhileJoining == \A r \in Reader : missed[r] = {}
=============================================================================
