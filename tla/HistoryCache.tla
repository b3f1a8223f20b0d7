---------------------------- MODULE HistoryCache ----------------------------
(***************************************************************************)
(* The history cache of a writer (reliability/history_cache.rs): the       *)
(* samples kept for retransmission, each in a slot of the slab pool        *)
(* (core/rt/slabpool.rs), and quota_bytes, the atomic count of their       *)
(* bytes.  Two threads meet here: the one in DataWriter::write, which      *)
(* inserts, and one of the control and heartbeat threads, whose get and    *)
(* oldest_seq first prune the samples whose LIFESPAN is over.              *)
(*                                                                         *)
(* The mutex protects the deque only.  insert takes it several times: to   *)
(* append, for each len, for each evict_oldest; quota_bytes is changed     *)
(* outside it by insert and inside it by prune_expired.  A step of the     *)
(* model is what happens between two of these points.                      *)
(***************************************************************************)
EXTENDS Integers, Sequences, FiniteSets

CONSTANTS
    KeepAlls,   \* the history kinds a cache may be created with
    MaxSamples, \* max_samples
    MaxQuota,   \* max_quota_bytes
    PerInstance,\* max_samples_per_instance; write inserts with one key
    Size,       \* the possible sizes of a payload
    Slot,       \* the slots of the slab pool
    Modulus,    \* quota_bytes is an unsigned number below Modulus
    MaxWrites,  \* bound: samples written
    MaxExpired  \* bound: samples 1 .. MaxExpired may outlive their lifespan

ASSUME CacheAssumption ==
    /\ KeepAlls \subseteq BOOLEAN
    /\ MaxSamples \in Nat \ {0} /\ PerInstance \in Nat \ {0} /\ MaxQuota \in Nat
    /\ Size \subseteq Nat /\ IsFiniteSet(Slot)
    /\ Modulus \in Nat /\ MaxQuota < Modulus
    /\ MaxWrites \in Nat /\ MaxExpired \in Nat

VARIABLES
    keepAll,    \* history_kind: TRUE for KEEP_ALL, FALSE for KEEP_LAST
    ring,       \* the entries, oldest first
    quota,      \* quota_bytes
    used,       \* slots this cache has reserved in the slab pool
    pc,         \* where the writing thread is in insert
    item,       \* the entry it inserts
    victim,     \* <<>> or the entry evict_oldest has popped
    seq,        \* sequence number of the last write
    ppc,        \* where the pruning thread is in prune_expired
    cutoff,     \* the samples 1 .. cutoff are to be pruned
    owed,       \* bytes of the entry it popped, not yet subtracted
    expired,    \* the samples 1 .. expired are older than the lifespan
    early       \* history: samples evicted although the limits were kept

pruneVars == <<ppc, cutoff, owed, expired>>
cacheVars == <<keepAll, ring, quota, used, pc, item, victim, seq, pruneVars, early>>

Entry == [seq : 1 .. MaxWrites, slot : Slot, len : Size]

Bytes(s) ==
    LET sum[n \in 0 .. Len(s)] == IF n = 0 THEN 0 ELSE sum[n - 1] + s[n].len
    IN  sum[Len(s)]

\* The pruning thread holds the lock from PruneLock to PruneUnlock.
Unlocked == ppc \in {"idle", "wait"}

CacheInit ==
    /\ keepAll \in KeepAlls
    /\ ring = <<>> /\ quota = 0 /\ used = {}
    /\ pc = "idle" /\ item = <<>> /\ victim = <<>> /\ seq = 0
    /\ ppc = "idle" /\ cutoff = 0 /\ owed = 0 /\ expired = 0
    /\ early = {}

-----------------------------------------------------------------------------
(* insert_keyed *)

\* reserve_and_write finds no slot: the sample is not cached.  The pool serves
\* all writers and readers of the participant, so this can happen whatever
\* this cache holds.
InsertNoSlot ==
    /\ pc = "idle" /\ seq < MaxWrites
    /\ seq' = seq + 1
    /\ UNCHANGED <<keepAll, ring, quota, used, pc, item, victim, pruneVars,
                   early>>

\* reserve_and_write claims a free slot with a compare-and-swap.
InsertReserve(s, n) ==
    /\ pc = "idle" /\ seq < MaxWrites
    /\ s \notin used
    /\ seq' = seq + 1
    /\ used' = used \cup {s}
    /\ item' = [seq |-> seq + 1, slot |-> s, len |-> n]
    /\ pc' = "push"
    /\ UNCHANGED <<keepAll, ring, quota, victim, pruneVars, early>>

\* usize::saturating_add
SaturatingAdd(a, b) == IF a + b < Modulus THEN a + b ELSE Modulus - 1

\* would_exceed_instance_limits, for the single key that write uses, and the
\* limits of KEEP_ALL.
Rejects ==
    /\ keepAll
    /\ \/ Len(ring) + 1 > MaxSamples
       \/ SaturatingAdd(quota, item.len) > MaxQuota
       \/ Len(ring) >= PerInstance

\* Under the lock: append, or decide to reject.
InsertPush ==
    /\ pc = "push" /\ Unlocked
    /\ IF Rejects THEN pc' = "reject" /\ UNCHANGED ring
                  ELSE pc' = "add" /\ ring' = Append(ring, item)
    /\ UNCHANGED <<keepAll, quota, used, item, victim, seq, pruneVars, early>>

\* Rejected: release the slot and return an error.
InsertReject ==
    /\ pc = "reject"
    /\ used' = used \ {item.slot}
    /\ pc' = "idle" /\ item' = <<>>
    /\ UNCHANGED <<keepAll, ring, quota, victim, seq, pruneVars, early>>

\* quota_bytes.fetch_add, after the lock was released.
InsertAddQuota ==
    /\ pc = "add"
    /\ quota' = (quota + item.len) % Modulus
    /\ item' = <<>>
    /\ pc' = IF keepAll THEN "idle" ELSE "len"
    /\ UNCHANGED <<keepAll, ring, used, victim, seq, pruneVars, early>>

-----------------------------------------------------------------------------
(* enforce_limits and enforce_instance_limits *)

\* Mutant: off by one.
EnforceLenEarly ==
    /\ pc = "len" /\ Unlocked
    /\ pc' = IF Len(ring) >= MaxSamples THEN "evictLen" ELSE "quota"
    /\ UNCHANGED <<keepAll, ring, quota, used, item, victim, seq, pruneVars,
                   early>>

\* while self.len() > self.max_samples; len takes and releases the lock.
EnforceLen ==
    /\ pc = "len" /\ Unlocked
    /\ pc' = IF Len(ring) > MaxSamples THEN "evictLen" ELSE "quota"
    /\ UNCHANGED <<keepAll, ring, quota, used, item, victim, seq, pruneVars,
                   early>>

\* Mutant: the second loop is missing.
EnforceQuotaDropped ==
    /\ pc = "quota"
    /\ pc' = "instance"
    /\ UNCHANGED <<keepAll, ring, quota, used, item, victim, seq, pruneVars,
                   early>>

\* while quota_bytes > max_quota_bytes ...: the load needs no lock.
EnforceQuota ==
    /\ pc = "quota"
    /\ pc' = IF quota > MaxQuota THEN "empty" ELSE "instance"
    /\ UNCHANGED <<keepAll, ring, quota, used, item, victim, seq, pruneVars,
                   early>>

\* ... && !self.is_empty()
EnforceEmpty ==
    /\ pc = "empty" /\ Unlocked
    /\ pc' = IF ring = <<>> THEN "instance" ELSE "evictQuota"
    /\ UNCHANGED <<keepAll, ring, quota, used, item, victim, seq, pruneVars,
                   early>>

\* evict_oldest, under the lock: pop the front.
EvictPop ==
    /\ pc \in {"evictLen", "evictQuota"} /\ Unlocked
    /\ IF ring = <<>>
       THEN /\ pc' = IF pc = "evictLen" THEN "len" ELSE "quota"
            /\ UNCHANGED <<ring, victim, early>>
       ELSE /\ victim' = Head(ring)
            /\ ring' = Tail(ring)
            /\ pc' = IF pc = "evictLen" THEN "freeLen" ELSE "freeQuota"
            /\ early' = IF Len(ring) <= MaxSamples /\ Bytes(ring) <= MaxQuota
                        THEN early \cup {Head(ring).seq} ELSE early
    /\ UNCHANGED <<keepAll, quota, used, item, seq, ppc, cutoff, owed,
                   expired>>

\* evict_oldest, after the lock: release the slot, subtract the bytes.
EvictRelease ==
    /\ pc \in {"freeLen", "freeQuota"}
    /\ used' = used \ {victim.slot}
    /\ quota' = (quota - victim.len) % Modulus
    /\ victim' = <<>>
    /\ pc' = IF pc = "freeLen" THEN "len" ELSE "quota"
    /\ UNCHANGED <<keepAll, ring, item, seq, pruneVars, early>>

\* enforce_instance_limits, wholly under the lock: all samples have the same
\* key, so the oldest go until PerInstance are left.
EnforceInstance ==
    /\ pc = "instance" /\ Unlocked
    /\ LET surplus == IF Len(ring) > PerInstance
                      THEN Len(ring) - PerInstance ELSE 0
           gone == SubSeq(ring, 1, surplus)
       IN  /\ ring' = SubSeq(ring, surplus + 1, Len(ring))
           /\ used' = used \ {gone[i].slot : i \in 1 .. surplus}
           /\ quota' = (quota - Bytes(gone)) % Modulus
    /\ pc' = "idle"
    /\ UNCHANGED <<keepAll, item, victim, seq, pruneVars, early>>

-----------------------------------------------------------------------------
(* prune_expired, called by get, oldest_seq and the snapshots *)

\* Time passes; the stamps of the entries grow with their numbers.
Expire ==
    /\ expired < MaxExpired /\ expired < seq
    /\ expired' = expired + 1
    /\ UNCHANGED <<keepAll, ring, quota, used, pc, item, victim, seq, ppc,
                   cutoff, owed, early>>

\* Compute the cutoff, before the lock is taken.
PruneStart ==
    /\ ppc = "idle"
    /\ expired > 0
    /\ cutoff' = expired
    /\ ppc' = "wait"
    /\ UNCHANGED <<keepAll, ring, quota, used, pc, item, victim, seq, owed,
                   expired, early>>

\* Take the lock.
PruneLock ==
    /\ ppc = "wait"
    /\ ppc' = "scan"
    /\ UNCHANGED <<keepAll, ring, quota, used, pc, item, victim, seq, cutoff,
                   owed, expired, early>>

FrontExpired == ring # <<>> /\ Head(ring).seq <= cutoff

\* Mutant: the slot of a pruned sample is not released.
PrunePopLeaky ==
    /\ ppc = "scan"
    /\ FrontExpired
    /\ ring' = Tail(ring)
    /\ owed' = Head(ring).len
    /\ ppc' = "sub"
    /\ UNCHANGED <<keepAll, quota, used, pc, item, victim, seq, cutoff,
                   expired, early>>

\* Pop an expired front and release its slot ...
PrunePop ==
    /\ ppc = "scan"
    /\ FrontExpired
    /\ ring' = Tail(ring)
    /\ used' = used \ {Head(ring).slot}
    /\ owed' = Head(ring).len
    /\ ppc' = "sub"
    /\ UNCHANGED <<keepAll, quota, pc, item, victim, seq, cutoff, expired,
                   early>>

\* Mutant: the counter is signed.
PruneSubSigned ==
    /\ ppc = "sub"
    /\ quota' = quota - owed
    /\ owed' = 0
    /\ ppc' = "scan"
    /\ UNCHANGED <<keepAll, ring, used, pc, item, victim, seq, cutoff, expired,
                   early>>

\* Mutant: saturating_sub instead of a subtraction that wraps around.
PruneSubSaturating ==
    /\ ppc = "sub"
    /\ quota' = IF quota >= owed THEN quota - owed ELSE 0
    /\ owed' = 0
    /\ ppc' = "scan"
    /\ UNCHANGED <<keepAll, ring, used, pc, item, victim, seq, cutoff, expired,
                   early>>

\* ... then subtract its bytes.
PruneSub ==
    /\ ppc = "sub"
    /\ quota' = (quota - owed) % Modulus
    /\ owed' = 0
    /\ ppc' = "scan"
    /\ UNCHANGED <<keepAll, ring, used, pc, item, victim, seq, cutoff, expired,
                   early>>

\* The front is fresh: release the lock.
PruneUnlock ==
    /\ ppc = "scan"
    /\ ~FrontExpired
    /\ ppc' = "idle"
    /\ cutoff' = 0
    /\ UNCHANGED <<keepAll, ring, quota, used, pc, item, victim, seq, owed,
                   expired, early>>

CacheNext ==
    \/ InsertNoSlot \/ \E s \in Slot, n \in Size : InsertReserve(s, n)
    \/ InsertPush \/ InsertReject \/ InsertAddQuota
    \/ EnforceLen \/ EnforceQuota \/ EnforceEmpty
    \/ EvictPop \/ EvictRelease \/ EnforceInstance
    \/ Expire \/ PruneStart \/ PruneLock \/ PrunePop \/ PruneSub \/ PruneUnlock

CacheSpec == CacheInit /\ [][CacheNext]_cacheVars

-----------------------------------------------------------------------------
(* Properties *)

\* Type correctness.
CacheTypeOK ==
    /\ keepAll \in BOOLEAN
    /\ ring \in Seq(Entry)
    /\ quota \in 0 .. Modulus - 1
    /\ used \subseteq Slot
    /\ pc \in {"idle", "push", "reject", "add", "len", "evictLen", "freeLen",
               "quota", "empty", "evictQuota", "freeQuota", "instance"}
    /\ item \in Entry \cup {<<>>} /\ victim \in Entry \cup {<<>>}
    /\ seq \in 0 .. MaxWrites
    /\ ppc \in {"idle", "wait", "scan", "sub"}
    /\ cutoff \in 0 .. MaxExpired /\ owed \in Nat
    /\ expired \in 0 .. MaxExpired
    /\ early \subseteq 1 .. MaxWrites

\* quota_bytes counts the bytes in the deque, up to what each thread has
\* still to add or to subtract: the additions and subtractions made outside
\* the lock never lose a byte, even when a sample is pruned before its own
\* bytes were added and the counter wraps around.
QuotaMatches ==
    LET toAdd == IF pc = "add" THEN item.len ELSE 0
        toSub == owed + (IF victim # <<>> THEN victim.len ELSE 0)
    IN  quota = (Bytes(ring) - toAdd + toSub) % Modulus

\* A slot is reserved exactly while an entry of the deque, the sample being
\* inserted or the one being evicted is in it, and never for two of them:
\* no error path, eviction or pruning leaks a slot or frees it twice.
SlotsAccounted ==
    LET held == [i \in DOMAIN ring |-> ring[i].slot]
                \o (IF pc \in {"push", "reject"} THEN <<item.slot>> ELSE <<>>)
                \o (IF victim # <<>> THEN <<victim.slot>> ELSE <<>>)
    IN  /\ used = {held[i] : i \in DOMAIN held}
        /\ \A i, j \in DOMAIN held : held[i] = held[j] => i = j

\* Whenever insert has returned and no pruning is under way, the limits of
\* the cache are kept.
LimitsKept ==
    pc = "idle" /\ ppc = "idle" =>
        /\ Len(ring) <= MaxSamples
        /\ Len(ring) <= PerInstance
        /\ Bytes(ring) <= MaxQuota

\* "KeepLast(n): bounded queue of size n.  Drops oldest when full": a sample
\* is evicted only while the cache exceeds one of its limits.
EvictsOnlyWhenFull == early = {}

\* The same while no lifespan runs out: the writing thread alone never evicts a
\* sample from a cache that keeps its limits.
EvictsOnlyWhenFullUnpruned == expired = 0 => EvictsOnlyWhenFull
=============================================================================
