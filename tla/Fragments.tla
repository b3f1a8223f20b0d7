------------------------------- MODULE Fragments -------------------------------
(***************************************************************************)
(* Samples too large for one packet: the writer sends them as DATA_FRAGs   *)
(* followed by three HEARTBEAT_FRAGs (writer/runtime.rs), the reader's     *)
(* router reassembles them in a FragmentBuffer and asks for what is        *)
(* missing with NACK_FRAGs (engine/router.rs, fragment_buffer.rs), and the *)
(* writer answers from its history cache (writer/nack.rs).                 *)
(*                                                                         *)
(* One writer, one reader, and a network that loses, duplicates and        *)
(* reorders.  Time is counted in rounds of the router's periodic check     *)
(* (every 50 ms).                                                          *)
(***************************************************************************)
EXTENDS Integers, Sequences, FiniteSets

CONSTANTS
    NumFrags,    \* fragments of every sample
    Hbfs,        \* HEARTBEAT_FRAGs after every sample (3 in the code)
    MaxPending,  \* USER_FRAG_MAX_PENDING
    Stale,       \* NACK_FRAG_STALE_THRESHOLD_MS in rounds
    Timeout,     \* USER_FRAG_TIMEOUT_MS in rounds
    Depth,       \* samples the writer's history cache keeps
    CachedForm,  \* "wire": the cache holds the bytes that were sent; "plain":
                 \* it holds the plaintext of what was sent encrypted
    MaxLarge,    \* bound: samples written
    MaxLoss,     \* bound: packets lost
    MaxDup       \* bound: fragments duplicated

ASSUME FragmentsAssumption ==
    /\ NumFrags \in Nat \ {0, 1} /\ MaxPending \in Nat \ {0} /\ Depth \in Nat \ {0}
    /\ Stale \in Nat \ {0} /\ Timeout \in Nat /\ Stale <= Timeout
    /\ CachedForm \in {"wire", "plain"}
    /\ Hbfs \in Nat /\ MaxLarge \in Nat /\ MaxLoss \in Nat /\ MaxDup \in Nat

VARIABLES
    written,     \* the writer's last sequence number
    sending,     \* write has sent the sample and not yet cached it
    cached,      \* the samples in the history cache
    net,         \* the packets in flight
    pend,        \* FragmentBuffer.pending, least recently updated set first
    done,        \* history: done[s], the reassembled copies of s, by their fragments
    pushedOut,   \* history: the samples of which evict_lru dropped a set
    losses, dups

fragVars == <<written, sending, cached, net, pend, done, pushedOut, losses, dups>>

Seqs == 1 .. MaxLarge
Frags == 1 .. NumFrags

Frag(s, f, form) == [kind |-> "frag", seq |-> s, num |-> f, form |-> form]
Hbf(s, i) == [kind |-> "hbf", seq |-> s, num |-> i]
Nack(s, missing) == [kind |-> "nack", seq |-> s, missing |-> missing]

FragInit ==
    /\ written = 0
    /\ sending = FALSE
    /\ cached = {}
    /\ net = {}
    /\ pend = <<>>
    /\ done = [s \in Seqs |-> {}]
    /\ pushedOut = {}
    /\ losses = 0
    /\ dups = 0

-------------------------------------------------------------------------------
\* write, the network half: every fragment, then the HEARTBEAT_FRAGs.
Write ==
    /\ ~sending
    /\ written < MaxLarge
    /\ written' = written + 1
    /\ net' = net \cup {Frag(written + 1, f, "wire") : f \in Frags}
                  \cup {Hbf(written + 1, i) : i \in 1 .. Hbfs}
    /\ sending' = TRUE
    /\ UNCHANGED <<cached, pend, done, pushedOut, losses, dups>>

\* write, the rest: only now is the sample put in the cache, which keeps the
\* last Depth of them.
CacheInsert ==
    /\ sending
    /\ sending' = FALSE
    /\ cached' = {s \in cached \cup {written} : s > written - Depth}
    /\ UNCHANGED <<written, net, pend, done, pushedOut, losses, dups>>

\* Mutant: the fragment numbers of the request are taken as 0-based indices.
OnNackFragZeroBased(p) ==
    /\ p \in net /\ p.kind = "nack"
    /\ net' = (net \ {p}) \cup
              (IF p.seq \in cached
               THEN {Frag(p.seq, f + 1, CachedForm) : f \in p.missing} ELSE {})
    /\ UNCHANGED <<written, sending, cached, pend, done, pushedOut, losses, dups>>

\* WriterNackFragHandler::on_nack_frag: fragment the cached payload again and
\* send the missing ones; a sample that is not in the cache is ignored.
OnNackFrag(p) ==
    /\ p \in net /\ p.kind = "nack"
    /\ net' = (net \ {p}) \cup
              (IF p.seq \in cached
               THEN {Frag(p.seq, f, CachedForm) : f \in p.missing} ELSE {})
    /\ UNCHANGED <<written, sending, cached, pend, done, pushedOut, losses, dups>>

-------------------------------------------------------------------------------
\* A FragmentSet: the form of each fragment received and the rounds since the
\* first of them.
NewSet(s) == [seq |-> s, got |-> {}, age |-> 0]

HasSet(s) == \E i \in 1 .. Len(pend) : pend[i].seq = s

SetOf(s) ==
    IF HasSet(s) THEN pend[CHOOSE i \in 1 .. Len(pend) : pend[i].seq = s]
                 ELSE NewSet(s)

\* The elements of q at the places in I, in their order.
Retain(q, I) ==
    LET kept[n \in 0 .. Len(q)] ==
            IF n = 0 THEN <<>>
            ELSE IF n \in I THEN Append(kept[n - 1], q[n]) ELSE kept[n - 1]
    IN  kept[Len(q)]

Others(s) == Retain(pend, {i \in 1 .. Len(pend) : pend[i].seq # s})

Numbers(got) == {g[1] : g \in got}

\* get_missing_fragments of a pending set
Missing(e) == Frags \ Numbers(e.got)

\* fragments.len() == total_frags
Complete(e) == Cardinality(e.got) = NumFrags

\* The network duplicates a fragment by leaving it in flight.
Consumed(p) ==
    \/ net' = net \ {p} /\ dups' = dups
    \/ net' = net /\ dups < MaxDup /\ dups' = dups + 1

\* insert_fragment_with_addr: the later copy of a fragment replaces the earlier.
Added(e, p) ==
    [e EXCEPT !.got = {g \in @ : g[1] # p.num} \cup {<<p.num, p.form>>}]

\* Mutant: the buffer is not kept within its limit.
KeepNothingOut(q) == q

\* evict_lru, when an insertion left more than max_pending sets.
EvictLru(q) == IF Len(q) > MaxPending THEN Tail(q) ELSE q

\* DataFrag branch of the router.  Neither the loopback nor the duplicate filter
\* there sees a DATA_FRAG (extract_writer_guid finds only DATA submessages), and
\* route_reassembled_data keeps no record of what it delivered.
RecvFrag(p) ==
    /\ p \in net /\ p.kind = "frag"
    /\ Consumed(p)
    /\ LET e == Added(SetOf(p.seq), p)
           q == Append(Others(p.seq), e)
       IN \/ /\ Complete(e)
             /\ pend' = Others(p.seq)
             /\ done' = [done EXCEPT ![p.seq] = @ \cup {e.got}]
             /\ UNCHANGED pushedOut
          \/ /\ ~Complete(e)
             /\ pend' = EvictLru(q)
             /\ pushedOut' = pushedOut \cup
                    {q[i].seq : i \in {j \in 1 .. Len(q) : j <= Len(q) - Len(pend')}}
             /\ UNCHANGED done
    /\ UNCHANGED <<written, sending, cached, losses>>

\* handle_heartbeat_frag: ask for what the set is missing, or for every fragment
\* when there is no set.
RecvHbf(p) ==
    /\ p \in net /\ p.kind = "hbf"
    /\ net' = (net \ {p}) \cup {Nack(p.seq, Missing(SetOf(p.seq)))}
    /\ UNCHANGED <<written, sending, cached, pend, done, pushedOut, losses, dups>>

Aged(q) == [i \in 1 .. Len(q) |-> [q[i] EXCEPT !.age = @ + 1]]

\* Mutant: sets are never timed out, as in the discovery buffers.
EvictNone(q) ==
    [i \in 1 .. Len(q) |->
        IF q[i].age > Timeout THEN [q[i] EXCEPT !.age = Timeout] ELSE q[i]]

\* evict_expired
EvictExpired(q) == Retain(q, {i \in 1 .. Len(q) : q[i].age <= Timeout})

\* A round is longer than a packet's delay and than what write does between
\* sending and caching.
RoundOver == net = {} /\ ~sending

\* Every 50 ms check_stale_fragments_with_transport asks again for each set that
\* is old enough and then drops the sets past the timeout.
CheckStale ==
    /\ pend # <<>>
    /\ RoundOver
    /\ LET q == Aged(pend) IN
        /\ net' = {Nack(q[i].seq, Missing(q[i])) :
                      i \in {j \in 1 .. Len(q) : q[j].age >= Stale}}
        /\ pend' = EvictExpired(q)
    /\ UNCHANGED <<written, sending, cached, done, pushedOut, losses, dups>>

\* The network loses a packet.
Lose(p) ==
    /\ p \in net
    /\ losses < MaxLoss
    /\ net' = net \ {p}
    /\ losses' = losses + 1
    /\ UNCHANGED <<written, sending, cached, pend, done, pushedOut, dups>>

Recv == \E p \in net : OnNackFrag(p) \/ RecvFrag(p) \/ RecvHbf(p)

FragNext == Write \/ CacheInsert \/ Recv \/ CheckStale \/ \E p \in net : Lose(p)

\* The writer's thread and the router's keep running, and a packet that is not
\* lost is delivered.
FragFairness == WF_fragVars(CacheInsert) /\ WF_fragVars(Recv) /\ WF_fragVars(CheckStale)

FragSpec == FragInit /\ [][FragNext]_fragVars /\ FragFairness

-------------------------------------------------------------------------------
Forms == {"wire", CachedForm}

\* The types of the variables.
FragTypeOK ==
    /\ written \in 0 .. MaxLarge
    /\ sending \in BOOLEAN
    /\ cached \subseteq Seqs
    /\ net \subseteq [kind : {"frag"}, seq : Seqs, num : Frags, form : Forms]
              \cup [kind : {"hbf"}, seq : Seqs, num : 1 .. Hbfs]
              \cup [kind : {"nack"}, seq : Seqs, missing : SUBSET Frags]
    /\ pend \in Seq([seq : Seqs, got : SUBSET (Frags \X Forms), age : Nat])
    /\ done \in [Seqs -> SUBSET SUBSET (Frags \X Forms)]
    /\ pushedOut \subseteq Seqs
    /\ losses \in 0 .. MaxLoss
    /\ dups \in 0 .. MaxDup

\* The buffer never keeps more than max_pending sets, one to a sample, none
\* empty or complete, and none that an earlier check should have timed out.
BufferBounded ==
    /\ Len(pend) <= MaxPending
    /\ \A i \in 1 .. Len(pend) :
        /\ pend[i].got # {} /\ ~Complete(pend[i])
        /\ pend[i].age <= Timeout
        /\ \A j \in 1 .. Len(pend) : pend[i].seq = pend[j].seq => i = j

\* A sample of which the reader has received a part is reassembled in the end,
\* whatever order the rest, the requests and the write's own cache insertion come
\* in, unless another sample pushed the part out of the buffer or the writer's
\* cache has let go of it.
Recovered ==
    \A s \in Seqs :
        HasSet(s) ~> (done[s] # {} \/ s \in pushedOut \/ s <= written - Depth)

\* Requests and retransmissions die out and leave nothing in the buffer once the
\* writer is quiet: no HEARTBEAT_FRAG, late duplicate or expired set keeps the
\* exchange going.
Quiesces == <>[](net = {} /\ pend = <<>>)

\* Every reassembled sample is made of fragments of one form.
OneForm ==
    \A s \in Seqs : \A got \in done[s] : Cardinality({g[2] : g \in got}) = 1

\* "No entry = we haven't received ANY fragment for this seq" (handle_heartbeat_frag,
\* router.rs): a request for every fragment is never for a reassembled sample.
NoNeedlessNack ==
    [][\A s \in Seqs : Nack(s, Frags) \in net' \ net => done[s] = {}]_fragVars

\* "This means the first fragment(s) were lost. Request ALL fragments" (same place):
\* a sample of which only a HEARTBEAT_FRAG arrived is reassembled too.
HbfRecovers ==
    \A s \in Seqs :
        (Nack(s, Frags) \in net) ~> (done[s] # {} \/ s \in pushedOut \/ s <= written - Depth)
===============================================================================
