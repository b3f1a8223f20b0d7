------------------------------ MODULE Discovery ------------------------------
(***************************************************************************)
(* Participant and endpoint discovery as one participant runs it:          *)
(* DiscoveryFsm::handle_spdp and handle_sedp                               *)
(* (core/discovery/multicast/fsm/discovery.rs), the participant database   *)
(* and the topic registry, the unicast locators (core/discovery/           *)
(* endpoints.rs), the lease tracker (multicast/lease.rs) and the match     *)
(* notifications of the local writers and readers                          *)
(* (dds/match_notification.rs).                                            *)
(*                                                                         *)
(* Several listener threads run the same two handlers; the lease tracker   *)
(* and the threads that create local endpoints run beside them.  Every     *)
(* table has a lock of its own and a handler takes them one at a time, so  *)
(* one action here is what is done under one lock.  The order of the locks *)
(* of the notification side matters: the handler puts the endpoint in the  *)
(* registry and then walks the local entries; a local endpoint puts its    *)
(* entry in the list and then walks the registry.                          *)
(*                                                                         *)
(* Time is counted in ticks and ages are cut at the value that decides.    *)
(* Every remote endpoint is on the topic of every local entry; the history *)
(* that a new durable reader is sent goes to the transport and leaves no   *)
(* state here.  pending_notifications is never filled by the code, so its  *)
(* replay (discovery.rs:830) has nothing to do and is left out, as is the  *)
(* identity check of the security plugin.  The route of a single reader,   *)
(* which the handlers write and only the transport reads, is left out too. *)
(* A packet in pending_sedp has a place; the order in which the packets of *)
(* a participant are replayed is left open.                                *)
(***************************************************************************)
EXTENDS Integers

CONSTANTS Participants,   \* the remote participants
          EntityIds,      \* the endpoints of a participant, in its GUID prefix
          AgreeFound,     \* the ones whose QoS on_endpoint_discovered accepts
          AgreeScanned,   \* the ones whose QoS catch_up accepts
          Silent,         \* the ones whose mismatch has no policy id (partition)
          Entries,        \* the local endpoints that ask for notifications
          Threads,        \* the listener threads
          Lease,          \* lease duration of the remote participants
          Window,         \* PROBATION_WINDOW_MS
          PurgeAt,        \* age of this participant at the purge (250 ms)
          MaxPending,     \* room of pending_sedp (64 in the code)
          MaxSedp         \* bound: how often the announcement of an endpoint arrives

ASSUME DiscoveryAssumption ==
    /\ Participants # {}
    /\ Lease \in Nat \ {0} /\ Window \in Nat /\ PurgeAt \in Nat
    /\ MaxPending \in Nat /\ MaxSedp \in Nat

VARIABLES
    peer,       \* what the remote participant is doing
    budget,     \* announcements of an endpoint that are still to arrive
    net,        \* last packets of a peer that is gone
    up,         \* age of this participant, up to PurgeAt
    purged,     \* probation_purge_done
    db,         \* ParticipantDB: the known participants
    age,        \* ticks since last_seen, of the known ones
    born,       \* ticks since created_at, up to Window
    confirmed,  \* the ones with spdp_count >= 2
    locators,   \* EndpointRegistry: the participants with a unicast route
    registry,   \* TopicRegistry
    pending,    \* pending_sedp: pairs of a place and a packet
    pc,         \* where a listener thread is
    msg,        \* the SPDP packet it handles
    sedp,       \* the SEDP packet it handles
    queue,      \* the SEDP packets it still has to replay, with their places
    victims,    \* the participants it still has to remove
    wiping,     \* the participant it has removed from the database only
    expired,    \* expired_guids of the lease tracker, {} between two rounds
    reg,        \* how far the registration of a local endpoint is
    todo,       \* remote_endpoints its catch-up still has to look at
    fired       \* the callbacks made for a pair; matched_remotes is among them

peers == <<peer, budget>>
table == <<db, age, born, confirmed>>
locals == <<msg, sedp, queue, victims, wiping>>
matching == <<reg, todo, fired>>
vars == <<peers, net, up, purged, table, locators, registry, pending,
          pc, locals, expired, matching>>

(* The GUID of an endpoint: the prefix of its participant and an entity id. *)
Endpoints == Participants \X EntityIds
Owner(e) == e[1]

Spdp(p) == [kind |-> "spdp", from |-> p]
Dispose(p) == [kind |-> "dispose", from |-> p]
NoPacket == [kind |-> "none"]
Packets == {Spdp(p) : p \in Participants} \cup {Dispose(p) : p \in Participants}

(* The places of pending_sedp.  A packet is the endpoint it announces.     *)
Places == 1..MaxPending
NoEndpoint == <<>>

Init ==
    /\ peer = [p \in Participants |-> "up"]
    /\ budget = [e \in Endpoints |-> MaxSedp]
    /\ net = {} /\ up = 0 /\ purged = FALSE
    /\ db = {} /\ confirmed = {}
    /\ age = [p \in Participants |-> 0]
    /\ born = [p \in Participants |-> 0]
    /\ locators = {} /\ registry = {} /\ pending = {}
    /\ pc = [t \in Threads |-> "idle"]
    /\ msg = [t \in Threads |-> NoPacket]
    /\ sedp = [t \in Threads |-> NoEndpoint]
    /\ queue = [t \in Threads |-> {}]
    /\ victims = [t \in Threads |-> {}]
    /\ wiping = [t \in Threads |-> {}]
    /\ expired = {}
    /\ reg = [l \in Entries |-> "none"]
    /\ todo = [l \in Entries |-> {}]
    /\ fired = [l \in Entries |-> [e \in Endpoints |-> {}]]

-----------------------------------------------------------------------------
(* The peers and the network. *)

(* A peer that is up announces itself all the time, and what it announces  *)
(* reaches a listener now or never.  When it stops, by a dispose or by a   *)
(* crash, a last announcement may still be under way.                      *)
Depart(p) ==
    /\ peer[p] = "up"
    /\ peer' = [peer EXCEPT ![p] = "gone"]
    /\ \E late \in SUBSET {Spdp(p), Dispose(p)} : net' = net \cup late
    /\ UNCHANGED <<budget, up, purged, table, locators, registry, pending, pc,
                   locals, expired, matching>>

Tick ==
    /\ up' = IF up < PurgeAt THEN up + 1 ELSE up
    /\ age' = [p \in Participants |->
                 IF p \in db /\ age[p] <= Lease THEN age[p] + 1 ELSE age[p]]
    /\ born' = [p \in Participants |->
                  IF p \in db /\ born[p] < Window THEN born[p] + 1 ELSE born[p]]
    /\ UNCHANGED <<peers, net, purged, db, confirmed, locators, registry, pending,
                   pc, locals, expired, matching>>

-----------------------------------------------------------------------------
(* handle_spdp. *)

Goto(t, label) == pc' = [pc EXCEPT ![t] = label]

(* The packet is taken from the socket; the purge is due when it has not   *)
(* been done and this participant is old enough.                           *)
ReceiveSpdp(t, m) ==
    /\ pc[t] = "idle"
    /\ m \in net \/ (peer[m.from] = "up" /\ m.kind = "spdp")
    /\ net' = net \ {m}
    /\ msg' = [msg EXCEPT ![t] = m]
    /\ Goto(t, IF ~purged /\ up >= PurgeAt THEN "purge" ELSE "lookup")
    /\ UNCHANGED <<peers, up, purged, table, locators, registry, pending, sedp,
                   queue, victims, wiping, expired, matching>>

(* purge_unconfirmed_participants: the list is made under the read lock,   *)
(* and every participant on it is removed.                                 *)
Purge(t) ==
    /\ pc[t] = "purge"
    /\ purged' = TRUE
    /\ victims' = [victims EXCEPT ![t] = db \ confirmed]
    /\ Goto(t, IF db \ confirmed = {} THEN "lookup" ELSE "remove")
    /\ UNCHANGED <<peers, net, up, table, locators, registry, pending, msg, sedp,
                   queue, wiping, expired, matching>>

(* After a removal: the rest of the list, then the packet that made the    *)
(* purge due, or nothing when the removal was the packet's own.            *)
Resume(t, left) ==
    Goto(t, IF left # {} THEN "remove" ELSE IF msg[t] = NoPacket THEN "idle" ELSE "lookup")

(* The entry of p leaves the database. *)
Forget(p) ==
    /\ db' = db \ {p}
    /\ confirmed' = confirmed \ {p}
    /\ age' = [age EXCEPT ![p] = 0]
    /\ born' = [born EXCEPT ![p] = 0]

(* remove_participant, first lock: the database.  Whether an entry was     *)
(* found there decides whether the rest is done.                           *)
Remove(t, p) ==
    /\ pc[t] = "remove" /\ p \in victims[t]
    /\ Forget(p)
    /\ victims' = [victims EXCEPT ![t] = @ \ {p}]
    /\ wiping' = [wiping EXCEPT ![t] = db \cap {p}]
    /\ IF p \in db THEN Goto(t, "wipe") ELSE Resume(t, victims[t] \ {p})
    /\ UNCHANGED <<peers, net, up, purged, locators, registry, pending, msg, sedp,
                   queue, expired, matching>>

(* remove_participant, second lock: the registry, held until the locators  *)
(* of the participant are gone too.                                        *)
Wipe(t) ==
    LET lost == {e \in Endpoints : Owner(e) \in wiping[t]} IN
    /\ pc[t] = "wipe"
    /\ registry' = registry \ lost
    /\ locators' = locators \ wiping[t]
    /\ wiping' = [wiping EXCEPT ![t] = {}]
    /\ Resume(t, victims[t])
    /\ UNCHANGED <<peers, net, up, purged, table, pending, msg, sedp, queue,
                   victims, expired, matching>>

(* A lease of zero removes the participant; otherwise the read lock tells  *)
(* whether it is known, and a write lock of its own acts on the answer.    *)
Lookup(t) ==
    LET p == msg[t].from IN
    /\ pc[t] = "lookup"
    /\ \/ /\ msg[t].kind = "dispose"
          /\ victims' = [victims EXCEPT ![t] = {p}]
          /\ msg' = [msg EXCEPT ![t] = NoPacket]
          /\ Goto(t, "remove")
       \/ /\ msg[t].kind = "spdp"
          /\ Goto(t, IF p \in db THEN "refresh" ELSE "insert")
          /\ UNCHANGED <<victims, msg>>
    /\ UNCHANGED <<peers, net, up, purged, table, locators, registry, pending,
                   sedp, queue, wiping, expired, matching>>

(* ParticipantInfo::refresh; an entry that is gone again is not put back.  *)
Refresh(t) ==
    LET p == msg[t].from IN
    /\ pc[t] = "refresh"
    /\ age' = [age EXCEPT ![p] = 0]
    /\ confirmed' = IF p \in db /\ born[p] >= Window
                    THEN confirmed \cup {p} ELSE confirmed
    /\ msg' = [msg EXCEPT ![t] = NoPacket]
    /\ Goto(t, "idle")
    /\ UNCHANGED <<peers, net, up, purged, db, born, locators, registry, pending,
                   sedp, queue, victims, wiping, expired, matching>>

(* The new entry, which replaces one that another thread put there, and,   *)
(* under the same lock, the route to the participant.                      *)
Insert(t) ==
    LET p == msg[t].from IN
    /\ pc[t] = "insert"
    /\ db' = db \cup {p}
    /\ confirmed' = confirmed \ {p}
    /\ age' = [age EXCEPT ![p] = 0]
    /\ born' = [born EXCEPT ![p] = 0]
    /\ locators' = locators \cup {p}
    /\ Goto(t, "drain")
    /\ UNCHANGED <<peers, net, up, purged, registry, pending, locals, expired,
                   matching>>

(* Mutant: the replay is off by one. *)
ReplayAgain(t, packets) ==
    \/ /\ packets = {}
       /\ queue' = [queue EXCEPT ![t] = {}]
       /\ Goto(t, IF sedp[t] = NoEndpoint THEN "idle" ELSE "known")
       /\ sedp' = [sedp EXCEPT ![t] = NoEndpoint]
    \/ \E a \in packets :
          /\ queue' = [queue EXCEPT ![t] = packets \ {a}]
          /\ sedp' = [sedp EXCEPT ![t] = a[2]]
          /\ Goto(t, "known")

(* The thread handles one of the packets next, or is done with them. *)
Replay(t, packets) ==
    \/ /\ packets = {}
       /\ queue' = [queue EXCEPT ![t] = {}]
       /\ sedp' = [sedp EXCEPT ![t] = NoEndpoint]
       /\ Goto(t, "idle")
    \/ \E a \in packets :
          /\ queue' = [queue EXCEPT ![t] = packets \ {a}]
          /\ sedp' = [sedp EXCEPT ![t] = a[2]]
          /\ Goto(t, "known")

(* replay_pending_sedp: what was buffered for the participant is taken out *)
(* of the buffer and then handled as if it arrived now.                    *)
Drain(t) ==
    LET buffered == {a \in pending : Owner(a[2]) = msg[t].from} IN
    /\ pc[t] = "drain"
    /\ pending' = pending \ buffered
    /\ Replay(t, buffered)
    /\ msg' = [msg EXCEPT ![t] = NoPacket]
    /\ UNCHANGED <<peers, net, up, purged, table, locators, registry, victims,
                   wiping, expired, matching>>

-----------------------------------------------------------------------------
(* handle_sedp. *)

ReceiveSedp(t, e) ==
    /\ pc[t] = "idle" /\ budget[e] > 0
    /\ budget' = [budget EXCEPT ![e] = @ - 1]
    /\ sedp' = [sedp EXCEPT ![t] = e]
    /\ Goto(t, "known")
    /\ UNCHANGED <<peer, net, up, purged, table, locators, registry, pending, msg,
                   queue, victims, wiping, expired, matching>>

(* The handler returns; a replay goes on with the next packet. *)
NextSedp(t) == Replay(t, queue[t])

Known(t) ==
    /\ pc[t] = "known"
    /\ Goto(t, IF Owner(sedp[t]) \in db THEN "enlist" ELSE "buffer")
    /\ UNCHANGED <<peers, net, up, purged, table, locators, registry, pending,
                   locals, expired, matching>>

Free == {n \in Places : \A a \in pending : a[1] # n}

(* The packet waits for the SPDP of its participant, if there is room.     *)
Buffer(t) ==
    /\ pc[t] = "buffer"
    /\ pending' = IF Free = {} THEN pending
                  ELSE pending \cup {<<CHOOSE n \in Free : TRUE, sedp[t]>>}
    /\ NextSedp(t)
    /\ UNCHANGED <<peers, net, up, purged, table, locators, registry, msg, victims,
                   wiping, expired, matching>>

(* TopicRegistry::insert; only a new endpoint is announced to the listeners. *)
Enlist(t) ==
    LET e == sedp[t] IN
    /\ pc[t] = "enlist"
    /\ registry' = registry \cup {e}
    /\ IF e \in registry
       THEN NextSedp(t)
       ELSE Goto(t, "notify") /\ UNCHANGED <<sedp, queue>>
    /\ UNCHANGED <<peers, net, up, purged, table, locators, pending, msg, victims,
                   wiping, expired, matching>>

-----------------------------------------------------------------------------
(* MatchNotificationRegistry. *)

(* The callbacks that have been made for a pair. *)
Reports == SUBSET {"match", "incompatible"}

(* The entries in the list: pushed, and not removed by their token. *)
Listed == {l \in Entries : reg[l] # "none"}

(* One look at a pair, by a path that accepts the QoS of agreeing: a match *)
(* is reported once, through matched_remotes, an incompatible QoS every    *)
(* time, and a partition that differs is not.                              *)
Fire(l, e, agreeing) ==
    fired[l][e] \cup (IF e[2] \in agreeing THEN {"match"}
                     ELSE IF e[2] \in Silent THEN {} ELSE {"incompatible"})

(* on_endpoint_discovered: every entry of the list, under its read lock;   *)
(* it infers the ownership from what the announcement leaves out.          *)
Notify(t) ==
    LET e == sedp[t] IN
    /\ pc[t] = "notify"
    /\ fired' = [l \in Entries |->
                   IF l \in Listed THEN [fired[l] EXCEPT ![e] = Fire(l, e, AgreeFound)]
                   ELSE fired[l]]
    /\ NextSedp(t)
    /\ UNCHANGED <<peers, net, up, purged, table, locators, registry, pending, msg,
                   victims, wiping, expired, reg, todo>>

(* register_writer, register_reader: the entry is pushed ...               *)
Register(l) ==
    /\ reg[l] = "none"
    /\ reg' = [reg EXCEPT ![l] = "scan"]
    /\ UNCHANGED <<peers, net, up, purged, table, locators, registry, pending, pc,
                   locals, expired, todo, fired>>

(* Mutant: a new entry does not catch up. *)
CatchUpSkipped(l) ==
    /\ reg[l] = "scan"
    /\ todo' = [todo EXCEPT ![l] = {}]
    /\ reg' = [reg EXCEPT ![l] = "walk"]
    /\ UNCHANGED <<peers, net, up, purged, table, locators, registry, pending, pc,
                   locals, expired, fired>>

(* ... and then catch_up copies the registry ...                           *)
CatchUpScan(l) ==
    /\ reg[l] = "scan"
    /\ todo' = [todo EXCEPT ![l] = registry]
    /\ reg' = [reg EXCEPT ![l] = "walk"]
    /\ UNCHANGED <<peers, net, up, purged, table, locators, registry, pending, pc,
                   locals, expired, fired>>

(* ... and looks at each endpoint of the copy.                             *)
CatchUpNotify(l, e) ==
    /\ reg[l] = "walk" /\ e \in todo[l]
    /\ todo' = [todo EXCEPT ![l] = @ \ {e}]
    /\ fired' = [fired EXCEPT ![l][e] = Fire(l, e, AgreeScanned)]
    /\ UNCHANGED <<peers, net, up, purged, table, locators, registry, pending, pc,
                   locals, expired, reg>>

(* The token is dropped with the local endpoint, and its entry with it;    *)
(* the next endpoint of that name starts with an entry of its own.         *)
Unregister(l) ==
    /\ reg[l] = "walk" /\ todo[l] = {}
    /\ reg' = [reg EXCEPT ![l] = "none"]
    /\ fired' = [fired EXCEPT ![l] = [e \in Endpoints |-> {}]]
    /\ UNCHANGED <<peers, net, up, purged, table, locators, registry, pending, pc,
                   locals, expired, todo>>

-----------------------------------------------------------------------------
(* Mutant: participants in probation do not expire. *)
CollectConfirmed ==
    /\ expired = {}
    /\ expired' = {p \in confirmed : age[p] > Lease}
    /\ expired' # {}
    /\ UNCHANGED <<peers, net, up, purged, table, locators, registry, pending, pc,
                   locals, matching>>

(* LeaseTracker::run_loop: the expired participants are collected under    *)
(* the read lock and removed, from the database alone, under the write     *)
(* lock.                                                                   *)
CollectExpired ==
    /\ expired = {}
    /\ expired' = {p \in db : age[p] > Lease}
    /\ expired' # {}
    /\ UNCHANGED <<peers, net, up, purged, table, locators, registry, pending, pc,
                   locals, matching>>

RemoveExpired ==
    /\ expired # {}
    /\ db' = db \ expired
    /\ confirmed' = confirmed \ expired
    /\ age' = [p \in Participants |-> IF p \in expired THEN 0 ELSE age[p]]
    /\ born' = [p \in Participants |-> IF p \in expired THEN 0 ELSE born[p]]
    /\ expired' = {}
    /\ UNCHANGED <<peers, net, up, purged, locators, registry, pending, pc, locals,
                   matching>>

Handle(t) ==
    \/ Purge(t) \/ Wipe(t) \/ Lookup(t) \/ Refresh(t) \/ Insert(t)
    \/ Drain(t) \/ Known(t) \/ Buffer(t) \/ Enlist(t) \/ Notify(t)
    \/ \E p \in Participants : Remove(t, p)

CatchUp(l) ==
    \/ CatchUpScan(l)
    \/ \E e \in Endpoints : CatchUpNotify(l, e)

Next ==
    \/ \E p \in Participants : Depart(p)
    \/ Tick \/ CollectExpired \/ RemoveExpired
    \/ \E t \in Threads : \/ Handle(t)
                          \/ \E m \in Packets : ReceiveSpdp(t, m)
                          \/ \E e \in Endpoints : ReceiveSedp(t, e)
    \/ \E l \in Entries : Register(l) \/ CatchUp(l) \/ Unregister(l)

(* Time passes and the lease tracker runs; no more is needed. *)
Fairness == WF_vars(Tick) /\ WF_vars(CollectExpired \/ RemoveExpired)

Spec == Init /\ [][Next]_vars
FairSpec == Spec /\ Fairness

-----------------------------------------------------------------------------
(* The properties. *)

Labels == {"idle", "purge", "remove", "wipe", "lookup", "refresh", "insert", "drain",
           "known", "buffer", "enlist", "notify"}

(* Type invariant.  A handler has a packet in hand where it needs one, and *)
(* a participant that is not in the database has no age.                   *)
TypeOK ==
    /\ peer \in [Participants -> {"up", "gone"}]
    /\ budget \in [Endpoints -> 0..MaxSedp]
    /\ net \subseteq Packets
    /\ up \in 0..PurgeAt /\ purged \in BOOLEAN
    /\ db \subseteq Participants /\ confirmed \subseteq db
    /\ age \in [Participants -> 0..(Lease + 1)]
    /\ born \in [Participants -> 0..Window]
    /\ \A p \in Participants \ db : age[p] = 0 /\ born[p] = 0
    /\ locators \subseteq Participants
    /\ registry \subseteq Endpoints
    /\ pending \subseteq Places \X Endpoints
    /\ \A a, b \in pending : a[1] = b[1] => a = b
    /\ pc \in [Threads -> Labels]
    /\ msg \in [Threads -> Packets \cup {NoPacket}]
    /\ \A t \in Threads :
         pc[t] \in {"purge", "lookup", "refresh", "insert", "drain"} => msg[t] # NoPacket
    /\ sedp \in [Threads -> Endpoints \cup {NoEndpoint}]
    /\ queue \in [Threads -> SUBSET (Places \X Endpoints)]
    /\ \A t \in Threads :
         pc[t] \in {"known", "buffer", "enlist", "notify"} => sedp[t] \in Endpoints
    /\ victims \in [Threads -> SUBSET Participants]
    /\ wiping \in [Threads -> SUBSET Participants]
    /\ expired \subseteq Participants
    /\ reg \in [Entries -> {"none", "scan", "walk"}]
    /\ todo \in [Entries -> SUBSET Endpoints]
    /\ fired \in [Entries -> [Endpoints -> Reports]]

(* The endpoint is between the registry and the listeners. *)
BeingNotified(e) == \E t \in Threads : pc[t] = "notify" /\ sedp[t] = e

(* The catch-up of the entry has the endpoint still before it. *)
BeforeCatchUp(l, e) == reg[l] = "scan" \/ (reg[l] = "walk" /\ e \in todo[l])

(* The pair has been reported: as a match when both paths accept it.       *)
Reported(l, e) ==
    /\ e[2] \in AgreeFound \cap AgreeScanned => "match" \in fired[l][e]
    /\ e[2] \in Silent \/ fired[l][e] # {}

(* No match is missed.  Whatever the order in which a remote endpoint is   *)
(* discovered, lost and discovered again and a local endpoint is created,  *)
(* every pair of a listed entry and a registered endpoint has been         *)
(* reported, or the thread that will report it is on its way               *)
(* (match_notification.rs register and catch_up, discovery.rs handle_sedp).*)
NoMissedMatch ==
    \A l \in Listed, e \in registry :
        Reported(l, e) \/ BeingNotified(e) \/ BeforeCatchUp(l, e)

(* A participant that is gone leaves the database for good: by its         *)
(* dispose, by its lease, and whatever copy of its SPDP is still about     *)
(* (lease.rs run_loop, discovery.rs handle_spdp).                          *)
GoneIsForgotten ==
    \A p \in Participants : peer[p] = "gone" ~> [](p \notin db)

-----------------------------------------------------------------------------
(* What the comments of the code say and the code does not do.             *)

Idle == (\A t \in Threads : pc[t] = "idle") /\ expired = {}

(* "Remove all endpoints for a participant.  Called when participant lease *)
(* expires." (fsm/registry.rs): no endpoint outlives its participant.      *)
EndpointsHaveParticipant == Idle => \A e \in registry : Owner(e) \in db

(* "Remove a participant and all its reader locators (on lease expiry)"    *)
(* (core/discovery/endpoints.rs), and only then: a known participant has   *)
(* its route.                                                              *)
RouteKept == Idle => \A p \in db : peer[p] = "up" => p \in locators

(* "Replay any SEDP that arrived before this SPDP (race condition fix)"    *)
(* (fsm/discovery.rs): none waits for a participant that is known.         *)
SedpReplayed == Idle => \A a \in pending : Owner(a[2]) \notin db

(* is_expired, when the entry is removed: the tracker removes no           *)
(* participant that has been heard within its lease.                       *)
FreshKept == [][RemoveExpired => \A p \in expired \cap db : age[p] > Lease]_vars

(* "current_count" of the match callbacks (dds/match_notification.rs): the *)
(* endpoints that are matched are still there.                             *)
MatchesAreThere ==
    \A l \in Listed, e \in Endpoints : "match" \in fired[l][e] => e \in registry

=============================================================================
