--------------------------- MODULE DiscoveryProofs ---------------------------
(***************************************************************************)
(* No match is missed, for any number of participants, endpoints, listener *)
(* threads and local entries.                                              *)
(*                                                                         *)
(* The second part is the same question inside one process: which of its   *)
(* endpoints the domain registry binds.                                    *)
(***************************************************************************)
EXTENDS Discovery, DomainRegistry, TLAPS

\* A packet names a participant and is not the absence of one.
LEMMA PacketType ==
    ASSUME NEW m \in Packets
    PROVE  m.from \in Participants /\ m # NoPacket
<1>1. PICK p \in Participants : m = Spdp(p) \/ m = Dispose(p)
  BY DEF Packets
<1> QED BY <1>1 DEF Spdp, Dispose, NoPacket

\* Where a handler of SPDP is at work, its packet names a participant.
LEMMA MessageType ==
    ASSUME TypeOK, NEW t \in Threads,
           pc[t] \in {"purge", "lookup", "refresh", "insert", "drain"}
    PROVE  msg[t] \in Packets /\ msg[t].from \in Participants
<1>1. msg[t] \in Packets
  BY DEF TypeOK
<1> QED BY <1>1, PacketType

\* What the step to the next packet of a replay leaves of the handler's types.
HandlerType(t) ==
    /\ pc' \in [Threads -> Labels] /\ pc'[t] \in {"idle", "known"}
    /\ \A u \in Threads \ {t} : pc'[u] = pc[u] /\ sedp'[u] = sedp[u]
    /\ sedp' \in [Threads -> Endpoints \cup {NoEndpoint}]
    /\ queue' \in [Threads -> SUBSET (Places \X Endpoints)]
    /\ pc'[t] = "known" => sedp'[t] \in Endpoints

LEMMA ReplayType ==
    ASSUME TypeOK, NEW t \in Threads, NEW packets \in SUBSET (Places \X Endpoints),
           Replay(t, packets)
    PROVE  HandlerType(t)
<1>1. CASE packets = {} /\ queue' = [queue EXCEPT ![t] = {}]
           /\ sedp' = [sedp EXCEPT ![t] = NoEndpoint] /\ Goto(t, "idle")
  BY <1>1 DEF TypeOK, Goto, HandlerType, Labels
<1>2. ASSUME NEW a \in packets,
             queue' = [queue EXCEPT ![t] = packets \ {a}],
             sedp' = [sedp EXCEPT ![t] = a[2]], Goto(t, "known")
      PROVE  HandlerType(t)
  <2>1. a[2] \in Endpoints
    OBVIOUS
  <2> QED BY <1>2, <2>1 DEF TypeOK, Goto, HandlerType, Labels
<1> QED BY <1>1, <1>2 DEF Replay

LEMMA NextSedpType ==
    ASSUME TypeOK, NEW t \in Threads, NextSedp(t)
    PROVE  HandlerType(t)
<1>1. queue[t] \in SUBSET (Places \X Endpoints)
  BY DEF TypeOK
<1> QED BY <1>1, ReplayType DEF NextSedp

\* Looking at a pair, by either path, leaves it reported.
LEMMA FireReports ==
    ASSUME TypeOK, NEW l \in Entries, NEW e \in Endpoints,
           NEW agreeing, agreeing = AgreeFound \/ agreeing = AgreeScanned
    PROVE  /\ Fire(l, e, agreeing) \in Reports
           /\ e[2] \in AgreeFound \cap AgreeScanned => "match" \in Fire(l, e, agreeing)
           /\ e[2] \in Silent \/ Fire(l, e, agreeing) # {}
<1>1. fired[l][e] \in Reports
  BY DEF TypeOK
<1> QED BY <1>1 DEF Fire, Reports

-----------------------------------------------------------------------------
(* Types. *)

LEMMA TypeInit == Init => TypeOK
<1> SUFFICES ASSUME Init PROVE TypeOK
  OBVIOUS
<1>0. {} \in Reports
  BY DEF Reports
<1>1. /\ fired \in [Entries -> [Endpoints -> Reports]]
      /\ budget \in [Endpoints -> 0..MaxSedp] /\ up \in 0..PurgeAt
      /\ age \in [Participants -> 0..(Lease + 1)] /\ born \in [Participants -> 0..Window]
  BY <1>0, DiscoveryAssumption DEF Init
<1> QED BY <1>1 DEF Init, TypeOK, Labels

LEMMA TypeNext ==
    ASSUME TypeOK, [Next]_vars
    PROVE  TypeOK'
<1> USE DiscoveryAssumption
<1>1. CASE UNCHANGED vars
  BY <1>1 DEF TypeOK, vars, peers, table, locals, matching
<1>2. ASSUME NEW p \in Participants, Depart(p) PROVE TypeOK'
  BY <1>2 DEF TypeOK, Depart, Packets, table, locals, matching
<1>3. CASE Tick
  BY <1>3 DEF TypeOK, Tick, peers, locals, matching
<1>4. CASE CollectExpired
  BY <1>4 DEF TypeOK, CollectExpired, peers, table, locals, matching
<1>5. CASE RemoveExpired
  BY <1>5 DEF TypeOK, RemoveExpired, peers, locals, matching
<1>6. ASSUME NEW t \in Threads, NEW m \in Packets, ReceiveSpdp(t, m) PROVE TypeOK'
  BY <1>6, PacketType DEF TypeOK, ReceiveSpdp, Goto, Labels, peers, table, matching
<1>7. ASSUME NEW t \in Threads, NEW e \in Endpoints, ReceiveSedp(t, e) PROVE TypeOK'
  BY <1>7 DEF TypeOK, ReceiveSedp, Goto, Labels, table, matching
<1>8. ASSUME NEW t \in Threads, Purge(t) PROVE TypeOK'
  BY <1>8 DEF TypeOK, Purge, Goto, Labels, peers, table, matching
<1>9. ASSUME NEW t \in Threads, NEW p \in Participants, Remove(t, p) PROVE TypeOK'
  BY <1>9 DEF TypeOK, Remove, Forget, Resume, Goto, Labels, peers, matching
<1>10. ASSUME NEW t \in Threads, Wipe(t) PROVE TypeOK'
  BY <1>10 DEF TypeOK, Wipe, Resume, Goto, Labels, peers, table, matching
<1>11. ASSUME NEW t \in Threads, Lookup(t) PROVE TypeOK'
  <2>1. msg[t] \in Packets /\ msg[t].from \in Participants
    BY <1>11, MessageType DEF Lookup
  <2>2. CASE msg[t].kind = "dispose"
    <3>0. /\ victims' = [victims EXCEPT ![t] = {msg[t].from}]
          /\ msg' = [msg EXCEPT ![t] = NoPacket]
          /\ pc' = [pc EXCEPT ![t] = "remove"]
      BY <1>11, <2>2 DEF Lookup, Goto
    <3>1. /\ victims' \in [Threads -> SUBSET Participants]
          /\ msg' \in [Threads -> Packets \cup {NoPacket}]
          /\ pc' \in [Threads -> Labels]
          /\ pc'[t] = "remove"
          /\ \A u \in Threads \ {t} : pc'[u] = pc[u] /\ msg'[u] = msg[u]
      BY <2>1, <3>0 DEF TypeOK, Labels
    <3> QED BY <1>11, <3>1 DEF TypeOK, Lookup, peers, table, matching
  <2>3. CASE msg[t].kind = "spdp"
    BY <1>11, <2>1, <2>3 DEF TypeOK, Lookup, Goto, Labels, peers, table, matching
  <2> QED BY <1>11, <2>2, <2>3 DEF Lookup
<1>12. ASSUME NEW t \in Threads, Refresh(t) PROVE TypeOK'
  BY <1>12, MessageType DEF TypeOK, Refresh, Goto, Labels, peers, matching
<1>13. ASSUME NEW t \in Threads, Insert(t) PROVE TypeOK'
  BY <1>13, MessageType DEF TypeOK, Insert, Goto, Labels, peers, locals, matching
<1>14. ASSUME NEW t \in Threads, Drain(t) PROVE TypeOK'
  <2> DEFINE buffered == {a \in pending : Owner(a[2]) = msg[t].from}
  <2>1. buffered \in SUBSET (Places \X Endpoints) /\ Replay(t, buffered)
    BY <1>14 DEF Drain, TypeOK
  <2> HIDE DEF buffered
  <2>2. HandlerType(t)
    BY <2>1, ReplayType
  <2>3. /\ pending' \subseteq pending
        /\ msg' \in [Threads -> Packets \cup {NoPacket}]
        /\ \A u \in Threads \ {t} : msg'[u] = msg[u]
    BY <1>14 DEF TypeOK, Drain
  <2> QED BY <1>14, <2>2, <2>3 DEF TypeOK, Drain, HandlerType, peers, table, matching
<1>15. ASSUME NEW t \in Threads, Known(t) PROVE TypeOK'
  BY <1>15 DEF TypeOK, Known, Goto, Labels, peers, table, locals, matching
<1>16. ASSUME NEW t \in Threads, NextSedp(t), UNCHANGED msg
       PROVE  \A u \in Threads :
                /\ pc'[u] \in {"purge", "lookup", "refresh", "insert", "drain"} => msg'[u] # NoPacket
                /\ pc'[u] \in {"known", "buffer", "enlist", "notify"} => sedp'[u] \in Endpoints
  BY <1>16, NextSedpType DEF HandlerType, TypeOK
<1>17. ASSUME NEW t \in Threads, Buffer(t) PROVE TypeOK'
  <2>1. /\ pending' \subseteq Places \X Endpoints
        /\ \A a, b \in pending' : a[1] = b[1] => a = b
    <3>1. CASE Free = {}
      BY <1>17, <3>1 DEF Buffer, TypeOK
    <3>2. CASE Free # {}
      <4> DEFINE n == CHOOSE k \in Free : TRUE
      <4>1. n \in Free
        BY <3>2
      <4> HIDE DEF n
      <4>2. n \in Places /\ \A a \in pending : a[1] # n
        BY <4>1 DEF Free
      <4>3. pending' = pending \cup {<<n, sedp[t]>>} /\ sedp[t] \in Endpoints
        BY <1>17, <3>2 DEF Buffer, TypeOK, n
      <4> QED BY <4>2, <4>3 DEF TypeOK
    <3> QED BY <3>1, <3>2
  <2>2. NextSedp(t)
    BY <1>17 DEF Buffer
  <2> QED BY <1>16, <1>17, <2>1, <2>2, NextSedpType DEF TypeOK, Buffer, HandlerType, peers, table, matching
<1>18. ASSUME NEW t \in Threads, Enlist(t) PROVE TypeOK'
  <2>1. sedp[t] \in Endpoints
    BY <1>18 DEF TypeOK, Enlist
  <2>2. CASE sedp[t] \in registry
    <3>1. NextSedp(t)
      BY <1>18, <2>2 DEF Enlist
    <3> QED BY <1>16, <1>18, <2>1, <3>1, NextSedpType DEF TypeOK, Enlist, HandlerType, peers, table, matching
  <2>3. CASE sedp[t] \notin registry
    BY <1>18, <2>1, <2>3 DEF TypeOK, Enlist, Goto, Labels, peers, table, matching
  <2> QED BY <2>2, <2>3
<1>19. ASSUME NEW t \in Threads, Notify(t) PROVE TypeOK'
  <2>1. sedp[t] \in Endpoints
    BY <1>19 DEF TypeOK, Notify
  <2>2. fired' \in [Entries -> [Endpoints -> Reports]]
    BY <1>19, <2>1, FireReports DEF TypeOK, Notify
  <2>3. NextSedp(t)
    BY <1>19 DEF Notify
  <2> QED BY <1>16, <1>19, <2>2, <2>3, NextSedpType DEF TypeOK, Notify, HandlerType, peers, table, matching
<1>20. ASSUME NEW l \in Entries, Register(l) PROVE TypeOK'
  BY <1>20 DEF TypeOK, Register, peers, table, locals, matching
<1>21. ASSUME NEW l \in Entries, CatchUpScan(l) PROVE TypeOK'
  BY <1>21 DEF TypeOK, CatchUpScan, peers, table, locals, matching
<1>22. ASSUME NEW l \in Entries, NEW e \in Endpoints, CatchUpNotify(l, e) PROVE TypeOK'
  BY <1>22, FireReports DEF TypeOK, CatchUpNotify, peers, table, locals, matching
<1>23. ASSUME NEW l \in Entries, Unregister(l) PROVE TypeOK'
  BY <1>23 DEF Reports, TypeOK, Unregister, peers, table, locals, matching
<1> QED
  BY <1>1, <1>2, <1>3, <1>4, <1>5, <1>6, <1>7, <1>8, <1>9, <1>10, <1>11, <1>12, <1>13,
     <1>14, <1>15, <1>17, <1>18, <1>19, <1>20, <1>21, <1>22, <1>23
     DEF Next, Handle, CatchUp

-----------------------------------------------------------------------------
(* The inductive invariant: a pair is reported, or a thread will report it. *)

IInv == TypeOK /\ NoMissedMatch

\* A step that leaves the listeners, the list, the catch-ups and what is
\* reported alone, and adds nothing to the registry, misses no match.
LEMMA MatchUntouched ==
    ASSUME NoMissedMatch, registry' \subseteq registry,
           UNCHANGED <<reg, todo, fired>>,
           \A t \in Threads : pc[t] = "notify" => pc'[t] = pc[t] /\ sedp'[t] = sedp[t]
    PROVE  NoMissedMatch'
<1> SUFFICES ASSUME NEW l \in Listed', NEW e \in registry'
             PROVE  (Reported(l, e) \/ BeingNotified(e) \/ BeforeCatchUp(l, e))'
  BY DEF NoMissedMatch
<1>1. l \in Listed /\ e \in registry
  BY DEF Listed
<1>2. Reported(l, e) \/ BeingNotified(e) \/ BeforeCatchUp(l, e)
  BY <1>1 DEF NoMissedMatch
<1>3. BeingNotified(e) => BeingNotified(e)'
  BY DEF BeingNotified
<1> QED BY <1>2, <1>3 DEF Reported, BeforeCatchUp

LEMMA MatchInit == Init => NoMissedMatch
BY DEF Init, NoMissedMatch, Listed

LEMMA MatchNext ==
    ASSUME IInv, [Next]_vars
    PROVE  NoMissedMatch'
<1> USE DEF IInv
<1>1. CASE UNCHANGED vars
  BY <1>1, MatchUntouched DEF vars, locals, matching
<1>2. ASSUME NEW p \in Participants, Depart(p) PROVE NoMissedMatch'
  BY <1>2, MatchUntouched DEF Depart, locals, matching
<1>3. CASE Tick \/ CollectExpired \/ RemoveExpired
  BY <1>3, MatchUntouched DEF Tick, CollectExpired, RemoveExpired, locals, matching
<1>4. ASSUME NEW t \in Threads, NEW m \in Packets, ReceiveSpdp(t, m) PROVE NoMissedMatch'
  BY <1>4, MatchUntouched DEF ReceiveSpdp, Goto, TypeOK, matching
<1>5. ASSUME NEW t \in Threads, NEW e \in Endpoints, ReceiveSedp(t, e) PROVE NoMissedMatch'
  BY <1>5, MatchUntouched DEF ReceiveSedp, Goto, TypeOK, matching
<1>6. ASSUME NEW t \in Threads, Purge(t) \/ Lookup(t) \/ Refresh(t) PROVE NoMissedMatch'
  BY <1>6, MatchUntouched DEF Purge, Lookup, Refresh, Goto, TypeOK, matching
<1>7. ASSUME NEW t \in Threads, Insert(t) \/ Known(t) PROVE NoMissedMatch'
  BY <1>7, MatchUntouched DEF Insert, Known, Goto, TypeOK, locals, matching
<1>8. ASSUME NEW t \in Threads, NEW p \in Participants, Remove(t, p) PROVE NoMissedMatch'
  BY <1>8, MatchUntouched DEF Remove, Resume, Goto, TypeOK, matching
<1>9. ASSUME NEW t \in Threads, Wipe(t) PROVE NoMissedMatch'
  BY <1>9, MatchUntouched DEF Wipe, Resume, Goto, TypeOK, matching
<1>10. ASSUME NEW t \in Threads, Drain(t) PROVE NoMissedMatch'
  <2> DEFINE buffered == {a \in pending : Owner(a[2]) = msg[t].from}
  <2>1. buffered \in SUBSET (Places \X Endpoints) /\ Replay(t, buffered)
    BY <1>10 DEF Drain, TypeOK
  <2> HIDE DEF buffered
  <2>2. HandlerType(t)
    BY <2>1, ReplayType
  <2> QED BY <1>10, <2>2, MatchUntouched DEF Drain, HandlerType, matching
<1>11. ASSUME NEW t \in Threads, Buffer(t) PROVE NoMissedMatch'
  <2>1. HandlerType(t)
    BY <1>11, NextSedpType DEF Buffer
  <2> QED BY <1>11, <2>1, MatchUntouched DEF Buffer, HandlerType, matching
<1>12. ASSUME NEW t \in Threads, Enlist(t) PROVE NoMissedMatch'
  <2>1. CASE sedp[t] \in registry
    <3>1. HandlerType(t)
      BY <1>12, <2>1, NextSedpType DEF Enlist
    <3> QED BY <1>12, <2>1, <3>1, MatchUntouched DEF Enlist, HandlerType, matching
  <2>2. CASE sedp[t] \notin registry
    <3> SUFFICES ASSUME NEW l \in Listed', NEW e \in registry'
                 PROVE  (Reported(l, e) \/ BeingNotified(e) \/ BeforeCatchUp(l, e))'
      BY DEF NoMissedMatch
    <3>1. /\ pc' = [pc EXCEPT ![t] = "notify"] /\ registry' = registry \cup {sedp[t]}
          /\ UNCHANGED <<sedp, reg, todo, fired>> /\ pc[t] = "enlist"
      BY <1>12, <2>2 DEF Enlist, Goto, matching
    <3>2. CASE e = sedp[t]
      BY <3>1, <3>2 DEF BeingNotified, TypeOK
    <3>3. CASE e \in registry
      <4>1. Reported(l, e) \/ BeingNotified(e) \/ BeforeCatchUp(l, e)
        BY <3>1, <3>3 DEF NoMissedMatch, Listed
      <4>2. BeingNotified(e) => BeingNotified(e)'
        BY <3>1 DEF BeingNotified, TypeOK
      <4> QED BY <3>1, <4>1, <4>2 DEF Reported, BeforeCatchUp
    <3> QED BY <3>1, <3>2, <3>3
  <2> QED BY <2>1, <2>2
<1>13. ASSUME NEW t \in Threads, Notify(t) PROVE NoMissedMatch'
  <2> SUFFICES ASSUME NEW l \in Listed', NEW e \in registry'
               PROVE  (Reported(l, e) \/ BeingNotified(e) \/ BeforeCatchUp(l, e))'
    BY DEF NoMissedMatch
  <2>1. HandlerType(t)
    BY <1>13, NextSedpType DEF Notify
  <2>2. l \in Listed /\ l \in Entries /\ e \in registry /\ e \in Endpoints
    BY <1>13 DEF Notify, Listed, TypeOK
  <2>3. CASE e = sedp[t]
    <3>1. fired'[l][e] = Fire(l, e, AgreeFound)
      BY <1>13, <2>2, <2>3 DEF Notify, TypeOK
    <3> QED BY <2>2, <3>1, FireReports DEF Reported
  <2>4. CASE e # sedp[t]
    <3>1. fired'[l][e] = fired[l][e]
      BY <1>13, <2>2, <2>4 DEF Notify, TypeOK
    <3>2. BeingNotified(e) => BeingNotified(e)'
      BY <2>1, <2>4 DEF BeingNotified, HandlerType
    <3>3. Reported(l, e) \/ BeingNotified(e) \/ BeforeCatchUp(l, e)
      BY <2>2 DEF NoMissedMatch
    <3> QED BY <1>13, <3>1, <3>2, <3>3 DEF Reported, BeforeCatchUp, Notify
  <2> QED BY <2>3, <2>4
<1>14. ASSUME NEW k \in Entries, Register(k) PROVE NoMissedMatch'
  <2> SUFFICES ASSUME NEW l \in Listed', NEW e \in registry'
               PROVE  (Reported(l, e) \/ BeingNotified(e) \/ BeforeCatchUp(l, e))'
    BY DEF NoMissedMatch
  <2>1. CASE l = k
    BY <1>14, <2>1 DEF Register, BeforeCatchUp, TypeOK
  <2>2. CASE l # k
    <3>1. Reported(l, e) \/ BeingNotified(e) \/ BeforeCatchUp(l, e)
      BY <1>14, <2>2 DEF NoMissedMatch, Register, Listed, TypeOK
    <3>2. BeingNotified(e) => BeingNotified(e)'
      BY <1>14 DEF BeingNotified, Register, locals
    <3> QED BY <1>14, <2>2, <3>1, <3>2 DEF Reported, BeforeCatchUp, Register, Listed, TypeOK
  <2> QED BY <2>1, <2>2
<1>15. ASSUME NEW k \in Entries, CatchUpScan(k) PROVE NoMissedMatch'
  <2> SUFFICES ASSUME NEW l \in Listed', NEW e \in registry'
               PROVE  (Reported(l, e) \/ BeingNotified(e) \/ BeforeCatchUp(l, e))'
    BY DEF NoMissedMatch
  <2>1. CASE l = k
    BY <1>15, <2>1 DEF CatchUpScan, BeforeCatchUp, TypeOK
  <2>2. CASE l # k
    <3>1. Reported(l, e) \/ BeingNotified(e) \/ BeforeCatchUp(l, e)
      BY <1>15, <2>2 DEF NoMissedMatch, CatchUpScan, Listed, TypeOK
    <3>2. BeingNotified(e) => BeingNotified(e)'
      BY <1>15 DEF BeingNotified, CatchUpScan, locals
    <3> QED BY <1>15, <2>2, <3>1, <3>2 DEF Reported, BeforeCatchUp, CatchUpScan, Listed, TypeOK
  <2> QED BY <2>1, <2>2
<1>16. ASSUME NEW k \in Entries, NEW x \in Endpoints, CatchUpNotify(k, x) PROVE NoMissedMatch'
  <2> SUFFICES ASSUME NEW l \in Listed', NEW e \in registry'
               PROVE  (Reported(l, e) \/ BeingNotified(e) \/ BeforeCatchUp(l, e))'
    BY DEF NoMissedMatch
  <2>1. l \in Listed /\ l \in Entries /\ e \in registry /\ e \in Endpoints
    BY <1>16 DEF CatchUpNotify, Listed, TypeOK
  <2>2. CASE l = k /\ e = x
    <3>1. fired'[l][e] = Fire(l, e, AgreeScanned)
      BY <1>16, <2>1, <2>2 DEF CatchUpNotify, TypeOK
    <3> QED BY <2>1, <3>1, FireReports DEF Reported
  <2>3. CASE ~(l = k /\ e = x)
    <3>1. fired'[l][e] = fired[l][e]
      BY <1>16, <2>1, <2>3 DEF CatchUpNotify, TypeOK
    <3>2. BeingNotified(e) => BeingNotified(e)'
      BY <1>16 DEF BeingNotified, CatchUpNotify, locals
    <3>3. BeforeCatchUp(l, e) => BeforeCatchUp(l, e)'
      BY <1>16, <2>1, <2>3 DEF BeforeCatchUp, CatchUpNotify, TypeOK
    <3>4. Reported(l, e) \/ BeingNotified(e) \/ BeforeCatchUp(l, e)
      BY <2>1 DEF NoMissedMatch
    <3> QED BY <3>1, <3>2, <3>3, <3>4 DEF Reported
  <2> QED BY <2>2, <2>3
<1>17. ASSUME NEW k \in Entries, Unregister(k) PROVE NoMissedMatch'
  <2> SUFFICES ASSUME NEW l \in Listed', NEW e \in registry'
               PROVE  (Reported(l, e) \/ BeingNotified(e) \/ BeforeCatchUp(l, e))'
    BY DEF NoMissedMatch
  <2>1. l # k /\ l \in Listed /\ e \in registry
    BY <1>17 DEF Unregister, Listed, TypeOK
  <2>2. Reported(l, e) \/ BeingNotified(e) \/ BeforeCatchUp(l, e)
    BY <2>1 DEF NoMissedMatch
  <2>3. BeingNotified(e) => BeingNotified(e)'
    BY <1>17 DEF BeingNotified, Unregister, locals
  <2> QED BY <1>17, <2>1, <2>2, <2>3 DEF Reported, BeforeCatchUp, Unregister, Listed, TypeOK
<1> QED
  BY <1>1, <1>2, <1>3, <1>4, <1>5, <1>6, <1>7, <1>8, <1>9, <1>10, <1>11, <1>12, <1>13,
     <1>14, <1>15, <1>16, <1>17 DEF Next, Handle, CatchUp

\* The handlers, the lease tracker and the registrations keep the types, and
\* every pair of a listed local entry and a registered remote endpoint has been
\* reported or is about to be (on_endpoint_discovered, register, catch_up), in
\* any interleaving of any number of threads.
THEOREM MatchesReported == Spec => [](TypeOK /\ NoMissedMatch)
<1>1. Init => IInv
  BY TypeInit, MatchInit DEF IInv
<1>2. IInv /\ [Next]_vars => IInv'
  BY TypeNext, MatchNext DEF IInv
<1> QED BY <1>1, <1>2, PTL DEF Spec, IInv

-----------------------------------------------------------------------------
(***************************************************************************)
(* Who is bound to whom (module DomainRegistry).                           *)
(*                                                                         *)
(* For any number of readers and writers, in whatever order they come and  *)
(* go.  Readers share GUID::zero(), and deregistration goes by GUID: what  *)
(* the registry holds is the existing endpoints that no drop of a namesake *)
(* has taken out since, and that is what the next registration finds.      *)
(***************************************************************************)
\* The order of registrations and drops: every event has its own number.
OrderInv ==
    /\ \A e \in created : since[e] > 0
    /\ \A e, d \in created : since[e] = since[d] => e = d
    /\ \A e \in Endpoint \ created : until[e] = 0
    /\ \A e \in alive : until[e] = 0

\* What the registry holds.
EntriesKept == \A e \in alive : e \in entries <=> ~TakenOut(e, clock)

\* A merger holds readers that were created; a new one is in none yet.
OnlyCreated == \A w \in Writer : readers[w] \subseteq created

\* The inductive invariant.
RegistryInv ==
    /\ RegistryTypeOK
    /\ OrderInv
    /\ EntriesKept
    /\ OnlyCreated
    /\ BoundUnlessTakenOut

\* DomainState::new establishes the invariant.
LEMMA InitRegistryInv == RegistryInit => RegistryInv
BY DEF RegistryInit, RegistryTypeOK, BoundUnlessTakenOut, Endpoint,
       RegistryInv, OrderInv, EntriesKept, OnlyCreated

\* A registration numbers the new endpoint after everything that has happened:
\* nothing has taken it out, and the others stand as they did.
LEMMA CreateKeeps ==
    ASSUME RegistryInv, NEW e \in Endpoint, Create(e)
    PROVE  /\ OrderInv'
           /\ EntriesKept'
           /\ \A x \in created : since'[x] = since[x] /\ since'[x] < since'[e]
           /\ \A x \in created : TakenOut(x, since[e])' <=> TakenOut(x, clock)
           /\ \A x \in created, y \in created :
                TakenOut(x, since[y])' <=> TakenOut(x, since[y])
<1> USE DEF RegistryInv, RegistryTypeOK
<1>1. /\ e \notin created /\ created' = created \cup {e} /\ alive' = alive \cup {e}
      /\ entries' = entries \cup {e} /\ clock' = clock + 1 /\ until' = until
      /\ since' = [since EXCEPT ![e] = clock + 1]
  BY DEF Create
<1>2. \A x \in created : since'[x] = since[x] /\ since[x] \in 0..clock
  BY <1>1
<1>3. since'[e] = clock + 1
  BY <1>1
<1>4. \A d \in Endpoint : until[d] \in 0..clock
  OBVIOUS
<1>5. OrderInv'
  BY <1>1, <1>2, <1>3 DEF OrderInv
<1>6. \A x \in created : TakenOut(x, since[e])' <=> TakenOut(x, clock)
  BY <1>1, <1>2, <1>3, <1>4 DEF TakenOut
<1>7. \A x \in created, y \in created :
        TakenOut(x, since[y])' <=> TakenOut(x, since[y])
  BY <1>1, <1>2 DEF TakenOut
<1>8. ~TakenOut(e, clock)'
  BY <1>1, <1>3, <1>4 DEF TakenOut
<1>9. \A x \in created : TakenOut(x, clock)' <=> TakenOut(x, clock)
  BY <1>1, <1>2, <1>4 DEF TakenOut
<1>10. EntriesKept'
  BY <1>1, <1>8, <1>9 DEF EntriesKept
<1> QED
  BY <1>2, <1>3, <1>5, <1>6, <1>7, <1>10

\* register_writer, register_reader and unregister keep the invariant.
LEMMA StepRegistryInv ==
    ASSUME RegistryInv, [RegistryNext]_registryVars
    PROVE  RegistryInv'
<1>1. ASSUME NEW w \in Writer, RegisterWriter(w)
      PROVE  RegistryInv'
  <2>0. Create(w) /\ w \in Endpoint /\ w \notin Reader
    BY <1>1, EndpointAssumption DEF RegisterWriter, Endpoint
  <2>1. /\ w \notin created /\ created' = created \cup {w} /\ alive' = alive \cup {w}
        /\ entries' = entries \cup {w} /\ clock' = clock + 1 /\ until' = until
        /\ since' = [since EXCEPT ![w] = clock + 1]
    BY <2>0 DEF Create
  <2>2. readers' = [readers EXCEPT ![w] =
                      {r \in entries \cap Reader : QosCompatible(w, r)}]
    BY <1>1 DEF RegisterWriter
  <2>3. RegistryTypeOK' /\ OnlyCreated'
    BY <2>0, <2>1, <2>2 DEF RegistryInv, RegistryTypeOK, OnlyCreated
  <2>4. BoundUnlessTakenOut'
    <3> SUFFICES ASSUME NEW v \in alive' \cap Writer, NEW r \in alive' \cap Reader
                 PROVE  r \in readers'[v] <=> QosCompatible(v, r) /\ ~MissedEachOther(v, r)'
      BY DEF BoundUnlessTakenOut, QosCompatible
    <3>1. r \in alive /\ r \in created /\ r # w
      BY <2>0, <2>1 DEF RegistryInv, RegistryTypeOK
    <3>2. CASE v = w
      <4>1. since'[r] < since'[w] /\ since'[r] \in Nat /\ since'[w] \in Nat
        BY <2>0, <2>3, <3>1, CreateKeeps DEF RegistryTypeOK, RegistryInv
      <4>2. MissedEachOther(w, r)' <=> TakenOut(r, since[w])'
        BY <4>1 DEF MissedEachOther
      <4>3. MissedEachOther(w, r)' <=> r \notin entries
        BY <2>0, <3>1, <4>2, CreateKeeps DEF RegistryInv, EntriesKept
      <4> QED BY <2>2, <3>2, <4>3 DEF RegistryInv, RegistryTypeOK
    <3>3. CASE v # w
      <4>1. v \in alive /\ v \in created /\ readers'[v] = readers[v]
        BY <2>1, <2>2, <3>3 DEF RegistryInv, RegistryTypeOK
      <4>2. since'[v] = since[v] /\ since'[r] = since[r]
        BY <2>0, <3>1, <4>1, CreateKeeps
      <4>3. MissedEachOther(v, r)' <=> MissedEachOther(v, r)
        BY <2>0, <3>1, <4>1, <4>2, CreateKeeps DEF MissedEachOther
      <4> QED BY <3>1, <4>1, <4>3 DEF RegistryInv, BoundUnlessTakenOut
    <3> QED BY <3>2, <3>3
  <2> QED
    BY <2>0, <2>3, <2>4, CreateKeeps DEF RegistryInv
<1>2. ASSUME NEW r \in Reader, RegisterReader(r)
      PROVE  RegistryInv'
  <2>0. Create(r) /\ r \in Endpoint /\ r \notin Writer
    BY <1>2, EndpointAssumption DEF RegisterReader, Endpoint
  <2>1. /\ r \notin created /\ created' = created \cup {r} /\ alive' = alive \cup {r}
        /\ entries' = entries \cup {r} /\ clock' = clock + 1 /\ until' = until
        /\ since' = [since EXCEPT ![r] = clock + 1]
    BY <2>0 DEF Create
  <2>2. readers' = [w \in Writer |->
                      IF w \in entries /\ QosCompatible(w, r)
                      THEN readers[w] \cup {r} ELSE readers[w]]
    BY <1>2 DEF RegisterReader
  <2>3. RegistryTypeOK' /\ OnlyCreated'
    BY <2>0, <2>1, <2>2 DEF RegistryInv, RegistryTypeOK, OnlyCreated
  <2>4. BoundUnlessTakenOut'
    <3> SUFFICES ASSUME NEW v \in alive' \cap Writer, NEW q \in alive' \cap Reader
                 PROVE  q \in readers'[v] <=> QosCompatible(v, q) /\ ~MissedEachOther(v, q)'
      BY DEF BoundUnlessTakenOut, QosCompatible
    <3>1. v \in alive /\ v \in created /\ v # r
      BY <2>0, <2>1 DEF RegistryInv, RegistryTypeOK
    <3>2. CASE q = r
      <4>1. since'[v] < since'[r]
        BY <2>0, <3>1, CreateKeeps
      <4>2. MissedEachOther(v, r)' <=> TakenOut(v, since[r])'
        BY <4>1 DEF MissedEachOther
      <4>3. MissedEachOther(v, r)' <=> v \notin entries
        BY <2>0, <3>1, <4>2, CreateKeeps DEF RegistryInv, EntriesKept
      <4>4. r \notin readers[v]
        BY <2>1 DEF RegistryInv, OnlyCreated
      <4> QED BY <2>2, <3>2, <4>3, <4>4
    <3>3. CASE q # r
      <4>1. q \in alive /\ q \in created /\ (q \in readers'[v] <=> q \in readers[v])
        BY <2>1, <2>2, <3>3 DEF RegistryInv, RegistryTypeOK
      <4>2. since'[v] = since[v] /\ since'[q] = since[q]
        BY <2>0, <3>1, <4>1, CreateKeeps
      <4>3. MissedEachOther(v, q)' <=> MissedEachOther(v, q)
        BY <2>0, <3>1, <4>1, <4>2, CreateKeeps DEF MissedEachOther
      <4> QED BY <3>1, <4>1, <4>3 DEF RegistryInv, BoundUnlessTakenOut
    <3> QED BY <3>2, <3>3
  <2> QED
    BY <2>0, <2>3, <2>4, CreateKeeps DEF RegistryInv
<1>3. ASSUME NEW e \in Endpoint, DropToken(e)
      PROVE  RegistryInv'
  <2>1. /\ e \in alive /\ alive' = alive \ {e} /\ created' = created
        /\ entries' = {x \in entries : Guid(x) # Guid(e)}
        /\ readers' = [w \in Writer |-> IF w = e THEN {} ELSE readers[w]]
        /\ clock' = clock + 1 /\ since' = since
        /\ until' = [until EXCEPT ![e] = clock + 1]
    BY <1>3 DEF DropToken
  <2>2. RegistryTypeOK' /\ OnlyCreated' /\ OrderInv'
    BY <2>1 DEF RegistryInv, RegistryTypeOK, OnlyCreated, OrderInv
  <2>3. /\ until[e] = 0 /\ until'[e] = clock + 1
        /\ \A d \in Endpoint \ {e} : until'[d] = until[d] /\ until[d] \in 0..clock
        /\ \A x \in Endpoint : since[x] \in 0..clock
    BY <2>1 DEF RegistryInv, OrderInv, RegistryTypeOK
  <2>4. ASSUME NEW x \in alive'
        PROVE  TakenOut(x, clock)' <=> TakenOut(x, clock) \/ Guid(e) = Guid(x)
    <3>1. x \in Endpoint /\ x # e /\ clock \in Nat
      BY <2>1 DEF RegistryInv, RegistryTypeOK
    <3> QED BY <2>1, <2>3, <3>1 DEF TakenOut
  <2>5. EntriesKept'
    BY <2>1, <2>4 DEF RegistryInv, EntriesKept, RegistryTypeOK
  <2>6. ASSUME NEW x \in Endpoint, NEW y \in Endpoint
        PROVE  TakenOut(x, since[y])' <=> TakenOut(x, since[y])
    <3>1. clock \in Nat
      BY DEF RegistryInv, RegistryTypeOK
    <3> QED BY <2>1, <2>3, <3>1 DEF TakenOut
  <2>7. BoundUnlessTakenOut'
    <3> SUFFICES ASSUME NEW v \in alive' \cap Writer, NEW q \in alive' \cap Reader
                 PROVE  q \in readers'[v] <=> QosCompatible(v, q) /\ ~MissedEachOther(v, q)'
      BY DEF BoundUnlessTakenOut, QosCompatible
    <3>1. v \in alive /\ q \in alive /\ readers'[v] = readers[v]
      BY <2>1
    <3>2. v \in Endpoint /\ q \in Endpoint
      BY DEF Endpoint
    <3>3. MissedEachOther(v, q)' <=> MissedEachOther(v, q)
      BY <2>1, <2>6, <3>2 DEF MissedEachOther
    <3> QED BY <3>1, <3>3 DEF RegistryInv, BoundUnlessTakenOut
  <2> QED
    BY <2>2, <2>5, <2>7 DEF RegistryInv
<1>4. ASSUME UNCHANGED registryVars
      PROVE  RegistryInv'
  BY <1>4 DEF registryVars, QosCompatible, RegistryInv, RegistryTypeOK, OrderInv,
              EntriesKept, OnlyCreated, BoundUnlessTakenOut, TakenOut, MissedEachOther
<1> QED
  BY <1>1, <1>2, <1>3, <1>4 DEF RegistryNext

\* A writer and a reader of one process that share a topic and a type are
\* bound exactly if their reliability is compatible and the earlier one's
\* entry was still there when the later one was registered, that is unless a
\* drop of an endpoint with the same GUID came between (register_writer,
\* register_reader and the deregistration of BindToken::drop), for any number
\* of readers and writers in any order.
THEOREM RegistryBinds == RegistrySpec => [](RegistryTypeOK /\ BoundUnlessTakenOut)
<1>1. RegistryInit => RegistryInv
  BY InitRegistryInv
<1>2. RegistryInv /\ [RegistryNext]_registryVars => RegistryInv'
  BY StepRegistryInv
<1>3. RegistryInv => RegistryTypeOK /\ BoundUnlessTakenOut
  BY DEF RegistryInv
<1> QED
  BY <1>1, <1>2, <1>3, PTL DEF RegistrySpec
=============================================================================
