--------------------------- MODULE DomainRegistry ---------------------------
(***************************************************************************)
(* How the readers and writers of one process find each other              *)
(* (dds/domain_registry.rs): the entries of one MatchKey (topic and type)  *)
(* in the DomainState of a domain, the BindToken that takes an entry out   *)
(* again when its endpoint is dropped, and the list of readers each        *)
(* writer's TopicMerger pushes to (core/rt/merger.rs).                     *)
(*                                                                         *)
(* Registration, with the bind callbacks it calls, and deregistration run  *)
(* under the write lock of the endpoint map: each is one step.             *)
(*                                                                         *)
(* clock, since and until are history: they number the registrations and   *)
(* the drops in the order in which they take the lock.  No guard reads     *)
(* them.                                                                   *)
(***************************************************************************)
EXTENDS Naturals

CONSTANTS
    Writer,         \* the writers that may be created
    Reader,         \* the readers that may be created
    ZeroGuid,       \* GUID::zero()
    Bare,           \* the writers that have no RTPS endpoint
    Reliable        \* the endpoints with RELIABLE reliability

ASSUME EndpointAssumption ==
    /\ Writer \cap Reader = {}
    /\ Bare \subseteq Writer
    /\ ZeroGuid \notin Writer
    /\ Reliable \subseteq Writer \cup Reader

VARIABLES
    created,    \* endpoints created so far
    alive,      \* endpoints whose BindToken has not been dropped
    entries,    \* endpoints with an entry in the registry
    readers,    \* readers registered in the merger of each writer
    clock,      \* history: registrations and drops so far
    since,      \* history: when each endpoint was registered, 0 for not yet
    until       \* history: when its token was dropped, 0 for not yet

registryVars == <<created, alive, entries, readers, clock, since, until>>

Endpoint == Writer \cup Reader

\* WriterBuilder gives a writer the GUID of its RTPS endpoint, or
\* GUID::zero() if it has none; every ReaderBuilder uses GUID::zero().
Guid(e) == IF e \in Writer \ Bare THEN e ELSE ZeroGuid

\* qos_compatible
QosCompatible(w, r) == w \in Reliable \/ r \notin Reliable

RegistryInit ==
    /\ created = {}
    /\ alive = {}
    /\ entries = {}
    /\ readers = [w \in Writer |-> {}]
    /\ clock = 0
    /\ since = [e \in Endpoint |-> 0]
    /\ until = [e \in Endpoint |-> 0]

-----------------------------------------------------------------------------
Create(e) ==
    /\ e \notin created
    /\ created' = created \cup {e}
    /\ alive' = alive \cup {e}
    /\ entries' = entries \cup {e}
    /\ clock' = clock + 1
    /\ since' = [since EXCEPT ![e] = clock + 1]
    /\ UNCHANGED until

\* register_writer: call the bind callback of every compatible reader, each
\* of which adds its reader to the merger; then enter the writer.
RegisterWriter(w) ==
    /\ Create(w)
    /\ readers' = [readers EXCEPT ![w] =
                    {r \in entries \cap Reader : QosCompatible(w, r)}]

\* Mutant: a new reader waits for the next writer instead of looking for
\* the writers that are there.
RegisterReaderLate(r) ==
    /\ Create(r)
    /\ UNCHANGED readers

\* register_reader: add the reader to the mergers of the compatible writers
\* (TopicMerger::add_reader ignores one it has), then enter the reader.
RegisterReader(r) ==
    /\ Create(r)
    /\ readers' = [w \in Writer |->
                    IF w \in entries /\ QosCompatible(w, r)
                    THEN readers[w] \cup {r} ELSE readers[w]]

\* Mutant: dropping the token leaves the entry behind.
DropTokenKept(e) ==
    /\ e \in alive
    /\ alive' = alive \ {e}
    /\ readers' = [w \in Writer |-> IF w = e THEN {} ELSE readers[w]]
    /\ clock' = clock + 1
    /\ until' = [until EXCEPT ![e] = clock + 1]
    /\ UNCHANGED <<created, entries, since>>

\* BindToken::drop and DomainState::unregister: retain the entries with
\* another GUID.  No merger drops a reader; a writer takes its own along.
DropToken(e) ==
    /\ e \in alive
    /\ alive' = alive \ {e}
    /\ entries' = {x \in entries : Guid(x) # Guid(e)}
    /\ readers' = [w \in Writer |-> IF w = e THEN {} ELSE readers[w]]
    /\ clock' = clock + 1
    /\ until' = [until EXCEPT ![e] = clock + 1]
    /\ UNCHANGED <<created, since>>

RegistryNext ==
    \/ \E w \in Writer : RegisterWriter(w)
    \/ \E r \in Reader : RegisterReader(r)
    \/ \E e \in Endpoint : DropToken(e)

RegistrySpec == RegistryInit /\ [][RegistryNext]_registryVars

-----------------------------------------------------------------------------
(* Properties *)

\* Type correctness; an entry belongs to an endpoint that still exists.
RegistryTypeOK ==
    /\ created \subseteq Endpoint
    /\ alive \subseteq created
    /\ entries \subseteq alive
    /\ readers \in [Writer -> SUBSET Reader]
    /\ clock \in Nat
    /\ since \in [Endpoint -> 0..clock]
    /\ until \in [Endpoint -> 0..clock]

\* Another endpoint with e's GUID was dropped after e was registered and not
\* after n: the deregistration of that one took e's entry out as well.
TakenOut(e, n) ==
    \E d \in Endpoint \ {e} :
        Guid(d) = Guid(e) /\ since[e] < until[d] /\ until[d] <= n

\* The later of the two was registered while the registry had no entry of the
\* earlier one.
MissedEachOther(w, r) ==
    IF since[w] < since[r] THEN TakenOut(w, since[r]) ELSE TakenOut(r, since[w])

\* Who is bound: in whatever order endpoints come and go, a writer that exists
\* pushes to a reader that exists exactly if their reliability is compatible
\* and no drop of an endpoint with the GUID of the earlier one came between
\* the two registrations (every reader has GUID::zero(), so the drop of any
\* other reader does that to a reader; a writer with an RTPS endpoint is
\* never taken out).
BoundUnlessTakenOut ==
    \A w \in alive \cap Writer, r \in alive \cap Reader :
        r \in readers[w] <=> QosCompatible(w, r) /\ ~MissedEachOther(w, r)

\* "When a Reader and Writer share the same (topic, type_id), they are
\* automatically bound": without the exception.  It does not hold
\* (DomainRegistryTwoReaders.cfg).
AllBound ==
    \A w \in alive \cap Writer, r \in alive \cap Reader :
        r \in readers[w] <=> QosCompatible(w, r)

\* "Reader destroyed -> unbinds, unregisters": no writer pushes to a reader
\* that does not exist any more.
NoDeadReaders == \A w \in Writer : readers[w] \subseteq alive
=============================================================================
