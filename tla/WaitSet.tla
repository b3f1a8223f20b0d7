------------------------------- MODULE WaitSet -------------------------------
(***************************************************************************)
(* WaitSet::wait and the threads that wake it.  A reader's subscriber      *)
(* pushes a sample into the ring of the reader and raises DATA_AVAILABLE   *)
(* on its StatusCondition, which signals the slot of the wait set it is    *)
(* attached to: the driver sets the bit of the slot and, if it was clear,  *)
(* writes an eventfd.  wait polls the eventfd, drains it, takes all bits   *)
(* and returns the conditions of those slots that are triggered; the       *)
(* application then takes from these readers until take returns None.      *)
(*                                                                         *)
(* There is one wait set; one thread waits on it, and another attaches and *)
(* detaches conditions at any time, as the comment on its Send and Sync    *)
(* allows.  The capacity of the rings (module IndexRing) is not reached: a *)
(* refused push raises nothing.                                            *)
(***************************************************************************)
EXTENDS Integers, FiniteSets

CONSTANTS
    Cond,         \* the StatusConditions, one per reader
    NoCond,       \* an empty entry of the wait set
    Thread,       \* the threads that push samples
    NSlots,       \* slots of the driver
    MaxSamples,   \* bound: samples pushed to each reader
    Discards,     \* may the pump drop a sample (lifespan, filter, decode error)?
    Detachable,   \* bound: the conditions that may be detached again
    Timeouts,     \* does wait have a timeout?
    MayNotify     \* may the application call notify?

ASSUME WaitSetAssumption ==
    /\ NoCond \notin Cond /\ NSlots \in Nat /\ MaxSamples \in Nat
    /\ Detachable \subseteq Cond
    /\ {Discards, Timeouts, MayNotify} \subseteq BOOLEAN

Slot == 1 .. NSlots

VARIABLES
    ring,      \* samples in the ring of each reader
    pushes,    \* samples pushed to each reader so far
    cached,    \* samples in the cache of each reader
    active,    \* conditions whose DATA_AVAILABLE is active
    hooks,     \* the slot each condition signals, 0 for none
    entries,   \* the condition of each slot, or NoCond
    bits,      \* the bitmap of the driver
    event,     \* is the eventfd readable?
    ppc,       \* where each pushing thread is
    target,    \* the condition it pushes to
    apc,       \* where the attaching thread is
    attaching, \* the condition it attaches
    slot,      \* the slot it has registered for it, 0 for none
    wpc,       \* where the waiting thread is
    scan,      \* the slot take_all looks at next
    indices,   \* the slots take_all has taken
    cand,      \* conditions collect_triggered has returned
    ready,     \* conditions wait has returned and the application still serves
    notified,  \* history: notify was called during the current wait
    known      \* history: the conditions that have been attached since before
               \* the current wait began

readerVars == <<ring, pushes, cached>>
driverVars == <<bits, event>>
attachVars == <<apc, attaching, slot>>
setVars == <<hooks, entries>>
waitVars == <<scan, indices, cand>>
vars == <<readerVars, active, driverVars, ppc, target, attachVars, setVars,
          wpc, waitVars, ready, notified, known>>

Init ==
    /\ ring = [c \in Cond |-> 0] /\ pushes = [c \in Cond |-> 0]
    /\ cached = [c \in Cond |-> 0] /\ active = {}
    /\ hooks = [c \in Cond |-> 0] /\ entries = [s \in Slot |-> NoCond]
    /\ bits = {} /\ event = FALSE
    /\ ppc = [t \in Thread |-> "idle"] /\ target = [t \in Thread |-> NoCond]
    /\ apc = "idle" /\ attaching = NoCond /\ slot = 0
    /\ wpc = "idle" /\ scan = 1 /\ indices = {} /\ cand = {}
    /\ ready = {} /\ notified = FALSE /\ known = {}

\* The mutex over the hooks of c is held while its signal is being written.
HooksFree(c) ==
    /\ \A t \in Thread : ~ (ppc[t] = "write" /\ target[t] = c)
    /\ ~ (apc = "write" /\ attaching = c)

InWait == wpc \in {"first", "poll", "drain", "scan", "collect", "retain"}

Attached == {c \in Cond : \E s \in Slot : entries[s] = c}

-----------------------------------------------------------------------------
(* The subscriber *)

\* A sample goes into the ring.
Push(t, c) ==
    /\ ppc[t] = "idle" /\ pushes[c] < MaxSamples
    /\ ring' = [ring EXCEPT ![c] = @ + 1]
    /\ pushes' = [pushes EXCEPT ![c] = @ + 1]
    /\ ppc' = [ppc EXCEPT ![t] = "set"]
    /\ target' = [target EXCEPT ![t] = c]
    /\ UNCHANGED <<cached, active, driverVars, attachVars, setVars, wpc,
                   waitVars, ready, notified, known>>

\* set_active_statuses stores the mask
SetActive(t) ==
    /\ ppc[t] = "set"
    /\ active' = active \cup {target[t]}
    /\ ppc' = [ppc EXCEPT ![t] = "signal"]
    /\ UNCHANGED <<readerVars, driverVars, target, attachVars, setVars, wpc,
                   waitVars, ready, notified, known>>

\* mutant: the bit is set, the event is never written
SignalUnwritten(t) ==
    /\ ppc[t] = "signal" /\ HooksFree(target[t])
    /\ LET s == hooks[target[t]]
       IN bits' = IF s # 0 THEN bits \cup {s} ELSE bits
    /\ ppc' = [ppc EXCEPT ![t] = "idle"]
    /\ target' = [target EXCEPT ![t] = NoCond]
    /\ UNCHANGED <<readerVars, active, event, attachVars, setVars, wpc,
                   waitVars, ready, notified, known>>

\* and notify_waitsets signals the slot of the hook, if there is one: only
\* the thread that sets the bit goes on to write the event.
Signal(t) ==
    /\ ppc[t] = "signal" /\ HooksFree(target[t])
    /\ LET s == hooks[target[t]]
           first == s # 0 /\ s \notin bits
       IN /\ bits' = IF first THEN bits \cup {s} ELSE bits
          /\ ppc' = [ppc EXCEPT ![t] = IF first THEN "write" ELSE "idle"]
          /\ target' = [target EXCEPT ![t] = IF first THEN @ ELSE NoCond]
    /\ UNCHANGED <<readerVars, active, event, attachVars, setVars, wpc,
                   waitVars, ready, notified, known>>

\* write_event
WriteEvent(t) ==
    /\ ppc[t] = "write"
    /\ event' = TRUE
    /\ ppc' = [ppc EXCEPT ![t] = "idle"]
    /\ target' = [target EXCEPT ![t] = NoCond]
    /\ UNCHANGED <<readerVars, active, bits, attachVars, setVars, wpc,
                   waitVars, ready, notified, known>>

\* notify
ManualNotify ==
    /\ MayNotify
    /\ event' = TRUE /\ notified' = (notified \/ InWait)
    /\ UNCHANGED <<readerVars, active, bits, ppc, target, attachVars, setVars,
                   wpc, waitVars, ready, known>>

-----------------------------------------------------------------------------
(* attach_condition and detach_condition *)

\* The condition is not attached yet; the driver registers a slot that is not
\* in use, or the call fails.
AttachRegister(c, s) ==
    /\ apc = "idle"
    /\ c \notin Attached /\ entries[s] = NoCond
    /\ apc' = "hook" /\ attaching' = c /\ slot' = s
    /\ UNCHANGED <<readerVars, active, driverVars, ppc, target, setVars, wpc,
                   waitVars, ready, notified, known>>

\* add_waitset_signal: hook the slot and signal it if c is triggered.
AttachHook ==
    /\ apc = "hook" /\ HooksFree(attaching)
    /\ hooks' = [hooks EXCEPT ![attaching] = slot]
    /\ LET first == attaching \in active /\ slot \notin bits
       IN /\ bits' = IF first THEN bits \cup {slot} ELSE bits
          /\ apc' = IF first THEN "write" ELSE "entry"
    /\ UNCHANGED <<readerVars, active, event, ppc, target, attaching, slot,
                   entries, wpc, waitVars, ready, notified, known>>

AttachWrite ==
    /\ apc = "write"
    /\ event' = TRUE
    /\ apc' = "entry"
    /\ UNCHANGED <<readerVars, active, bits, ppc, target, attaching, slot,
                   setVars, wpc, waitVars, ready, notified, known>>

\* Only now does the wait set know the condition.
AttachEntry ==
    /\ apc = "entry"
    /\ entries' = [entries EXCEPT ![slot] = attaching]
    /\ apc' = "idle" /\ attaching' = NoCond /\ slot' = 0
    /\ UNCHANGED <<readerVars, active, driverVars, ppc, target, hooks, wpc,
                   waitVars, ready, notified, known>>

\* The bit of the slot stays as it is.
Detach(c, s) ==
    /\ c \in Detachable /\ apc = "idle"
    /\ entries[s] = c /\ HooksFree(c)
    /\ hooks' = [hooks EXCEPT ![c] = 0]
    /\ known' = known \ {c}
    /\ entries' = [entries EXCEPT ![s] = NoCond]
    /\ UNCHANGED <<readerVars, active, driverVars, ppc, target, attachVars,
                   wpc, waitVars, ready, notified>>

-----------------------------------------------------------------------------
(* wait *)

\* wait returns the triggered conditions among cand, or goes on at "poll".
Return ==
    /\ IF cand \cap active # {}
       THEN /\ wpc' = "app" /\ ready' = cand \cap active
            /\ notified' = FALSE /\ known' = {}
       ELSE wpc' = "poll" /\ UNCHANGED <<ready, notified, known>>
    /\ scan' = 1 /\ indices' = {} /\ cand' = {}

\* collect_triggered(None)
WaitStart ==
    /\ wpc = "idle"
    /\ cand' = Attached /\ known' = Attached
    /\ wpc' = "first"
    /\ UNCHANGED <<readerVars, active, driverVars, ppc, target, attachVars,
                   setVars, scan, indices, ready, notified>>

\* mutant: wait does not look at the conditions before it polls
WaitFirstSkipped ==
    /\ wpc = "first"
    /\ wpc' = "poll"
    /\ UNCHANGED <<readerVars, active, driverVars, ppc, target, attachVars,
                   setVars, waitVars, ready, notified, known>>

WaitFirst ==
    /\ wpc = "first"
    /\ Return
    /\ UNCHANGED <<readerVars, active, driverVars, ppc, target, attachVars,
                   setVars>>

\* wait_event returns when the eventfd is readable;
Poll ==
    /\ wpc = "poll" /\ event
    /\ wpc' = "drain"
    /\ UNCHANGED <<readerVars, active, driverVars, ppc, target, attachVars,
                   setVars, waitVars, ready, notified, known>>

\* on a timeout wait gives up without another look at the conditions.
WaitTimeout ==
    /\ Timeouts /\ wpc = "poll"
    /\ wpc' = "idle" /\ notified' = FALSE /\ known' = {}
    /\ UNCHANGED <<readerVars, active, driverVars, ppc, target, attachVars,
                   setVars, waitVars, ready>>

\* drain_event
Drain ==
    /\ wpc = "drain"
    /\ event' = FALSE
    /\ wpc' = "scan" /\ scan' = 1 /\ indices' = {}
    /\ UNCHANGED <<readerVars, active, bits, ppc, target, attachVars, setVars,
                   cand, ready, notified, known>>

\* mutant: take_all goes one word too far
TakeWordPast ==
    /\ wpc = "scan" /\ scan <= NSlots + 1
    /\ indices' = indices \cup (bits \cap {scan})
    /\ bits' = bits \ {scan}
    /\ scan' = scan + 1
    /\ UNCHANGED <<readerVars, active, event, ppc, target, attachVars,
                   setVars, wpc, cand, ready, notified, known>>

\* take_all swaps the words of the bitmap with 0 one after the other; every
\* slot is in a word of its own.
TakeWord ==
    /\ wpc = "scan" /\ scan <= NSlots
    /\ indices' = indices \cup (bits \cap {scan})
    /\ bits' = bits \ {scan}
    /\ scan' = scan + 1
    /\ UNCHANGED <<readerVars, active, event, ppc, target, attachVars,
                   setVars, wpc, cand, ready, notified, known>>

\* mutant: the eventfd is drained (again) after the bits are taken
TakeDoneDraining ==
    /\ wpc = "scan" /\ scan > NSlots
    /\ wpc' = "collect"
    /\ event' = FALSE
    /\ UNCHANGED <<readerVars, active, bits, ppc, target, attachVars, setVars,
                   waitVars, ready, notified, known>>

TakeDone ==
    /\ wpc = "scan" /\ scan > NSlots
    /\ wpc' = "collect"
    /\ UNCHANGED <<readerVars, active, driverVars, ppc, target, attachVars,
                   setVars, waitVars, ready, notified, known>>

\* collect_triggered: the conditions of the slots taken, all if there are none
Collect ==
    /\ wpc = "collect"
    /\ cand' = IF indices = {} THEN Attached
               ELSE {entries[s] : s \in indices} \ {NoCond}
    /\ wpc' = "retain"
    /\ UNCHANGED <<readerVars, active, driverVars, ppc, target, attachVars,
                   setVars, scan, indices, ready, notified, known>>

Retain ==
    /\ wpc = "retain"
    /\ Return
    /\ UNCHANGED <<readerVars, active, driverVars, ppc, target, attachVars,
                   setVars>>

-----------------------------------------------------------------------------
(* The application: take from every reader that is ready, until None *)

\* The reader that is served while wpc is "pump", "clear" or "take".
Served == CHOOSE c \in ready : TRUE

ServeStart ==
    /\ wpc = "app"
    /\ wpc' = IF ready = {} THEN "idle" ELSE "pump"
    /\ UNCHANGED <<readerVars, active, driverVars, ppc, target, attachVars,
                   setVars, waitVars, ready, notified, known>>

\* pump_ring_to_cache pops a sample and caches it,
PumpCache ==
    /\ wpc = "pump" /\ ring[Served] > 0
    /\ ring' = [ring EXCEPT ![Served] = @ - 1]
    /\ cached' = [cached EXCEPT ![Served] = @ + 1]
    /\ UNCHANGED <<pushes, active, driverVars, ppc, target, attachVars,
                   setVars, wpc, waitVars, ready, notified, known>>

\* or drops it because its lifespan is over or the time filter rejects it,
PumpDrop ==
    /\ Discards /\ wpc = "pump" /\ ring[Served] > 0
    /\ ring' = [ring EXCEPT ![Served] = @ - 1]
    /\ UNCHANGED <<pushes, cached, active, driverVars, ppc, target,
                   attachVars, setVars, wpc, waitVars, ready, notified, known>>

\* or fails to decode it: take returns the error at once.
PumpFails ==
    /\ Discards /\ wpc = "pump" /\ ring[Served] > 0
    /\ ring' = [ring EXCEPT ![Served] = @ - 1]
    /\ wpc' = "app" /\ ready' = ready \ {Served}
    /\ UNCHANGED <<pushes, cached, active, driverVars, ppc, target,
                   attachVars, setVars, waitVars, notified, known>>

\* The ring is seen empty; the status is cleared if the cache is empty too,
PumpEnd ==
    /\ wpc = "pump" /\ ring[Served] = 0
    /\ wpc' = IF cached[Served] = 0 THEN "clear" ELSE "take"
    /\ UNCHANGED <<readerVars, active, driverVars, ppc, target, attachVars,
                   setVars, waitVars, ready, notified, known>>

\* whatever has been pushed in the meantime.
PumpClear ==
    /\ wpc = "clear"
    /\ active' = active \ {Served}
    /\ wpc' = "take"
    /\ UNCHANGED <<readerVars, driverVars, ppc, target, attachVars, setVars,
                   waitVars, ready, notified, known>>

\* cache.take
Take ==
    /\ wpc = "take"
    /\ IF cached[Served] > 0
       THEN /\ cached' = [cached EXCEPT ![Served] = @ - 1]
            /\ wpc' = "pump" /\ UNCHANGED ready
       ELSE /\ wpc' = "app" /\ ready' = ready \ {Served}
            /\ UNCHANGED cached
    /\ UNCHANGED <<ring, pushes, active, driverVars, ppc, target, attachVars,
                   setVars, waitVars, notified, known>>

-----------------------------------------------------------------------------
PushStep(t) == SetActive(t) \/ Signal(t) \/ WriteEvent(t)
AttachStep == AttachHook \/ AttachWrite \/ AttachEntry
WaitStep == \/ WaitStart \/ WaitFirst \/ Poll \/ Drain \/ TakeWord \/ TakeDone
            \/ Collect \/ Retain
AppStep == ServeStart \/ PumpCache \/ PumpEnd \/ PumpClear \/ Take

Next ==
    \/ \E t \in Thread : PushStep(t) \/ \E c \in Cond : Push(t, c)
    \/ AttachStep \/ WaitStep \/ AppStep
    \/ \E c \in Cond, s \in Slot : AttachRegister(c, s) \/ Detach(c, s)
    \/ ManualNotify \/ WaitTimeout \/ PumpDrop \/ PumpFails

Spec == Init /\ [][Next]_vars

\* A thread that is inside a call goes on with it, and the application calls
\* wait again and again.
FairSpec ==
    /\ Spec
    /\ \A t \in Thread : WF_vars(PushStep(t))
    /\ WF_vars(AttachStep) /\ WF_vars(WaitStep) /\ WF_vars(AppStep)

-----------------------------------------------------------------------------
(* Properties *)

\* Every variable has its type.
TypeOK ==
    /\ ring \in [Cond -> 0 .. MaxSamples]
    /\ pushes \in [Cond -> 0 .. MaxSamples]
    /\ cached \in [Cond -> 0 .. MaxSamples]
    /\ active \subseteq Cond
    /\ hooks \in [Cond -> Slot \cup {0}]
    /\ entries \in [Slot -> Cond \cup {NoCond}]
    /\ bits \subseteq Slot /\ event \in BOOLEAN
    /\ ppc \in [Thread -> {"idle", "set", "signal", "write"}]
    /\ target \in [Thread -> Cond \cup {NoCond}]
    /\ apc \in {"idle", "hook", "write", "entry"}
    /\ attaching \in Cond \cup {NoCond} /\ slot \in Slot \cup {0}
    /\ wpc \in {"idle", "first", "poll", "drain", "scan", "collect", "retain",
                "app", "pump", "clear", "take"}
    /\ scan \in 1 .. NSlots + 1 /\ indices \subseteq Slot
    /\ cand \subseteq Cond /\ ready \subseteq Cond
    /\ notified \in BOOLEAN /\ known \subseteq Cond

\* A thread has set a bit and is about to write the event.
Writing == apc = "write" \/ \E t \in Thread : ppc[t] = "write"

\* Coalescing signals loses none: while a bit is set, the eventfd is readable,
\* or the thread that set it has yet to write it, or take_all has yet to come
\* to the bit.  driver.rs writes the event only for the first of several
\* signals, and drains it before it takes the bits.
NoLostSignal ==
    bits # {} =>
        \/ event \/ Writing
        \/ wpc = "scan" /\ \A s \in bits : s >= scan

\* A thread is on its way to wake wait for c.
Waking(c) == Writing \/ \E t \in Thread : ppc[t] = "signal" /\ target[t] = c

\* wait never sleeps on a triggered condition that was attached before it was
\* called, whatever is attached and detached while it waits: when it would
\* block in wait_event, a thread is on its way to wake it.  A condition that is
\* attached during the wait is not covered (AttachedWakes).
NeverSleepsTriggered ==
    \A c \in known \cap active : wpc = "poll" /\ ~ event => Waking(c)

\* The same of every attached condition.  It does not hold: the signal of
\* add_waitset_signal may be consumed before attach_condition has made the
\* entry (WaitSetLateAttach.cfg).
AttachedWakes ==
    \A c \in Attached \cap active : wpc = "poll" /\ ~ event => Waking(c)

\* A wait on a triggered condition that was attached before the call returns,
\* even if it never times out, unless the condition is detached: signals,
\* events and bits reach it in whatever order its own steps and those of the
\* attaching thread come between.
TriggeredReturns == \A c \in Cond : c \in known \cap active ~> c \notin known

\* What the getting-started guide says of the status condition of a reader: it
\* "triggers when data is available".  A sample in the ring of a reader that
\* is attached is taken from it, or the reader is detached.
DataIsTaken ==
    \A c \in Cond : c \in Attached /\ ring[c] > 0 ~> ring[c] = 0

\* What the comment on notify says: it wakes a blocked wait without triggering
\* any condition, for a shutdown for example.  wait returns after a notify.
NotifyReturns == notified ~> ~ notified
=============================================================================
