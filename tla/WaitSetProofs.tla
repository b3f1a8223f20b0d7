---------------------------- MODULE WaitSetProofs ----------------------------
(***************************************************************************)
(* Proof that WaitSet::wait never sleeps on a triggered condition, for any *)
(* number of conditions, slots and pushing threads, while another thread   *)
(* attaches and detaches conditions at any time.                           *)
(***************************************************************************)
EXTENDS WaitSet, TLAPS

\* Samples are in one place, and pcs and locals agree.
LocalsInv ==
    /\ \A c \in Cond : ring[c] + cached[c] <= pushes[c]
    /\ \A t \in Thread : ppc[t] # "idle" => target[t] \in Cond
    /\ apc # "idle" => attaching \in Cond /\ slot \in Slot
    /\ wpc \in {"pump", "clear", "take"} => ready # {}

\* A condition that is being attached has no entry, and its slot is free; the
\* condition of an entry signals the slot of the entry; what the current wait
\* knows is attached.
EntriesInv ==
    /\ apc # "idle" => attaching \notin Attached /\ entries[slot] = NoCond
    /\ apc \in {"write", "entry"} => hooks[attaching] = slot
    /\ \A s \in Slot : entries[s] # NoCond => hooks[entries[s]] = s
    /\ known \subseteq Attached

\* Where the signal of a triggered condition is while a thread waits.
Seen(c) ==
    \/ wpc = "first" /\ c \in cand
    \/ \E t \in Thread : ppc[t] = "signal" /\ target[t] = c
    \/ hooks[c] \in bits
    \/ wpc \in {"scan", "collect"} /\ hooks[c] \in indices
    \/ wpc = "retain" /\ c \in cand

SeenInv == \A c \in known \cap active : Seen(c)

IInv == TypeOK /\ LocalsInv /\ EntriesInv /\ SeenInv /\ NoLostSignal

-----------------------------------------------------------------------------
\* The reader that is served is one wait has returned.
LEMMA ServedReady ==
    ASSUME ready # {}
    PROVE  Served \in ready
BY DEF Served

\* WaitSet::new establishes the invariant.
LEMMA InitIInv == Init => IInv
<1> SUFFICES ASSUME Init PROVE IInv
  OBVIOUS
<1>1. TypeOK
  <2>1. 1 \in 1 .. NSlots + 1 /\ 0 \in 0 .. MaxSamples
    BY WaitSetAssumption
  <2> QED
    BY <2>1 DEF Init, TypeOK
<1>2. LocalsInv
  BY WaitSetAssumption DEF Init, LocalsInv
<1>3. EntriesInv
  BY DEF Init, EntriesInv
<1>4. SeenInv /\ NoLostSignal
  BY DEF Init, SeenInv, NoLostSignal
<1> QED
  BY <1>1, <1>2, <1>3, <1>4 DEF IInv

\* Every step keeps the types and the locals of the threads.
LEMMA StepTypeOK ==
    ASSUME TypeOK, LocalsInv, [Next]_vars
    PROVE  TypeOK' /\ LocalsInv'
<1> USE DEF TypeOK, LocalsInv, Slot, readerVars, driverVars, attachVars, setVars, waitVars
<1> USE WaitSetAssumption
<1>0. 1 \in 1 .. NSlots + 1
  OBVIOUS
<1>counts. \A c \in Cond : /\ ring[c] \in Nat /\ cached[c] \in Nat /\ pushes[c] \in Nat
                      /\ ring[c] + cached[c] <= pushes[c]
                      /\ pushes[c] <= MaxSamples
  OBVIOUS
<1>1. ASSUME NEW t \in Thread, SetActive(t) PROVE TypeOK' /\ LocalsInv'
  BY <1>1 DEF SetActive
<1>2. ASSUME NEW t \in Thread, Signal(t) PROVE TypeOK' /\ LocalsInv'
  BY <1>2 DEF Signal
<1>3. ASSUME NEW t \in Thread, WriteEvent(t) PROVE TypeOK' /\ LocalsInv'
  BY <1>3 DEF WriteEvent
<1>4. ASSUME NEW t \in Thread, NEW c \in Cond, Push(t, c) PROVE TypeOK' /\ LocalsInv'
  <2>1. /\ ring' = [ring EXCEPT ![c] = ring[c] + 1]
        /\ pushes' = [pushes EXCEPT ![c] = pushes[c] + 1]
        /\ UNCHANGED cached
        /\ pushes[c] < MaxSamples
    BY <1>4 DEF Push
  <2>2. ring[c] + 1 \in 0 .. MaxSamples /\ pushes[c] + 1 \in 0 .. MaxSamples
    BY <1>4, <1>counts, <2>1
  <2>3. /\ ring' \in [Cond -> 0 .. MaxSamples]
        /\ pushes' \in [Cond -> 0 .. MaxSamples]
    BY <1>4, <2>1, <2>2
  <2>4. \A d \in Cond : ring'[d] + cached'[d] <= pushes'[d]
    <3> HIDE DEF TypeOK, LocalsInv
    <3>1. \A d \in Cond : d # c => ring'[d] = ring[d] /\ pushes'[d] = pushes[d]
      BY <2>1 DEF TypeOK
    <3>2. ring'[c] = ring[c] + 1 /\ pushes'[c] = pushes[c] + 1
      BY <1>4, <2>1 DEF TypeOK
    <3> QED
      BY <1>4, <1>counts, <2>1, <3>1, <3>2
  <2>5. /\ ppc' = [ppc EXCEPT ![t] = "set"]
        /\ target' = [target EXCEPT ![t] = c]
        /\ UNCHANGED <<cached, active, bits, event, apc, attaching, slot, hooks,
                       entries, wpc, scan, indices, cand, ready, notified, known>>
    BY <1>4 DEF Push
  <2>6. TypeOK'
    BY <1>4, <2>3, <2>5
  <2>7. LocalsInv'
    BY <1>4, <2>4, <2>5
  <2> QED
    BY <2>6, <2>7
<1>5. ASSUME AttachHook PROVE TypeOK' /\ LocalsInv'
  BY <1>5 DEF AttachHook
<1>6. ASSUME AttachWrite PROVE TypeOK' /\ LocalsInv'
  BY <1>6 DEF AttachWrite
<1>7. ASSUME AttachEntry PROVE TypeOK' /\ LocalsInv'
  BY <1>7 DEF AttachEntry
<1>8. ASSUME WaitStart PROVE TypeOK' /\ LocalsInv'
  BY <1>8 DEF WaitStart, Attached
<1>9. ASSUME WaitFirst PROVE TypeOK' /\ LocalsInv'
  BY <1>9, <1>0 DEF WaitFirst, Return
<1>10. ASSUME Poll PROVE TypeOK' /\ LocalsInv'
  BY <1>10 DEF Poll
<1>11. ASSUME Drain PROVE TypeOK' /\ LocalsInv'
  BY <1>11, <1>0 DEF Drain
<1>12. ASSUME TakeWord PROVE TypeOK' /\ LocalsInv'
  BY <1>12 DEF TakeWord
<1>13. ASSUME TakeDone PROVE TypeOK' /\ LocalsInv'
  BY <1>13 DEF TakeDone
<1>14. ASSUME Collect PROVE TypeOK' /\ LocalsInv'
  BY <1>14 DEF Collect, Attached
<1>15. ASSUME Retain PROVE TypeOK' /\ LocalsInv'
  BY <1>15, <1>0 DEF Retain, Return
<1>16. ASSUME ServeStart PROVE TypeOK' /\ LocalsInv'
  BY <1>16 DEF ServeStart
<1>17. ASSUME PumpCache PROVE TypeOK' /\ LocalsInv'
  <2>1. Served \in Cond
    BY <1>17, ServedReady DEF PumpCache
  <2>2. /\ ring' = [ring EXCEPT ![Served] = ring[Served] - 1]
        /\ cached' = [cached EXCEPT ![Served] = cached[Served] + 1]
        /\ UNCHANGED <<pushes, active, bits, event, ppc, target, apc, attaching,
                       slot, hooks, entries, wpc, scan, indices, cand, ready,
                       notified, known>>
        /\ ring[Served] > 0
    BY <1>17 DEF PumpCache
  <2>3. /\ ring[Served] - 1 \in 0 .. MaxSamples
        /\ cached[Served] + 1 \in 0 .. MaxSamples
    BY <1>counts, <2>1, <2>2
  <2>4. /\ ring' \in [Cond -> 0 .. MaxSamples]
        /\ cached' \in [Cond -> 0 .. MaxSamples]
    BY <2>1, <2>2, <2>3
  <2>5. \A d \in Cond : ring'[d] + cached'[d] = ring[d] + cached[d]
    <3> HIDE DEF TypeOK, LocalsInv
    <3>1. \A d \in Cond : /\ ring[d] \in Nat /\ cached[d] \in Nat
                          /\ d # Served => ring'[d] = ring[d] /\ cached'[d] = cached[d]
      BY <1>counts, <2>2 DEF TypeOK
    <3>2. ring'[Served] = ring[Served] - 1 /\ cached'[Served] = cached[Served] + 1
      BY <2>1, <2>2 DEF TypeOK
    <3> QED
      BY <2>1, <3>1, <3>2
  <2>6. TypeOK'
    BY <2>2, <2>4
  <2>7. LocalsInv'
    BY <2>2, <2>5
  <2> QED
    BY <2>6, <2>7
<1>18. ASSUME PumpEnd PROVE TypeOK' /\ LocalsInv'
  BY <1>18, ServedReady DEF PumpEnd
<1>19. ASSUME PumpClear PROVE TypeOK' /\ LocalsInv'
  BY <1>19, ServedReady DEF PumpClear
<1>20. ASSUME Take PROVE TypeOK' /\ LocalsInv'
  <2>1. Served \in Cond
    BY <1>20, ServedReady DEF Take
  <2>2. CASE cached[Served] > 0
    <3>1. cached' = [cached EXCEPT ![Served] = cached[Served] - 1]
      BY <1>20, <2>2 DEF Take
    <3>2. cached[Served] - 1 \in 0 .. MaxSamples
      BY <2>1, <2>2
    <3>3. UNCHANGED <<ring, pushes, ready>> /\ wpc' = "pump"
      BY <1>20, <2>2 DEF Take
    <3>4. TypeOK'
      BY <1>20, <2>1, <3>1, <3>2, <3>3 DEF Take
    <3>5. \A c \in Cond : cached'[c] \in Nat /\ cached'[c] <= cached[c]
      BY <2>1, <3>1, <3>2
    <3>6. \A c \in Cond : ring'[c] + cached'[c] <= pushes'[c]
      BY <1>counts, <3>3, <3>5
    <3>7. /\ UNCHANGED <<ppc, target, apc, attaching, slot>>
          /\ wpc = "take"
      BY <1>20 DEF Take
    <3>8. LocalsInv'
      BY <3>3, <3>6, <3>7
    <3> QED
      BY <3>4, <3>8
  <2>3. CASE ~ (cached[Served] > 0)
    BY <1>20, <2>1, <2>3 DEF Take
  <2> QED
    BY <2>2, <2>3
<1>21. ASSUME ManualNotify PROVE TypeOK' /\ LocalsInv'
  BY <1>21 DEF ManualNotify
<1>22. ASSUME WaitTimeout PROVE TypeOK' /\ LocalsInv'
  BY <1>22 DEF WaitTimeout
<1>23. ASSUME PumpDrop PROVE TypeOK' /\ LocalsInv'
  <2>1. Served \in Cond
    BY <1>23, ServedReady DEF PumpDrop
  <2>2. /\ ring' = [ring EXCEPT ![Served] = ring[Served] - 1]
        /\ UNCHANGED <<pushes, cached, active, bits, event, ppc, target, apc,
                       attaching, slot, hooks, entries, wpc, scan, indices, cand,
                       ready, notified, known>>
        /\ ring[Served] > 0
    BY <1>23 DEF PumpDrop
  <2>3. ring' \in [Cond -> 0 .. MaxSamples] /\ \A d \in Cond : ring'[d] <= ring[d]
    BY <1>counts, <2>1, <2>2
  <2>4. TypeOK'
    BY <2>2, <2>3
  <2>5. \A d \in Cond : ring'[d] + cached'[d] <= pushes'[d]
    BY <1>counts, <2>2, <2>3
  <2>6. LocalsInv'
    BY <2>2, <2>5
  <2> QED
    BY <2>4, <2>6
<1>24. ASSUME PumpFails PROVE TypeOK' /\ LocalsInv'
  <2>1. Served \in Cond
    BY <1>24, ServedReady DEF PumpFails
  <2>2. /\ ring' = [ring EXCEPT ![Served] = ring[Served] - 1]
        /\ ready' = ready \ {Served} /\ wpc' = "app"
        /\ UNCHANGED <<pushes, cached, active, bits, event, ppc, target, apc,
                       attaching, slot, hooks, entries, scan, indices, cand,
                       notified, known>>
        /\ ring[Served] > 0
    BY <1>24 DEF PumpFails
  <2>3. ring' \in [Cond -> 0 .. MaxSamples] /\ \A d \in Cond : ring'[d] <= ring[d]
    BY <1>counts, <2>1, <2>2
  <2>4. TypeOK'
    BY <2>2, <2>3
  <2>5. \A d \in Cond : ring'[d] + cached'[d] <= pushes'[d]
    BY <1>counts, <2>2, <2>3
  <2>6. LocalsInv'
    BY <2>2, <2>5
  <2> QED
    BY <2>4, <2>6
<1>25. ASSUME NEW c \in Cond, NEW s \in Slot, AttachRegister(c, s) PROVE TypeOK' /\ LocalsInv'
  BY <1>25 DEF AttachRegister
<1>26. ASSUME NEW c \in Cond, NEW s \in Slot, Detach(c, s) PROVE TypeOK' /\ LocalsInv'
  BY <1>26 DEF Detach
<1>27. ASSUME UNCHANGED vars PROVE TypeOK' /\ LocalsInv'
  BY <1>27 DEF vars
<1> QED
  BY <1>1, <1>2, <1>3, <1>4, <1>5, <1>6, <1>7, <1>8, <1>9, <1>10,
     <1>11, <1>12, <1>13, <1>14, <1>15, <1>16, <1>17, <1>18,
     <1>19, <1>20, <1>21, <1>22, <1>23, <1>24, <1>25, <1>26, <1>27
     DEF Next, PushStep, AttachStep, WaitStep, AppStep

\* Hooks and entries agree, whatever is attached and detached meanwhile.
LEMMA StepEntries ==
    ASSUME TypeOK, LocalsInv, EntriesInv, [Next]_vars
    PROVE  EntriesInv'
<1> USE DEF TypeOK, LocalsInv, EntriesInv, Attached, readerVars, driverVars, attachVars, setVars, waitVars
<1> USE WaitSetAssumption
<1>1. ASSUME NEW t \in Thread, SetActive(t) PROVE EntriesInv'
  BY <1>1 DEF SetActive
<1>2. ASSUME NEW t \in Thread, Signal(t) PROVE EntriesInv'
  BY <1>2 DEF Signal
<1>3. ASSUME NEW t \in Thread, WriteEvent(t) PROVE EntriesInv'
  BY <1>3 DEF WriteEvent
<1>4. ASSUME NEW t \in Thread, NEW c \in Cond, Push(t, c) PROVE EntriesInv'
  BY <1>4 DEF Push
<1>5. ASSUME AttachHook PROVE EntriesInv'
  BY <1>5 DEF AttachHook
<1>6. ASSUME AttachWrite PROVE EntriesInv'
  BY <1>6 DEF AttachWrite
<1>7. ASSUME AttachEntry PROVE EntriesInv'
  BY <1>7 DEF AttachEntry
<1>8. ASSUME WaitStart PROVE EntriesInv'
  BY <1>8 DEF WaitStart
<1>9. ASSUME WaitFirst PROVE EntriesInv'
  BY <1>9 DEF WaitFirst, Return
<1>10. ASSUME Poll PROVE EntriesInv'
  BY <1>10 DEF Poll
<1>11. ASSUME Drain PROVE EntriesInv'
  BY <1>11 DEF Drain
<1>12. ASSUME TakeWord PROVE EntriesInv'
  BY <1>12 DEF TakeWord
<1>13. ASSUME TakeDone PROVE EntriesInv'
  BY <1>13 DEF TakeDone
<1>14. ASSUME Collect PROVE EntriesInv'
  BY <1>14 DEF Collect
<1>15. ASSUME Retain PROVE EntriesInv'
  BY <1>15 DEF Retain, Return
<1>16. ASSUME ServeStart PROVE EntriesInv'
  BY <1>16 DEF ServeStart
<1>17. ASSUME PumpCache PROVE EntriesInv'
  BY <1>17 DEF PumpCache
<1>18. ASSUME PumpEnd PROVE EntriesInv'
  BY <1>18 DEF PumpEnd
<1>19. ASSUME PumpClear PROVE EntriesInv'
  BY <1>19 DEF PumpClear
<1>20. ASSUME Take PROVE EntriesInv'
  BY <1>20 DEF Take
<1>21. ASSUME ManualNotify PROVE EntriesInv'
  BY <1>21 DEF ManualNotify
<1>22. ASSUME WaitTimeout PROVE EntriesInv'
  BY <1>22 DEF WaitTimeout
<1>23. ASSUME PumpDrop PROVE EntriesInv'
  BY <1>23 DEF PumpDrop
<1>24. ASSUME PumpFails PROVE EntriesInv'
  BY <1>24 DEF PumpFails
<1>25. ASSUME NEW c \in Cond, NEW s \in Slot, AttachRegister(c, s) PROVE EntriesInv'
  BY <1>25 DEF AttachRegister
<1>26. ASSUME NEW c \in Cond, NEW s \in Slot, Detach(c, s) PROVE EntriesInv'
  BY <1>26 DEF Detach
<1>27. ASSUME UNCHANGED vars PROVE EntriesInv'
  BY <1>27 DEF vars
<1> QED
  BY <1>1, <1>2, <1>3, <1>4, <1>5, <1>6, <1>7, <1>8, <1>9, <1>10,
     <1>11, <1>12, <1>13, <1>14, <1>15, <1>16, <1>17, <1>18,
     <1>19, <1>20, <1>21, <1>22, <1>23, <1>24, <1>25, <1>26, <1>27
     DEF Next, PushStep, AttachStep, WaitStep, AppStep

\* No order of signal, write_event, drain_event and take_all loses a bit.
LEMMA StepSignal ==
    ASSUME TypeOK, LocalsInv, NoLostSignal, [Next]_vars
    PROVE  NoLostSignal'
<1> USE DEF TypeOK, LocalsInv, NoLostSignal, Writing, Slot, readerVars, driverVars, attachVars, setVars, waitVars
<1>1. ASSUME NEW t \in Thread, SetActive(t) PROVE NoLostSignal'
  BY <1>1 DEF SetActive
<1>2. ASSUME NEW t \in Thread, Signal(t) PROVE NoLostSignal'
  BY <1>2 DEF Signal
<1>3. ASSUME NEW t \in Thread, WriteEvent(t) PROVE NoLostSignal'
  BY <1>3 DEF WriteEvent
<1>4. ASSUME NEW t \in Thread, NEW c \in Cond, Push(t, c) PROVE NoLostSignal'
  BY <1>4 DEF Push
<1>5. ASSUME AttachHook PROVE NoLostSignal'
  BY <1>5 DEF AttachHook
<1>6. ASSUME AttachWrite PROVE NoLostSignal'
  BY <1>6 DEF AttachWrite
<1>7. ASSUME AttachEntry PROVE NoLostSignal'
  BY <1>7 DEF AttachEntry
<1>8. ASSUME WaitStart PROVE NoLostSignal'
  BY <1>8 DEF WaitStart
<1>9. ASSUME WaitFirst PROVE NoLostSignal'
  BY <1>9 DEF WaitFirst, Return
<1>10. ASSUME Poll PROVE NoLostSignal'
  BY <1>10 DEF Poll
<1>11. ASSUME Drain PROVE NoLostSignal'
  BY <1>11 DEF Drain
<1>12. ASSUME TakeWord PROVE NoLostSignal'
  BY <1>12 DEF TakeWord
<1>13. ASSUME TakeDone PROVE NoLostSignal'
  <2>1. \A s \in bits : ~ (s >= scan)
    BY <1>13, WaitSetAssumption DEF TakeDone
  <2> QED
    BY <1>13, <2>1 DEF TakeDone
<1>14. ASSUME Collect PROVE NoLostSignal'
  BY <1>14 DEF Collect
<1>15. ASSUME Retain PROVE NoLostSignal'
  BY <1>15 DEF Retain, Return
<1>16. ASSUME ServeStart PROVE NoLostSignal'
  BY <1>16 DEF ServeStart
<1>17. ASSUME PumpCache PROVE NoLostSignal'
  BY <1>17 DEF PumpCache
<1>18. ASSUME PumpEnd PROVE NoLostSignal'
  BY <1>18 DEF PumpEnd
<1>19. ASSUME PumpClear PROVE NoLostSignal'
  BY <1>19 DEF PumpClear
<1>20. ASSUME Take PROVE NoLostSignal'
  BY <1>20 DEF Take
<1>21. ASSUME ManualNotify PROVE NoLostSignal'
  BY <1>21 DEF ManualNotify
<1>22. ASSUME WaitTimeout PROVE NoLostSignal'
  BY <1>22 DEF WaitTimeout
<1>23. ASSUME PumpDrop PROVE NoLostSignal'
  BY <1>23 DEF PumpDrop
<1>24. ASSUME PumpFails PROVE NoLostSignal'
  BY <1>24 DEF PumpFails
<1>25. ASSUME NEW c \in Cond, NEW s \in Slot, AttachRegister(c, s) PROVE NoLostSignal'
  BY <1>25 DEF AttachRegister
<1>26. ASSUME NEW c \in Cond, NEW s \in Slot, Detach(c, s) PROVE NoLostSignal'
  BY <1>26 DEF Detach
<1>27. ASSUME UNCHANGED vars PROVE NoLostSignal'
  BY <1>27 DEF vars
<1> QED
  BY <1>1, <1>2, <1>3, <1>4, <1>5, <1>6, <1>7, <1>8, <1>9, <1>10,
     <1>11, <1>12, <1>13, <1>14, <1>15, <1>16, <1>17, <1>18,
     <1>19, <1>20, <1>21, <1>22, <1>23, <1>24, <1>25, <1>26, <1>27
     DEF Next, PushStep, AttachStep, WaitStep, AppStep

\* A condition that is triggered when wait looks is seen by wait, or its slot
\* will be.
LEMMA StepSeen ==
    ASSUME TypeOK, LocalsInv, EntriesInv, SeenInv, [Next]_vars
    PROVE  SeenInv'
<1> USE DEF TypeOK, LocalsInv, EntriesInv, SeenInv, Seen, Attached, readerVars, driverVars, attachVars, setVars, waitVars
<1> USE WaitSetAssumption
<1>1. ASSUME NEW t \in Thread, SetActive(t) PROVE SeenInv'
  BY <1>1 DEF SetActive
<1>2. ASSUME NEW t \in Thread, Signal(t) PROVE SeenInv'
  <2> SUFFICES ASSUME NEW c \in Cond, c \in known, c \in active
               PROVE  Seen(c)'
    BY <1>2 DEF Signal
  <2>1. hooks[c] \in Slot /\ hooks[c] # 0
    <3>1. PICK s \in Slot : entries[s] = c
      OBVIOUS
    <3>2. hooks[c] = s /\ hooks[c] # 0
      BY <3>1 DEF Slot
    <3> QED
      BY <3>1, <3>2
  <2>2. CASE target[t] = c
    BY <1>2, <2>1, <2>2 DEF Signal
  <2>3. CASE target[t] # c
    <3>1. bits \subseteq bits'
      BY <1>2 DEF Signal
    <3>2. \A u \in Thread : u # t => ppc'[u] = ppc[u] /\ target'[u] = target[u]
      BY <1>2 DEF Signal
    <3>3. UNCHANGED <<wpc, cand, indices, hooks>>
      BY <1>2 DEF Signal
    <3>4. Seen(c)
      OBVIOUS
    <3>5. ASSUME NEW u \in Thread, ppc[u] = "signal", target[u] = c PROVE Seen(c)'
      BY <2>3, <3>2, <3>5
    <3> QED
      BY <3>1, <3>3, <3>4, <3>5
  <2> QED
    BY <2>2, <2>3
<1>3. ASSUME NEW t \in Thread, WriteEvent(t) PROVE SeenInv'
  BY <1>3 DEF WriteEvent
<1>4. ASSUME NEW t \in Thread, NEW c \in Cond, Push(t, c) PROVE SeenInv'
  BY <1>4 DEF Push
<1>5. ASSUME AttachHook PROVE SeenInv'
  BY <1>5 DEF AttachHook
<1>6. ASSUME AttachWrite PROVE SeenInv'
  BY <1>6 DEF AttachWrite
<1>7. ASSUME AttachEntry PROVE SeenInv'
  BY <1>7 DEF AttachEntry
<1>8. ASSUME WaitStart PROVE SeenInv'
  BY <1>8 DEF WaitStart
<1>9. ASSUME WaitFirst PROVE SeenInv'
  BY <1>9 DEF WaitFirst, Return
<1>10. ASSUME Poll PROVE SeenInv'
  BY <1>10 DEF Poll
<1>11. ASSUME Drain PROVE SeenInv'
  BY <1>11 DEF Drain
<1>12. ASSUME TakeWord PROVE SeenInv'
  BY <1>12 DEF TakeWord
<1>13. ASSUME TakeDone PROVE SeenInv'
  BY <1>13 DEF TakeDone
<1>14. ASSUME Collect PROVE SeenInv'
  BY <1>14 DEF Collect
<1>15. ASSUME Retain PROVE SeenInv'
  BY <1>15 DEF Retain, Return
<1>16. ASSUME ServeStart PROVE SeenInv'
  BY <1>16 DEF ServeStart
<1>17. ASSUME PumpCache PROVE SeenInv'
  BY <1>17 DEF PumpCache
<1>18. ASSUME PumpEnd PROVE SeenInv'
  BY <1>18 DEF PumpEnd
<1>19. ASSUME PumpClear PROVE SeenInv'
  BY <1>19 DEF PumpClear
<1>20. ASSUME Take PROVE SeenInv'
  BY <1>20 DEF Take
<1>21. ASSUME ManualNotify PROVE SeenInv'
  BY <1>21 DEF ManualNotify
<1>22. ASSUME WaitTimeout PROVE SeenInv'
  BY <1>22 DEF WaitTimeout
<1>23. ASSUME PumpDrop PROVE SeenInv'
  BY <1>23 DEF PumpDrop
<1>24. ASSUME PumpFails PROVE SeenInv'
  BY <1>24 DEF PumpFails
<1>25. ASSUME NEW c \in Cond, NEW s \in Slot, AttachRegister(c, s) PROVE SeenInv'
  BY <1>25 DEF AttachRegister
<1>26. ASSUME NEW c \in Cond, NEW s \in Slot, Detach(c, s) PROVE SeenInv'
  BY <1>26 DEF Detach
<1>27. ASSUME UNCHANGED vars PROVE SeenInv'
  BY <1>27 DEF vars
<1> QED
  BY <1>1, <1>2, <1>3, <1>4, <1>5, <1>6, <1>7, <1>8, <1>9, <1>10,
     <1>11, <1>12, <1>13, <1>14, <1>15, <1>16, <1>17, <1>18,
     <1>19, <1>20, <1>21, <1>22, <1>23, <1>24, <1>25, <1>26, <1>27
     DEF Next, PushStep, AttachStep, WaitStep, AppStep

\* The invariant is inductive, and it implies what the runs check.
LEMMA StepIInv ==
    ASSUME IInv, [Next]_vars
    PROVE  IInv'
BY StepTypeOK, StepEntries, StepSignal, StepSeen DEF IInv

\* The invariant is strong enough: wait does not sleep on a triggered
\* condition.
LEMMA AwakeWhenTriggered ==
    ASSUME IInv
    PROVE  NeverSleepsTriggered
<1> SUFFICES ASSUME NEW c \in known \cap active, wpc = "poll", ~ event
             PROVE  Waking(c)
  BY DEF NeverSleepsTriggered
<1>1. Seen(c)
  BY DEF IInv, SeenInv
<1>2. hooks[c] \in bits => Writing
  BY DEF IInv, NoLostSignal
<1> QED
  BY <1>1, <1>2 DEF Seen, Waking

\* No signal is lost, and wait never sleeps on a triggered condition that was
\* attached before it was called and has not been detached since, for any
\* number of conditions, slots and threads and any interleaving with
\* attach_condition and detach_condition.
THEOREM WaitWakes == Spec => [](TypeOK /\ NoLostSignal /\ NeverSleepsTriggered)
<1>1. IInv /\ [Next]_vars => IInv'
  BY StepIInv
<1>2. IInv => TypeOK /\ NoLostSignal /\ NeverSleepsTriggered
  BY AwakeWhenTriggered DEF IInv
<1> QED
  BY InitIInv, <1>1, <1>2, PTL DEF Spec
=============================================================================
