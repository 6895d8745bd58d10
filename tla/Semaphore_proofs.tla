-------------------------- MODULE Semaphore_proofs --------------------------
(***************************************************************************)
(* Safety of the counting semaphore for any number of tasks and units: the *)
(* invariant IInv of module Semaphore is inductive.                        *)
(***************************************************************************)
EXTENDS Semaphore, LinuxList_proofs, FiniteSetTheorems

(* The steps of task t. *)
Step(t) ==
  \/ \E m \in Modes, soon \in BOOLEAN : down(t, m, soon)
  \/ down_trylock(t) \/ up_holder(t)
  \/ check(t) \/ set_state(t) \/ schedule_signal(t) \/ relock(t)
  \/ \E s \in Signals \ {"none"} : signal(t, s)
  \/ signal_handled(t) \/ process_timeout(t) \/ spurious_wakeup(t)

(* Next is a step of a task or a call of up() from outside. *)
LEMMA NextIsStep == Next => up_irq \/ \E t \in Tasks : Step(t)
BY DEF Next, Step

USE DEF goto, wait_return

(* Waking a task leaves a map of task states. *)
LEMMA WakeType ==
  ASSUME NEW st \in [Tasks -> TaskStates], NEW t \in Tasks, NEW s
  PROVE  /\ wake_up_process(st, t) \in [Tasks -> TaskStates]
         /\ signal_wake_up(st, t, s) \in [Tasks -> TaskStates]
BY DEF wake_up_process, signal_wake_up, try_to_wake_up, TaskStates

(* Each down function waits in a state the scheduler knows. *)
LEMMA StateOfType == ASSUME NEW m PROVE StateOf(m) \in TaskStates
BY DEF StateOf, TaskStates

(* up() keeps the types of what it writes. *)
LEMMA UpType ==
  ASSUME TypeOK, up_common
  PROVE  /\ count' \in Nat /\ wait_list' \in Seq(Tasks)
         /\ up' \in [Tasks -> {0, 1}] /\ state' \in [Tasks -> TaskStates]
<1> USE DEF TypeOK
<1>1. CASE list_empty(wait_list)
  BY <1>1 DEF up_common
<1>2. CASE ~list_empty(wait_list)
  <2> DEFINE w == list_first_entry(wait_list)
  <2>1. w \in Tasks
    BY <1>2, HeadIsEntry
  <2>2. list_del(wait_list, w) \in Seq(Tasks)
    BY DelType
  <2>3. wake_up_process(state, w) \in [Tasks -> TaskStates]
    BY <2>1, WakeType
  <2> QED
    BY <1>2, <2>1, <2>2, <2>3 DEF up_common, up_wake
<1> QED
  BY <1>1, <1>2

(* Every step of a task keeps the types. *)
LEMMA TypeStep ==
  ASSUME TypeOK, NEW t \in Tasks, Step(t)
  PROVE  TypeOK'
<1> USE SemAssumption DEF TypeOK, PCs, Waiting, Locked
<1>1. CASE \E m \in Modes, soon \in BOOLEAN : down(t, m, soon)
  <2>1. PICK m \in Modes, soon \in BOOLEAN : down(t, m, soon)
    BY <1>1
  <2>2. CASE count > 0
    <3>1. UNCHANGED <<lock, wait_list, up, mode, expired, state, sig, extra>>
      BY <2>1, <2>2 DEF down
    <3>2. count' \in Nat /\ pc' \in [Tasks -> PCs]
      BY <2>1, <2>2 DEF down, goto
    <3> QED
      BY <3>1, <3>2
  <2>3. CASE count = 0
    <3>1. list_add_tail(wait_list, t) \in Seq(Tasks)
      BY AddTail
    <3>2. /\ wait_list' \in Seq(Tasks) /\ lock' = t
          /\ UNCHANGED <<count, state, sig, extra>>
      BY <2>1, <2>3, <3>1 DEF down
    <3>3. up' \in [Tasks -> {0, 1}] /\ pc' \in [Tasks -> PCs]
      BY <2>1, <2>3 DEF down, goto
    <3>4. mode' \in [Tasks -> Modes \cup {NoWait}]
      BY <2>1, <2>3 DEF down
    <3>5. expired' = [expired EXCEPT ![t] = soon]
      BY <2>1, <2>3 DEF down
    <3>6. expired' \in [Tasks -> BOOLEAN]
      BY <2>1, <3>5
    <3> QED
      BY <3>2, <3>3, <3>4, <3>6
  <2> QED
    BY <2>2, <2>3
<1>2. CASE down_trylock(t)
  BY <1>2 DEF down_trylock
<1>3. CASE up_holder(t)
  BY <1>3, UpType DEF up_holder, up_common
<1>4. CASE check(t)
  <2>1. list_del(wait_list, t) \in Seq(Tasks)
    BY DelType
  <2> QED
    BY <1>4, <2>1 DEF check, give_up
<1>5. CASE set_state(t)
  BY <1>5, StateOfType DEF set_state
<1>6. CASE schedule_signal(t)
  BY <1>6 DEF schedule_signal, TaskStates
<1>7. CASE relock(t)
  BY <1>7 DEF relock
<1>8. CASE \E s \in Signals \ {"none"} : signal(t, s)
  <2>1. PICK s \in Signals \ {"none"} : signal(t, s)
    BY <1>8
  <2>2. state' \in [Tasks -> TaskStates]
    BY <2>1, WakeType DEF signal
  <2> QED
    BY <2>1, <2>2 DEF signal
<1>9. CASE signal_handled(t)
  BY <1>9 DEF signal_handled, Signals
<1>10. CASE process_timeout(t)
  <2>1. state' \in [Tasks -> TaskStates]
    BY <1>10, WakeType DEF process_timeout
  <2>2. expired' = [expired EXCEPT ![t] = TRUE]
    BY <1>10 DEF process_timeout
  <2>3. expired' \in [Tasks -> BOOLEAN]
    BY <2>2
  <2>4. UNCHANGED <<count, lock, wait_list, up, mode, sig, extra, pc>>
    BY <1>10 DEF process_timeout
  <2> QED
    BY <2>1, <2>3, <2>4
<1>11. CASE spurious_wakeup(t)
  <2>1. state' \in [Tasks -> TaskStates]
    BY <1>11, WakeType DEF spurious_wakeup
  <2> QED
    BY <1>11, <2>1 DEF spurious_wakeup
<1> QED
  BY <1>1, <1>2, <1>3, <1>4, <1>5, <1>6, <1>7, <1>8, <1>9, <1>10, <1>11 DEF Step

(* What up() does to a queue that is exact: the head owns a unit from now  *)
(* on and is not queued any more; everybody else stays as it was.          *)
LEMMA UpQueue ==
  ASSUME TypeOK, QueueExact, up_common
  PROVE  \/ /\ list_empty(wait_list)
            /\ count' = count + 1 /\ wait_list' = wait_list /\ up' = up
         \/ /\ ~list_empty(wait_list)
            /\ count' = count
            /\ IsList(wait_list')
            /\ \E w \in Tasks :
                 /\ pc[w] \in Waiting /\ up[w] = 0
                 /\ up' = [up EXCEPT ![w] = 1]
                 /\ Entries(wait_list') = Entries(wait_list) \ {w}
<1>1. CASE list_empty(wait_list)
  BY <1>1 DEF up_common
<1>2. CASE ~list_empty(wait_list)
  <2> DEFINE w == list_first_entry(wait_list)
  <2>1. w \in Tasks /\ w \in Entries(wait_list)
    BY <1>2, HeadIsEntry DEF TypeOK
  <2>2. /\ IsList(list_del(wait_list, w))
        /\ Entries(list_del(wait_list, w)) = Entries(wait_list) \ {w}
    BY <2>1, DelEntries DEF TypeOK, QueueExact
  <2>3. pc[w] \in Waiting /\ up[w] = 0
    BY <2>1 DEF QueueExact
  <2>4. /\ wait_list' = list_del(wait_list, w) /\ count' = count
        /\ up' = [up EXCEPT ![w] = 1]
    BY <1>2 DEF up_common, up_wake
  <2> HIDE DEF w
  <2> QED
    BY <1>2, <2>1, <2>2, <2>3, <2>4
<1> QED
  BY <1>1, <1>2

(* sem->lock and waiter.up. *)
LEMMA ControlStep ==
  ASSUME TypeOK, LockInv, UpInv, QueueExact, NEW t \in Tasks, Step(t)
  PROVE  LockInv' /\ UpInv'
<1> USE SemAssumption DEF TypeOK, LockInv, UpInv, Waiting, Locked
<1>1. CASE \E m \in Modes, soon \in BOOLEAN : down(t, m, soon)
  BY <1>1 DEF down
<1>2. CASE down_trylock(t)
  BY <1>2 DEF down_trylock
<1>3. CASE up_holder(t)
  \* With sem->lock free, whoever waits is on its way through schedule().
  <2>1. lock = NULL /\ lock' = NULL /\ pc[t] = "held" /\ pc' = [pc EXCEPT ![t] = "idle"]
    BY <1>3 DEF up_holder, up_common
  <2>2. up' = up \/ \E w \in Tasks : pc[w] = "schedule" /\ up' = [up EXCEPT ![w] = 1]
    BY <1>3, <2>1, UpQueue DEF up_holder
  <2> QED
    BY <2>1, <2>2
<1>4. CASE check(t)
  BY <1>4 DEF check, give_up
<1>5. CASE set_state(t)
  BY <1>5 DEF set_state
<1>6. CASE relock(t)
  BY <1>6 DEF relock
<1>7. CASE schedule_signal(t) \/ signal_handled(t) \/ process_timeout(t)
           \/ spurious_wakeup(t) \/ \E s \in Signals \ {"none"} : signal(t, s)
  BY <1>7 DEF schedule_signal, signal_handled, process_timeout, spurious_wakeup,
              signal
<1> QED
  BY <1>1, <1>2, <1>3, <1>4, <1>5, <1>6, <1>7 DEF Step

(* The queue stays exact. *)
LEMMA QueueStep ==
  ASSUME TypeOK, LockInv, UpInv, QueueExact, NEW t \in Tasks, Step(t)
  PROVE  QueueExact'
<1> USE SemAssumption DEF TypeOK, QueueExact, Waiting, Locked
<1>1. CASE \E m \in Modes, soon \in BOOLEAN : down(t, m, soon)
  <2>1. PICK m \in Modes, soon \in BOOLEAN : down(t, m, soon)
    BY <1>1
  <2>2. pc[t] = "idle" /\ t \notin Entries(wait_list)
    BY <2>1 DEF down
  <2>3. CASE count > 0
    BY <2>1, <2>2, <2>3 DEF down, UpInv
  <2>4. CASE count = 0
    <3>1. /\ IsList(wait_list')
          /\ Entries(wait_list') = Entries(wait_list) \cup {t}
      BY <2>1, <2>2, <2>4, AddTail DEF down
    <3>2. count' = 0 /\ up' = [up EXCEPT ![t] = 0] /\ pc' = [pc EXCEPT ![t] = "check"]
      BY <2>1, <2>4 DEF down
    <3> QED
      BY <3>1, <3>2
  <2> QED
    BY <2>3, <2>4
<1>2. CASE down_trylock(t)
  BY <1>2 DEF down_trylock, UpInv
<1>3. CASE up_holder(t)
  <2>1. lock = NULL /\ pc[t] = "held" /\ pc' = [pc EXCEPT ![t] = "idle"]
    BY <1>3 DEF up_holder, up_common
  <2>2. CASE list_empty(wait_list)
    BY <1>3, <2>1, <2>2, UpQueue DEF up_holder
  <2>3. CASE ~list_empty(wait_list)
    <3>1. count = 0 /\ count' = count /\ IsList(wait_list')
      BY <1>3, <2>3, UpQueue DEF up_holder
    <3>2. PICK w \in Tasks :
            /\ pc[w] \in Waiting /\ up[w] = 0
            /\ up' = [up EXCEPT ![w] = 1]
            /\ Entries(wait_list') = Entries(wait_list) \ {w}
      BY <1>3, <2>3, UpQueue DEF up_holder
    <3> QED
      BY <2>1, <3>1, <3>2
  <2> QED
    BY <2>2, <2>3
<1>4. CASE check(t)
  <2>1. CASE signal_pending_state(StateOf(mode[t]), sig[t]) \/ expired[t]
    <3>1. /\ pc[t] = "check" /\ up[t] = 0 /\ t \in Entries(wait_list)
          /\ wait_list' = list_del(wait_list, t)
          /\ count' = count
          /\ up' = [up EXCEPT ![t] = 0]
          /\ pc' = [pc EXCEPT ![t] = "idle"]
      BY <1>4, <2>1 DEF check, give_up, UpInv
    <3>2. /\ IsList(wait_list') /\ Entries(wait_list') = Entries(wait_list) \ {t}
      BY <3>1, DelEntries
    <3>3. list_empty(wait_list') \/ count = 0
      BY <3>1, EmptyEntries
    <3> QED
      BY <3>1, <3>2, <3>3
  <2>2. CASE ~(signal_pending_state(StateOf(mode[t]), sig[t]) \/ expired[t])
    BY <1>4, <2>2 DEF check
  <2> QED
    BY <2>1, <2>2
<1>5. CASE set_state(t)
  BY <1>5 DEF set_state
<1>6. CASE relock(t)
  BY <1>6 DEF relock
<1>7. CASE schedule_signal(t) \/ signal_handled(t) \/ process_timeout(t)
           \/ spurious_wakeup(t) \/ \E s \in Signals \ {"none"} : signal(t, s)
  BY <1>7 DEF schedule_signal, signal_handled, process_timeout, spurious_wakeup,
              signal
<1> QED
  BY <1>1, <1>2, <1>3, <1>4, <1>5, <1>6, <1>7 DEF Step

(* up() from outside keeps the rest of the invariant as well. *)
LEMMA IrqStep ==
  ASSUME TypeOK, LockInv, UpInv, QueueExact, up_irq
  PROVE  TypeOK' /\ LockInv' /\ UpInv' /\ QueueExact'
<1> USE SemAssumption
<1>1. /\ lock = NULL /\ pc' = pc /\ extra' \in 0 .. MaxExtra
      /\ UNCHANGED <<lock, mode, expired, sig>>
  BY DEF up_irq, up_common, TypeOK
<1>2. TypeOK'
  BY <1>1, UpType DEF up_irq, TypeOK
<1>3. up' = up \/ \E w \in Tasks : pc[w] = "schedule" /\ up' = [up EXCEPT ![w] = 1]
  BY <1>1, UpQueue DEF up_irq, LockInv, TypeOK, Waiting, Locked
<1>4. LockInv' /\ UpInv'
  BY <1>1, <1>3 DEF LockInv, UpInv, TypeOK
<1>5. CASE list_empty(wait_list)
  BY <1>1, <1>2, <1>4, <1>5, UpQueue DEF up_irq, QueueExact
<1>6. CASE ~list_empty(wait_list)
  <2>1. QueueExact'
    BY <1>1, <1>6, UpQueue DEF up_irq, QueueExact, TypeOK
  <2> QED
    BY <1>2, <1>4, <2>1
<1> QED
  BY <1>5, <1>6

-----------------------------------------------------------------------------
(* The owners are finitely many, and one more or one less changes their    *)
(* number by one.                                                          *)
LEMMA OwnersFinite ==
  /\ IsFiniteSet(Owners)
  /\ Cardinality(Owners) \in Nat
  /\ \A t : Cardinality(Owners \cup {t})
             = IF t \in Owners THEN Cardinality(Owners) ELSE Cardinality(Owners) + 1
  /\ \A t, u : t \in Owners /\ u \notin Owners =>
       /\ Cardinality(Owners \ {t}) = Cardinality(Owners) - 1
       /\ Cardinality((Owners \ {t}) \cup {u}) = Cardinality(Owners)
<1>1. IsFiniteSet(Owners)
  <2>1. Owners \in SUBSET Tasks
    BY DEF Owners
  <2> QED
    BY <2>1, SemAssumption, FS_Subset
<1>2. Cardinality(Owners) \in Nat
  BY <1>1, FS_CardinalityType
<1>3. ASSUME NEW t, NEW u, t \in Owners, u \notin Owners
      PROVE  /\ Cardinality(Owners \ {t}) = Cardinality(Owners) - 1
             /\ Cardinality((Owners \ {t}) \cup {u}) = Cardinality(Owners)
  <2>1. /\ IsFiniteSet(Owners \ {t})
        /\ Cardinality(Owners \ {t}) = Cardinality(Owners) - 1
    BY <1>1, <1>3, FS_RemoveElement
  <2>2. Cardinality((Owners \ {t}) \cup {u}) = Cardinality(Owners \ {t}) + 1
    BY <1>3, <2>1, FS_AddElement
  <2> QED
    BY <1>2, <2>1, <2>2
<1>4. ASSUME NEW t
      PROVE  Cardinality(Owners \cup {t})
             = IF t \in Owners THEN Cardinality(Owners) ELSE Cardinality(Owners) + 1
  BY <1>1, FS_AddElement
<1> QED
  BY <1>1, <1>2, <1>3, <1>4

(* No step of a task loses a unit or makes one up. *)
LEMMA UnitsStep ==
  ASSUME TypeOK, LockInv, UpInv, QueueExact, UnitsConserved,
         NEW t \in Tasks, Step(t)
  PROVE  UnitsConserved'
<1> USE SemAssumption, OwnersFinite DEF TypeOK, UnitsConserved
<1>1. ASSUME count' = count - 1, extra' = extra, Owners' = Owners \cup {t}, t \notin Owners
      PROVE  UnitsConserved'
  BY <1>1
<1>2. ASSUME count' = count, extra' = extra, Owners' = Owners
      PROVE  UnitsConserved'
  BY <1>2
<1>3. CASE \E m \in Modes, soon \in BOOLEAN : down(t, m, soon)
  <2>1. PICK m \in Modes, soon \in BOOLEAN : down(t, m, soon)
    BY <1>3
  <2>2. CASE count > 0
    <3>1. count' = count - 1 /\ extra' = extra /\ Owners' = Owners \cup {t} /\ t \notin Owners
      BY <2>1, <2>2 DEF down, Owners, Waiting, Locked
    <3> QED
      BY <1>1, <3>1
  <2>3. CASE count = 0
    <3>1. count' = count /\ extra' = extra /\ Owners' = Owners
      BY <2>1, <2>3 DEF down, Owners, Waiting, Locked
    <3> QED
      BY <1>2, <3>1
  <2> QED
    BY <2>2, <2>3
<1>4. CASE down_trylock(t)
  <2>1. count' = count - 1 /\ extra' = extra /\ Owners' = Owners \cup {t} /\ t \notin Owners
    BY <1>4 DEF down_trylock, Owners, Waiting, Locked
  <2> QED
    BY <1>1, <2>1
<1>5. CASE up_holder(t)
  <2>1. pc[t] = "held" /\ pc' = [pc EXCEPT ![t] = "idle"] /\ extra' = extra
    BY <1>5 DEF up_holder
  <2>2. t \in Owners
    BY <2>1 DEF Owners
  <2>3. CASE list_empty(wait_list)
    <3>1. count' = count + 1 /\ up' = up
      BY <1>5, <2>3, UpQueue DEF up_holder
    <3>2. Owners' = Owners \ {t}
      BY <2>1, <3>1 DEF Owners, Waiting, Locked
    <3>3. Cardinality(Owners \ {t}) = Cardinality(Owners) - 1
      <4>1. NULL \notin Owners
        BY DEF Owners
      <4> QED
        BY <2>2, <4>1
    <3> QED
      BY <2>1, <3>1, <3>2, <3>3
  <2>4. CASE ~list_empty(wait_list)
    <3>1. count' = count
      BY <1>5, <2>4, UpQueue DEF up_holder
    <3>2. PICK w \in Tasks : /\ pc[w] \in Waiting /\ up[w] = 0
                             /\ up' = [up EXCEPT ![w] = 1]
      BY <1>5, <2>4, UpQueue DEF up_holder
    <3>3. w \notin Owners /\ Owners' = (Owners \ {t}) \cup {w}
      BY <2>1, <3>2 DEF Owners, Waiting, Locked
    <3> QED
      BY <2>1, <2>2, <3>1, <3>3
  <2> QED
    BY <2>3, <2>4
<1>6. CASE check(t)
  <2>1. count' = count /\ extra' = extra
    BY <1>6 DEF check
  <2>2. Owners' = Owners
    BY <1>6 DEF check, give_up, UpInv, Owners, Waiting, Locked
  <2> QED
    BY <1>2, <2>1, <2>2
<1>7. CASE set_state(t)
  <2>1. count' = count /\ extra' = extra /\ Owners' = Owners
    BY <1>7 DEF set_state, Owners, Waiting, Locked
  <2> QED
    BY <1>2, <2>1
<1>8. CASE relock(t)
  <2>1. count' = count /\ extra' = extra /\ Owners' = Owners
    BY <1>8 DEF relock, Owners, Waiting, Locked
  <2> QED
    BY <1>2, <2>1
<1>9. CASE schedule_signal(t) \/ signal_handled(t) \/ process_timeout(t)
           \/ spurious_wakeup(t) \/ \E s \in Signals \ {"none"} : signal(t, s)
  <2>1. count' = count /\ extra' = extra /\ Owners' = Owners
    BY <1>9 DEF schedule_signal, signal_handled, process_timeout,
                spurious_wakeup, signal, Owners
  <2> QED
    BY <1>2, <2>1
<1> QED
  BY <1>3, <1>4, <1>5, <1>6, <1>7, <1>8, <1>9 DEF Step

(* A call of up() from outside adds exactly one. *)
LEMMA UnitsIrq ==
  ASSUME TypeOK, QueueExact, UnitsConserved, up_irq
  PROVE  UnitsConserved'
<1> USE SemAssumption, OwnersFinite DEF TypeOK, UnitsConserved
<1>1. pc' = pc /\ extra' = extra + 1
  BY DEF up_irq
<1>2. CASE list_empty(wait_list)
  <2>1. count' = count + 1 /\ Owners' = Owners
    BY <1>1, <1>2, UpQueue DEF up_irq, Owners
  <2> QED
    BY <1>1, <2>1
<1>3. CASE ~list_empty(wait_list)
  <2>1. count' = count
    BY <1>3, UpQueue DEF up_irq
  <2>2. PICK w \in Tasks : /\ pc[w] \in Waiting /\ up[w] = 0
                           /\ up' = [up EXCEPT ![w] = 1]
    BY <1>3, UpQueue DEF up_irq
  <2>3. w \notin Owners /\ Owners' = Owners \cup {w}
    BY <1>1, <2>2 DEF Owners, Waiting, Locked
  <2>4. Cardinality(Owners') = Cardinality(Owners) + 1
    BY <2>3
  <2> QED
    BY <1>1, <2>1, <2>4
<1> QED
  BY <1>2, <1>3

-----------------------------------------------------------------------------
(* The invariant holds in the beginning ... *)
LEMMA InitInv == Init => IInv
<1> SUFFICES ASSUME Init PROVE IInv
  OBVIOUS
<1> USE SemAssumption DEF Init
<1>1. TypeOK
  BY DEF TypeOK, EmptyList, TaskStates, Signals, PCs
<1>2. LockInv /\ UpInv
  BY DEF LockInv, UpInv, Locked
<1>3. QueueExact
  BY DEF QueueExact, IsList, Entries, list_empty, EmptyList, Waiting, Locked
<1>4. UnitsConserved
  <2>1. Owners = {}
    BY DEF Owners, Waiting, Locked
  <2> QED
    BY <2>1, FS_EmptySet DEF UnitsConserved
<1> QED
  BY <1>1, <1>2, <1>3, <1>4 DEF IInv

(* ... and every step keeps it. *)
LEMMA StepInv == IInv /\ [Next]_vars => IInv'
<1> SUFFICES ASSUME IInv, [Next]_vars PROVE IInv'
  OBVIOUS
<1>1. CASE up_irq
  BY <1>1, IrqStep, UnitsIrq DEF IInv
<1>2. CASE \E t \in Tasks : Step(t)
  BY <1>2, TypeStep, ControlStep, QueueStep, UnitsStep DEF IInv
<1>3. CASE UNCHANGED vars
  BY <1>3 DEF vars, IInv, TypeOK, LockInv, UpInv, QueueExact, UnitsConserved, Owners
<1> QED
  BY <1>1, <1>2, <1>3, NextIsStep

(* So it always holds. *)
LEMMA Invariance == Spec => []IInv
BY InitInv, StepInv, PTL DEF Spec

(* Every variable of the semaphore keeps its type; in particular count is  *)
(* never negative.                                                         *)
THEOREM TypeCorrect == Spec => []TypeOK
<1>1. IInv => TypeOK
  BY DEF IInv
<1> QED
  BY Invariance, <1>1, PTL

(* No unit is lost or made up, for any number of tasks, units and calls of *)
(* up() from outside, whatever signals and timeouts do to the waiters.     *)
THEOREM UnitsKept == Spec => []UnitsConserved
<1>1. IInv => UnitsConserved
  BY DEF IInv
<1> QED
  BY Invariance, <1>1, PTL

(* The wait queue holds exactly the waiters without a unit, and nobody     *)
(* waits while a unit is free.                                             *)
THEOREM QueueCorrect == Spec => []QueueExact
<1>1. IInv => QueueExact
  BY DEF IInv
<1> QED
  BY Invariance, <1>1, PTL

(* A unit handed to a waiter is not thrown away: no step takes a waiter    *)
(* that owns one out of the wait with an error.                            *)
THEOREM GrantsKept == Spec => GrantKept
<1> DEFINE Kept == \A t \in Tasks : pc[t] \in Waiting /\ up[t] = 1 => pc'[t] # "idle"
<1>1. ASSUME IInv, Next PROVE Kept
  <2> SUFFICES ASSUME NEW t \in Tasks, pc[t] = "schedule", up[t] = 1
               PROVE  pc'[t] # "idle"
    BY <1>1 DEF IInv, UpInv
  <2> USE DEF IInv, TypeOK
  <2>1. CASE up_irq
    BY <2>1 DEF up_irq
  <2>2. ASSUME NEW u \in Tasks, Step(u) PROVE pc'[t] # "idle"
    <3>1. CASE \E m \in Modes, soon \in BOOLEAN : down(u, m, soon)
      BY <1>1, <3>1 DEF down
    <3>2. CASE down_trylock(u) \/ up_holder(u)
      BY <1>1, <3>2 DEF down_trylock, up_holder
    <3>3. CASE check(u)
      BY <1>1, <3>3 DEF check, give_up
    <3>4. CASE set_state(u) \/ schedule_signal(u) \/ relock(u)
      BY <1>1, <3>4 DEF set_state, schedule_signal, relock
    <3>5. CASE signal_handled(u) \/ process_timeout(u) \/ spurious_wakeup(u)
               \/ \E s \in Signals \ {"none"} : signal(u, s)
      BY <1>1, <3>5 DEF signal_handled, process_timeout, spurious_wakeup, signal
    <3> QED
      BY <2>2, <3>1, <3>2, <3>3, <3>4, <3>5 DEF Step
  <2> QED
    BY <1>1, <2>1, <2>2, NextIsStep
<1>2. IInv /\ [Next]_vars => [Kept]_vars
  BY <1>1
<1> QED
  BY <1>2, Invariance, PTL DEF Spec, GrantKept

=============================================================================
