-------------------------- MODULE Completion_proofs --------------------------
(***************************************************************************)
(* Safety of completions for any number of waiters and any width of the    *)
(* counter: the invariant IInv of module Completion is inductive.          *)
(***************************************************************************)
EXTENDS Completion, LinuxList_proofs, FiniteSetTheorems

(* The steps of task t, its signals and timers included. *)
Step(t) ==
  \/ \E m \in Modes : wait_for_common(t, m)
  \/ take_done(t)
  \/ check(t) \/ set_state(t) \/ schedule_signal(t) \/ relock(t) \/ leave(t)
  \/ \E s \in Kinds : signal(t, s)
  \/ signal_handled(t) \/ process_timeout(t) \/ spurious_wakeup(t)

(* Next posts events, reinitialises or is a step of a task. *)
LEMMA NextIsStep ==
  Next => complete \/ complete_all \/ INIT_COMPLETION \/ \E t \in Tasks : Step(t)
BY DEF Next, Step

(* The counter keeps its width, and counts right below it. *)
LEMMA Modulo ==
  ASSUME NEW n \in Nat
  PROVE  n % Width \in 0 .. UINT_MAX /\ (n < Width => n % Width = n)
BY CompletionAssumption DEF UINT_MAX

(* complete_all() posts at least one event, and not all the counter holds. *)
LEMMA HalfType == UINT_MAX \div 2 \in Nat
BY CompletionAssumption DEF UINT_MAX

(* Waking a task makes it TASK_RUNNING and changes nothing else. *)
LEMMA WakeUp ==
  ASSUME NEW st \in [Tasks -> TaskStates], NEW t \in Tasks
  PROVE  /\ wake_up_process(st, t) = [st EXCEPT ![t] = TASK_RUNNING]
         /\ wake_up_process(st, t) \in [Tasks -> TaskStates]
<1>1. CASE st[t] = TASK_RUNNING
  <2>1. [st EXCEPT ![t] = TASK_RUNNING] = st
    BY <1>1
  <2> QED
    BY <2>1 DEF wake_up_process, try_to_wake_up
<1>2. CASE st[t] # TASK_RUNNING
  <2>1. st[t] \in TASK_ALL
    BY <1>2 DEF TaskStates, TASK_ALL
  <2> QED
    BY <2>1 DEF wake_up_process, try_to_wake_up, TaskStates
<1> QED
  BY <1>1, <1>2

(* A signal does so or does nothing. *)
LEMMA SignalWakeUp ==
  ASSUME NEW st \in [Tasks -> TaskStates], NEW t \in Tasks, NEW s
  PROVE  /\ signal_wake_up(st, t, s) \in {st, [st EXCEPT ![t] = TASK_RUNNING]}
         /\ signal_wake_up(st, t, s) \in [Tasks -> TaskStates]
BY DEF signal_wake_up, try_to_wake_up, TaskStates

-----------------------------------------------------------------------------
(* Some tasks are woken, and no other states change. *)
Woken == \A t \in Tasks : state'[t] = state[t] \/ state'[t] = TASK_RUNNING

(* complete() wakes one waiter that sleeps, or there is none. *)
LEMMA WakeOne ==
  ASSUME TypeOK, wake_one
  PROVE  /\ state' \in [Tasks -> TaskStates] /\ Woken
         /\ \/ Sleepers = {} /\ state' = state
            \/ \E i \in Sleepers : state' = [state EXCEPT ![wait[i]] = TASK_RUNNING]
<1>1. CASE Sleepers = {} /\ UNCHANGED state
  BY <1>1 DEF TypeOK, Woken
<1>2. CASE \E i \in Sleepers : state' = wake_up_process(state, wait[i])
  <2>1. PICK i \in Sleepers : state' = wake_up_process(state, wait[i])
    BY <1>2
  <2>2. wait[i] \in Tasks
    BY DEF TypeOK, Sleepers
  <2>3. state' = [state EXCEPT ![wait[i]] = TASK_RUNNING]
    BY <2>1, <2>2, WakeUp DEF TypeOK
  <2> QED
    BY <2>2, <2>3 DEF TypeOK, Woken, TaskStates
<1> QED
  BY <1>1, <1>2 DEF wake_one

(* complete_all() wakes every waiter. *)
LEMMA WakeAll ==
  ASSUME TypeOK, wake_all
  PROVE  /\ state' \in [Tasks -> TaskStates] /\ Woken
         /\ \A t \in Entries(wait) : state'[t] = TASK_RUNNING
<1>1. /\ DOMAIN state' = Tasks
      /\ \A t \in Tasks : state'[t] = IF \E i \in Sleepers : wait[i] = t
                                      THEN TASK_RUNNING ELSE state[t]
  BY DEF wake_all
<1>2. state' \in [Tasks -> TaskStates] /\ Woken
  BY <1>1 DEF TypeOK, Woken, wake_all, TaskStates
<1>3. ASSUME NEW t \in Entries(wait) PROVE state'[t] = TASK_RUNNING
  <2>1. PICK i \in DOMAIN wait : wait[i] = t
    BY DEF Entries
  <2>2. t \in Tasks /\ state[t] \in TaskStates
    BY <2>1 DEF TypeOK
  <2>3. CASE state[t] \in TASK_ALL
    BY <1>1, <2>1, <2>2, <2>3 DEF Sleepers
  <2>4. CASE state[t] = TASK_RUNNING
    BY <1>1, <2>2, <2>4
  <2> QED
    BY <2>2, <2>3, <2>4 DEF TaskStates, TASK_ALL
<1> QED
  BY <1>2, <1>3

-----------------------------------------------------------------------------
(* Type correctness, action by action. *)

(* finish() keeps the types of what it writes. *)
LEMMA FinishType ==
  ASSUME TypeOK, NEW t \in Tasks, NEW error \in BOOLEAN, finish(t, error)
  PROVE  TypeOK'
<1> USE DEF TypeOK
<1>1. list_del(wait, t) \in Seq(Tasks)
  BY DelType
<1>2. done' \in 0 .. UINT_MAX /\ taken' \in Nat
  BY CompletionAssumption DEF finish, UINT_MAX
<1>3. mode' \in [Tasks -> Modes \cup {NoWait}] /\ pc' \in [Tasks -> PCs]
  BY DEF finish, goto, PCs
<1>4. expired' = [expired EXCEPT ![t] = FALSE]
  BY DEF finish
<1>5. expired' \in [Tasks -> BOOLEAN]
  BY <1>4
<1>6. wait' \in Seq(Tasks) /\ lock' = NULL /\ UNCHANGED <<state, sig, posted>>
  BY <1>1 DEF finish
<1> QED
  BY <1>2, <1>3, <1>5, <1>6

(* The steps of a task keep the types. *)
LEMMA TypeStep ==
  ASSUME TypeOK, NEW t \in Tasks, Step(t)
  PROVE  TypeOK'
<1> USE CompletionAssumption DEF TypeOK, PCs, Waiting, Locked, goto
<1>1. CASE \E m \in Modes : wait_for_common(t, m)
  <2>1. list_add_tail(wait, t) \in Seq(Tasks)
    BY AddTail
  <2> QED
    BY <1>1, <2>1 DEF wait_for_common
<1>2. CASE take_done(t)
  BY <1>2 DEF take_done, taskVars, UINT_MAX
<1>3. CASE check(t)
  BY <1>3, FinishType DEF check
<1>4. CASE set_state(t)
  <2>1. mode[t].state \in TaskStates
    BY DEF Modes, NoWait, TaskStates, TASK_ALL
  <2> QED
    BY <1>4, <2>1 DEF set_state
<1>5. CASE schedule_signal(t)
  BY <1>5 DEF schedule_signal, TaskStates
<1>6. CASE relock(t)
  BY <1>6 DEF relock
<1>7. CASE leave(t)
  BY <1>7, FinishType DEF leave
<1>8. CASE \E s \in Kinds : signal(t, s)
  <2>1. PICK s \in Kinds : signal(t, s)
    BY <1>8
  <2>2. state' \in [Tasks -> TaskStates]
    BY <2>1, SignalWakeUp DEF signal
  <2> QED
    BY <2>1, <2>2 DEF signal
<1>9. CASE signal_handled(t)
  BY <1>9 DEF signal_handled, Signals
<1>10. CASE process_timeout(t)
  <2>1. state' \in [Tasks -> TaskStates]
    BY <1>10, WakeUp DEF process_timeout
  <2>2. expired' = [expired EXCEPT ![t] = TRUE]
    BY <1>10 DEF process_timeout
  <2>3. expired' \in [Tasks -> BOOLEAN]
    BY <2>2
  <2> QED
    BY <1>10, <2>1, <2>3 DEF process_timeout
<1>11. CASE spurious_wakeup(t)
  <2>1. state' \in [Tasks -> TaskStates]
    BY <1>11, WakeUp DEF spurious_wakeup
  <2> QED
    BY <1>11, <2>1 DEF spurious_wakeup
<1> QED
  BY <1>1, <1>2, <1>3, <1>4, <1>5, <1>6, <1>7, <1>8, <1>9, <1>10, <1>11 DEF Step

(* So do those that post events. *)
LEMMA TypePost ==
  ASSUME TypeOK, complete \/ complete_all \/ INIT_COMPLETION
  PROVE  TypeOK'
<1> USE DEF TypeOK
<1>1. CASE complete
  <2>1. done' \in 0 .. UINT_MAX
    BY <1>1, Modulo, CompletionAssumption DEF complete, UINT_MAX
  <2> QED
    BY <1>1, <2>1, WakeOne DEF complete
<1>2. CASE complete_all
  <2>1. done + UINT_MAX \div 2 \in Nat /\ posted + UINT_MAX \div 2 \in Nat
    BY HalfType
  <2>2. done' \in 0 .. UINT_MAX
    BY <1>2, <2>1, Modulo DEF complete_all
  <2> QED
    BY <1>2, <2>1, <2>2, WakeAll DEF complete_all
<1>3. CASE INIT_COMPLETION
  BY <1>3, CompletionAssumption DEF INIT_COMPLETION, taskVars, UINT_MAX
<1> QED
  BY <1>1, <1>2, <1>3

-----------------------------------------------------------------------------
(* The queue, the lock and the states of tasks. *)

Shape == QueueInv /\ LockInv /\ StateInv

(* Leaving the queue, by whoever has the lock or finds it free. *)
LEMMA FinishShape ==
  ASSUME TypeOK, Shape, NEW t \in Tasks, NEW error \in BOOLEAN, finish(t, error),
         pc[t] \in Waiting, lock \in {t, NULL}, state[t] = TASK_RUNNING
  PROVE  Shape'
<1> USE DEF TypeOK, Shape
<1>1. /\ wait' = list_del(wait, t) /\ lock' = NULL /\ state' = state
      /\ pc' = [pc EXCEPT ![t] = "idle"]
  BY DEF finish, goto
<1>2. t \in Entries(wait)
  BY DEF QueueInv
<1>3. IsList(wait') /\ Entries(wait') = Entries(wait) \ {t}
  BY <1>1, <1>2, DelEntries DEF QueueInv
<1>4. QueueInv'
  BY <1>1, <1>3 DEF QueueInv, Waiting, Locked
<1>5. LockInv'
  BY <1>1, CompletionAssumption DEF LockInv, Locked
<1>6. StateInv'
  BY <1>1 DEF StateInv
<1> QED
  BY <1>4, <1>5, <1>6

(* A step that leaves the queue, the lock and the place of every task      *)
(* alone, and changes states by waking only.                               *)
LEMMA WokenShape ==
  ASSUME Shape, Woken, UNCHANGED <<wait, lock, pc>>, lock # NULL => done' = 0
  PROVE  Shape'
BY DEF Shape, QueueInv, LockInv, StateInv, Woken

(* The steps of a task keep the shape. *)
LEMMA ShapeStep ==
  ASSUME TypeOK, Shape, NEW t \in Tasks, Step(t)
  PROVE  Shape'
<1> USE CompletionAssumption DEF TypeOK, goto
<1>1. CASE \E m \in Modes : wait_for_common(t, m)
  <2>1. /\ pc[t] = "idle" /\ lock = NULL /\ done = 0 /\ done' = 0
        /\ wait' = list_add_tail(wait, t) /\ lock' = t /\ state' = state
        /\ pc' = [pc EXCEPT ![t] = "check"]
    BY <1>1 DEF wait_for_common
  <2>2. t \notin Entries(wait)
    BY <2>1 DEF Shape, QueueInv, Waiting, Locked
  <2>3. IsList(wait') /\ Entries(wait') = Entries(wait) \cup {t}
    BY <2>1, <2>2, AddTail DEF Shape, QueueInv
  <2>4. QueueInv'
    BY <2>1, <2>3 DEF Shape, QueueInv, Waiting, Locked
  <2>5. LockInv'
    BY <2>1 DEF Shape, LockInv, Locked
  <2>6. StateInv'
    BY <2>1 DEF Shape, StateInv
  <2> QED
    BY <2>4, <2>5, <2>6 DEF Shape
<1>2. CASE take_done(t)
  BY <1>2, WokenShape DEF take_done, taskVars, Woken
<1>3. CASE check(t)
  <2>1. pc[t] = "check" /\ lock = t /\ state[t] = TASK_RUNNING /\ pc[t] \in Waiting
    BY <1>3 DEF check, Shape, LockInv, StateInv, Locked, Waiting
  <2>2. CASE finish(t, TRUE)
    BY <2>1, <2>2, FinishShape
  <2>3. CASE /\ pc' = [pc EXCEPT ![t] = "set_state"]
             /\ UNCHANGED <<done, lock, wait, state>>
    BY <2>1, <2>3 DEF Shape, QueueInv, LockInv, StateInv, Waiting, Locked
  <2> QED
    BY <1>3, <2>2, <2>3 DEF check
<1>4. CASE set_state(t)
  <2>1. /\ pc[t] = "set_state" /\ lock = t /\ lock' = NULL /\ wait' = wait
        /\ pc' = [pc EXCEPT ![t] = "schedule"]
        /\ state' = [state EXCEPT ![t] = mode[t].state]
    BY <1>4 DEF set_state, Shape, LockInv, Locked
  <2>2. QueueInv'
    BY <2>1 DEF Shape, QueueInv, Waiting, Locked
  <2>3. LockInv'
    BY <2>1 DEF Shape, LockInv, Locked
  <2>4. StateInv'
    BY <2>1 DEF Shape, StateInv
  <2> QED
    BY <2>2, <2>3, <2>4 DEF Shape
<1>5. CASE schedule_signal(t)
  <2>1. Woken
    BY <1>5 DEF schedule_signal, Woken
  <2> QED
    BY <1>5, <2>1, WokenShape DEF schedule_signal, Shape, LockInv
<1>6. CASE relock(t)
  <2>1. /\ pc[t] = "schedule" /\ state[t] = TASK_RUNNING /\ lock = NULL /\ done' = 0
        /\ lock' = t /\ UNCHANGED <<wait, state>> /\ pc' = [pc EXCEPT ![t] = "check"]
    BY <1>6 DEF relock
  <2>2. QueueInv'
    BY <2>1 DEF Shape, QueueInv, Waiting, Locked
  <2>3. LockInv'
    BY <2>1 DEF Shape, LockInv, Locked
  <2>4. StateInv'
    BY <2>1 DEF Shape, StateInv
  <2> QED
    BY <2>2, <2>3, <2>4 DEF Shape
<1>7. CASE leave(t)
  BY <1>7, FinishShape DEF leave, Waiting
<1>8. CASE \E s \in Kinds : signal(t, s)
  <2>1. PICK s \in Kinds : signal(t, s)
    BY <1>8
  <2>2. Woken
    BY <2>1, SignalWakeUp DEF signal, Woken
  <2> QED
    BY <2>1, <2>2, WokenShape DEF signal, Shape, LockInv
<1>9. CASE signal_handled(t)
  BY <1>9, WokenShape DEF signal_handled, Woken, Shape, LockInv
<1>10. CASE process_timeout(t)
  <2>1. Woken
    BY <1>10, WakeUp DEF process_timeout, Woken
  <2> QED
    BY <1>10, <2>1, WokenShape DEF process_timeout, Shape, LockInv
<1>11. CASE spurious_wakeup(t)
  <2>1. Woken
    BY <1>11, WakeUp DEF spurious_wakeup, Woken
  <2> QED
    BY <1>11, <2>1, WokenShape DEF spurious_wakeup, Shape, LockInv
<1> QED
  BY <1>1, <1>2, <1>3, <1>4, <1>5, <1>6, <1>7, <1>8, <1>9, <1>10, <1>11 DEF Step

(* So do those that post events. *)
LEMMA ShapePost ==
  ASSUME TypeOK, Shape, complete \/ complete_all \/ INIT_COMPLETION
  PROVE  Shape'
<1>1. CASE complete
  BY <1>1, WakeOne, WokenShape DEF complete
<1>2. CASE complete_all
  BY <1>2, WakeAll, WokenShape DEF complete_all
<1>3. CASE INIT_COMPLETION
  BY <1>3, WokenShape DEF INIT_COMPLETION, taskVars, Woken
<1> QED
  BY <1>1, <1>2, <1>3

-----------------------------------------------------------------------------
(* Events. *)

(* The steps of a task conserve them: an event that is taken is counted,   *)
(* since a wait that ends with an error has the lock and no event to take. *)
LEMMA EventsStep ==
  ASSUME TypeOK, Shape, EventsConserved, NEW t \in Tasks, Step(t)
  PROVE  EventsConserved'
<1> USE CompletionAssumption DEF TypeOK, EventsConserved, UINT_MAX
<1>1. CASE take_done(t)
  BY <1>1 DEF take_done
<1>2. CASE check(t)
  <2>1. done = 0
    BY <1>2 DEF check, Shape, LockInv, Locked
  <2> QED
    BY <1>2, <2>1 DEF check, finish
<1>3. CASE leave(t)
  BY <1>3 DEF leave, finish
<1>4. CASE UNCHANGED <<done, posted, taken>>
  BY <1>4
<1>5. take_done(t) \/ check(t) \/ leave(t) \/ UNCHANGED <<done, posted, taken>>
  BY DEF Step, wait_for_common, set_state, schedule_signal, relock, signal, signal_handled,
         process_timeout, spurious_wakeup
<1> QED
  BY <1>1, <1>2, <1>3, <1>4, <1>5

(* Posting conserves them as long as the counter can hold them. *)
LEMMA EventsPost ==
  ASSUME TypeOK, EventsConserved, complete \/ complete_all \/ INIT_COMPLETION
  PROVE  EventsConserved'
<1> USE CompletionAssumption DEF TypeOK, UINT_MAX
<1>1. ASSUME NEW n \in Nat, done' = (done + n) % Width, posted' = posted + n,
             taken' = taken
      PROVE  EventsConserved'
  <2>1. SUFFICES ASSUME posted + n < Width PROVE done' = posted + n - taken
    BY <1>1 DEF EventsConserved
  <2>2. done = posted - taken
    BY <1>1, <2>1 DEF EventsConserved
  <2>3. done + n \in Nat /\ done + n < Width
    BY <1>1, <2>1, <2>2
  <2>4. (done + n) % Width = done + n
    BY <2>3, Modulo
  <2> QED
    BY <1>1, <2>2, <2>4
<1>2. CASE complete
  BY <1>2, <1>1 DEF complete
<1>3. CASE complete_all
  BY <1>3, <1>1, HalfType DEF complete_all
<1>4. CASE INIT_COMPLETION
  BY <1>4 DEF INIT_COMPLETION, EventsConserved
<1> QED
  BY <1>2, <1>3, <1>4

-----------------------------------------------------------------------------
(* Wake-ups. *)

(* The waiters who are awake can be counted. *)
LEMMA AwakeFinite ==
  ASSUME QueueInv
  PROVE  /\ IsFiniteSet(Awake) /\ Cardinality(Awake) \in Nat
         /\ Awake \subseteq Entries(wait) /\ Entries(wait) \subseteq Tasks
<1>1. Awake \in SUBSET Tasks /\ Awake \subseteq Entries(wait) /\ Entries(wait) \subseteq Tasks
  BY DEF Awake, QueueInv
<1>2. IsFiniteSet(Awake)
  BY <1>1, FS_Subset, CompletionAssumption
<1> QED
  BY <1>1, <1>2, FS_CardinalityType

(* Also after a step. *)
LEMMA AwakeFiniteNext ==
  ASSUME QueueInv'
  PROVE  IsFiniteSet(Awake') /\ Cardinality(Awake') \in Nat
<1>1. Awake' \in SUBSET Tasks
  BY DEF Awake, QueueInv
<1>2. IsFiniteSet(Awake')
  BY <1>1, FS_Subset, CompletionAssumption
<1> QED
  BY <1>2, FS_CardinalityType

(* Nobody is stranded if there is no event. *)
LEMMA ZeroStranded ==
  ASSUME QueueInv', done' = 0
  PROVE  NoneStranded'
BY AwakeFiniteNext DEF NoneStranded

(* Nor if a step only wakes, and takes events rather than posting them. *)
LEMMA WokenStranded ==
  ASSUME TypeOK, Shape, QueueInv', NoneStranded, Woken, done' \in Nat, done' <= done,
         UNCHANGED <<wait, pc>>
  PROVE  NoneStranded'
<1>1. Entries(wait)' = Entries(wait)
  BY DEF Entries
<1>2. Awake \subseteq Awake' /\ Awake' \subseteq Entries(wait)
  BY <1>1 DEF Awake, Asleep, Woken, Shape, QueueInv
<1>3. /\ IsFiniteSet(Awake') /\ Cardinality(Awake') \in Nat
      /\ IsFiniteSet(Awake) /\ Cardinality(Awake) \in Nat
  BY AwakeFinite, AwakeFiniteNext DEF Shape
<1>4. Cardinality(Awake) <= Cardinality(Awake')
  BY <1>2, <1>3, FS_Subset
<1>5. CASE Cardinality(Awake) >= done
  BY <1>3, <1>4, <1>5 DEF NoneStranded, TypeOK, UINT_MAX
<1>6. CASE Awake = Entries(wait)
  BY <1>1, <1>2, <1>6 DEF NoneStranded
<1> QED
  BY <1>5, <1>6 DEF NoneStranded

(* A waiter that leaves takes itself and at most one event away. *)
LEMMA LeaveStranded ==
  ASSUME TypeOK, Shape, QueueInv', NoneStranded, NEW t \in Tasks, leave(t)
  PROVE  NoneStranded'
<1>1. /\ pc[t] = "schedule" /\ state[t] = TASK_RUNNING
      /\ wait' = list_del(wait, t) /\ state' = state /\ pc' = [pc EXCEPT ![t] = "idle"]
      /\ done' = IF done = 0 THEN 0 ELSE done - 1
  BY DEF leave, finish, goto
<1>2. CASE done = 0
  BY <1>1, <1>2, ZeroStranded
<1>3. CASE done # 0
  <2>1. done \in Nat /\ done' = done - 1
    BY <1>1, <1>3, CompletionAssumption DEF TypeOK, UINT_MAX
  <2>2. t \in Entries(wait) /\ t \in Awake
    BY <1>1 DEF Shape, QueueInv, Waiting, Awake, Asleep
  <2>3. Entries(wait') = Entries(wait) \ {t}
    BY <1>1, <2>2, DelEntries DEF Shape, QueueInv, TypeOK
  <2>4. Awake' = {u \in Entries(wait') : ~(pc'[u] = "schedule" /\ state'[u] # TASK_RUNNING)}
    BY DEF Awake, Asleep
  <2>5. \A u \in Entries(wait) \ {t} : pc'[u] = pc[u] /\ state'[u] = state[u]
    BY <1>1 DEF TypeOK, Shape, QueueInv
  <2>6. Awake' = Awake \ {t}
    BY <2>3, <2>4, <2>5 DEF Awake, Asleep
  <2>7. CASE Cardinality(Awake) >= done
    <3>1. Cardinality(Awake') = Cardinality(Awake) - 1
      BY <2>2, <2>6, AwakeFinite, FS_RemoveElement DEF Shape
    <3> QED
      BY <2>1, <2>7, <3>1, AwakeFinite DEF NoneStranded, Shape
  <2>8. CASE Awake = Entries(wait)
    BY <2>3, <2>6, <2>8 DEF NoneStranded
  <2> QED
    BY <2>7, <2>8 DEF NoneStranded
<1> QED
  BY <1>2, <1>3

(* The steps of a task strand nobody: only one that has seen no event goes *)
(* to sleep.                                                               *)
LEMMA StrandedStep ==
  ASSUME TypeOK, Shape, QueueInv', NoneStranded, NEW t \in Tasks, Step(t)
  PROVE  NoneStranded'
<1>0. done \in Nat
  BY CompletionAssumption DEF TypeOK, UINT_MAX
<1>1. CASE \E m \in Modes : wait_for_common(t, m)
  BY <1>1, ZeroStranded DEF wait_for_common
<1>2. CASE take_done(t)
  <2>1. Woken /\ done' \in Nat /\ done' <= done /\ UNCHANGED <<wait, pc>>
    BY <1>0, <1>2 DEF take_done, taskVars, Woken
  <2> QED
    BY <2>1, WokenStranded
<1>3. CASE check(t)
  <2>1. done = 0
    BY <1>3, CompletionAssumption DEF check, Shape, LockInv, Locked
  <2>2. done' = 0
    BY <1>3, <2>1 DEF check, finish
  <2> QED
    BY <2>2, ZeroStranded
<1>4. CASE set_state(t)
  <2>1. done = 0
    BY <1>4, CompletionAssumption DEF set_state, Shape, LockInv, Locked
  <2> QED
    BY <1>4, <2>1, ZeroStranded DEF set_state
<1>5. CASE schedule_signal(t)
  <2>1. Woken
    BY <1>5 DEF schedule_signal, Woken, TypeOK
  <2> QED
    BY <1>0, <1>5, <2>1, WokenStranded DEF schedule_signal
<1>6. CASE relock(t)
  BY <1>6, ZeroStranded DEF relock
<1>7. CASE leave(t)
  BY <1>7, LeaveStranded
<1>8. CASE \E s \in Kinds : signal(t, s)
  <2>1. PICK s \in Kinds : signal(t, s)
    BY <1>8
  <2>2. Woken
    BY <2>1, SignalWakeUp DEF signal, Woken, TypeOK
  <2> QED
    BY <1>0, <2>1, <2>2, WokenStranded DEF signal
<1>9. CASE signal_handled(t)
  BY <1>0, <1>9, WokenStranded DEF signal_handled, Woken
<1>10. CASE process_timeout(t)
  <2>1. Woken
    BY <1>10, WakeUp DEF process_timeout, Woken, TypeOK
  <2> QED
    BY <1>0, <1>10, <2>1, WokenStranded DEF process_timeout
<1>11. CASE spurious_wakeup(t)
  <2>1. Woken
    BY <1>11, WakeUp DEF spurious_wakeup, Woken, TypeOK
  <2> QED
    BY <1>0, <1>11, <2>1, WokenStranded DEF spurious_wakeup
<1> QED
  BY <1>1, <1>2, <1>3, <1>4, <1>5, <1>6, <1>7, <1>8, <1>9, <1>10, <1>11 DEF Step

(* complete() has one more waiter awake for its event, or all of them. *)
LEMMA CompleteStranded ==
  ASSUME TypeOK, Shape, QueueInv', NoneStranded, complete
  PROVE  NoneStranded'
<1> USE DEF Shape
<1>1. done \in Nat /\ done' \in Nat /\ done' <= done + 1
  <2>1. done \in 0 .. Width - 1 /\ Width \in Nat /\ done' = (done + 1) % Width
    BY CompletionAssumption DEF complete, TypeOK, UINT_MAX
  <2>2. /\ (done + 1) % Width \in 0 .. Width - 1
        /\ done + 1 < Width => (done + 1) % Width = done + 1
    BY <2>1, Modulo DEF UINT_MAX
  <2> QED
    BY <2>1, <2>2
<1>2. UNCHANGED <<wait, pc>> /\ Entries(wait') = Entries(wait) /\ wake_one
  BY DEF complete
<1>3. Awake' = {u \in Entries(wait) : ~(pc[u] = "schedule" /\ state'[u] # TASK_RUNNING)}
  BY <1>2 DEF Awake, Asleep
<1>4. CASE Sleepers = {} /\ state' = state
  <2>1. \A u \in Entries(wait) : state[u] = TASK_RUNNING
    BY <1>4 DEF Entries, Sleepers, TypeOK, TaskStates, TASK_ALL
  <2> QED
    BY <1>2, <1>3, <1>4, <2>1 DEF NoneStranded
<1>5. CASE \E i \in Sleepers : state' = [state EXCEPT ![wait[i]] = TASK_RUNNING]
  <2>1. PICK i \in Sleepers : state' = [state EXCEPT ![wait[i]] = TASK_RUNNING]
    BY <1>5
  <2> DEFINE w == wait[i]
  <2>2. w \in Entries(wait) /\ w \in Tasks /\ state[w] # TASK_RUNNING
    BY DEF Sleepers, Entries, TypeOK, TASK_ALL, TASK_RUNNING, TASK_INTERRUPTIBLE,
           TASK_UNINTERRUPTIBLE, TASK_KILLABLE
  <2>3. w \notin Awake
    BY <2>2 DEF Awake, Asleep, StateInv
  <2>4. \A u \in Entries(wait) : state'[u] = IF u = w THEN TASK_RUNNING ELSE state[u]
    BY <2>1 DEF TypeOK, QueueInv
  <2>5. Awake' = Awake \cup {w}
    BY <1>3, <2>2, <2>4 DEF Awake, Asleep
  <2>6. CASE Cardinality(Awake) >= done
    <3>1. Cardinality(Awake') = Cardinality(Awake) + 1
      BY <2>3, <2>5, AwakeFinite, FS_AddElement
    <3> QED
      BY <1>1, <2>6, <3>1, AwakeFinite DEF NoneStranded
  <2>7. CASE Awake = Entries(wait)
    BY <2>2, <2>3, <2>7
  <2> QED
    BY <2>6, <2>7 DEF NoneStranded
<1> QED
  BY <1>2, <1>4, <1>5, WakeOne

(* complete_all() has all of them awake. *)
LEMMA PostStranded ==
  ASSUME TypeOK, Shape, QueueInv', NoneStranded,
         complete \/ complete_all \/ INIT_COMPLETION
  PROVE  NoneStranded'
<1>1. CASE complete
  BY <1>1, CompleteStranded
<1>2. CASE complete_all
  <2>1. wake_all /\ wait' = wait /\ Entries(wait') = Entries(wait)
    BY <1>2 DEF complete_all
  <2>2. \A u \in Entries(wait) : state'[u] = TASK_RUNNING
    BY <2>1, WakeAll
  <2>3. Awake' = Entries(wait')
    BY <2>1, <2>2 DEF Awake, Asleep
  <2> QED
    BY <2>3 DEF NoneStranded
<1>3. CASE INIT_COMPLETION
  BY <1>3, ZeroStranded DEF INIT_COMPLETION
<1> QED
  BY <1>1, <1>2, <1>3

-----------------------------------------------------------------------------
(* init_completion() establishes the invariant. *)
LEMMA InitIInv == Init => IInv
<1> SUFFICES ASSUME Init PROVE IInv
  OBVIOUS
<1> USE CompletionAssumption DEF Init
<1>1. TypeOK
  BY DEF TypeOK, UINT_MAX, EmptyList, NoWait, TaskStates, Signals, PCs
<1>2. Entries(wait) = {} /\ IsList(wait)
  BY DEF Entries, IsList, EmptyList
<1>3. QueueInv /\ LockInv /\ StateInv
  BY <1>2 DEF QueueInv, LockInv, StateInv, Waiting, Locked
<1>4. EventsConserved
  BY DEF EventsConserved
<1>5. NoneStranded
  BY <1>2 DEF NoneStranded, Awake
<1> QED
  BY <1>1, <1>3, <1>4, <1>5 DEF IInv

(* Every step keeps it. *)
LEMMA StepIInv == IInv /\ [Next]_vars => IInv'
<1> SUFFICES ASSUME IInv, [Next]_vars PROVE IInv'
  OBVIOUS
<1>1. TypeOK /\ Shape /\ EventsConserved /\ NoneStranded
  BY DEF IInv, Shape
<1>2. CASE complete \/ complete_all \/ INIT_COMPLETION
  <2>1. TypeOK' /\ Shape' /\ EventsConserved'
    BY <1>1, <1>2, TypePost, ShapePost, EventsPost
  <2>2. NoneStranded'
    BY <1>1, <1>2, <2>1, PostStranded DEF Shape
  <2> QED
    BY <2>1, <2>2 DEF IInv, Shape
<1>3. CASE \E t \in Tasks : Step(t)
  <2>1. PICK t \in Tasks : Step(t)
    BY <1>3
  <2>2. TypeOK' /\ Shape' /\ EventsConserved'
    BY <1>1, <2>1, TypeStep, ShapeStep, EventsStep
  <2>3. NoneStranded'
    BY <1>1, <2>1, <2>2, StrandedStep DEF Shape
  <2> QED
    BY <2>2, <2>3 DEF IInv, Shape
<1>4. CASE UNCHANGED vars
  BY <1>1, <1>4 DEF IInv, Shape, vars, taskVars, TypeOK, QueueInv, LockInv, StateInv,
     EventsConserved, NoneStranded, Awake, Asleep
<1> QED
  BY <1>2, <1>3, <1>4, NextIsStep

(* The invariant holds in every state of every behaviour. *)
LEMMA Invariant == Spec => []IInv
BY InitIInv, StepIInv, PTL DEF Spec

(* The variables of a completion keep their types; x->done stays within    *)
(* its width.                                                              *)
THEOREM TypeCorrect == Spec => []TypeOK
<1>1. IInv => TypeOK
  BY DEF IInv
<1> QED
  BY <1>1, Invariant, PTL

(* Every event goes to exactly the wait that reports it, whatever          *)
(* timeouts, signals and other waiters wait_for_common() races with.       *)
THEOREM EventsKept == Spec => []EventsConserved
<1>1. IInv => EventsConserved
  BY DEF IInv
<1> QED
  BY <1>1, Invariant, PTL

(* No event is left lying while its waiters sleep: the wake-ups of         *)
(* complete() are not lost on tasks that are awake or give up.             *)
THEOREM WakeupsKept == Spec => []NoneStranded
<1>1. IInv => NoneStranded
  BY DEF IInv
<1> QED
  BY <1>1, Invariant, PTL

=============================================================================
