---------------------------- MODULE Mutex_proofs ----------------------------
(***************************************************************************)
(* Safety of the mutex for any number of tasks.  The invariant IInv of     *)
(* module Mutex is inductive; each of its parts has a lemma of its own.    *)
(***************************************************************************)
EXTENDS Mutex, LinuxList_proofs, FiniteSetTheorems

(* The steps of task t, all actions of Next side by side. *)
Step(t) ==
  \/ \E m \in Modes : mutex_lock(t, m)
  \/ mutex_trylock(t) \/ trylock_slowpath(t) \/ mutex_unlock(t)
  \/ Proceed(t) \/ TakeWaitLock(t)
  \/ \E s \in Kinds : signal(t, s)
  \/ signal_handled(t) \/ spurious_wakeup(t)

(* Next is a step of some task. *)
LEMMA NextIsStep == Next => \E t \in Tasks : Step(t)
BY DEF Next, Step

USE DEF goto, lock_return

(* Waking a task leaves a map of task states. *)
LEMMA WakeType ==
  ASSUME NEW st \in [Tasks -> TaskStates], NEW t \in Tasks, NEW s
  PROVE  /\ wake_up_process(st, t) \in [Tasks -> TaskStates]
         /\ signal_wake_up(st, t, s) \in [Tasks -> TaskStates]
BY DEF wake_up_process, signal_wake_up, try_to_wake_up, TaskStates

(* Every step keeps the types. *)
LEMMA TypeStep ==
  ASSUME TypeOK, ModeInv, MutualExclusion, NEW t \in Tasks, Step(t)
  PROVE  TypeOK'
<1> USE DEF TypeOK, PCs, LockPath, Spinning, Queued, Holding
<1>1. CASE \E m \in Modes : mutex_lock(t, m)
  BY <1>1 DEF mutex_lock
<1>2. CASE mutex_trylock(t) \/ trylock_slowpath(t) \/ mutex_unlock(t)
  BY <1>2 DEF mutex_trylock, trylock_slowpath, mutex_unlock
<1>3. CASE spin(t) \/ mutex_spin_on_owner(t) \/ spin_cmpxchg(t)
  BY <1>3 DEF spin, mutex_spin_on_owner, spin_cmpxchg
<1>4. CASE add_waiter(t) \/ retry(t)
  BY <1>4 DEF add_waiter, retry, xchg
<1>5. CASE check_signal(t)
  <2>1. list_del(wait_list, t) \in Seq(Tasks)
    BY DelType
  <2> QED
    BY <1>5, <2>1 DEF check_signal
<1>6. CASE set_state(t)
  <2>1. mode[t] \in TaskStates
    BY <1>6, MutexAssumption DEF set_state, ModeInv, TASK_ALL, TaskStates
  <2> QED
    BY <1>6, <2>1 DEF set_state
<1>7. CASE schedule_signal(t)
  BY <1>7 DEF schedule_signal, TaskStates
<1>8. CASE done(t)
  <2>1. list_del(wait_list, t) \in Seq(Tasks)
    BY DelType
  <2> QED
    BY <1>8, <2>1 DEF done
<1>9. CASE unlock_wait_lock(t) \/ mutex_set_owner(t)
  BY <1>9 DEF unlock_wait_lock, set_zero, mutex_set_owner
<1>10. CASE try_own(t) \/ try_lost(t)
  BY <1>10 DEF try_own, try_lost, set_zero
<1>11. CASE fastpath_unlock(t)
  <2>1. count < 1
    BY <1>11 DEF fastpath_unlock, MutualExclusion, Holders
  <2> QED
    BY <1>11, <2>1 DEF fastpath_unlock
<1>12. CASE wake_waiter(t)
  <2>1. ~list_empty(wait_list) => list_first_entry(wait_list) \in Tasks
    BY HeadIsEntry
  <2>2. state' \in [Tasks -> TaskStates]
    BY <1>12, <2>1, WakeType DEF wake_waiter
  <2> QED
    BY <1>12, <2>2 DEF wake_waiter
<1>13. CASE slow_lock(t)
  <2>1. list_add_tail(wait_list, t) \in Seq(Tasks)
    BY AddTail
  <2> QED
    BY <1>13, <2>1 DEF slow_lock
<1>14. CASE relock(t) \/ unlock_slowpath(t)
  BY <1>14 DEF relock, unlock_slowpath
<1>15. CASE \E s \in Kinds : signal(t, s)
  <2>1. PICK s \in Kinds : signal(t, s)
    BY <1>15
  <2>2. s \in Signals
    BY MutexAssumption
  <2>3. state' \in [Tasks -> TaskStates]
    BY <2>1, WakeType DEF signal
  <2> QED
    BY <2>1, <2>2, <2>3 DEF signal
<1>16. CASE signal_handled(t)
  BY <1>16 DEF signal_handled, Signals
<1>17. CASE spurious_wakeup(t)
  <2>1. state' \in [Tasks -> TaskStates]
    BY <1>17, WakeType DEF spurious_wakeup
  <2> QED
    BY <1>17, <2>1 DEF spurious_wakeup
<1> QED
  BY <1>1, <1>2, <1>3, <1>4, <1>5, <1>6, <1>7, <1>8, <1>9, <1>10, <1>11,
     <1>12, <1>13, <1>14, <1>15, <1>16, <1>17 DEF Step, Proceed, TakeWaitLock

(* Steps that leave lock->count, lock->owner and the set of holders alone. *)
Quiet(t) ==
  \/ spin(t) \/ mutex_spin_on_owner(t) \/ check_signal(t) \/ set_state(t)
  \/ schedule_signal(t) \/ wake_waiter(t) \/ slow_lock(t) \/ relock(t)
  \/ (\E s \in Kinds : signal(t, s)) \/ signal_handled(t) \/ spurious_wakeup(t)

(* A task on its way to the lock keeps its mode, and wait_lock has one     *)
(* holder, who is in a critical section.                                   *)
LEMMA ControlStep ==
  ASSUME TypeOK, ModeInv, WaitLockInv, NEW t \in Tasks, Step(t)
  PROVE  ModeInv' /\ WaitLockInv'
<1> USE MutexAssumption DEF TypeOK, ModeInv, WaitLockInv, PCs, LockPath,
        Spinning, Queued, Holding, Locked
<1>1. CASE \E m \in Modes : mutex_lock(t, m)
  BY <1>1 DEF mutex_lock
<1>2. CASE mutex_trylock(t) \/ trylock_slowpath(t) \/ mutex_unlock(t)
  BY <1>2 DEF mutex_trylock, trylock_slowpath, mutex_unlock
<1>3. CASE spin(t) \/ mutex_spin_on_owner(t)
  BY <1>3 DEF spin, mutex_spin_on_owner
<1>4. CASE spin_cmpxchg(t)
  BY <1>4 DEF spin_cmpxchg
<1>5. CASE add_waiter(t) \/ retry(t)
  BY <1>5 DEF add_waiter, retry, xchg
<1>6. CASE check_signal(t)
  BY <1>6 DEF check_signal
<1>7. CASE set_state(t) \/ schedule_signal(t)
  BY <1>7 DEF set_state, schedule_signal
<1>8. CASE done(t) \/ unlock_wait_lock(t) \/ mutex_set_owner(t)
  BY <1>8 DEF done, unlock_wait_lock, mutex_set_owner
<1>9. CASE try_own(t) \/ try_lost(t)
  BY <1>9 DEF try_own, try_lost
<1>10. CASE fastpath_unlock(t) \/ wake_waiter(t)
  BY <1>10 DEF fastpath_unlock, wake_waiter
<1>11. CASE slow_lock(t) \/ relock(t) \/ unlock_slowpath(t)
  BY <1>11 DEF slow_lock, relock, unlock_slowpath
<1>12. CASE (\E s \in Kinds : signal(t, s)) \/ signal_handled(t) \/ spurious_wakeup(t)
  BY <1>12 DEF signal, signal_handled, spurious_wakeup
<1> QED
  BY <1>1, <1>2, <1>3, <1>4, <1>5, <1>6, <1>7, <1>8, <1>9, <1>10, <1>11,
     <1>12 DEF Step, Proceed, TakeWaitLock

(* What a quiet step does. *)
LEMMA QuietStep ==
  ASSUME TypeOK, NEW t \in Tasks, Quiet(t)
  PROVE  /\ count' = count /\ owner' = owner
         /\ \A u \in Tasks : u # t => pc'[u] = pc[u]
         /\ \/ pc[t] \notin Holding /\ pc'[t] \notin Holding
            \/ pc'[t] = pc[t]
<1> USE DEF TypeOK, Holding
<1>1. CASE spin(t) \/ mutex_spin_on_owner(t) \/ check_signal(t) \/ set_state(t)
  BY <1>1 DEF spin, mutex_spin_on_owner, check_signal, set_state
<1>2. CASE schedule_signal(t) \/ wake_waiter(t) \/ slow_lock(t) \/ relock(t)
  BY <1>2 DEF schedule_signal, wake_waiter, slow_lock, relock
<1>3. CASE (\E s \in Kinds : signal(t, s)) \/ signal_handled(t) \/ spurious_wakeup(t)
  BY <1>3 DEF signal, signal_handled, spurious_wakeup
<1> QED
  BY <1>1, <1>2, <1>3 DEF Quiet

(* Mutual exclusion, step by step. *)
LEMMA ExclusionStep ==
  ASSUME TypeOK, WaitLockInv, FailedInv, MutualExclusion,
         NEW t \in Tasks, Step(t)
  PROVE  MutualExclusion'
<1> USE DEF TypeOK, MutualExclusion, Holders, Holding
<1>1. CASE \E m \in Modes : mutex_lock(t, m)
  BY <1>1 DEF mutex_lock
<1>2. CASE mutex_trylock(t)
  BY <1>2 DEF mutex_trylock
<1>3. CASE trylock_slowpath(t)
  BY <1>3 DEF trylock_slowpath
<1>4. CASE mutex_unlock(t) \/ mutex_set_owner(t) \/ done(t) \/ try_own(t)
  BY <1>4 DEF mutex_unlock, mutex_set_owner, done, try_own
<1>5. CASE spin_cmpxchg(t)
  BY <1>5 DEF spin_cmpxchg
<1>6. CASE add_waiter(t) \/ retry(t)
  BY <1>6 DEF add_waiter, retry, xchg
<1>7. CASE unlock_wait_lock(t)
  BY <1>7 DEF unlock_wait_lock, set_zero
<1>8. CASE try_lost(t)
  \* The mutex that could not be had is still held: count is not 1.
  <2>1. count # 1
    BY <1>8 DEF try_lost, FailedInv
  <2> QED
    BY <1>8, <2>1 DEF try_lost, set_zero
<1>9. CASE fastpath_unlock(t)
  BY <1>9 DEF fastpath_unlock
<1>10. CASE unlock_slowpath(t)
  BY <1>10 DEF unlock_slowpath
<1>11. CASE Quiet(t)
  BY <1>11, QuietStep
<1> QED
  BY <1>1, <1>2, <1>3, <1>4, <1>5, <1>6, <1>7, <1>8, <1>9, <1>10, <1>11
     DEF Step, Proceed, TakeWaitLock, Quiet

(* The holder that a failed attempt has marked stays marked: it goes to    *)
(* the slow path, which needs wait_lock.                                   *)
LEMMA FailedStep ==
  ASSUME TypeOK, WaitLockInv, FailedInv, MutualExclusion,
         NEW t \in Tasks, Step(t)
  PROVE  FailedInv'
<1> USE DEF TypeOK, FailedInv
<1>1. CASE \E m \in Modes : mutex_lock(t, m)
  BY <1>1 DEF mutex_lock
<1>2. CASE mutex_trylock(t)
  BY <1>2 DEF mutex_trylock, MutualExclusion, Holders, Holding
<1>3. CASE trylock_slowpath(t)
  BY <1>3 DEF trylock_slowpath
<1>4. CASE mutex_unlock(t) \/ mutex_set_owner(t) \/ done(t) \/ try_own(t)
  BY <1>4 DEF mutex_unlock, mutex_set_owner, done, try_own
<1>5. CASE spin_cmpxchg(t)
  BY <1>5 DEF spin_cmpxchg, MutualExclusion, Holders, Holding
<1>6. CASE add_waiter(t) \/ retry(t)
  BY <1>6 DEF add_waiter, retry, xchg
<1>7. CASE unlock_wait_lock(t)
  BY <1>7 DEF unlock_wait_lock, set_zero, WaitLockInv, Locked
<1>8. CASE try_lost(t)
  BY <1>8 DEF try_lost, set_zero, WaitLockInv, Locked
<1>9. CASE fastpath_unlock(t)
  <2>1. \A u \in Tasks : pc[u] = "unlock_slow" => u = t
    BY <1>9 DEF fastpath_unlock, MutualExclusion, Holders, Holding
  <2> QED
    BY <1>9, <2>1 DEF fastpath_unlock
<1>10. CASE unlock_slowpath(t)
  BY <1>10, MutexAssumption DEF unlock_slowpath, WaitLockInv, Locked
<1>11. CASE Quiet(t)
  <2>1. /\ count' = count
        /\ \A u \in Tasks : pc[u] = "unlock_slow" => pc'[u] = "unlock_slow"
    BY <1>11, QuietStep DEF Holding
  <2>2. \A u \in Tasks : pc'[u] \in {"check", "set_state", "try_lost"}
                          => pc[u] \in {"check", "set_state", "try_lost"}
    <3>1. CASE spin(t) \/ mutex_spin_on_owner(t) \/ check_signal(t) \/ set_state(t)
      BY <3>1 DEF spin, mutex_spin_on_owner, check_signal, set_state
    <3>2. CASE schedule_signal(t) \/ wake_waiter(t) \/ slow_lock(t) \/ relock(t)
      BY <3>2 DEF schedule_signal, wake_waiter, slow_lock, relock
    <3>3. CASE (\E s \in Kinds : signal(t, s)) \/ signal_handled(t) \/ spurious_wakeup(t)
      BY <3>3 DEF signal, signal_handled, spurious_wakeup
    <3> QED
      BY <1>11, <3>1, <3>2, <3>3 DEF Quiet
  <2> QED
    BY <2>1, <2>2
<1> QED
  BY <1>1, <1>2, <1>3, <1>4, <1>5, <1>6, <1>7, <1>8, <1>9, <1>10, <1>11
     DEF Step, Proceed, TakeWaitLock, Quiet

(* The new holder finds the -1 it put there, or less. *)
LEMMA GotStep ==
  ASSUME TypeOK, WaitLockInv, MutualExclusion, GotInv, NEW t \in Tasks, Step(t)
  PROVE  GotInv'
<1> USE DEF TypeOK, GotInv, MutualExclusion, Holders, Holding
<1>1. CASE \E m \in Modes : mutex_lock(t, m)
  BY <1>1 DEF mutex_lock
<1>2. CASE mutex_trylock(t) \/ trylock_slowpath(t)
  BY <1>2 DEF mutex_trylock, trylock_slowpath
<1>3. CASE mutex_unlock(t) \/ mutex_set_owner(t) \/ done(t) \/ try_own(t)
  BY <1>3 DEF mutex_unlock, mutex_set_owner, done, try_own
<1>4. CASE spin_cmpxchg(t)
  BY <1>4 DEF spin_cmpxchg
<1>5. CASE add_waiter(t) \/ retry(t)
  BY <1>5 DEF add_waiter, retry, xchg
<1>6. CASE unlock_wait_lock(t)
  BY <1>6 DEF unlock_wait_lock
<1>7. CASE try_lost(t)
  BY <1>7 DEF try_lost, set_zero, WaitLockInv, Locked
<1>8. CASE fastpath_unlock(t)
  BY <1>8 DEF fastpath_unlock
<1>9. CASE unlock_slowpath(t)
  BY <1>9 DEF unlock_slowpath
<1>10. CASE Quiet(t)
  BY <1>10, QuietStep
<1> QED
  BY <1>1, <1>2, <1>3, <1>4, <1>5, <1>6, <1>7, <1>8, <1>9, <1>10
     DEF Step, Proceed, TakeWaitLock, Quiet

(* lock->owner follows the holder. *)
LEMMA OwnerStep ==
  ASSUME TypeOK, MutualExclusion, OwnerInv, NEW t \in Tasks, Step(t)
  PROVE  OwnerInv'
<1> USE MutexAssumption DEF TypeOK, OwnerInv, MutualExclusion, Holders, Holding
<1>1. CASE \E m \in Modes : mutex_lock(t, m)
  BY <1>1 DEF mutex_lock
<1>2. CASE mutex_trylock(t) \/ trylock_slowpath(t)
  BY <1>2 DEF mutex_trylock, trylock_slowpath
<1>3. CASE mutex_unlock(t)
  BY <1>3 DEF mutex_unlock
<1>4. CASE mutex_set_owner(t) \/ done(t) \/ try_own(t)
  BY <1>4 DEF mutex_set_owner, done, try_own
<1>5. CASE spin_cmpxchg(t)
  BY <1>5 DEF spin_cmpxchg
<1>6. CASE add_waiter(t) \/ retry(t)
  BY <1>6 DEF add_waiter, retry, xchg
<1>7. CASE unlock_wait_lock(t) \/ try_lost(t)
  BY <1>7 DEF unlock_wait_lock, try_lost
<1>8. CASE fastpath_unlock(t) \/ unlock_slowpath(t)
  BY <1>8 DEF fastpath_unlock, unlock_slowpath
<1>9. CASE Quiet(t)
  BY <1>9, QuietStep
<1> QED
  BY <1>1, <1>2, <1>3, <1>4, <1>5, <1>6, <1>7, <1>8, <1>9
     DEF Step, Proceed, TakeWaitLock, Quiet

(* The first waiter sleeps. *)
HeadSleeps ==
  /\ ~list_empty(wait_list)
  /\ pc[list_first_entry(wait_list)] = "schedule"
  /\ state[list_first_entry(wait_list)] # TASK_RUNNING

(* A step that does not put the head of the queue to sleep, and leaves it  *)
(* to be woken if it slept, loses no wake-up.                              *)
LEMMA WakeupKept ==
  ASSUME NoLostWakeup, HeadSleeps' => HeadSleeps, WillWake => WillWake'
  PROVE  NoLostWakeup'
BY DEF NoLostWakeup, HeadSleeps

(* No step but the store to task->state puts a task to sleep. *)
LEMMA SleepKept ==
  ASSUME TypeOK, NEW t \in Tasks, Step(t), ~set_state(t)
  PROVE  \A u \in Tasks : pc'[u] = "schedule" /\ state'[u] # TASK_RUNNING
                          => pc[u] = "schedule" /\ state[u] # TASK_RUNNING
<1> USE DEF TypeOK
<1>1. CASE (\E m \in Modes : mutex_lock(t, m)) \/ mutex_trylock(t)
           \/ trylock_slowpath(t) \/ mutex_unlock(t)
  BY <1>1 DEF mutex_lock, mutex_trylock, trylock_slowpath, mutex_unlock
<1>2. CASE spin(t) \/ mutex_spin_on_owner(t) \/ spin_cmpxchg(t)
  BY <1>2 DEF spin, mutex_spin_on_owner, spin_cmpxchg
<1>3. CASE add_waiter(t) \/ retry(t) \/ check_signal(t)
  BY <1>3 DEF add_waiter, retry, xchg, check_signal
<1>4. CASE schedule_signal(t) \/ done(t) \/ unlock_wait_lock(t) \/ mutex_set_owner(t)
  BY <1>4 DEF schedule_signal, done, unlock_wait_lock, mutex_set_owner
<1>5. CASE try_own(t) \/ try_lost(t) \/ fastpath_unlock(t)
  BY <1>5 DEF try_own, try_lost, fastpath_unlock
<1>6. CASE wake_waiter(t)
  <2>1. ~list_empty(wait_list) => list_first_entry(wait_list) \in Tasks
    BY HeadIsEntry
  <2> QED
    BY <1>6, <2>1 DEF wake_waiter, wake_up_process, try_to_wake_up
<1>7. CASE slow_lock(t) \/ relock(t) \/ unlock_slowpath(t)
  BY <1>7 DEF slow_lock, relock, unlock_slowpath
<1>8. CASE \E s \in Kinds : signal(t, s)
  BY <1>8 DEF signal, signal_wake_up, try_to_wake_up
<1>9. CASE signal_handled(t) \/ spurious_wakeup(t)
  BY <1>9 DEF signal_handled, spurious_wakeup, wake_up_process, try_to_wake_up
<1> QED
  BY <1>1, <1>2, <1>3, <1>4, <1>5, <1>6, <1>7, <1>8, <1>9
     DEF Step, Proceed, TakeWaitLock

(* As long as the queue stays what it is, its head goes on sleeping or     *)
(* wakes up.                                                               *)
LEMMA HeadKept ==
  ASSUME TypeOK, NEW t \in Tasks, Step(t), ~set_state(t), wait_list' = wait_list
  PROVE  HeadSleeps' => HeadSleeps
<1>1. ~list_empty(wait_list) => list_first_entry(wait_list) \in Tasks
  BY HeadIsEntry DEF TypeOK
<1> QED
  BY <1>1, SleepKept DEF HeadSleeps

(* No step loses a wake-up. *)
LEMMA WakeStep ==
  ASSUME TypeOK, MutualExclusion, FailedInv, GotInv, NoLostWakeup,
         NEW t \in Tasks, Step(t)
  PROVE  NoLostWakeup'
<1> USE DEF TypeOK
<1> DEFINE Witness(h) ==
      \/ pc[h] \in Holding \ {"unlock_slow"} /\ count < 0
      \/ pc[h] \in {"unlock_slow", "wake"}
\* A failed attempt leaves a marked holder behind.
<1>1. ASSUME pc[t] \in {"check", "set_state", "try_lost"}
      PROVE  \E h \in Tasks : h # t /\ Witness(h)
  BY <1>1 DEF FailedInv, MutualExclusion, Holders, Holding
<1>2. CASE check_signal(t)
  <2>1. PICK h \in Tasks : h # t /\ Witness(h)
    BY <1>1, <1>2 DEF check_signal
  <2>2. WillWake'
    BY <1>2, <2>1 DEF check_signal, WillWake
  <2> QED
    BY <2>2 DEF NoLostWakeup
<1>3. CASE set_state(t)
  <2>1. PICK h \in Tasks : h # t /\ Witness(h)
    BY <1>1, <1>3 DEF set_state
  <2>2. WillWake'
    BY <1>3, <2>1 DEF set_state, WillWake
  <2> QED
    BY <2>2 DEF NoLostWakeup
<1>4. CASE done(t)
  <2>1. WillWake'
    BY <1>4 DEF done, WillWake, GotInv, Holding
  <2> QED
    BY <2>1 DEF NoLostWakeup
<1>5. CASE slow_lock(t)
  <2>1. /\ ~list_empty(wait_list) => list_first_entry(wait_list) \in Tasks
        /\ list_first_entry(wait_list')
             = IF list_empty(wait_list) THEN t ELSE list_first_entry(wait_list)
    BY <1>5, HeadIsEntry, AddTail DEF slow_lock
  <2>2. HeadSleeps' => HeadSleeps
    BY <1>5, <2>1 DEF slow_lock, HeadSleeps
  <2>3. WillWake => WillWake'
    BY <1>5 DEF slow_lock, WillWake, Holding
  <2> QED
    BY <2>2, <2>3, WakeupKept
<1>6. CASE wake_waiter(t)
  <2>1. ~list_empty(wait_list) =>
          /\ list_first_entry(wait_list) \in Tasks
          /\ state'[list_first_entry(wait_list)] = TASK_RUNNING
    BY <1>6, HeadIsEntry
       DEF wake_waiter, wake_up_process, try_to_wake_up, TASK_ALL, TaskStates
  <2>2. ~HeadSleeps'
    BY <1>6, <2>1 DEF wake_waiter, HeadSleeps
  <2> QED
    BY <2>2 DEF NoLostWakeup, HeadSleeps
<1>7. CASE fastpath_unlock(t)
  <2>1. WillWake => WillWake'
    BY <1>7 DEF fastpath_unlock, WillWake, MutualExclusion, Holders, Holding
  <2> QED
    BY <1>7, <2>1, HeadKept, WakeupKept DEF fastpath_unlock, set_state
<1>8. CASE unlock_slowpath(t)
  <2>1. WillWake'
    BY <1>8 DEF unlock_slowpath, WillWake
  <2> QED
    BY <2>1 DEF NoLostWakeup
<1>9. CASE unlock_wait_lock(t)
  <2>1. list_empty(wait_list) \/ WillWake'
    BY <1>9 DEF unlock_wait_lock, set_zero, WillWake, GotInv, Holding
  <2> QED
    BY <1>9, <2>1 DEF unlock_wait_lock, NoLostWakeup
<1>10. CASE try_lost(t)
  <2>1. PICK h \in Tasks : h # t /\ Witness(h)
    BY <1>1, <1>10 DEF try_lost
  <2>2. list_empty(wait_list) \/ WillWake'
    BY <1>10, <2>1 DEF try_lost, set_zero, WillWake
  <2> QED
    BY <1>10, <2>2 DEF try_lost, NoLostWakeup
<1>11. CASE (\E m \in Modes : mutex_lock(t, m)) \/ mutex_trylock(t)
            \/ trylock_slowpath(t) \/ mutex_unlock(t)
  <2>1. WillWake => WillWake'
    BY <1>11 DEF mutex_lock, mutex_trylock, trylock_slowpath, mutex_unlock,
                 WillWake, Holding
  <2>2. wait_list' = wait_list /\ ~set_state(t)
    BY <1>11 DEF mutex_lock, mutex_trylock, trylock_slowpath, mutex_unlock,
                 set_state
  <2> QED
    BY <2>1, <2>2, HeadKept, WakeupKept
<1>12. CASE spin(t) \/ mutex_spin_on_owner(t) \/ spin_cmpxchg(t)
            \/ add_waiter(t) \/ retry(t)
  <2>1. WillWake => WillWake'
    BY <1>12 DEF spin, mutex_spin_on_owner, spin_cmpxchg, add_waiter, retry,
                 xchg, WillWake, Holding
  <2>2. wait_list' = wait_list /\ ~set_state(t)
    BY <1>12 DEF spin, mutex_spin_on_owner, spin_cmpxchg, add_waiter, retry,
                 set_state
  <2> QED
    BY <2>1, <2>2, HeadKept, WakeupKept
<1>13. CASE schedule_signal(t) \/ mutex_set_owner(t) \/ try_own(t) \/ relock(t)
  <2>1. WillWake => WillWake'
    BY <1>13 DEF schedule_signal, mutex_set_owner, try_own, relock, WillWake,
                 Holding
  <2>2. wait_list' = wait_list /\ ~set_state(t)
    BY <1>13 DEF schedule_signal, mutex_set_owner, try_own, relock, set_state
  <2> QED
    BY <2>1, <2>2, HeadKept, WakeupKept
<1>14. CASE (\E s \in Kinds : signal(t, s)) \/ signal_handled(t)
            \/ spurious_wakeup(t)
  <2>1. /\ WillWake => WillWake'
        /\ wait_list' = wait_list
        /\ ~set_state(t)
    BY <1>14 DEF signal, signal_handled, spurious_wakeup, WillWake, set_state
  <2> QED
    BY <2>1, HeadKept, WakeupKept
<1> QED
  BY <1>2, <1>3, <1>4, <1>5, <1>6, <1>7, <1>8, <1>9, <1>10, <1>11, <1>12,
     <1>13, <1>14 DEF Step, Proceed, TakeWaitLock

-----------------------------------------------------------------------------
(* The invariant holds in the beginning ... *)
LEMMA InitInv == Init => IInv
<1> SUFFICES ASSUME Init PROVE IInv
  OBVIOUS
<1> USE MutexAssumption DEF Init
<1>1. TypeOK
  BY DEF TypeOK, EmptyList, TaskStates, Signals, PCs
<1>2. ModeInv /\ WaitLockInv /\ FailedInv /\ GotInv /\ OwnerInv
  BY DEF ModeInv, WaitLockInv, FailedInv, GotInv, OwnerInv, LockPath, Spinning,
         Queued, Locked
<1>3. MutualExclusion
  BY DEF MutualExclusion, Holders, Holding
<1>4. NoLostWakeup
  BY DEF NoLostWakeup, list_empty, EmptyList
<1> QED
  BY <1>1, <1>2, <1>3, <1>4 DEF IInv

(* ... and every step keeps it. *)
LEMMA StepInv == IInv /\ [Next]_vars => IInv'
<1> SUFFICES ASSUME IInv, [Next]_vars PROVE IInv'
  OBVIOUS
<1>1. CASE Next
  <2>1. PICK t \in Tasks : Step(t)
    BY <1>1, NextIsStep
  <2> QED
    BY <2>1, TypeStep, ControlStep, ExclusionStep, FailedStep, GotStep,
       OwnerStep, WakeStep DEF IInv
<1>2. CASE UNCHANGED vars
  BY <1>2 DEF vars, IInv, TypeOK, ModeInv, WaitLockInv, MutualExclusion,
              Holders, FailedInv, GotInv, OwnerInv, NoLostWakeup, WillWake
<1> QED
  BY <1>1, <1>2

(* So it always holds. *)
LEMMA Invariance == Spec => []IInv
BY InitInv, StepInv, PTL DEF Spec

(* Every variable of the mutex keeps its type, for any set of tasks. *)
THEOREM TypeCorrect == Spec => []TypeOK
<1>1. IInv => TypeOK
  BY DEF IInv
<1> QED
  BY Invariance, <1>1, PTL

(* The mutex excludes: at most one task has it, and lock->count is 1       *)
(* exactly when nobody does, for any number of tasks that take fast paths, *)
(* spin, queue, give up on a signal and unlock.                            *)
THEOREM Exclusion == Spec => []MutualExclusion
<1>1. IInv => MutualExclusion
  BY DEF IInv
<1> QED
  BY Invariance, <1>1, PTL

(* lock->owner never names a task that does not have the mutex. *)
THEOREM OwnerCorrect == Spec => []OwnerIsHolder
<1>1. IInv => OwnerIsHolder
  BY MutexAssumption DEF IInv, OwnerInv, OwnerIsHolder, Holders, Holding, TypeOK
<1> QED
  BY Invariance, <1>1, PTL

(* While the first waiter sleeps, there is a task that will wake it. *)
THEOREM WakeupsKept == Spec => []NoLostWakeup
<1>1. IInv => NoLostWakeup
  BY DEF IInv
<1> QED
  BY Invariance, <1>1, PTL

-----------------------------------------------------------------------------
(* How far count goes down. *)

(* The tasks that have decremented count and not swapped it yet can be     *)
(* counted, before a step and after it.                                    *)
LEMMA DecrementedFinite ==
  /\ IsFiniteSet(Decremented) /\ Cardinality(Decremented) \in Nat
  /\ IsFiniteSet(Decremented') /\ Cardinality(Decremented') \in Nat
<1>1. Decremented \in SUBSET Tasks /\ Decremented' \in SUBSET Tasks
  BY DEF Decremented
<1>2. IsFiniteSet(Decremented) /\ IsFiniteSet(Decremented')
  BY <1>1, FS_Subset, MutexAssumption
<1> QED
  BY <1>2, FS_CardinalityType

(* A step decrements count and has one more such task, or swaps count, or  *)
(* leaves those tasks alone and does not lower count.                      *)
LEMMA CountStep ==
  ASSUME TypeOK, NEW t \in Tasks, Step(t)
  PROVE  \/ count' \in {-1, 0, 1}
         \/ Decremented' = Decremented /\ count' \in {count, count + 1}
         \/ /\ t \notin Decremented /\ Decremented' = Decremented \cup {t}
            /\ count' = count - 1
<1> USE DEF TypeOK
<1>1. CASE \E m \in Modes : mutex_lock(t, m)
  <2>1. CASE count' = 0
    BY <2>1
  <2>2. CASE count' = count - 1 /\ pc[t] = "idle" /\ pc' = [pc EXCEPT ![t] = "spin"]
    BY <2>2 DEF Decremented, Spinning
  <2> QED
    BY <1>1, <2>1, <2>2 DEF mutex_lock
<1>2. CASE spin(t) \/ mutex_spin_on_owner(t) \/ spin_cmpxchg(t) \/ slow_lock(t)
  <2>1. CASE count' = 0
    BY <2>1
  <2>2. CASE count' = count
    <3>1. /\ pc[t] \in Spinning \cup {"slow_lock"}
          /\ \E l \in Spinning \cup {"slow_lock", "add"} : pc' = [pc EXCEPT ![t] = l]
      BY <1>2, <2>2 DEF spin, mutex_spin_on_owner, spin_cmpxchg, slow_lock, Spinning
    <3> QED
      BY <2>2, <3>1 DEF Decremented
  <2> QED
    BY <1>2, <2>1, <2>2 DEF spin, mutex_spin_on_owner, spin_cmpxchg, slow_lock
<1>3. CASE add_waiter(t) \/ retry(t) \/ mutex_trylock(t) \/ trylock_slowpath(t)
           \/ unlock_slowpath(t)
  BY <1>3 DEF add_waiter, retry, xchg, mutex_trylock, trylock_slowpath, unlock_slowpath
<1>4. CASE unlock_wait_lock(t) \/ try_lost(t)
  <2>1. CASE count' = 0
    BY <2>1
  <2>2. CASE count' = count
    BY <1>4, <2>2 DEF unlock_wait_lock, try_lost, Decremented, Spinning
  <2> QED
    BY <1>4, <2>1, <2>2 DEF unlock_wait_lock, try_lost, set_zero
<1>5. CASE check_signal(t) \/ set_state(t) \/ schedule_signal(t) \/ relock(t)
  BY <1>5 DEF check_signal, set_state, schedule_signal, relock, Decremented, Spinning
<1>6. CASE done(t) \/ mutex_set_owner(t) \/ try_own(t) \/ mutex_unlock(t)
           \/ fastpath_unlock(t) \/ wake_waiter(t)
  BY <1>6 DEF done, mutex_set_owner, try_own, mutex_unlock, fastpath_unlock, wake_waiter,
              Decremented, Spinning
<1>7. CASE (\E s \in Kinds : signal(t, s)) \/ signal_handled(t) \/ spurious_wakeup(t)
  BY <1>7 DEF signal, signal_handled, spurious_wakeup, Decremented
<1> QED
  BY <1>1, <1>2, <1>3, <1>4, <1>5, <1>6, <1>7 DEF Step, Proceed, TakeWaitLock

(* lock->count is never more than one below the number of tasks that are   *)
(* between the decrement of their fast path and the xchg of their slow     *)
(* path: tasks that give up on a signal and try again do not drive it      *)
(* down, so that it cannot wrap.                                           *)
THEOREM CountKept == Spec => []CountBounded
<1>1. Init => CountBounded
  BY DecrementedFinite DEF Init, CountBounded
<1>2. TypeOK /\ CountBounded /\ [Next]_vars => CountBounded'
  <2> SUFFICES ASSUME TypeOK, CountBounded, [Next]_vars PROVE CountBounded'
    OBVIOUS
  <2>1. CASE Next
    <3>1. PICK t \in Tasks : Step(t)
      BY <2>1, NextIsStep
    <3>2. CASE count' \in {-1, 0, 1}
      BY <3>2, DecrementedFinite DEF CountBounded
    <3>3. CASE Decremented' = Decremented /\ count' \in {count, count + 1}
      BY <3>3, DecrementedFinite DEF CountBounded, TypeOK
    <3>4. CASE /\ t \notin Decremented /\ Decremented' = Decremented \cup {t}
               /\ count' = count - 1
      <4>1. Cardinality(Decremented') = Cardinality(Decremented) + 1
        BY <3>4, DecrementedFinite, FS_AddElement
      <4> QED
        BY <3>4, <4>1, DecrementedFinite DEF CountBounded, TypeOK
    <3> QED
      BY <3>1, <3>2, <3>3, <3>4, CountStep
  <2>2. CASE UNCHANGED vars
    BY <2>2 DEF vars, CountBounded, Decremented
  <2> QED
    BY <2>1, <2>2
<1> QED
  BY <1>1, <1>2, TypeCorrect, PTL DEF Spec

=============================================================================
