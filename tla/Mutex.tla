------------------------------- MODULE Mutex -------------------------------
(***************************************************************************)
(* The sleeping mutex of kernel/mutex.c with optimistic spinning           *)
(* (CONFIG_MUTEX_SPIN_ON_OWNER), over the decrement fast paths of          *)
(* include/asm-generic/mutex-dec.h.                                        *)
(*                                                                         *)
(* lock->count is changed by atomic operations with and without wait_lock, *)
(* so that every access to it is a step of its own: what the slow paths do *)
(* to it under wait_lock races with the fast paths and the spinners.  The  *)
(* same goes for lock->owner, which spinners read at any time.             *)
(***************************************************************************)
EXTENDS Integers, FiniteSets, Sequences, LinuxList, TaskSched

CONSTANTS Tasks,     \* the tasks that use the mutex
          NULL,      \* no owner; also "wait_lock is free"
          Modes,     \* bound: the task states in which callers wait
          Kinds      \* bound: the kinds of signals they are sent

ASSUME MutexAssumption ==
  /\ IsFiniteSet(Tasks) /\ NULL \notin Tasks
  /\ Modes \subseteq TASK_ALL
  /\ Kinds \subseteq Signals \ {"none"}

VARIABLES
  count,      \* lock->count: 1 unlocked, 0 locked, < 0 locked, waiters
  wait_lock,  \* holder of lock->wait_lock, NULL when it is free
  wait_list,  \* lock->wait_list: tasks, oldest first
  owner,      \* lock->owner
  mode,       \* the state argument of __mutex_lock_common()
  state,      \* task->state
  sig,        \* the pending signal
  pc

vars == <<count, wait_lock, wait_list, owner, mode, state, sig, pc>>

(***************************************************************************)
(* Program counter.  "spin" reads lock->owner, "spin_on_owner" is inside   *)
(* mutex_spin_on_owner(), "cmpxchg" and "cmpxchg_null" are about to try    *)
(* the lock (the latter saw no owner).  "add" and "loop" are the two       *)
(* atomic_xchg() of the slow path.                                         *)
(***************************************************************************)
Spinning == {"spin", "spin_on_owner", "cmpxchg", "cmpxchg_null"}
Queued   == {"add", "loop", "check", "set_state", "schedule"}
LockPath == Spinning \cup {"slow_lock"} \cup Queued

(* Where a task has the mutex. *)
Holding  == {"done", "zero", "try_own", "set_owner", "locked", "inc",
             "unlock_slow"}

(* Where it has wait_lock. *)
Locked   == {"add", "loop", "check", "set_state", "done", "zero",
             "try_own", "try_lost", "wake"}

PCs == {"idle", "try_lost", "wake"} \cup LockPath \cup Holding

NoWait == "none"   \* the task is in no slow path

goto(t, l) == pc' = [pc EXCEPT ![t] = l]

(* __mutex_init() *)
Init ==
  /\ count = 1 /\ wait_lock = NULL /\ wait_list = EmptyList /\ owner = NULL
  /\ mode = [t \in Tasks |-> NoWait]
  /\ state = [t \in Tasks |-> TASK_RUNNING]
  /\ sig = [t \in Tasks |-> "none"]
  /\ pc = [t \in Tasks |-> "idle"]

(* A lock function leaves its slow path. *)
lock_return(t, l) == goto(t, l) /\ mode' = [mode EXCEPT ![t] = NoWait]

-----------------------------------------------------------------------------
(* Mutated forms of the definitions below, one plausible slip each. *)

(* The fast path leaves the mutex unlocked, as the xchg variant of the     *)
(* architecture header does, and the slow path still unlocks it again.     *)
MutFastpathUnlock(t) ==
  /\ pc[t] = "inc"
  /\ count' = 1
  /\ goto(t, IF count # 0 THEN "unlock_slow" ELSE "idle")
  /\ UNCHANGED <<wait_lock, wait_list, owner, mode, state, sig>>

(* count is set to 0 although waiters are left. *)
MutSetZero == count' = 0

(* A waiter that has a signal leaves before it has looked at count. *)
MutRelock(t) ==
  /\ pc[t] = "schedule" /\ state[t] = TASK_RUNNING /\ wait_lock = NULL
  /\ wait_lock' = t
  /\ goto(t, IF signal_pending_state(mode[t], sig[t]) THEN "check" ELSE "loop")
  /\ UNCHANGED <<count, wait_list, owner, mode, state, sig>>

(* mutex_unlock() leaves the owner to the next task. *)
MutUnlock(t) ==
  /\ pc[t] = "locked"
  /\ goto(t, "inc")
  /\ UNCHANGED <<count, wait_lock, wait_list, owner, mode, state, sig>>

(* The slow path only stores to count when it gets the mutex. *)
MutXchg(t, failed) ==
  /\ count' = IF count = 1 THEN -1 ELSE count
  /\ goto(t, IF count = 1 THEN "done" ELSE failed)

-----------------------------------------------------------------------------
(* mutex_lock(), mutex_lock_interruptible(), mutex_lock_killable(): the    *)
(* fast path decrements count whether or not it gets the mutex.            *)
mutex_lock(t, m) ==
  /\ pc[t] = "idle"
  /\ count' = count - 1
  /\ \/ count - 1 >= 0 /\ goto(t, "set_owner") /\ UNCHANGED mode
     \/ /\ count - 1 < 0
        /\ goto(t, "spin")
        /\ mode' = [mode EXCEPT ![t] = m]
  /\ UNCHANGED <<wait_lock, wait_list, owner, state, sig>>

(* Top of the spin loop: lock->owner is read once. *)
spin(t) ==
  /\ pc[t] = "spin"
  /\ goto(t, IF owner = NULL THEN "cmpxchg_null" ELSE "spin_on_owner")
  /\ UNCHANGED <<count, wait_lock, wait_list, owner, mode, state, sig>>

(* mutex_spin_on_owner() returns 1 when it finds no owner any more, and 0  *)
(* when the owner sleeps or has changed, or this CPU has something better  *)
(* to do: that may be the case at any time.                                *)
mutex_spin_on_owner(t) ==
  /\ pc[t] = "spin_on_owner"
  /\ \/ owner = NULL /\ goto(t, "cmpxchg")
     \/ goto(t, "slow_lock")
  /\ UNCHANGED <<count, wait_lock, wait_list, owner, mode, state, sig>>

(* atomic_cmpxchg(&lock->count, 1, 0).  Without an owner the spinner stops *)
(* if it should reschedule or is a real-time task.                         *)
spin_cmpxchg(t) ==
  /\ pc[t] \in {"cmpxchg", "cmpxchg_null"}
  /\ \/ count = 1 /\ count' = 0 /\ lock_return(t, "set_owner")
     \/ /\ count # 1
        /\ \/ goto(t, "spin")
           \/ pc[t] = "cmpxchg_null" /\ goto(t, "slow_lock")
        /\ UNCHANGED <<count, mode>>
  /\ UNCHANGED <<wait_lock, wait_list, owner, state, sig>>

(* spin_lock_mutex() and list_add_tail(). *)
slow_lock(t) ==
  /\ pc[t] = "slow_lock" /\ wait_lock = NULL
  /\ wait_lock' = t
  /\ wait_list' = list_add_tail(wait_list, t)
  /\ goto(t, "add")
  /\ UNCHANGED <<count, owner, mode, state, sig>>

(* atomic_xchg(&lock->count, -1): it either gives us the mutex or makes    *)
(* sure that the holder finds a waiter when it unlocks.                    *)
xchg(t, failed) ==
  /\ count' = -1
  /\ goto(t, IF count = 1 THEN "done" ELSE failed)

add_waiter(t) ==
  /\ pc[t] = "add"
  /\ xchg(t, "loop")
  /\ UNCHANGED <<wait_lock, wait_list, owner, mode, state, sig>>

retry(t) ==
  /\ pc[t] = "loop"
  /\ xchg(t, "check")
  /\ UNCHANGED <<wait_lock, wait_list, owner, mode, state, sig>>

(* A signal ends the wait with -EINTR; count keeps its value. *)
check_signal(t) ==
  /\ pc[t] = "check"
  /\ \/ /\ signal_pending_state(mode[t], sig[t])
        /\ wait_list' = list_del(wait_list, t)
        /\ wait_lock' = NULL
        /\ lock_return(t, "idle")
     \/ /\ ~signal_pending_state(mode[t], sig[t])
        /\ goto(t, "set_state")
        /\ UNCHANGED <<wait_list, wait_lock, mode>>
  /\ UNCHANGED <<count, owner, state, sig>>

(* __set_task_state(); spin_unlock_mutex(). *)
set_state(t) ==
  /\ pc[t] = "set_state"
  /\ state' = [state EXCEPT ![t] = mode[t]]
  /\ wait_lock' = NULL
  /\ goto(t, "schedule")
  /\ UNCHANGED <<count, wait_list, owner, mode, sig>>

(* __schedule() does not put a task to sleep that has a signal to see. *)
schedule_signal(t) ==
  /\ pc[t] = "schedule" /\ signal_pending_state(state[t], sig[t])
  /\ state' = [state EXCEPT ![t] = TASK_RUNNING]
  /\ UNCHANGED <<count, wait_lock, wait_list, owner, mode, sig, pc>>

relock(t) ==
  /\ pc[t] = "schedule" /\ state[t] = TASK_RUNNING /\ wait_lock = NULL
  /\ wait_lock' = t
  /\ goto(t, "loop")
  /\ UNCHANGED <<count, wait_list, owner, mode, state, sig>>

(* mutex_remove_waiter(); mutex_set_owner(). *)
done(t) ==
  /\ pc[t] = "done"
  /\ wait_list' = list_del(wait_list, t)
  /\ owner' = t
  /\ goto(t, "zero")
  /\ UNCHANGED <<count, wait_lock, mode, state, sig>>

(* "set it to 0 if there are no waiters left" *)
set_zero == count' = IF list_empty(wait_list) THEN 0 ELSE count

unlock_wait_lock(t) ==
  /\ pc[t] = "zero"
  /\ set_zero
  /\ wait_lock' = NULL
  /\ lock_return(t, "set_owner")
  /\ UNCHANGED <<wait_list, owner, state, sig>>

(* mutex_set_owner() of the lock functions, whichever path got the mutex. *)
mutex_set_owner(t) ==
  /\ pc[t] = "set_owner"
  /\ owner' = t
  /\ goto(t, "locked")
  /\ UNCHANGED <<count, wait_lock, wait_list, mode, state, sig>>

-----------------------------------------------------------------------------
(* mutex_trylock(): with atomic_cmpxchg() ... *)
mutex_trylock(t) ==
  /\ pc[t] = "idle"
  /\ count = 1 /\ count' = 0
  /\ goto(t, "set_owner")
  /\ UNCHANGED <<wait_lock, wait_list, owner, mode, state, sig>>

(* ... or, where the architecture has no such fast path, under wait_lock.  *)
(* Both are allowed at any time.                                           *)
trylock_slowpath(t) ==
  /\ pc[t] = "idle" /\ wait_lock = NULL
  /\ wait_lock' = t
  /\ count' = -1
  /\ goto(t, IF count = 1 THEN "try_own" ELSE "try_lost")
  /\ UNCHANGED <<wait_list, owner, mode, state, sig>>

try_own(t) ==
  /\ pc[t] = "try_own"
  /\ owner' = t
  /\ goto(t, "zero")
  /\ UNCHANGED <<count, wait_lock, wait_list, mode, state, sig>>

try_lost(t) ==
  /\ pc[t] = "try_lost"
  /\ set_zero
  /\ wait_lock' = NULL
  /\ goto(t, "idle")
  /\ UNCHANGED <<wait_list, owner, mode, state, sig>>

-----------------------------------------------------------------------------
(* mutex_unlock(): mutex_clear_owner() ... *)
mutex_unlock(t) ==
  /\ pc[t] = "locked"
  /\ owner' = NULL
  /\ goto(t, "inc")
  /\ UNCHANGED <<count, wait_lock, wait_list, mode, state, sig>>

(* ... and __mutex_fastpath_unlock(). *)
fastpath_unlock(t) ==
  /\ pc[t] = "inc"
  /\ count' = count + 1
  /\ goto(t, IF count + 1 <= 0 THEN "unlock_slow" ELSE "idle")
  /\ UNCHANGED <<wait_lock, wait_list, owner, mode, state, sig>>

(* The slow path sets count to 1: from here on anybody may take the mutex. *)
unlock_slowpath(t) ==
  /\ pc[t] = "unlock_slow" /\ wait_lock = NULL
  /\ wait_lock' = t
  /\ count' = 1
  /\ goto(t, "wake")
  /\ UNCHANGED <<wait_list, owner, mode, state, sig>>

(* The first waiter is woken, and stays linked until it has the mutex. *)
wake_waiter(t) ==
  /\ pc[t] = "wake"
  /\ state' = IF list_empty(wait_list) THEN state
              ELSE wake_up_process(state, list_first_entry(wait_list))
  /\ wait_lock' = NULL
  /\ goto(t, "idle")
  /\ UNCHANGED <<count, wait_list, owner, mode, sig>>

-----------------------------------------------------------------------------
(* The rest of the kernel. *)

signal(t, s) ==
  /\ sig[t] # s /\ sig[t] # "fatal"
  /\ sig' = [sig EXCEPT ![t] = s]
  /\ state' = signal_wake_up(state, t, s)
  /\ UNCHANGED <<count, wait_lock, wait_list, owner, mode, pc>>

signal_handled(t) ==
  /\ pc[t] = "idle" /\ sig[t] # "none"
  /\ sig' = [sig EXCEPT ![t] = "none"]
  /\ UNCHANGED <<count, wait_lock, wait_list, owner, mode, state, pc>>

(* A wake-up meant for something else. *)
spurious_wakeup(t) ==
  /\ pc[t] = "schedule" /\ state[t] # TASK_RUNNING
  /\ state' = wake_up_process(state, t)
  /\ UNCHANGED <<count, wait_lock, wait_list, owner, mode, sig, pc>>

-----------------------------------------------------------------------------
(* What a task does by itself once it has called a mutex function. *)
Proceed(t) ==
  \/ spin(t) \/ mutex_spin_on_owner(t) \/ spin_cmpxchg(t)
  \/ add_waiter(t) \/ retry(t) \/ check_signal(t) \/ set_state(t)
  \/ schedule_signal(t) \/ done(t) \/ unlock_wait_lock(t) \/ mutex_set_owner(t)
  \/ try_own(t) \/ try_lost(t) \/ fastpath_unlock(t) \/ wake_waiter(t)

(* Where it spins on wait_lock. *)
TakeWaitLock(t) == slow_lock(t) \/ relock(t) \/ unlock_slowpath(t)

Next ==
  \E t \in Tasks :
    \/ \E m \in Modes : mutex_lock(t, m)
    \/ mutex_trylock(t) \/ trylock_slowpath(t) \/ mutex_unlock(t)
    \/ Proceed(t) \/ TakeWaitLock(t)
    \/ \E s \in Kinds : signal(t, s)
    \/ signal_handled(t) \/ spurious_wakeup(t)

Spec == Init /\ [][Next]_vars

(* Runnable tasks run, the spinlock is fair to those who spin on it, and   *)
(* holders unlock in the end.                                              *)
Fairness ==
  \A t \in Tasks :
    WF_vars(Proceed(t)) /\ SF_vars(TakeWaitLock(t)) /\ WF_vars(mutex_unlock(t))

FairSpec == Spec /\ Fairness

-----------------------------------------------------------------------------
TypeOK ==
  /\ count \in Int /\ count <= 1
  /\ wait_lock \in Tasks \cup {NULL}
  /\ wait_list \in Seq(Tasks)
  /\ owner \in Tasks \cup {NULL}
  /\ mode \in [Tasks -> Modes \cup {NoWait}]
  /\ state \in [Tasks -> TaskStates]
  /\ sig \in [Tasks -> Signals]
  /\ pc \in [Tasks -> PCs]

Holders == {t \in Tasks : pc[t] \in Holding}

(* At most one task has the mutex, and count is 1 exactly when nobody has  *)
(* it, in every interleaving of fast paths, spinners and slow paths.       *)
MutualExclusion ==
  /\ \A t, u \in Holders : t = u
  /\ count = 1 <=> Holders = {}

(* lock->owner, which spinners follow without any lock, is NULL or the     *)
(* task that has the mutex, and it is set for as long as the mutex is in   *)
(* its caller's hands.                                                     *)
OwnerIsHolder ==
  /\ owner # NULL => owner \in Holders
  /\ \A t \in Tasks : pc[t] = "locked" => owner = t

(* The holder cannot miss that there is somebody to wake. *)
WillWake ==
  \E t \in Tasks : \/ pc[t] \in Holding \ {"unlock_slow"} /\ count < 0
                   \/ pc[t] \in {"unlock_slow", "wake"}

(* No wake-up is lost: while the first waiter sleeps, some task has the    *)
(* mutex with the waiter bit set or is on its way to wake the waiter,      *)
(* although the mutex may be stolen by a spinner and a woken waiter may    *)
(* leave with -EINTR.                                                      *)
NoLostWakeup ==
  LET w == list_first_entry(wait_list)
  IN  ~list_empty(wait_list) /\ pc[w] = "schedule" /\ state[w] # TASK_RUNNING
        => WillWake

(* Between the decrement of the fast path and the xchg of the slow path. *)
Decremented == {t \in Tasks : pc[t] \in Spinning \cup {"slow_lock", "add"}}

(* count is not driven down without bound by tasks that give up and try    *)
(* again: every decrement is taken back by an xchg.                        *)
CountBounded == count >= -1 - Cardinality(Decremented)

(* While anybody tries to lock the mutex, somebody gets it, or they all    *)
(* give up.  (An individual waiter may be overtaken for ever.)             *)
LockProgress ==
  (\E t \in Tasks : pc[t] \in LockPath)
    ~> \/ \E t \in Tasks : pc[t] = "set_owner"
       \/ \A t \in Tasks : pc[t] \notin LockPath

-----------------------------------------------------------------------------
(***************************************************************************)
(* The inductive invariant behind the safety properties.                   *)
(***************************************************************************)

(* A task on its way to the lock has a state to wait in. *)
ModeInv == \A t \in Tasks : pc[t] \in LockPath => mode[t] \in Modes

(* wait_lock is held exactly in the critical sections. *)
WaitLockInv == \A t \in Tasks : pc[t] \in Locked <=> wait_lock = t

(* Once the slow path has swapped in -1 and not got the mutex, whoever has *)
(* it cannot unlock it without wait_lock.                                  *)
FailedInv ==
  \A t \in Tasks :
    pc[t] \in {"check", "set_state", "try_lost"} =>
      count < 0 \/ \E h \in Tasks : pc[h] = "unlock_slow"

(* The new holder has not touched the -1 yet. *)
GotInv == \A t \in Tasks : pc[t] \in {"done", "try_own", "zero"} => count < 0

OwnerInv ==
  /\ owner # NULL => pc[owner] \in {"zero", "set_owner", "locked"}
  /\ \A t \in Tasks : pc[t] = "locked" => owner = t

IInv ==
  /\ TypeOK /\ ModeInv /\ WaitLockInv /\ MutualExclusion
  /\ FailedInv /\ GotInv /\ OwnerInv /\ NoLostWakeup

=============================================================================
