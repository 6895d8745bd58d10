------------------------------- MODULE RwSem -------------------------------
(***************************************************************************)
(* The read/write semaphore of lib/rwsem-spinlock.c, the implementation    *)
(* this kernel is built with (CONFIG_RWSEM_GENERIC_SPINLOCK), behind the   *)
(* entry points of kernel/rwsem.c.                                         *)
(*                                                                         *)
(* One semaphore and a set of tasks.  A critical section of wait_lock is   *)
(* one step when no other task can see inside it.  The wake-up code is     *)
(* not: a sleeper reads its own waiter.task without the lock, so that each *)
(* store to waiter.task and each wake_up_process() is a step of its own,   *)
(* taken while the waker still holds wait_lock.                            *)
(*                                                                         *)
(* Memory is sequentially consistent here: smp_mb() and the barrier in     *)
(* set_task_state() order what the model orders.                           *)
(***************************************************************************)
EXTENDS Integers, FiniteSets, Sequences, LinuxList, TaskSched

CONSTANTS Tasks,   \* the tasks that use the semaphore
          NULL     \* the null task pointer; also "wait_lock is free"

ASSUME TasksAssumption == IsFiniteSet(Tasks) /\ NULL \notin Tasks

VARIABLES
  activity,      \* sem->activity: -1 one writer, n > 0 readers, 0 free
  wait_lock,     \* holder of sem->wait_lock, NULL when it is free
  wait_list,     \* sem->wait_list: tasks, oldest first
  waiter_task,   \* waiter.task of each task's rwsem_waiter
  waiter_flags,  \* waiter.flags
  usage,         \* task references taken by get_task_struct() in this file
  state,         \* task->state
  tsk,           \* the waker's local tsk
  woken,         \* the waker's local woken
  pc             \* where each task is

semVars == <<activity, wait_list, waiter_task, usage>>
vars == <<activity, wait_lock, wait_list, waiter_task, waiter_flags, usage,
          state, tsk, woken, pc>>

READ  == "RWSEM_WAITING_FOR_READ"
WRITE == "RWSEM_WAITING_FOR_WRITE"
DEAD  == "DEAD"   \* the task is in no wait loop: it has no rwsem_waiter

(***************************************************************************)
(* Program counter.  A task that wakes others holds wait_lock; it goes     *)
(* back to "idle" afterwards, or to "reading" from downgrade_write().      *)
(***************************************************************************)
Waiting    == {"wait_check", "wait_schedule"}
UpWake     == {"up_wake_one", "up_grant", "up_wake_writer", "up_wake_reader"}
DowngrWake == {"dg_grant", "dg_wake_reader"}
PCs == {"idle", "reading", "writing"} \cup Waiting \cup UpWake \cup DowngrWake

goto(t, l) == pc' = [pc EXCEPT ![t] = l]

Init ==
  /\ activity = 0 /\ wait_lock = NULL /\ wait_list = EmptyList
  /\ waiter_task  = [t \in Tasks |-> NULL]
  /\ waiter_flags = [t \in Tasks |-> DEAD]
  /\ usage = [t \in Tasks |-> 0]
  /\ state = [t \in Tasks |-> TASK_RUNNING]
  /\ tsk = NULL /\ woken = 0
  /\ pc = [t \in Tasks |-> "idle"]

-----------------------------------------------------------------------------
(* Mutated forms of the definitions below, one plausible slip each. *)

(* down_read() ignores the queue. *)
MutReadGrantable == activity >= 0

(* The wait loop trusts any wake-up. *)
MutWaitSchedule(t) ==
  /\ pc[t] = "wait_schedule"
  /\ state[t] = TASK_RUNNING
  /\ goto(t, IF waiter_flags[t] = READ THEN "reading" ELSE "writing")
  /\ waiter_flags' = [waiter_flags EXCEPT ![t] = DEAD]
  /\ UNCHANGED <<semVars, wait_lock, tsk, woken, state>>

(* waiter->task is cleared but the waiter stays linked. *)
MutHandOver(t, u, l) ==
  /\ waiter_task' = [waiter_task EXCEPT ![u] = NULL]
  /\ tsk' = u
  /\ goto(t, l)
  /\ UNCHANGED <<wait_list, waiter_flags, usage, state, wait_lock>>

(* Only the first reader of the queue is woken. *)
MutLoopEnds == TRUE

(* The last reader woken is not counted. *)
MutFinishWake(t, l) ==
  /\ activity' = activity + woken
  /\ woken' = 0
  /\ wait_lock' = NULL
  /\ goto(t, l)

(* rwsem_is_locked() reads activity without taking wait_lock. *)
MutIsLocked == activity # 0

-----------------------------------------------------------------------------
(* The grant conditions of down_read() and down_write() and their trylocks. *)

ReadGrantable  == activity >= 0 /\ list_empty(wait_list)
WriteGrantable == activity = 0 /\ list_empty(wait_list)

(* The contended path: link an on-stack waiter and leave wait_lock. *)
enqueue(t, flags) ==
  /\ state' = [state EXCEPT ![t] = TASK_UNINTERRUPTIBLE]
  /\ waiter_task'  = [waiter_task EXCEPT ![t] = t]
  /\ waiter_flags' = [waiter_flags EXCEPT ![t] = flags]
  /\ usage' = [usage EXCEPT ![t] = @ + 1]
  /\ wait_list' = list_add_tail(wait_list, t)
  /\ goto(t, "wait_check")
  /\ UNCHANGED activity

grant(t, act, l) ==
  /\ activity' = act
  /\ goto(t, l)
  /\ UNCHANGED <<wait_list, waiter_task, waiter_flags, usage, state>>

down_read(t) ==
  /\ pc[t] = "idle" /\ wait_lock = NULL
  /\ \/ ReadGrantable /\ grant(t, activity + 1, "reading")
     \/ ~ReadGrantable /\ enqueue(t, READ)
  /\ UNCHANGED <<wait_lock, tsk, woken>>

down_write(t) ==
  /\ pc[t] = "idle" /\ wait_lock = NULL
  /\ \/ WriteGrantable /\ grant(t, -1, "writing")
     \/ ~WriteGrantable /\ enqueue(t, WRITE)
  /\ UNCHANGED <<wait_lock, tsk, woken>>

(* A trylock that fails changes nothing. *)
down_read_trylock(t) ==
  /\ pc[t] = "idle" /\ wait_lock = NULL
  /\ ReadGrantable
  /\ grant(t, activity + 1, "reading")
  /\ UNCHANGED <<wait_lock, tsk, woken>>

down_write_trylock(t) ==
  /\ pc[t] = "idle" /\ wait_lock = NULL
  /\ WriteGrantable
  /\ grant(t, -1, "writing")
  /\ UNCHANGED <<wait_lock, tsk, woken>>

(* The wait is over: the function returns and its waiter is gone. *)
wait_return(t) ==
  /\ goto(t, IF waiter_flags[t] = READ THEN "reading" ELSE "writing")
  /\ waiter_flags' = [waiter_flags EXCEPT ![t] = DEAD]
  /\ state' = [state EXCEPT ![t] = TASK_RUNNING]

(* The wait loop: "if (!waiter.task) break;" without wait_lock. *)
wait_check(t) ==
  /\ pc[t] = "wait_check"
  /\ \/ waiter_task[t] = NULL /\ wait_return(t)
     \/ /\ waiter_task[t] # NULL
        /\ goto(t, "wait_schedule")
        /\ UNCHANGED <<state, waiter_flags>>
  /\ UNCHANGED <<semVars, wait_lock, tsk, woken>>

(* schedule() returns once the task is runnable; the loop then sets the    *)
(* task state again before it looks at waiter.task.                        *)
wait_schedule(t) ==
  /\ pc[t] = "wait_schedule"
  /\ state[t] = TASK_RUNNING
  /\ state' = [state EXCEPT ![t] = TASK_UNINTERRUPTIBLE]
  /\ goto(t, "wait_check")
  /\ UNCHANGED <<semVars, waiter_flags, wait_lock, tsk, woken>>

(* A wake-up that has nothing to do with this semaphore. *)
spurious_wakeup(t) ==
  /\ pc[t] = "wait_schedule" /\ state[t] # TASK_RUNNING
  /\ state' = wake_up_process(state, t)
  /\ UNCHANGED <<semVars, waiter_flags, wait_lock, tsk, woken, pc>>

-----------------------------------------------------------------------------
(* Releasing.  wait_lock stays held while others are woken. *)

UpReadMustWake(act) == act = 0 /\ ~list_empty(wait_list)

up_read(t) ==
  /\ pc[t] = "reading" /\ wait_lock = NULL
  /\ activity' = activity - 1
  /\ \/ /\ UpReadMustWake(activity - 1)
        /\ wait_lock' = t
        /\ goto(t, "up_wake_one")
     \/ /\ ~UpReadMustWake(activity - 1)
        /\ UNCHANGED wait_lock
        /\ goto(t, "idle")
  /\ UNCHANGED <<wait_list, waiter_task, waiter_flags, usage, state, tsk, woken>>

up_write(t) ==
  /\ pc[t] = "writing" /\ wait_lock = NULL
  /\ activity' = 0
  /\ \/ /\ ~list_empty(wait_list)
        /\ wait_lock' = t
        /\ woken' = 0
        /\ goto(t, "up_grant")
     \/ /\ list_empty(wait_list)
        /\ UNCHANGED <<wait_lock, woken>>
        /\ goto(t, "idle")
  /\ UNCHANGED <<wait_list, waiter_task, waiter_flags, usage, state, tsk>>

HeadWants(flags) ==
  ~list_empty(wait_list) /\ waiter_flags[list_first_entry(wait_list)] = flags

(* __rwsem_do_wake(sem, 0): a writer at the head stays queued. *)
downgrade_write(t) ==
  /\ pc[t] = "writing" /\ wait_lock = NULL
  /\ activity' = 1
  /\ \/ /\ HeadWants(READ)
        /\ wait_lock' = t
        /\ woken' = 0
        /\ goto(t, "dg_grant")
     \/ /\ ~HeadWants(READ)
        /\ UNCHANGED <<wait_lock, woken>>
        /\ goto(t, "reading")
  /\ UNCHANGED <<wait_list, waiter_task, waiter_flags, usage, state, tsk>>

(* list_del(), then waiter->task = NULL: from here on the waiter may be    *)
(* gone from its owner's stack and only the task pointer is safe to use.   *)
hand_over(t, u, l) ==
  /\ wait_list' = list_del(wait_list, u)
  /\ waiter_task' = [waiter_task EXCEPT ![u] = NULL]
  /\ tsk' = u
  /\ goto(t, l)
  /\ UNCHANGED <<waiter_flags, usage, state, wait_lock>>

(* __rwsem_wake_one_writer: the head is taken for a writer unseen. *)
wake_one_writer(t) ==
  /\ pc[t] = "up_wake_one"
  /\ activity' = -1
  /\ hand_over(t, list_first_entry(wait_list), "up_wake_writer")
  /\ UNCHANGED woken

(* __rwsem_do_wake(sem, 1) with a writer at the head. *)
do_wake_grant_writer(t) ==
  /\ pc[t] = "up_grant" /\ woken = 0 /\ HeadWants(WRITE)
  /\ activity' = -1
  /\ hand_over(t, list_first_entry(wait_list), "up_wake_writer")
  /\ UNCHANGED woken

(* One turn of its loop over the readers at the head. *)
do_wake_grant_reader(t) ==
  /\ pc[t] \in {"up_grant", "dg_grant"} /\ HeadWants(READ)
  /\ hand_over(t, list_first_entry(wait_list),
               IF pc[t] = "up_grant" THEN "up_wake_reader" ELSE "dg_wake_reader")
  /\ UNCHANGED <<activity, woken>>

(* wake_up_process(tsk); put_task_struct(tsk). *)
wake_tsk ==
  /\ state' = wake_up_process(state, tsk)
  /\ usage' = [usage EXCEPT ![tsk] = @ - 1]
  /\ tsk' = NULL

wake_writer(t) ==
  /\ pc[t] = "up_wake_writer"
  /\ wake_tsk
  /\ wait_lock' = NULL
  /\ goto(t, "idle")
  /\ UNCHANGED <<activity, wait_list, waiter_task, waiter_flags, woken>>

(* The loop ends at the end of the list or at a writer. *)
LoopEnds == ~HeadWants(READ)

(* The last turn's woken++, then sem->activity += woken, and wait_lock is  *)
(* released; the local woken is dead.                                      *)
finish_wake(t, l) ==
  /\ activity' = activity + woken + 1
  /\ woken' = 0
  /\ wait_lock' = NULL
  /\ goto(t, l)

wake_reader(t) ==
  /\ pc[t] \in {"up_wake_reader", "dg_wake_reader"}
  /\ wake_tsk
  /\ \/ LoopEnds /\ finish_wake(t, IF pc[t] = "up_wake_reader" THEN "idle"
                                                              ELSE "reading")
     \/ /\ ~LoopEnds
        /\ woken' = woken + 1
        /\ goto(t, IF pc[t] = "up_wake_reader" THEN "up_grant" ELSE "dg_grant")
        /\ UNCHANGED <<activity, wait_lock>>
  /\ UNCHANGED <<wait_list, waiter_task, waiter_flags>>

(* The answer of rwsem_is_locked(): a failed spin_trylock counts as locked. *)
rwsem_is_locked == wait_lock # NULL \/ activity # 0

-----------------------------------------------------------------------------
(* A task inside the wait loop or holding wait_lock goes on by itself. *)
Proceed(t) ==
  \/ wait_check(t) \/ wait_schedule(t)
  \/ wake_one_writer(t) \/ do_wake_grant_writer(t) \/ do_wake_grant_reader(t)
  \/ wake_writer(t) \/ wake_reader(t)

Release(t) == up_read(t) \/ up_write(t)

Next ==
  \E t \in Tasks :
    \/ down_read(t) \/ down_write(t)
    \/ down_read_trylock(t) \/ down_write_trylock(t)
    \/ downgrade_write(t) \/ spurious_wakeup(t)
    \/ Release(t) \/ Proceed(t)

Spec == Init /\ [][Next]_vars

(* The scheduler runs every runnable task, and holders let go in the end. *)
Fairness == \A t \in Tasks : WF_vars(Proceed(t)) /\ WF_vars(Release(t))

FairSpec == Spec /\ Fairness

-----------------------------------------------------------------------------
TypeOK ==
  /\ activity \in Int /\ activity >= -1
  /\ wait_lock \in Tasks \cup {NULL}
  /\ wait_list \in Seq(Tasks)
  /\ waiter_task \in [Tasks -> Tasks \cup {NULL}]
  /\ waiter_flags \in [Tasks -> {READ, WRITE, DEAD}]
  /\ usage \in [Tasks -> Nat]
  /\ state \in [Tasks -> TaskStates]
  /\ tsk \in Tasks \cup {NULL}
  /\ woken \in Nat
  /\ pc \in [Tasks -> PCs]

(* In the wait loop and already given the lock: waiter.task is NULL. *)
Granted(t) == pc[t] \in Waiting /\ waiter_task[t] = NULL

Readers == {t \in Tasks : \/ pc[t] \in {"reading"} \cup DowngrWake
                          \/ Granted(t) /\ waiter_flags[t] = READ}
Writers == {t \in Tasks : \/ pc[t] = "writing"
                          \/ Granted(t) /\ waiter_flags[t] = WRITE}

(* sem->activity counts the holders whenever wait_lock is free: -1 for one *)
(* writer and no reader, otherwise the number of readers.  A task that was *)
(* handed the lock and has not noticed yet is a holder.                    *)
ActivityAccurate ==
  wait_lock = NULL =>
    IF activity = -1 THEN Readers = {} /\ \E t \in Tasks : Writers = {t}
                     ELSE Writers = {} /\ activity = Cardinality(Readers)

(* Every waiter that the waker can reach through wait_list is on the stack *)
(* of a task that is still in its wait loop, and the task it is about to   *)
(* wake is pinned by exactly one reference; no other reference is left     *)
(* over ("Don't touch waiter after ->task has been NULLed").               *)
WaitersLive ==
  /\ IsList(wait_list)
  /\ \A t \in Tasks :
       /\ t \in Entries(wait_list) <=> pc[t] \in Waiting /\ waiter_task[t] = t
       /\ usage[t] = IF t \in Entries(wait_list) \/ t = tsk THEN 1 ELSE 0

(* Between critical sections nobody queues on a free semaphore, and behind *)
(* readers the head of the queue is a writer: __up_read() relies on it     *)
(* when it wakes "a single writer" without looking at the flags.           *)
QueueHeadBlocked ==
  wait_lock = NULL /\ ~list_empty(wait_list) =>
    /\ activity # 0
    /\ activity > 0 => HeadWants(WRITE)

(* rwsem_is_locked() never calls a held semaphore free, even while the     *)
(* waker has already let readers in and not yet counted them.              *)
IsLockedSound == Readers \cup Writers # {} => rwsem_is_locked

(* Nobody overtakes: a task that becomes a holder found the queue empty or *)
(* was its head.                                                           *)
NoOvertaking ==
  [][\A t \in (Readers' \cup Writers') \ (Readers \cup Writers) :
       list_empty(wait_list) \/ t = list_first_entry(wait_list)]_vars

(* The semaphore implements the abstract read/write lock. *)
Lock == INSTANCE RWLock WITH readers <- Readers, writers <- Writers
RefinesRWLock == Lock!LockSpec

(* As long as holders let go, every down_read() and down_write() returns:  *)
(* a stream of readers cannot starve a writer, nor the other way round.    *)
EventuallyGranted ==
  \A t \in Tasks : pc[t] \in Waiting ~> pc[t] \in {"reading", "writing"}

-----------------------------------------------------------------------------
(***************************************************************************)
(* The inductive invariant behind the safety properties.  While somebody   *)
(* wakes waiters, activity lags behind the holders; WakeInv says by how    *)
(* much at each place of the wake-up code.                                 *)
(***************************************************************************)

(* wait_lock is held exactly by the task that wakes others. *)
WakerInv == \A t \in Tasks : pc[t] \in UpWake \cup DowngrWake <=> wait_lock = t

(* A waiter exists while its task is in the wait loop, and waits for one   *)
(* thing; its task pointer is its own task or NULL.                        *)
WaiterInv ==
  \A t \in Tasks :
    /\ waiter_flags[t] # DEAD <=> pc[t] \in Waiting
    /\ waiter_task[t] \in {t, NULL}

(* The waker has a task in hand between hand_over() and wake_tsk, and that *)
(* task cannot queue again meanwhile.                                      *)
InHand == {"up_wake_writer", "up_wake_reader", "dg_wake_reader"}
TskInv == /\ tsk # NULL <=> \E t \in Tasks : pc[t] \in InHand
          /\ tsk \notin Entries(wait_list)

(* n readers hold the semaphore, and activity says act. *)
ReadHeld(act, n) ==
  activity = act /\ Writers = {} /\ Cardinality(Readers) = n

WriteHeld == activity = -1 /\ Readers = {} /\ \E t \in Tasks : Writers = {t}

WakeInv ==
  \A t \in Tasks :
    /\ pc[t] = "up_wake_one" => ReadHeld(0, 0) /\ HeadWants(WRITE)
    /\ pc[t] = "up_grant" => /\ ReadHeld(0, woken) /\ ~list_empty(wait_list)
                             /\ woken > 0 => HeadWants(READ)
    /\ pc[t] = "up_wake_writer" => WriteHeld
    /\ pc[t] = "up_wake_reader" => ReadHeld(0, woken + 1)
    /\ pc[t] = "dg_grant" => ReadHeld(1, woken + 1) /\ HeadWants(READ)
    /\ pc[t] = "dg_wake_reader" => ReadHeld(1, woken + 2)

IInv ==
  /\ TypeOK /\ WakerInv /\ WaiterInv /\ TskInv /\ WaitersLive
  /\ ActivityAccurate /\ QueueHeadBlocked /\ WakeInv

=============================================================================
