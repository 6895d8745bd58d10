------------------------------ MODULE Semaphore ------------------------------
(***************************************************************************)
(* The counting semaphore of kernel/semaphore.c.                           *)
(*                                                                         *)
(* Everything but the sleep happens under sem->lock.  What races with it   *)
(* is outside the semaphore: signals and timers act on task->state and on  *)
(* the pending-signal flag without sem->lock, so the wait loop of          *)
(* __down_common() is split where they can get in between its test of the  *)
(* signal, its store to task->state and schedule().                        *)
(***************************************************************************)
EXTENDS Integers, FiniteSets, Sequences, LinuxList, TaskSched

CONSTANTS Tasks,     \* the tasks that use the semaphore
          NULL,      \* "sem->lock is free"
          Units,     \* the value given to sema_init()
          MaxExtra   \* bound: calls of up() by somebody who holds no unit

ASSUME SemAssumption ==
  /\ IsFiniteSet(Tasks) /\ NULL \notin Tasks
  /\ Units \in Nat /\ MaxExtra \in Nat

VARIABLES
  count,      \* sem->count
  lock,       \* holder of sem->lock between two steps, NULL when free
  wait_list,  \* sem->wait_list: tasks, oldest first
  up,         \* waiter.up of each task's semaphore_waiter
  mode,       \* which down function the task called
  expired,    \* its timeout has come down to 0
  state,      \* task->state
  sig,        \* the pending signal
  extra,      \* how many units up() has added for nobody's down()
  pc

vars == <<count, lock, wait_list, up, mode, expired, state, sig, extra, pc>>

(***************************************************************************)
(* "check" and "set_state" are inside the loop with sem->lock held;        *)
(* "schedule" is without it.                                               *)
(***************************************************************************)
Locked  == {"check", "set_state"}
Waiting == Locked \cup {"schedule"}
PCs     == {"idle", "held"} \cup Waiting

Modes == {"down", "down_interruptible", "down_killable", "down_timeout"}
NoWait == "none"   \* the task is in no wait loop

(* The state argument each function passes to __down_common(). *)
StateOf(m) ==
  CASE m = "down_interruptible" -> TASK_INTERRUPTIBLE
    [] m = "down_killable"      -> TASK_KILLABLE
    [] OTHER                    -> TASK_UNINTERRUPTIBLE

goto(t, l) == pc' = [pc EXCEPT ![t] = l]

(* __down_common() returns: its semaphore_waiter and its locals are gone. *)
wait_return(t, l) ==
  /\ goto(t, l)
  /\ up' = [up EXCEPT ![t] = 0]
  /\ mode' = [mode EXCEPT ![t] = NoWait]
  /\ expired' = [expired EXCEPT ![t] = FALSE]

(* sema_init(sem, Units) *)
Init ==
  /\ count = Units /\ lock = NULL /\ wait_list = EmptyList
  /\ up = [t \in Tasks |-> 0]
  /\ mode = [t \in Tasks |-> NoWait]
  /\ expired = [t \in Tasks |-> FALSE]
  /\ state = [t \in Tasks |-> TASK_RUNNING]
  /\ sig = [t \in Tasks |-> "none"]
  /\ extra = 0
  /\ pc = [t \in Tasks |-> "idle"]

-----------------------------------------------------------------------------
(* Mutated forms of the definitions below, one plausible slip each. *)

(* The loop tests for a signal or a timeout before it looks at waiter.up. *)
MutRelock(t) ==
  /\ pc[t] = "schedule" /\ state[t] = TASK_RUNNING /\ lock = NULL
  /\ IF up[t] = 1 /\ ~expired[t]
       THEN wait_return(t, "held") /\ UNCHANGED lock
       ELSE goto(t, "check") /\ lock' = t /\ UNCHANGED <<up, mode, expired>>
  /\ UNCHANGED <<count, wait_list, state, sig, extra>>

(* up() forgets the wake-up. *)
MutUpWake(w) ==
  /\ wait_list' = list_del(wait_list, w)
  /\ up' = [up EXCEPT ![w] = 1]
  /\ UNCHANGED <<count, state>>

(* up() adds the unit and wakes the head, which is to fetch it itself. *)
MutUpCount(w) ==
  /\ wait_list' = list_del(wait_list, w)
  /\ up' = [up EXCEPT ![w] = 1]
  /\ count' = count + 1
  /\ state' = wake_up_process(state, w)

(* A waiter that gives up stays linked. *)
MutGiveUp(t) ==
  /\ lock' = NULL
  /\ wait_return(t, "idle")
  /\ UNCHANGED wait_list

(* A signal that comes in before the store to task->state is missed. *)
MutSignalSeen(t) == FALSE

-----------------------------------------------------------------------------
(* down(), down_interruptible(), down_killable() and down_timeout(): take  *)
(* a unit, or link a waiter and enter the loop with sem->lock held.  soon  *)
(* says that down_timeout() was given no time at all.                      *)
down(t, m, soon) ==
  /\ pc[t] = "idle" /\ lock = NULL
  /\ soon => m = "down_timeout"
  /\ \/ /\ count > 0
        /\ count' = count - 1
        /\ goto(t, "held")
        /\ UNCHANGED <<lock, wait_list, up, mode, expired>>
     \/ /\ count = 0
        /\ wait_list' = list_add_tail(wait_list, t)
        /\ up' = [up EXCEPT ![t] = 0]
        /\ mode' = [mode EXCEPT ![t] = m]
        /\ expired' = [expired EXCEPT ![t] = soon]
        /\ lock' = t
        /\ goto(t, "check")
        /\ UNCHANGED count
  /\ UNCHANGED <<state, sig, extra>>

(* A down_trylock() that fails changes nothing. *)
down_trylock(t) ==
  /\ pc[t] = "idle" /\ lock = NULL
  /\ count - 1 >= 0
  /\ count' = count - 1
  /\ goto(t, "held")
  /\ UNCHANGED <<lock, wait_list, up, mode, expired, state, sig, extra>>

(* The interrupted and timed_out exits: -EINTR or -ETIME, no unit. *)
give_up(t) ==
  /\ wait_list' = list_del(wait_list, t)
  /\ lock' = NULL
  /\ wait_return(t, "idle")

(* Top of the loop. *)
check(t) ==
  /\ pc[t] = "check"
  /\ \/ /\ signal_pending_state(StateOf(mode[t]), sig[t]) \/ expired[t]
        /\ give_up(t)
     \/ /\ ~signal_pending_state(StateOf(mode[t]), sig[t]) /\ ~expired[t]
        /\ goto(t, "set_state")
        /\ UNCHANGED <<wait_list, lock, up, mode, expired>>
  /\ UNCHANGED <<count, state, sig, extra>>

(* __set_task_state(), then sem->lock is dropped. *)
set_state(t) ==
  /\ pc[t] = "set_state"
  /\ state' = [state EXCEPT ![t] = StateOf(mode[t])]
  /\ lock' = NULL
  /\ goto(t, "schedule")
  /\ UNCHANGED <<count, wait_list, up, mode, expired, sig, extra>>

(* __schedule() does not put a task to sleep that has a signal to see. *)
SignalSeen(t) == signal_pending_state(state[t], sig[t])

schedule_signal(t) ==
  /\ pc[t] = "schedule" /\ SignalSeen(t)
  /\ state' = [state EXCEPT ![t] = TASK_RUNNING]
  /\ UNCHANGED <<count, lock, wait_list, up, mode, expired, sig, extra, pc>>

(* schedule_timeout() has returned: back under sem->lock, waiter.up first. *)
relock(t) ==
  /\ pc[t] = "schedule" /\ state[t] = TASK_RUNNING /\ lock = NULL
  /\ IF up[t] = 1
       THEN wait_return(t, "held") /\ UNCHANGED lock
       ELSE goto(t, "check") /\ lock' = t /\ UNCHANGED <<up, mode, expired>>
  /\ UNCHANGED <<count, wait_list, state, sig, extra>>

(* __up(): the unit goes straight to the oldest waiter. *)
up_wake(w) ==
  /\ wait_list' = list_del(wait_list, w)
  /\ up' = [up EXCEPT ![w] = 1]
  /\ state' = wake_up_process(state, w)
  /\ UNCHANGED count

up_common ==
  /\ lock = NULL
  /\ \/ /\ list_empty(wait_list)
        /\ count' = count + 1
        /\ UNCHANGED <<wait_list, up, state>>
     \/ ~list_empty(wait_list) /\ up_wake(list_first_entry(wait_list))
  /\ UNCHANGED <<lock, mode, expired, sig>>

up_holder(t) ==
  /\ pc[t] = "held"
  /\ up_common
  /\ goto(t, "idle")
  /\ UNCHANGED extra

(* "up() may be called from any context and even by tasks which have never *)
(* called down()": here an interrupt handler.                              *)
up_irq ==
  /\ extra < MaxExtra
  /\ up_common
  /\ extra' = extra + 1
  /\ UNCHANGED pc

-----------------------------------------------------------------------------
(* The rest of the kernel, which takes no sem->lock. *)

(* The flag is set and the task woken if it sleeps interruptibly. *)
signal(t, s) ==
  /\ sig[t] # s /\ sig[t] # "fatal"
  /\ sig' = [sig EXCEPT ![t] = s]
  /\ state' = signal_wake_up(state, t, s)
  /\ UNCHANGED <<count, lock, wait_list, up, mode, expired, extra, pc>>

(* Outside the semaphore the task handles its signal. *)
signal_handled(t) ==
  /\ pc[t] = "idle" /\ sig[t] # "none"
  /\ sig' = [sig EXCEPT ![t] = "none"]
  /\ UNCHANGED <<count, lock, wait_list, up, mode, expired, state, extra, pc>>

(* The timer of schedule_timeout() fires. *)
process_timeout(t) ==
  /\ pc[t] = "schedule" /\ mode[t] = "down_timeout" /\ ~expired[t]
  /\ expired' = [expired EXCEPT ![t] = TRUE]
  /\ state' = wake_up_process(state, t)
  /\ UNCHANGED <<count, lock, wait_list, up, mode, sig, extra, pc>>

(* A wake-up meant for something else. *)
spurious_wakeup(t) ==
  /\ pc[t] = "schedule" /\ state[t] # TASK_RUNNING
  /\ state' = wake_up_process(state, t)
  /\ UNCHANGED <<count, lock, wait_list, up, mode, expired, sig, extra, pc>>

-----------------------------------------------------------------------------
Next ==
  \/ up_irq
  \/ \E t \in Tasks :
       \/ \E m \in Modes, soon \in BOOLEAN : down(t, m, soon)
       \/ down_trylock(t) \/ up_holder(t)
       \/ check(t) \/ set_state(t) \/ schedule_signal(t) \/ relock(t)
       \/ \E s \in Signals \ {"none"} : signal(t, s)
       \/ signal_handled(t) \/ process_timeout(t) \/ spurious_wakeup(t)

Spec == Init /\ [][Next]_vars

(* Runnable tasks run, timers fire, and a task that spins on sem->lock gets *)
(* it (the lock is only held for the few steps of a loop turn).  Nothing is *)
(* assumed of the callers: a holder may keep its unit for ever.            *)
Fairness ==
  \A t \in Tasks :
    /\ WF_vars(check(t)) /\ WF_vars(set_state(t)) /\ WF_vars(schedule_signal(t))
    /\ SF_vars(relock(t)) /\ SF_vars(process_timeout(t))

FairSpec == Spec /\ Fairness

-----------------------------------------------------------------------------
TypeOK ==
  /\ count \in Nat
  /\ lock \in Tasks \cup {NULL}
  /\ wait_list \in Seq(Tasks)
  /\ up \in [Tasks -> {0, 1}]
  /\ mode \in [Tasks -> Modes \cup {NoWait}]
  /\ expired \in [Tasks -> BOOLEAN]
  /\ state \in [Tasks -> TaskStates]
  /\ sig \in [Tasks -> Signals]
  /\ extra \in 0 .. MaxExtra
  /\ pc \in [Tasks -> PCs]

(* The tasks that own a unit: __up() may have given it to a task that is   *)
(* still asleep.                                                           *)
Owners == {t \in Tasks : pc[t] = "held" \/ (pc[t] \in Waiting /\ up[t] = 1)}

(* Units are neither lost nor made up, whatever signals, timeouts and      *)
(* spurious wake-ups do to the waiters: the free ones and the owned ones   *)
(* are those of sema_init() and those added from outside.                  *)
UnitsConserved == count + Cardinality(Owners) = Units + extra

(* No task is queued while a unit is free, and the queue holds exactly the *)
(* waiters that own nothing: the exits that unlink a waiter find it linked.*)
QueueExact ==
  /\ count > 0 => list_empty(wait_list)
  /\ IsList(wait_list)
  /\ \A t \in Tasks :
       t \in Entries(wait_list) <=> pc[t] \in Waiting /\ up[t] = 0

(* A unit that was handed over is not thrown away: a task that owns one    *)
(* while it waits does not return an error, even if its signal or its      *)
(* timeout came at the same time.                                          *)
GrantKept ==
  [][\A t \in Tasks : pc[t] \in Waiting /\ up[t] = 1 => pc'[t] # "idle"]_vars

(* An interruptible wait with a signal to see, and a wait with a timeout,  *)
(* come to an end even if no unit is ever released.                        *)
WaitAborts ==
  \A t \in Tasks :
    (pc[t] \in Waiting /\ (\/ mode[t] = "down_timeout"
                           \/ signal_pending_state(StateOf(mode[t]), sig[t])))
      ~> pc[t] \notin Waiting

(* If holders release their units, every down() returns as soon as there   *)
(* is a unit at all, although trylocks and new calls compete for it.       *)
DownReturns ==
  (\A t \in Tasks : SF_vars(up_holder(t)))
    => \A t \in Tasks :
         (pc[t] \in Waiting /\ Units + extra > 0) ~> pc[t] \notin Waiting

-----------------------------------------------------------------------------
(***************************************************************************)
(* The inductive invariant behind the safety properties.                   *)
(***************************************************************************)

(* sem->lock is held exactly in the critical sections. *)
LockInv == \A t \in Tasks : pc[t] \in Locked <=> lock = t

(* waiter.up belongs to a wait; a task that has sem->lock in the loop has  *)
(* seen that it is still 0.                                                *)
UpInv == \A t \in Tasks : up[t] = 1 => pc[t] = "schedule"

IInv == TypeOK /\ LockInv /\ UpInv /\ QueueExact /\ UnitsConserved

=============================================================================
