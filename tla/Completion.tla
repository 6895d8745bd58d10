----------------------------- MODULE Completion -----------------------------
(***************************************************************************)
(* Completions: include/linux/completion.h, and complete(), complete_all() *)
(* and wait_for_common() of kernel/sched.c.                                *)
(*                                                                         *)
(* A completion is a counter of events that have happened and not been     *)
(* waited for, and a queue of exclusive waiters.  A wake-up does not hand  *)
(* the event over and does not unlink the waiter: whoever gets             *)
(* x->wait.lock first takes it.  As in the semaphore, signals and timers   *)
(* do not take that lock, so the wait loop is split where they get in.     *)
(***************************************************************************)
EXTENDS Integers, FiniteSets, Sequences, LinuxList, TaskSched

CONSTANTS Tasks,      \* the tasks that wait
          NULL,       \* "x->wait.lock is free"
          Sleeps,     \* bound: the task states in which callers wait
          Kinds,      \* bound: the kinds of signals they are sent
          Width,      \* x->done is an integer of that many values
          MaxPosted   \* bound: events that are posted between two INIT_COMPLETION()s

ASSUME CompletionAssumption ==
  /\ IsFiniteSet(Tasks) /\ NULL \notin Tasks
  /\ Sleeps \subseteq TASK_ALL
  /\ Kinds \subseteq Signals \ {"none"}
  /\ Width \in Nat /\ Width > 3 /\ MaxPosted \in Nat

VARIABLES
  done,     \* x->done
  lock,     \* holder of x->wait.lock between two steps, NULL when free
  wait,     \* x->wait: tasks, oldest first
  mode,     \* which wait function the task called
  expired,  \* its timeout has come down to 0
  state,    \* task->state
  sig,      \* the pending signal
  pc,
  posted,   \* history: events posted since x was initialised
  taken     \* history: waits that have returned success since then

taskVars == <<mode, expired, state, sig, pc>>
vars == <<done, lock, wait, taskVars, posted, taken>>

Locked  == {"check", "set_state"}
Waiting == Locked \cup {"schedule"}
PCs     == {"idle"} \cup Waiting

(* The six wait functions: an uninterruptible, interruptible or killable   *)
(* sleep, each with or without a timeout.                                  *)
Modes == [state : Sleeps, timed : BOOLEAN]
NoWait == [state |-> TASK_RUNNING, timed |-> FALSE]

UINT_MAX == Width - 1

goto(t, l) == pc' = [pc EXCEPT ![t] = l]

(* init_completion() *)
Init ==
  /\ done = 0 /\ lock = NULL /\ wait = EmptyList
  /\ mode = [t \in Tasks |-> NoWait]
  /\ expired = [t \in Tasks |-> FALSE]
  /\ state = [t \in Tasks |-> TASK_RUNNING]
  /\ sig = [t \in Tasks |-> "none"]
  /\ pc = [t \in Tasks |-> "idle"]
  /\ posted = 0 /\ taken = 0

(* The task is asleep on the queue. *)
Asleep(t) == pc[t] = "schedule" /\ state[t] # TASK_RUNNING

(* Those on the queue who are not. *)
Awake == {t \in Entries(wait) : ~Asleep(t)}

(* The wait queue entries that try_to_wake_up() would find asleep, by place. *)
Sleepers == {i \in DOMAIN wait : state[wait[i]] \in TASK_ALL}

-----------------------------------------------------------------------------
(* Mutated forms of the definitions below, one plausible slip each. *)

(* The wake-up stops at the head of the queue, asleep or not. *)
MutWakeOne ==
  state' = IF list_empty(wait) THEN state
           ELSE wake_up_process(state, list_first_entry(wait))

(* A wait whose timeout has expired says so although it takes an event. *)
MutFinish(t, error) ==
  /\ done' = IF done = 0 THEN 0 ELSE done - 1
  /\ taken' = IF done = 0 \/ error \/ expired[t] THEN taken ELSE taken + 1
  /\ wait' = list_del(wait, t)
  /\ mode' = [mode EXCEPT ![t] = NoWait]
  /\ expired' = [expired EXCEPT ![t] = FALSE]
  /\ lock' = NULL
  /\ goto(t, "idle")
  /\ UNCHANGED <<state, sig, posted>>

(* A signal that comes in before the store to task->state is missed. *)
MutSignalSeen(t) == FALSE

-----------------------------------------------------------------------------
(* do_wait_for_common() with an event there: it is taken.  Also a          *)
(* try_wait_for_completion() that succeeds.                                *)
take_done(t) ==
  /\ pc[t] = "idle" /\ lock = NULL /\ done # 0
  /\ done' = done - 1
  /\ taken' = taken + 1
  /\ UNCHANGED <<lock, wait, taskVars, posted>>

(* Without: the task is queued and enters the loop with the lock held. *)
wait_for_common(t, m) ==
  /\ pc[t] = "idle" /\ lock = NULL /\ done = 0
  /\ wait' = list_add_tail(wait, t)
  /\ mode' = [mode EXCEPT ![t] = m]
  /\ lock' = t
  /\ goto(t, "check")
  /\ UNCHANGED <<done, expired, state, sig, posted, taken>>

(* After the loop: the task leaves the queue and takes an event if there   *)
(* is one.  The result is an error if it was interrupted, even then;       *)
(* without an event it is the timeout, which is 0 when it has expired.     *)
finish(t, error) ==
  /\ wait' = list_del(wait, t)
  /\ done' = IF done = 0 THEN 0 ELSE done - 1
  /\ taken' = IF done = 0 \/ error THEN taken ELSE taken + 1
  /\ mode' = [mode EXCEPT ![t] = NoWait]
  /\ expired' = [expired EXCEPT ![t] = FALSE]
  /\ lock' = NULL
  /\ goto(t, "idle")
  /\ UNCHANGED <<state, sig, posted>>

(* Top of the loop: -ERESTARTSYS, or go on. *)
check(t) ==
  /\ pc[t] = "check"
  /\ \/ signal_pending_state(mode[t].state, sig[t]) /\ finish(t, TRUE)
     \/ /\ ~signal_pending_state(mode[t].state, sig[t])
        /\ goto(t, "set_state")
        /\ UNCHANGED <<done, lock, wait, mode, expired, state, sig, posted, taken>>

(* __set_current_state(), then the lock is dropped. *)
set_state(t) ==
  /\ pc[t] = "set_state"
  /\ state' = [state EXCEPT ![t] = mode[t].state]
  /\ lock' = NULL
  /\ goto(t, "schedule")
  /\ UNCHANGED <<done, wait, mode, expired, sig, posted, taken>>

(* __schedule() does not put a task to sleep that has a signal to see. *)
SignalSeen(t) == signal_pending_state(state[t], sig[t])

schedule_signal(t) ==
  /\ pc[t] = "schedule" /\ SignalSeen(t)
  /\ state' = [state EXCEPT ![t] = TASK_RUNNING]
  /\ UNCHANGED <<done, lock, wait, mode, expired, sig, pc, posted, taken>>

(* schedule_timeout() has returned; once more round if there is no event   *)
(* and time is left.                                                       *)
relock(t) ==
  /\ pc[t] = "schedule" /\ state[t] = TASK_RUNNING /\ lock = NULL
  /\ done = 0 /\ ~expired[t]
  /\ goto(t, "check") /\ lock' = t
  /\ UNCHANGED <<done, wait, mode, expired, state, sig, posted, taken>>

leave(t) ==
  /\ pc[t] = "schedule" /\ state[t] = TASK_RUNNING /\ lock = NULL
  /\ done # 0 \/ expired[t]
  /\ finish(t, FALSE)

-----------------------------------------------------------------------------
(* __wake_up_common(x, TASK_NORMAL, 1): the first waiter that is asleep.   *)
(* Those that wake up already are passed over.                             *)
wake_one ==
  \/ Sleepers = {} /\ UNCHANGED state
  \/ \E i \in Sleepers :
       /\ \A j \in Sleepers : i <= j
       /\ state' = wake_up_process(state, wait[i])

wake_all ==
  state' = [t \in Tasks |-> IF \E i \in Sleepers : wait[i] = t
                            THEN TASK_RUNNING ELSE state[t]]

complete ==
  /\ lock = NULL /\ posted + 1 <= MaxPosted
  /\ done' = (done + 1) % Width
  /\ wake_one
  /\ posted' = posted + 1
  /\ UNCHANGED <<lock, wait, mode, expired, sig, pc, taken>>

complete_all ==
  /\ lock = NULL /\ posted + UINT_MAX \div 2 <= MaxPosted
  /\ done' = (done + UINT_MAX \div 2) % Width
  /\ wake_all
  /\ posted' = posted + UINT_MAX \div 2
  /\ UNCHANGED <<lock, wait, mode, expired, sig, pc, taken>>

(* INIT_COMPLETION(), "so it can be reused": when nobody waits any more. *)
INIT_COMPLETION ==
  /\ list_empty(wait) /\ posted # 0
  /\ done' = 0
  /\ posted' = 0 /\ taken' = 0
  /\ UNCHANGED <<lock, wait, taskVars>>

-----------------------------------------------------------------------------
(* The rest of the kernel, which takes no x->wait.lock. *)

signal(t, s) ==
  /\ sig[t] # s /\ sig[t] # "fatal"
  /\ sig' = [sig EXCEPT ![t] = s]
  /\ state' = signal_wake_up(state, t, s)
  /\ UNCHANGED <<done, lock, wait, mode, expired, pc, posted, taken>>

(* On its way back to user mode the task handles its signal. *)
signal_handled(t) ==
  /\ pc[t] = "idle" /\ sig[t] # "none"
  /\ sig' = [sig EXCEPT ![t] = "none"]
  /\ UNCHANGED <<done, lock, wait, mode, expired, state, pc, posted, taken>>

(* The timer of schedule_timeout() fires. *)
process_timeout(t) ==
  /\ pc[t] = "schedule" /\ mode[t].timed /\ ~expired[t]
  /\ expired' = [expired EXCEPT ![t] = TRUE]
  /\ state' = wake_up_process(state, t)
  /\ UNCHANGED <<done, lock, wait, mode, sig, pc, posted, taken>>

(* A wake-up meant for something else. *)
spurious_wakeup(t) ==
  /\ Asleep(t)
  /\ state' = wake_up_process(state, t)
  /\ UNCHANGED <<done, lock, wait, mode, expired, sig, pc, posted, taken>>

-----------------------------------------------------------------------------
Next ==
  \/ complete \/ complete_all \/ INIT_COMPLETION
  \/ \E t \in Tasks :
       \/ \E m \in Modes : wait_for_common(t, m)
       \/ take_done(t)
       \/ check(t) \/ set_state(t) \/ schedule_signal(t) \/ relock(t) \/ leave(t)
       \/ \E s \in Kinds : signal(t, s)
       \/ signal_handled(t) \/ process_timeout(t) \/ spurious_wakeup(t)

Spec == Init /\ [][Next]_vars

(* Runnable tasks run, timers fire, and a task that spins on the lock gets *)
(* it.  Nobody has to post an event.                                       *)
Fairness ==
  \A t \in Tasks :
    /\ WF_vars(check(t)) /\ WF_vars(set_state(t)) /\ WF_vars(schedule_signal(t))
    /\ SF_vars(relock(t) \/ leave(t)) /\ SF_vars(process_timeout(t))

FairSpec == Spec /\ Fairness

-----------------------------------------------------------------------------
TypeOK ==
  /\ done \in 0 .. UINT_MAX
  /\ lock \in Tasks \cup {NULL}
  /\ wait \in Seq(Tasks)
  /\ mode \in [Tasks -> Modes \cup {NoWait}]
  /\ expired \in [Tasks -> BOOLEAN]
  /\ state \in [Tasks -> TaskStates]
  /\ sig \in [Tasks -> Signals]
  /\ pc \in [Tasks -> PCs]
  /\ posted \in Nat /\ taken \in Nat

(* Every event is taken by exactly the wait that reports it: no wait that  *)
(* returns a timeout or -ERESTARTSYS takes one with it, whatever came      *)
(* first.  As long as fewer events are posted than the counter can hold;   *)
(* two complete_all() and two complete() are enough to bring it back to 0. *)
EventsConserved == posted < Width => done = posted - taken

(* No event is left lying while those who wait for it sleep: a wake-up     *)
(* that met a task which was awake already, or went to one whose timeout   *)
(* had expired or whose event somebody else took, is not missing.          *)
NoneStranded == Cardinality(Awake) >= done \/ Awake = Entries(wait)

(* A wait with a timeout, or an interruptible one with a signal to see,    *)
(* comes to an end if nothing is ever posted.                              *)
TimedWaitEnds ==
  \A t \in Tasks :
    (pc[t] \in Waiting /\ (mode[t].timed \/ signal_pending_state(mode[t].state, sig[t])))
      ~> pc[t] = "idle"

(* A task that waits while an event is there returns, unless others have   *)
(* taken all the events by then.                                           *)
EventDelivered ==
  \A t \in Tasks : pc[t] \in Waiting /\ done > 0 ~> pc[t] = "idle" \/ done = 0

-----------------------------------------------------------------------------
(* The inductive invariant.  The queue holds exactly those who wait. *)
QueueInv ==
  /\ IsList(wait)
  /\ Entries(wait) = {t \in Tasks : pc[t] \in Waiting}

(* x->wait.lock is held exactly inside the loop, and only with no event    *)
(* there: whoever goes to sleep has seen none.                             *)
LockInv ==
  /\ \A t \in Tasks : pc[t] \in Locked <=> lock = t
  /\ lock # NULL => done = 0

(* Only a task in schedule() is not TASK_RUNNING. *)
StateInv == \A t \in Tasks : state[t] # TASK_RUNNING => pc[t] = "schedule"

IInv == TypeOK /\ QueueInv /\ LockInv /\ StateInv /\ EventsConserved /\ NoneStranded

=============================================================================
