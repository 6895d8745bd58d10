------------------------------ MODULE CpuStop ------------------------------
(***************************************************************************)
(* The stopper threads and stop_machine(): kernel/stop_machine.c.          *)
(*                                                                         *)
(* Every CPU has a stopper: a thread above all others that runs the works  *)
(* on its list.  A caller queues a work to one stopper, or one to each,    *)
(* and waits for all of them to be done.  stop_machine() has all stoppers  *)
(* go through the same states together and runs a function meanwhile.      *)
(* What is done under stopper->lock is one step.  wait_for_completion()    *)
(* and the mutexes are taken as what the modules Completion and Mutex show *)
(* them to be.  CpuHotplug adds the callers and CPU hotplug.               *)
(***************************************************************************)
EXTENDS Naturals, FiniteSets, Sequences, LinuxList, TaskSched

CONSTANTS CPUs, Tasks, NULL

ASSUME CpuStopAssumption ==
  /\ CPUs \subseteq Nat /\ IsFiniteSet(CPUs) /\ IsFiniteSet(Tasks)
  /\ NULL \notin Tasks \cup CPUs

VARIABLES
  online,           \* cpu_online_mask
  stopper,          \* per_cpu(cpu_stopper), with its thread
  stop_cpus_mutex,  \* its holder
  to_queue,         \* CPUs that __stop_cpus() has not queued a work to yet
  call,             \* what each task does
  done,             \* its struct cpu_stop_done
  smdata            \* its struct stop_machine_data

stopVars == <<online, stopper, stop_cpus_mutex, to_queue, call, done, smdata>>

(* enum stopmachine_state *)
STOPMACHINE_NONE        == 0
STOPMACHINE_PREPARE     == 1
STOPMACHINE_DISABLE_IRQ == 2
STOPMACHINE_RUN         == 3
STOPMACHINE_EXIT        == 4

(***************************************************************************)
(* The stopper thread is "created" and not yet woken, goes through "set",  *)
(* "check", "take" and "schedule", runs a plain function or is done with   *)
(* any ("fn"), is in stop_machine_cpu_stop() ("spin", "ack") or has        *)
(* "exited".  A work is a pair of what to do and the task that waits.      *)
(***************************************************************************)
NoWork == <<"none", NULL>>

Works == {"one", "machine"} \X Tasks

NoStopper == [enabled |-> FALSE, works |-> EmptyList, pc |-> "exited",
              state |-> TASK_RUNNING, should_stop |-> FALSE,
              work |-> NoWork, curstate |-> STOPMACHINE_NONE]

Asleep == [NoStopper EXCEPT !.enabled = TRUE, !.pc = "schedule",
                            !.state = TASK_INTERRUPTIBLE]

Idle == [pc |-> "idle", op |-> "none", cpu |-> NULL, err |-> FALSE]

NoData == [state |-> STOPMACHINE_NONE, thread_ack |-> 0, num_threads |-> 0, ran |-> 0]

cpu_stop_init_done(n) == [nr_todo |-> n, executed |-> FALSE, completed |-> FALSE]

goto(t, l) == call' = [call EXCEPT ![t].pc = l]

StopInit ==
  /\ online = CPUs
  /\ stopper = [c \in CPUs |-> Asleep]
  /\ stop_cpus_mutex = NULL /\ to_queue = {}
  /\ call = [t \in Tasks |-> Idle]
  /\ done = [t \in Tasks |-> cpu_stop_init_done(0)]
  /\ smdata = [t \in Tasks |-> NoData]

(* The function of t's stop_machine() is to run there: on the first online *)
(* CPU if active_cpus is NULL, or on the one that goes down, the mask that *)
(* _cpu_down() gives.  Nobody in the tree gives a mask of several CPUs.    *)
is_active(c, t) ==
  IF call[t].op = "down" THEN c = call[t].cpu
  ELSE c \in online /\ \A d \in online : c <= d

IrqsOff(c) ==
  stopper[c].pc \in {"spin", "ack"} /\ stopper[c].curstate >= STOPMACHINE_DISABLE_IRQ

-----------------------------------------------------------------------------
(* Mutated forms of the definitions below, one plausible slip each. *)

(* A thread is left out of the count. *)
MutSetState(d, newstate) ==
  [d EXCEPT !.thread_ack = d.num_threads - 1, !.state = newstate]

(* The thread's state is set before it sleeps, not before it looks whether *)
(* it should stop.                                                         *)
MutTakeWork(c) ==
  LET works == stopper[c].works
      w == list_first_entry(works)
  IN  /\ stopper[c].pc = "take"
      /\ stopper' = [stopper EXCEPT ![c] =
           IF list_empty(works)
           THEN [@ EXCEPT !.pc = "schedule", !.state = TASK_INTERRUPTIBLE]
           ELSE [@ EXCEPT !.pc = IF w[1] = "one" THEN "fn" ELSE "spin",
                          !.works = Tail(works), !.work = w,
                          !.state = TASK_RUNNING]]
      /\ UNCHANGED <<online, stop_cpus_mutex, to_queue, call, done, smdata>>

-----------------------------------------------------------------------------
cpu_stop_signal_done(d, executed) ==
  [nr_todo |-> d.nr_todo - 1, executed |-> d.executed \/ executed,
   completed |-> d.nr_todo = 1]

(* The work w of task t, whose struct done is d, goes to the stopper of c. *)
cpu_stop_queue_work(c, w, t, d) ==
  IF stopper[c].enabled
  THEN /\ stopper' = [stopper EXCEPT ![c].works = list_add_tail(@, w),
                                     ![c].state = TASK_RUNNING]
       /\ done' = [done EXCEPT ![t] = d]
  ELSE /\ done' = [done EXCEPT ![t] = cpu_stop_signal_done(d, FALSE)]
       /\ UNCHANGED stopper

stop_one_cpu(t, c) ==
  /\ call[t].pc = "idle"
  /\ cpu_stop_queue_work(c, <<"one", t>>, t, cpu_stop_init_done(1))
  /\ goto(t, "one_wait")
  /\ UNCHANGED <<online, stop_cpus_mutex, to_queue, smdata>>

one_return(t) ==
  /\ call[t].pc = "one_wait" /\ done[t].completed
  /\ goto(t, "idle")
  /\ done' = [done EXCEPT ![t] = cpu_stop_init_done(0)]
  /\ UNCHANGED <<online, stopper, stop_cpus_mutex, to_queue, smdata>>

(* Reset the counter of acknowledgements, then let everybody see newstate. *)
(* One step: whoever would touch the counter waits for newstate first.     *)
set_state(d, newstate) ==
  [d EXCEPT !.thread_ack = d.num_threads, !.state = newstate]

(* __stop_machine() up to the mutex of stop_cpus(). *)
__stop_machine(t) ==
  smdata' = [smdata EXCEPT ![t] =
               set_state([NoData EXCEPT !.num_threads = Cardinality(online)],
                         STOPMACHINE_PREPARE)]

(* The works and the struct done are set up, and are used one request at a *)
(* time.                                                                   *)
__stop_cpus(t) ==
  /\ stop_cpus_mutex' = t
  /\ to_queue' = online
  /\ done' = [done EXCEPT ![t] = cpu_stop_init_done(Cardinality(online))]
  /\ goto(t, "queue")
  /\ UNCHANGED <<online, stopper, smdata>>

(* stop_cpus(), with the mutex, up to the loop of __stop_cpus(). *)
stop_cpus(t) ==
  /\ call[t].pc = "stop_cpus" /\ stop_cpus_mutex = NULL
  /\ __stop_cpus(t)

(* try_stop_cpus(), which a task that keeps the CPUs online calls with a   *)
(* function of its own; -EAGAIN if somebody has the mutex.                 *)
try_stop_cpus(t) ==
  /\ call[t].pc = "reading" /\ stop_cpus_mutex = NULL
  /\ __stop_cpus(t)

(* One turn of the loop in __stop_cpus(). *)
queue(t) ==
  /\ call[t].pc = "queue"
  /\ \E c \in to_queue :
       /\ cpu_stop_queue_work(c, <<IF call[t].op = "read" THEN "one" ELSE "machine", t>>,
                              t, done[t])
       /\ to_queue' = to_queue \ {c}
       /\ goto(t, IF to_queue = {c} THEN "stop_wait" ELSE "queue")
  /\ UNCHANGED <<online, stop_cpus_mutex, smdata>>

(* The end of stop_cpus() and of the caller's structs, and where the       *)
(* caller goes on.                                                         *)
stop_return(t, l) ==
  /\ call[t].pc = "stop_wait" /\ done[t].completed
  /\ stop_cpus_mutex' = NULL
  /\ goto(t, l)
  /\ done' = [done EXCEPT ![t] = cpu_stop_init_done(0)]
  /\ smdata' = [smdata EXCEPT ![t] = NoData]
  /\ UNCHANGED <<online, stopper, to_queue>>

-----------------------------------------------------------------------------
(* kthread(): the thread waits to be woken, by whoever starts or stops it. *)
thread_starts(c) ==
  /\ stopper[c].pc = "created" /\ stopper[c].state = TASK_RUNNING
  /\ stopper' = [stopper EXCEPT ![c].pc = IF stopper[c].should_stop THEN "exited"
                                          ELSE "set"]
  /\ UNCHANGED <<online, stop_cpus_mutex, to_queue, call, done, smdata>>

(* cpu_stopper_thread() *)
set_current_state(c) ==
  /\ stopper[c].pc = "set"
  /\ stopper' = [stopper EXCEPT ![c].pc = "check", ![c].state = TASK_INTERRUPTIBLE]
  /\ UNCHANGED <<online, stop_cpus_mutex, to_queue, call, done, smdata>>

kthread_should_stop(c) ==
  /\ stopper[c].pc = "check"
  /\ stopper' = [stopper EXCEPT ![c].pc = IF stopper[c].should_stop THEN "exited"
                                          ELSE "take"]
  /\ UNCHANGED <<online, stop_cpus_mutex, to_queue, call, done, smdata>>

take_work(c) ==
  LET works == stopper[c].works
      w == list_first_entry(works)
  IN  /\ stopper[c].pc = "take"
      /\ stopper' = [stopper EXCEPT ![c] =
           IF list_empty(works) THEN [@ EXCEPT !.pc = "schedule"]
           ELSE [@ EXCEPT !.pc = IF w[1] = "one" THEN "fn" ELSE "spin",
                          !.works = Tail(works), !.work = w,
                          !.state = TASK_RUNNING]]
      /\ UNCHANGED <<online, stop_cpus_mutex, to_queue, call, done, smdata>>

schedule(c) ==
  /\ stopper[c].pc = "schedule" /\ stopper[c].state = TASK_RUNNING
  /\ stopper' = [stopper EXCEPT ![c].pc = "set"]
  /\ UNCHANGED <<online, stop_cpus_mutex, to_queue, call, done, smdata>>

(* The function has returned. *)
signal_done(c) ==
  LET t == stopper[c].work[2]
  IN  /\ stopper[c].pc = "fn"
      /\ done' = [done EXCEPT ![t] = cpu_stop_signal_done(@, TRUE)]
      /\ stopper' = [stopper EXCEPT ![c].pc = "set", ![c].work = NoWork]
      /\ UNCHANGED <<online, stop_cpus_mutex, to_queue, call, smdata>>

(* What fn does in STOPMACHINE_RUN: take_cpu_down() takes the CPU off the  *)
(* mask unless __cpu_disable() fails; other functions do nothing here.     *)
run_fn(t) ==
  /\ smdata' = [smdata EXCEPT ![t].ran = @ + 1]
  /\ \/ call[t].op # "down" /\ UNCHANGED <<online, call>>
     \/ call[t].op = "down" /\ online' = online \ {call[t].cpu} /\ UNCHANGED call
     \/ call[t].op = "down" /\ call' = [call EXCEPT ![t].err = TRUE] /\ UNCHANGED online

(* stop_machine_cpu_stop(): the next state is seen, and acted upon ... *)
see_state(c) ==
  LET t == stopper[c].work[2]
  IN  /\ stopper[c].pc = "spin" /\ smdata[t].state # stopper[c].curstate
      /\ stopper' = [stopper EXCEPT ![c].pc = "ack", ![c].curstate = smdata[t].state]
      /\ IF smdata[t].state = STOPMACHINE_RUN /\ is_active(c, t) THEN run_fn(t)
         ELSE UNCHANGED <<online, call, smdata>>
      /\ UNCHANGED <<stop_cpus_mutex, to_queue, done>>

(* ... and acknowledged; the last one moves on.  After STOPMACHINE_EXIT    *)
(* interrupts are enabled and the function returns.                        *)
ack_state(c) ==
  LET t == stopper[c].work[2]
      d == smdata[t]
      exit == stopper[c].curstate = STOPMACHINE_EXIT
  IN  /\ stopper[c].pc = "ack"
      /\ smdata' = [smdata EXCEPT ![t] = IF d.thread_ack = 1 THEN set_state(d, d.state + 1)
                                         ELSE [d EXCEPT !.thread_ack = d.thread_ack - 1]]
      /\ stopper' = [stopper EXCEPT ![c].pc = IF exit THEN "fn" ELSE "spin",
                                    ![c].curstate = IF exit THEN STOPMACHINE_NONE ELSE @]
      /\ UNCHANGED <<online, stop_cpus_mutex, to_queue, call, done>>

cpu_stopper_thread(c) ==
  thread_starts(c) \/ set_current_state(c) \/ kthread_should_stop(c) \/ take_work(c)
    \/ schedule(c) \/ signal_done(c) \/ see_state(c) \/ ack_state(c)

=============================================================================
