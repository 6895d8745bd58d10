----------------------------- MODULE CpuHotplug -----------------------------
(***************************************************************************)
(* CPUs that go offline and come back while others stop them, stop the     *)
(* machine or rely on the online mask: kernel/cpu.c, the notifier of       *)
(* kernel/stop_machine.c and kthread_stop() of kernel/kthread.c, on top of *)
(* CpuStop.                                                                *)
(*                                                                         *)
(* A stopper thread goes on after its CPU is offline, on another CPU, and  *)
(* so do the works that are queued to it, until CPU_POST_DEAD stops it.    *)
(* Tasks are not bound to CPUs here.                                       *)
(***************************************************************************)
EXTENDS CpuStop

CONSTANT HotCPUs   \* bound: the CPUs that go down and come up

ASSUME CpuHotplugAssumption == HotCPUs \subseteq CPUs

VARIABLES
  cpu_add_remove_lock,  \* its holder
  active_writer,        \* the members of cpu_hotplug: the writer,
  lock,                 \* the holder of the mutex between two steps
  refcount,             \* and the readers
  wstate                \* task->state of the writer

hotplugVars == <<cpu_add_remove_lock, active_writer, lock, refcount, wstate>>
vars == <<stopVars, hotplugVars>>

(***************************************************************************)
(* Where tasks are, beyond CpuStop: "reading" (between get_online_cpus()   *)
(* and put_online_cpus()), "put" (a stop_machine() before the latter);     *)
(* cpu_down() and cpu_up() are at "begin" or "begin_sleep" (in             *)
(* cpu_hotplug_begin()), "writer" (it has the lock), "arch" (before        *)
(* __cpu_up()), "online" (before CPU_ONLINE), "dying" (the CPU is off the  *)
(* mask), "release" (before cpu_hotplug_done()), "kill" and "kill_wait"    *)
(* (the stopper thread is stopped), or have run into a "BUG".              *)
(***************************************************************************)
Stopping == {"one_wait", "stop_cpus", "queue", "stop_wait"}
Reading  == Stopping \cup {"reading", "put"}
Starting == {"begin", "begin_sleep"}
Updating == {"writer", "arch", "online", "dying", "release", "kill", "kill_wait"}

Init ==
  /\ StopInit
  /\ cpu_add_remove_lock = NULL /\ active_writer = NULL /\ lock = NULL
  /\ refcount = 0 /\ wstate = TASK_RUNNING

(* t is between get_online_cpus() and put_online_cpus(). *)
IsReader(t) == call[t].op \in {"read", "machine"} /\ call[t].pc \in Reading

-----------------------------------------------------------------------------
(* Mutated form of a definition below: the writer does not look at the     *)
(* readers.                                                                *)
MutBegin(t) ==
  /\ call[t].pc = "begin" /\ lock = NULL
  /\ lock' = t /\ goto(t, "writer")
  /\ UNCHANGED <<online, stopper, stop_cpus_mutex, to_queue, done, smdata,
                 cpu_add_remove_lock, active_writer, refcount, wstate>>

-----------------------------------------------------------------------------
(* get_online_cpus(), of a reader or of stop_machine().  For the writer    *)
(* itself, which does not call it here, it and put_online_cpus() would do  *)
(* nothing.                                                                *)
get_online_cpus ==
  /\ lock = NULL
  /\ refcount' = refcount + 1
  /\ UNCHANGED <<cpu_add_remove_lock, active_writer, lock, wstate>>

read(t) ==
  /\ call[t].pc = "idle" /\ get_online_cpus
  /\ call' = [call EXCEPT ![t] = [Idle EXCEPT !.pc = "reading", !.op = "read"]]
  /\ UNCHANGED <<online, stopper, stop_cpus_mutex, to_queue, done, smdata>>

stop_machine(t) ==
  /\ call[t].pc = "idle" /\ get_online_cpus
  /\ __stop_machine(t)
  /\ call' = [call EXCEPT ![t] = [Idle EXCEPT !.pc = "stop_cpus", !.op = "machine"]]
  /\ UNCHANGED <<online, stopper, stop_cpus_mutex, to_queue, done>>

(* The last reader wakes the writer. *)
put_online_cpus(t) ==
  /\ call[t].pc \in {"reading", "put"} /\ lock = NULL
  /\ refcount' = refcount - 1
  /\ wstate' = IF refcount = 1 /\ active_writer # NULL THEN TASK_RUNNING ELSE wstate
  /\ call' = [call EXCEPT ![t] = Idle]
  /\ UNCHANGED <<online, stopper, stop_cpus_mutex, to_queue, done, smdata,
                 cpu_add_remove_lock, active_writer, lock>>

-----------------------------------------------------------------------------
(* cpu_down() and cpu_up() take cpu_add_remove_lock, and return at once if *)
(* the CPU is the last one, or in that state already.                      *)
cpu_maps_update_begin(t, c, op) ==
  /\ call[t].pc = "idle" /\ cpu_add_remove_lock = NULL
  /\ \/ op = "down" /\ c \in online /\ online # {c}
     \/ op = "up" /\ c \notin online
  /\ call' = [call EXCEPT ![t] = [Idle EXCEPT !.pc = "begin", !.op = op, !.cpu = c]]
  /\ cpu_add_remove_lock' = t /\ active_writer' = t
  /\ UNCHANGED <<online, stopper, stop_cpus_mutex, to_queue, done, smdata, lock,
                 refcount, wstate>>

(* cpu_hotplug_begin(): the lock is kept if there are no readers; else the *)
(* writer goes to sleep without it.                                        *)
cpu_hotplug_begin(t) ==
  /\ call[t].pc = "begin" /\ lock = NULL
  /\ \/ refcount = 0 /\ lock' = t /\ goto(t, "writer") /\ UNCHANGED wstate
     \/ /\ refcount # 0 /\ UNCHANGED lock
        /\ wstate' = TASK_UNINTERRUPTIBLE /\ goto(t, "begin_sleep")
  /\ UNCHANGED <<online, stopper, stop_cpus_mutex, to_queue, done, smdata,
                 cpu_add_remove_lock, active_writer, refcount>>

begin_woken(t) ==
  /\ call[t].pc = "begin_sleep" /\ wstate = TASK_RUNNING
  /\ goto(t, "begin")
  /\ UNCHANGED <<online, stopper, stop_cpus_mutex, to_queue, done, smdata, hotplugVars>>

(* cpu_hotplug_done(), and cpu_maps_update_done() unless a CPU is dead:    *)
(* then the stopper is stopped first, CPU_POST_DEAD.                       *)
cpu_hotplug_done(t) ==
  /\ call[t].pc = "release"
  /\ active_writer' = NULL /\ lock' = NULL
  /\ IF call[t].op = "down" /\ ~call[t].err
     THEN goto(t, "kill") /\ UNCHANGED cpu_add_remove_lock
     ELSE call' = [call EXCEPT ![t] = Idle] /\ cpu_add_remove_lock' = NULL
  /\ UNCHANGED <<online, stopper, stop_cpus_mutex, to_queue, done, smdata, refcount, wstate>>

-----------------------------------------------------------------------------
(* _cpu_down(): a notifier may refuse; else the machine is stopped. *)
down_prepare(t) ==
  /\ call[t].pc = "writer" /\ call[t].op = "down"
  /\ \/ /\ call' = [call EXCEPT ![t].pc = "release", ![t].err = TRUE]
        /\ UNCHANGED smdata
     \/ __stop_machine(t) /\ goto(t, "stop_cpus")
  /\ UNCHANGED <<online, stopper, stop_cpus_mutex, to_queue, done, hotplugVars>>

(* The stop thread has gone away from the CPU, which dies. *)
cpu_die(t) ==
  /\ call[t].pc = "dying" /\ stopper[call[t].cpu].pc = "schedule"
  /\ goto(t, "release")
  /\ UNCHANGED <<online, stopper, stop_cpus_mutex, to_queue, done, smdata, hotplugVars>>

(* _cpu_up(): CPU_UP_PREPARE of the stopper, which may fail, as may the    *)
(* other notifiers before and after it.                                    *)
up_prepare(t) ==
  LET c == call[t].cpu
      s == stopper[c]
      ok == s.pc = "exited" /\ ~s.enabled /\ list_empty(s.works)
      created == [NoStopper EXCEPT !.pc = "created", !.state = TASK_UNINTERRUPTIBLE]
  IN  /\ call[t].pc = "writer" /\ call[t].op = "up"
      /\ \/ goto(t, "release") /\ UNCHANGED stopper
         \/ ~ok /\ goto(t, "BUG") /\ UNCHANGED stopper
         \/ /\ ok /\ stopper' = [stopper EXCEPT ![c] = created]
            /\ goto(t, "arch")
         \/ /\ ok /\ stopper' = [stopper EXCEPT ![c] = created]
            /\ goto(t, "kill")
      /\ UNCHANGED <<online, stop_cpus_mutex, to_queue, done, smdata, hotplugVars>>

(* __cpu_up(); CPU_UP_CANCELED if it fails. *)
__cpu_up(t) ==
  /\ call[t].pc = "arch"
  /\ \/ online' = online \cup {call[t].cpu} /\ goto(t, "online")
     \/ UNCHANGED online /\ goto(t, "kill")
  /\ UNCHANGED <<stopper, stop_cpus_mutex, to_queue, done, smdata, hotplugVars>>

(* CPU_ONLINE of the stopper. *)
cpu_online(t) ==
  /\ call[t].pc = "online"
  /\ stopper' = [stopper EXCEPT ![call[t].cpu].state = TASK_RUNNING,
                                ![call[t].cpu].enabled = TRUE]
  /\ goto(t, "release")
  /\ UNCHANGED <<online, stop_cpus_mutex, to_queue, done, smdata, hotplugVars>>

(* CPU_UP_CANCELED and CPU_POST_DEAD of the stopper: kthread_stop() ... *)
kthread_stop(t) ==
  /\ call[t].pc = "kill"
  /\ stopper' = [stopper EXCEPT ![call[t].cpu].should_stop = TRUE,
                                ![call[t].cpu].state = TASK_RUNNING]
  /\ goto(t, "kill_wait")
  /\ UNCHANGED <<online, stop_cpus_mutex, to_queue, done, smdata, hotplugVars>>

(* ... and the works it has left are signalled, and stay on the list. *)
drain(c) ==
  /\ stopper' = [stopper EXCEPT ![c].enabled = FALSE]
  /\ done' = [t \in Tasks |-> IF \E w \in Entries(stopper[c].works) : w[2] = t
                              THEN cpu_stop_signal_done(done[t], FALSE) ELSE done[t]]

stopper_exited(t) ==
  /\ call[t].pc = "kill_wait" /\ stopper[call[t].cpu].pc = "exited"
  /\ drain(call[t].cpu)
  /\ IF call[t].op = "down"
     THEN call' = [call EXCEPT ![t] = Idle] /\ cpu_add_remove_lock' = NULL
     ELSE goto(t, "release") /\ UNCHANGED cpu_add_remove_lock
  /\ UNCHANGED <<online, stop_cpus_mutex, to_queue, smdata, active_writer, lock,
                 refcount, wstate>>

-----------------------------------------------------------------------------
(* stop_cpus() returns to stop_machine() or whoever, or to _cpu_down(). *)
stop_cpus_return(t) ==
  stop_return(t, CASE call[t].op \in {"read", "machine"}     -> "put"
                   [] call[t].op = "down" /\ call[t].err  -> "release"
                   [] call[t].op = "down" /\ ~call[t].err -> "dying")

StopCall(t) == one_return(t) \/ queue(t) \/ stop_cpus_return(t)

Proceed(t) ==
  \/ put_online_cpus(t)
  \/ cpu_hotplug_begin(t) \/ begin_woken(t) \/ cpu_hotplug_done(t)
  \/ down_prepare(t) \/ cpu_die(t) \/ up_prepare(t) \/ __cpu_up(t) \/ cpu_online(t)
  \/ kthread_stop(t) \/ stopper_exited(t)

Next ==
  \/ \E t \in Tasks :
       \/ (StopCall(t) \/ stop_cpus(t) \/ try_stop_cpus(t)) /\ UNCHANGED hotplugVars
       \/ Proceed(t) \/ read(t) \/ stop_machine(t)
       \/ \E c \in CPUs : stop_one_cpu(t, c) /\ UNCHANGED hotplugVars
       \/ \E c \in HotCPUs, op \in {"down", "up"} : cpu_maps_update_begin(t, c, op)
  \/ \E c \in CPUs : cpu_stopper_thread(c) /\ UNCHANGED hotplugVars

Spec == Init /\ [][Next]_vars

(* Tasks and stoppers run.  Whoever waits for stop_cpus_mutex gets it if   *)
(* it stays free; mutex_lock() does not promise more, and a waiter may be  *)
(* overtaken for ever.                                                     *)
Fairness ==
  /\ \A t \in Tasks :
       /\ WF_vars(StopCall(t) /\ UNCHANGED hotplugVars)
       /\ WF_vars(Proceed(t))
       /\ WF_vars(stop_cpus(t) /\ UNCHANGED hotplugVars)
  /\ \A c \in CPUs : WF_vars(cpu_stopper_thread(c) /\ UNCHANGED hotplugVars)

FairSpec == Spec /\ Fairness

-----------------------------------------------------------------------------
Stoppers == [enabled : BOOLEAN, works : Seq(Works),
             pc : {"created", "set", "check", "take", "schedule", "fn", "spin", "ack",
                   "exited"},
             state : TaskStates, should_stop : BOOLEAN, work : Works \cup {NoWork},
             curstate : STOPMACHINE_NONE .. STOPMACHINE_EXIT]

Calls == [pc : {"idle", "BUG"} \cup Reading \cup Starting \cup Updating,
          op : {"none", "read", "machine", "down", "up"},
          cpu : CPUs \cup {NULL}, err : BOOLEAN]

Dones == [nr_todo : Nat, executed : BOOLEAN, completed : BOOLEAN]

Datas == [state : Nat, thread_ack : Nat, num_threads : Nat, ran : Nat]

TypeOK ==
  /\ online \subseteq CPUs /\ to_queue \subseteq CPUs
  /\ stopper \in [CPUs -> Stoppers]
  /\ stop_cpus_mutex \in Tasks \cup {NULL}
  /\ call \in [Tasks -> Calls]
  /\ done \in [Tasks -> Dones]
  /\ smdata \in [Tasks -> Datas]
  /\ cpu_add_remove_lock \in Tasks \cup {NULL} /\ active_writer \in Tasks \cup {NULL}
  /\ lock \in Tasks \cup {NULL} /\ refcount \in Nat /\ wstate \in TaskStates

(* Where stop_machine() has its function run, every online CPU is in its   *)
(* stopper with interrupts off; and by the time the call returns, one CPU  *)
(* has run it, once.                                                       *)
LockStep ==
  /\ \A c \in CPUs :
       /\ stopper[c].pc = "ack" /\ stopper[c].curstate = STOPMACHINE_RUN
       /\ is_active(c, stopper[c].work[2])
       => \A d \in online \cup {c} : IrqsOff(d)
  /\ \A t \in Tasks :
       call[t].op # "read" /\ call[t].pc = "stop_wait" /\ done[t].completed
         => smdata[t].ran = 1

(* No CPU comes or goes while somebody is between get_online_cpus() and    *)
(* put_online_cpus(), although only the writer that waits for them looks   *)
(* at the count.                                                           *)
OnlineStable == [][online' # online => \A t \in Tasks : ~IsReader(t)]_vars

(* Where t waits for stop_cpus_mutex and the mutex is free again and       *)
(* again, it is not always somebody else who gets it.                      *)
NotOvertaken(t) ==
  []<>(call[t].pc = "stop_cpus" /\ stop_cpus_mutex = NULL)
    => []<>(call[t].pc # "stop_cpus")

(* Whoever has a CPU stopped or the machine gets his answer, although the  *)
(* CPU goes away under the work: stop_one_cpu() always returns, and        *)
(* stop_cpus(), within stop_machine() or not, unless its caller is         *)
(* overtaken for ever at the mutex.  A writer gets to the end without that *)
(* proviso, for it shuts out all others; before it has the lock, readers   *)
(* can keep it waiting, and later those who go on having the CPU stopped,  *)
(* so that it does not become idle.  It does not get there either if it    *)
(* meets the BUG_ON() of CPU_UP_PREPARE: see UpPrepareFresh.               *)
StopReturns ==
  \A t \in Tasks :
    /\ call[t].pc = "one_wait" ~> call[t].pc = "idle"
    /\ NotOvertaken(t) =>
         (IsReader(t) /\ call[t].pc \in Stopping ~> call[t].pc = "put")
    /\ call[t].op \in {"down", "up"} /\ call[t].pc \in Stopping \cup Updating
         ~> \/ call[t].pc \in {"idle", "BUG"}
            \/ \E u \in Tasks : call[u].pc = "one_wait"
    /\ call[t].pc \in Starting
         ~> call[t].pc \notin Starting \/ refcount # 0

(* What the BUG_ON() of CPU_UP_PREPARE asserts (stop_machine.c:302): a CPU *)
(* that comes up has no stopper thread, its stopper is not enabled and     *)
(* nothing is left on its list.                                            *)
UpPrepareFresh ==
  \A t \in Tasks : call[t].op = "up" /\ call[t].pc = "writer" =>
    LET s == stopper[call[t].cpu]
    IN  s.pc = "exited" /\ ~s.enabled /\ list_empty(s.works)

-----------------------------------------------------------------------------
(***************************************************************************)
(* The inductive invariant behind LockStep and OnlineStable.  Where a task *)
(* can be in each of the calls: a reader is whoever called                 *)
(* get_online_cpus().                                                      *)
(***************************************************************************)
CallOK(t) ==
  /\ call[t].op = "none" => call[t].pc \in {"idle", "one_wait"}
  /\ call[t].op = "read" => call[t].pc \in {"reading", "queue", "stop_wait", "put"}
  /\ call[t].op = "machine" => call[t].pc \in {"stop_cpus", "queue", "stop_wait", "put"}
  /\ call[t].op = "down" =>
       call[t].pc \in Starting \cup {"writer", "stop_cpus", "queue", "stop_wait",
                                     "dying", "release", "kill", "kill_wait"}
  /\ call[t].op = "up" =>
       call[t].pc \in Starting \cup {"writer", "arch", "online", "release", "kill",
                                     "kill_wait", "BUG"}
  /\ call[t].op \in {"down", "up"} => call[t].cpu \in CPUs

IsWriter(t) ==
  \/ call[t].op = "down" /\ call[t].pc \notin Starting \cup {"kill", "kill_wait"}
  \/ call[t].op = "up" /\ call[t].pc \notin Starting

InStopCpus(t) == call[t].pc \in {"queue", "stop_wait"}

(* Who holds what; and the lock is kept only over a count of 0. *)
LocksInv ==
  /\ \A t \in Tasks :
       /\ cpu_add_remove_lock = t <=> call[t].op \in {"down", "up"}
       /\ lock = t <=> IsWriter(t)
       /\ stop_cpus_mutex = t <=> InStopCpus(t)
       /\ call[t].pc = "stop_wait" => to_queue = {}
  /\ refcount = Cardinality({t \in Tasks : IsReader(t)})
  /\ lock # NULL => refcount = 0

(* A stopper that is not enabled does not run, nor will it take a work. *)
StopperOK(c) ==
  /\ stopper[c].work = NoWork <=> stopper[c].pc \notin {"fn", "spin", "ack"}
  /\ stopper[c].pc \in {"spin", "ack"} => stopper[c].work[1] = "machine"
  /\ stopper[c].pc \notin {"spin", "ack"} => stopper[c].curstate = STOPMACHINE_NONE
  /\ ~stopper[c].enabled =>
       \/ stopper[c].pc = "exited"
       \/ /\ stopper[c].pc = "created"
          /\ stopper[c].should_stop \/ stopper[c].state # TASK_RUNNING

(* The task of a work of kind k waits for it. *)
Waits(t, k) ==
  /\ call[t].pc \in {"one_wait", "queue", "stop_wait"}
  /\ k = "machine" <=> call[t].op \in {"machine", "down"}

Running(c, t) == stopper[c].work[2] = t

Listed(c, t) ==
  stopper[c].enabled /\ \E i \in DOMAIN stopper[c].works : stopper[c].works[i][2] = t

(* The CPUs that t still waits for. *)
Todo(t) == {c \in CPUs : \/ stop_cpus_mutex = t /\ c \in to_queue
                         \/ Running(c, t) \/ Listed(c, t)}

(* A stopper has one work of each task at most, and the task waits for it. *)
WorksOK(c) ==
  /\ stopper[c].work # NoWork => Waits(stopper[c].work[2], stopper[c].work[1])
  /\ stopper[c].enabled =>
       \A i \in DOMAIN stopper[c].works :
         /\ Waits(stopper[c].works[i][2], stopper[c].works[i][1])
         /\ ~Running(c, stopper[c].works[i][2])
         /\ \A j \in DOMAIN stopper[c].works :
              stopper[c].works[i][2] = stopper[c].works[j][2] => i = j

TodoOK(t) ==
  /\ stop_cpus_mutex = t => \A c \in to_queue : ~Running(c, t) /\ ~Listed(c, t)
  /\ IF call[t].pc \in {"one_wait", "queue", "stop_wait"}
     THEN done[t].nr_todo = Cardinality(Todo(t)) ELSE Todo(t) = {}
  /\ done[t].completed => done[t].nr_todo = 0

(* The CPUs that t stops. *)
Involved(t) == online \cup (IF call[t].op = "down" THEN {call[t].cpu} ELSE {})

(* The stopper of an online CPU is enabled, except on the way up. *)
EnabledOK(c) ==
  c \in online => stopper[c].enabled \/ \E t \in Tasks : call[t].pc = "online" /\ call[t].cpu = c

(* The CPU that t takes down or up. *)
HotOK(t) ==
  /\ InStopCpus(t) => Todo(t) \subseteq Involved(t)
  /\ call[t].op = "down" =>
       /\ stopper[call[t].cpu].enabled
       /\ call[t].pc \in Starting \cup {"writer", "stop_cpus"} => call[t].cpu \in online
       /\ \/ call[t].pc \in {"dying", "kill", "kill_wait"}
          \/ call[t].pc = "release" /\ ~call[t].err
          => call[t].cpu \notin online
  /\ call[t].op = "up" =>
       /\ call[t].pc \in Starting \cup {"writer", "arch", "kill", "kill_wait"}
            => call[t].cpu \notin online
       /\ call[t].pc \in {"arch", "online", "kill", "kill_wait"}
            => ~stopper[call[t].cpu].enabled /\ list_empty(stopper[call[t].cpu].works)

(* The stopper of c has acknowledged the state that t's machine is in. *)
Acked(c, t) ==
  /\ Running(c, t)
  /\ \/ stopper[c].pc = "fn"
     \/ stopper[c].pc = "spin" /\ stopper[c].curstate = smdata[t].state

Behind(t) == {c \in Todo(t) : ~Acked(c, t)}

IsMachine(t) == call[t].op \in {"machine", "down"}

(* The stopper of c is in the state of the machine or in the one before. *)
InStep(c, t) ==
  IF Running(c, t)
  THEN \/ stopper[c].pc = "fn" /\ smdata[t].state > STOPMACHINE_RUN
       \/ stopper[c].pc = "ack" /\ stopper[c].curstate = smdata[t].state
       \/ /\ stopper[c].pc = "spin" /\ stopper[c].curstate < STOPMACHINE_EXIT
          /\ stopper[c].curstate \in {smdata[t].state - 1, smdata[t].state}
  ELSE smdata[t].state = STOPMACHINE_PREPARE

(* The function has run on the active CPU. *)
HasRun(t) == \E c \in CPUs : /\ Running(c, t) /\ is_active(c, t)
                             /\ stopper[c].curstate = STOPMACHINE_RUN

(* All threads are there until the function has run, thread_ack counts     *)
(* those that are behind, and the function runs once.                      *)
MachineOK(t) ==
  /\ IsMachine(t) /\ call[t].pc = "stop_cpus" =>
       /\ smdata[t].state = STOPMACHINE_PREPARE /\ smdata[t].ran = 0
       /\ smdata[t].num_threads = Cardinality(online)
       /\ smdata[t].thread_ack = Cardinality(online)
  /\ IsMachine(t) /\ InStopCpus(t) =>
       /\ smdata[t].state \in STOPMACHINE_PREPARE .. STOPMACHINE_EXIT + 1
       /\ \A c \in Todo(t) : InStep(c, t)
       /\ smdata[t].state <= STOPMACHINE_EXIT => smdata[t].thread_ack = Cardinality(Behind(t))
       /\ smdata[t].state <= STOPMACHINE_RUN =>
            /\ Todo(t) = Involved(t) /\ smdata[t].num_threads = Cardinality(Todo(t))
            /\ ~done[t].completed
       /\ smdata[t].ran = IF \/ smdata[t].state > STOPMACHINE_RUN
                             \/ smdata[t].state = STOPMACHINE_RUN /\ HasRun(t)
                          THEN 1 ELSE 0
       /\ smdata[t].ran = 1 /\ call[t].op = "down" => call[t].err \/ call[t].cpu \notin online

IInv ==
  /\ TypeOK /\ LocksInv
  /\ \A t \in Tasks : CallOK(t) /\ TodoOK(t) /\ HotOK(t) /\ MachineOK(t)
  /\ \A c \in CPUs : StopperOK(c) /\ WorksOK(c) /\ EnabledOK(c)

=============================================================================
