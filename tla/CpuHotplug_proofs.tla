------------------------- MODULE CpuHotplug_proofs -------------------------
(***************************************************************************)
(* stop_machine() in lock step and a stable online mask for readers, for   *)
(* any number of CPUs and tasks: the invariant IInv of module CpuHotplug   *)
(* is inductive.                                                           *)
(***************************************************************************)
EXTENDS CpuHotplug, LinuxList_proofs, FiniteSetTheorems, NaturalsInduction

StatePcs == {"fn", "spin", "ack"}
WaitPcs  == {"one_wait", "queue", "stop_wait"}

(* The task of a work is a task, and NoWork has none. *)
LEMMA WorkTask ==
  /\ \A w \in Works : w[1] \in {"one", "machine"} /\ w[2] \in Tasks /\ w # NoWork
  /\ NoWork[2] = NULL /\ NULL \notin Tasks
<1>1. NULL \notin Tasks
  BY CpuStopAssumption
<1> QED
  BY <1>1 DEF Works, NoWork

(* What is known of the stoppers and of their works. *)
LEMMA StopperType ==
  ASSUME TypeOK, NEW c \in CPUs
  PROVE  /\ stopper[c] \in Stoppers
         /\ stopper[c].works \in Seq(Works)
         /\ \A i \in DOMAIN stopper[c].works :
              stopper[c].works[i] \in Works /\ stopper[c].works[i][2] \in Tasks
         /\ stopper[c].work \in Works \cup {NoWork}
         /\ stopper[c].curstate \in 0 .. 4
         /\ stopper[c].enabled \in BOOLEAN /\ stopper[c].should_stop \in BOOLEAN
         /\ stopper[c].state \in TaskStates
<1>1. stopper[c] \in Stoppers
  BY DEF TypeOK
<1>2. /\ stopper[c].works \in Seq(Works) /\ stopper[c].work \in Works \cup {NoWork}
      /\ stopper[c].curstate \in 0 .. 4
      /\ stopper[c].enabled \in BOOLEAN /\ stopper[c].should_stop \in BOOLEAN
      /\ stopper[c].state \in TaskStates
  BY <1>1 DEF Stoppers, STOPMACHINE_NONE, STOPMACHINE_EXIT
<1>3. \A i \in DOMAIN stopper[c].works : stopper[c].works[i] \in Works
  BY <1>2
<1> QED
  BY <1>1, <1>2, <1>3, WorkTask

(* Sets of CPUs can be counted. *)
LEMMA CpuCount ==
  ASSUME NEW S, S \subseteq CPUs
  PROVE  /\ IsFiniteSet(S) /\ Cardinality(S) \in Nat
         /\ Cardinality(S) = 0 <=> S = {}
         /\ \A c \in S : /\ Cardinality(S) >= 1
                         /\ Cardinality(S \ {c}) = Cardinality(S) - 1
                         /\ Cardinality(S) = 1 => S = {c}
<1>1. IsFiniteSet(S)
  BY CpuStopAssumption, FS_Subset
<1>2. Cardinality(S) \in Nat /\ (Cardinality(S) = 0 <=> S = {})
  BY <1>1, FS_CardinalityType, FS_EmptySet
<1>3. ASSUME NEW c \in S
      PROVE  /\ Cardinality(S) >= 1 /\ Cardinality(S \ {c}) = Cardinality(S) - 1
             /\ Cardinality(S) = 1 => S = {c}
  <2>1. IsFiniteSet(S \ {c}) /\ Cardinality(S \ {c}) = Cardinality(S) - 1
    BY <1>1, FS_RemoveElement
  <2>2. Cardinality(S) >= 1
    BY <1>2
  <2>3. Cardinality(S) = 1 => S \ {c} = {}
    BY <2>1, FS_EmptySet
  <2> QED
    BY <2>1, <2>2, <2>3
<1> QED
  BY <1>1, <1>2, <1>3

(* What is still to be done for a call is done on CPUs. *)
LEMMA TodoCpus == \A t : Todo(t) \subseteq CPUs /\ Behind(t) \subseteq CPUs
BY DEF Todo, Behind

(* A stopper that runs a work: its task waits for this CPU. *)
LEMMA RunsWork ==
  ASSUME IInv, NEW c \in CPUs, stopper[c].pc \in StatePcs
  PROVE  LET t == stopper[c].work[2]
         IN  /\ t \in Tasks /\ stopper[c].work \in Works /\ Running(c, t)
             /\ c \in Todo(t) /\ call[t].pc \in WaitPcs
             /\ done[t].nr_todo = Cardinality(Todo(t)) /\ done[t].nr_todo >= 1
             /\ stopper[c].enabled /\ Waits(t, stopper[c].work[1])
<1> DEFINE t == stopper[c].work[2]
<1>1. stopper[c].work \in Works /\ t \in Tasks
  BY StopperType, WorkTask DEF IInv, StopperOK, StatePcs
<1>2. Waits(t, stopper[c].work[1])
  BY <1>1, WorkTask DEF IInv, WorksOK
<1>3. call[t].pc \in WaitPcs
  BY <1>2 DEF Waits, WaitPcs
<1>4. c \in Todo(t) /\ Running(c, t)
  BY DEF Todo, Running
<1>5. done[t].nr_todo = Cardinality(Todo(t))
  BY <1>1, <1>3 DEF IInv, TodoOK, WaitPcs
<1>6. Cardinality(Todo(t)) >= 1
  BY <1>4, CpuCount, TodoCpus
<1>7. stopper[c].enabled
  BY DEF IInv, StopperOK, StatePcs
<1> QED
  BY <1>1, <1>2, <1>3, <1>4, <1>5, <1>6, <1>7

(* A stopper inside stop_machine_cpu_stop() is in step with its machine. *)
LEMMA RunsMachine ==
  ASSUME IInv, NEW c \in CPUs, stopper[c].pc \in {"spin", "ack"}
  PROVE  LET t == stopper[c].work[2]
         IN  /\ t \in Tasks /\ IsMachine(t) /\ InStopCpus(t) /\ MachineOK(t)
             /\ Running(c, t) /\ c \in Todo(t) /\ InStep(c, t)
             /\ smdata[t].state \in 1 .. 5
<1> DEFINE t == stopper[c].work[2]
<1>1. /\ t \in Tasks /\ Running(c, t) /\ c \in Todo(t) /\ call[t].pc \in WaitPcs
      /\ Waits(t, stopper[c].work[1])
  BY RunsWork DEF StatePcs
<1>2. stopper[c].work[1] = "machine"
  BY DEF IInv, StopperOK
<1>3. IsMachine(t)
  BY <1>1, <1>2 DEF Waits, IsMachine
<1>4. InStopCpus(t)
  BY <1>1, <1>3 DEF IInv, CallOK, InStopCpus, WaitPcs, IsMachine, Starting
<1>5. MachineOK(t)
  BY <1>1 DEF IInv
<1>6. InStep(c, t) /\ smdata[t].state \in 1 .. 5
  BY <1>1, <1>3, <1>4, <1>5
     DEF MachineOK, STOPMACHINE_PREPARE, STOPMACHINE_EXIT
<1> QED
  BY <1>1, <1>3, <1>4, <1>5, <1>6

(* Who keeps the lock is alone: nobody else reads, and none goes up or     *)
(* down.                                                                   *)
LEMMA WriterAlone ==
  ASSUME IInv, NEW t \in Tasks, IsWriter(t), NEW u \in Tasks, u # t
  PROVE  call[u].op = "none" /\ ~IsReader(u) /\ call[u].pc \in {"idle", "one_wait"}
<1>1. lock = t /\ lock # NULL /\ refcount = 0
  BY CpuStopAssumption DEF IInv, LocksInv
<1>2. {x \in Tasks : IsReader(x)} = {}
  <2>1. IsFiniteSet({x \in Tasks : IsReader(x)})
    BY CpuStopAssumption, FS_Subset
  <2> QED
    BY <1>1, <2>1, FS_EmptySet DEF IInv, LocksInv
<1>3. call[u].op \notin {"down", "up"}
  BY DEF IInv, LocksInv, IsWriter
<1>4. call[u].op \notin {"read", "machine"}
  BY <1>2 DEF IsReader, IInv, CallOK, Reading, Stopping
<1>5. call[u].op = "none"
  BY <1>3, <1>4 DEF IInv, TypeOK, Calls
<1> QED
  BY <1>2, <1>5 DEF IInv, CallOK
-----------------------------------------------------------------------------
(* Steps, field by field.  The stopper of c gets new values, the others    *)
(* keep theirs.                                                            *)
Becomes(c, enabled, works, pc, state, should_stop, work, curstate) ==
  /\ stopper' \in [CPUs -> Stoppers]
  /\ \A d \in CPUs \ {c} : stopper'[d] = stopper[d]
  /\ stopper'[c].enabled = enabled /\ stopper'[c].works = works
  /\ stopper'[c].pc = pc /\ stopper'[c].state = state
  /\ stopper'[c].should_stop = should_stop
  /\ stopper'[c].work = work /\ stopper'[c].curstate = curstate

(* The same of a record that replaces another. *)
LEMMA SetStopper ==
  ASSUME TypeOK, NEW c \in CPUs, NEW s \in Stoppers,
         stopper' = [stopper EXCEPT ![c] = s]
  PROVE  Becomes(c, s.enabled, s.works, s.pc, s.state, s.should_stop, s.work, s.curstate)
BY DEF TypeOK, Becomes

(* thread_starts(), set_current_state(), kthread_should_stop(), schedule() *)
(* and take_work() of an empty list.                                       *)
Idles(c, p, s) ==
  Becomes(c, stopper[c].enabled, stopper[c].works, p, s, stopper[c].should_stop,
          stopper[c].work, stopper[c].curstate)

(* The steps of a stopper thread that carries out no work, field by field. *)
LEMMA IdleSteps ==
  ASSUME TypeOK, NEW c \in CPUs
  PROVE  /\ thread_starts(c) =>
              Idles(c, IF stopper[c].should_stop THEN "exited" ELSE "set", stopper[c].state)
         /\ set_current_state(c) => Idles(c, "check", TASK_INTERRUPTIBLE)
         /\ kthread_should_stop(c) =>
              Idles(c, IF stopper[c].should_stop THEN "exited" ELSE "take", stopper[c].state)
         /\ schedule(c) => Idles(c, "set", stopper[c].state)
         /\ take_work(c) /\ list_empty(stopper[c].works) =>
              Idles(c, "schedule", stopper[c].state)
<1>1. ASSUME thread_starts(c)
      PROVE  Idles(c, IF stopper[c].should_stop THEN "exited" ELSE "set", stopper[c].state)
  <2>1. stopper' = [stopper EXCEPT ![c] =
          [stopper[c] EXCEPT !.pc = IF stopper[c].should_stop THEN "exited" ELSE "set"]]
    BY <1>1 DEF thread_starts
  <2>2. [stopper[c] EXCEPT !.pc = IF stopper[c].should_stop THEN "exited" ELSE "set"] \in Stoppers
    BY DEF TypeOK, Stoppers
  <2>3. QED
    BY <2>1, <2>2, SetStopper DEF Becomes, TypeOK, Stoppers, Idles
<1>2. ASSUME set_current_state(c)
      PROVE  Idles(c, "check", TASK_INTERRUPTIBLE)
  <2>1. stopper' = [stopper EXCEPT ![c] =
          [stopper[c] EXCEPT !.pc = "check", !.state = TASK_INTERRUPTIBLE]]
    BY <1>2 DEF set_current_state
  <2>2. [stopper[c] EXCEPT !.pc = "check", !.state = TASK_INTERRUPTIBLE] \in Stoppers
    BY DEF TypeOK, Stoppers, TaskStates
  <2>3. QED
    BY <2>1, <2>2, SetStopper DEF Becomes, TypeOK, Stoppers, Idles
<1>3. ASSUME kthread_should_stop(c)
      PROVE  Idles(c, IF stopper[c].should_stop THEN "exited" ELSE "take", stopper[c].state)
  <2>1. stopper' = [stopper EXCEPT ![c] =
          [stopper[c] EXCEPT !.pc = IF stopper[c].should_stop THEN "exited" ELSE "take"]]
    BY <1>3 DEF kthread_should_stop
  <2>2. [stopper[c] EXCEPT !.pc = IF stopper[c].should_stop THEN "exited" ELSE "take"] \in Stoppers
    BY DEF TypeOK, Stoppers
  <2>3. QED
    BY <2>1, <2>2, SetStopper DEF Becomes, TypeOK, Stoppers, Idles
<1>4. ASSUME schedule(c)
      PROVE  Idles(c, "set", stopper[c].state)
  <2>1. stopper' = [stopper EXCEPT ![c] = [stopper[c] EXCEPT !.pc = "set"]]
    BY <1>4 DEF schedule
  <2>2. [stopper[c] EXCEPT !.pc = "set"] \in Stoppers
    BY DEF TypeOK, Stoppers
  <2>3. QED
    BY <2>1, <2>2, SetStopper DEF Becomes, TypeOK, Stoppers, Idles
<1>5. ASSUME take_work(c), list_empty(stopper[c].works)
      PROVE  Idles(c, "schedule", stopper[c].state)
  <2>1. stopper' = [stopper EXCEPT ![c] = [stopper[c] EXCEPT !.pc = "schedule"]]
    BY <1>5 DEF take_work
  <2>2. [stopper[c] EXCEPT !.pc = "schedule"] \in Stoppers
    BY DEF TypeOK, Stoppers
  <2>3. QED
    BY <2>1, <2>2, SetStopper DEF Becomes, TypeOK, Stoppers, Idles
<1> QED
  BY <1>1, <1>2, <1>3, <1>4, <1>5

(* The steps of a stopper thread that carries out a work, field by field. *)
LEMMA WorkSteps ==
  ASSUME TypeOK, NEW c \in CPUs
  PROVE  /\ take_work(c) /\ ~list_empty(stopper[c].works) =>
              Becomes(c, stopper[c].enabled, Tail(stopper[c].works),
                      IF stopper[c].works[1][1] = "one" THEN "fn" ELSE "spin",
                      TASK_RUNNING, stopper[c].should_stop, stopper[c].works[1],
                      stopper[c].curstate)
         /\ signal_done(c) =>
              Becomes(c, stopper[c].enabled, stopper[c].works, "set", stopper[c].state,
                      stopper[c].should_stop, NoWork, stopper[c].curstate)
         /\ see_state(c) /\ smdata[stopper[c].work[2]].state \in 0 .. 4 =>
              Becomes(c, stopper[c].enabled, stopper[c].works, "ack", stopper[c].state,
                      stopper[c].should_stop, stopper[c].work,
                      smdata[stopper[c].work[2]].state)
         /\ ack_state(c) =>
              Becomes(c, stopper[c].enabled, stopper[c].works,
                      IF stopper[c].curstate = 4 THEN "fn" ELSE "spin", stopper[c].state,
                      stopper[c].should_stop, stopper[c].work,
                      IF stopper[c].curstate = 4 THEN 0 ELSE stopper[c].curstate)
<1>1. ASSUME take_work(c), ~list_empty(stopper[c].works)
      PROVE  Becomes(c, stopper[c].enabled, Tail(stopper[c].works),
                     IF stopper[c].works[1][1] = "one" THEN "fn" ELSE "spin",
                     TASK_RUNNING, stopper[c].should_stop, stopper[c].works[1],
                     stopper[c].curstate)
  <2>1. stopper[c].works[1] \in Works /\ Tail(stopper[c].works) \in Seq(Works)
    BY <1>1, StopperType DEF list_empty
  <2> QED
    BY <1>1, <2>1 DEF TypeOK, Stoppers, Becomes, take_work, list_first_entry, TaskStates
<1>2. ASSUME signal_done(c)
      PROVE  Becomes(c, stopper[c].enabled, stopper[c].works, "set", stopper[c].state,
                     stopper[c].should_stop, NoWork, stopper[c].curstate)
  <2>1. stopper' = [stopper EXCEPT ![c] = [stopper[c] EXCEPT !.pc = "set", !.work = NoWork]]
    BY <1>2 DEF signal_done
  <2>2. [stopper[c] EXCEPT !.pc = "set", !.work = NoWork] \in Stoppers
    BY DEF TypeOK, Stoppers
  <2>3. QED
    BY <2>1, <2>2, SetStopper DEF Becomes, TypeOK, Stoppers
<1>3. see_state(c) /\ smdata[stopper[c].work[2]].state \in 0 .. 4 =>
        Becomes(c, stopper[c].enabled, stopper[c].works, "ack", stopper[c].state,
                stopper[c].should_stop, stopper[c].work,
                smdata[stopper[c].work[2]].state)
  BY DEF TypeOK, Stoppers, Becomes, see_state, STOPMACHINE_NONE, STOPMACHINE_EXIT
<1>4. ASSUME ack_state(c)
      PROVE  Becomes(c, stopper[c].enabled, stopper[c].works,
                     IF stopper[c].curstate = 4 THEN "fn" ELSE "spin", stopper[c].state,
                     stopper[c].should_stop, stopper[c].work,
                     IF stopper[c].curstate = 4 THEN 0 ELSE stopper[c].curstate)
  <2>0. PICK p \in {"fn", "spin"}, k \in 0 .. 4 :
          /\ p = IF stopper[c].curstate = 4 THEN "fn" ELSE "spin"
          /\ k = IF stopper[c].curstate = 4 THEN 0 ELSE stopper[c].curstate
    BY StopperType
  <2> DEFINE s == [stopper[c] EXCEPT !.pc = p, !.curstate = k]
  <2>1. stopper' = [stopper EXCEPT ![c] = s]
    BY <1>4, <2>0 DEF ack_state, STOPMACHINE_NONE, STOPMACHINE_EXIT
  <2>2. s \in Stoppers
    BY DEF TypeOK, Stoppers, STOPMACHINE_NONE, STOPMACHINE_EXIT
  <2>3. QED
    BY <2>0, <2>1, <2>2, SetStopper DEF Becomes, TypeOK, Stoppers
<1> QED
  BY <1>1, <1>2, <1>3, <1>4
(* What others do to a stopper: a work goes to its list, it is created,    *)
(* enabled, told to stop or disabled.                                      *)
LEMMA QueuesWork ==
  ASSUME TypeOK, NEW c \in CPUs, NEW w \in Works, NEW t \in Tasks, NEW d,
         cpu_stop_queue_work(c, w, t, d), stopper[c].enabled
  PROVE  /\ Becomes(c, TRUE, Append(stopper[c].works, w), stopper[c].pc, TASK_RUNNING,
                    stopper[c].should_stop, stopper[c].work, stopper[c].curstate)
         /\ done' = [done EXCEPT ![t] = d]
<1> DEFINE s == [stopper[c] EXCEPT !.works = Append(stopper[c].works, w),
                                   !.state = TASK_RUNNING]
<1>1. stopper' = [stopper EXCEPT ![c] = s] /\ done' = [done EXCEPT ![t] = d]
  BY DEF cpu_stop_queue_work, list_add_tail
<1>2. Append(stopper[c].works, w) \in Seq(Works)
  BY StopperType
<1>3. s \in Stoppers
  <2>1. stopper[c] \in Stoppers /\ TASK_RUNNING \in TaskStates
    BY DEF TypeOK, TaskStates
  <2> QED
    BY <1>2, <2>1 DEF Stoppers
<1> QED
  BY <1>1, <1>3, SetStopper DEF Becomes, TypeOK, Stoppers

(* What cpu_stop_cpu_callback and kthread_stop write to a stopper, field by field. *)
LEMMA HotSteps ==
  ASSUME TypeOK, NEW c \in CPUs
  PROVE  /\ stopper' = [stopper EXCEPT ![c] = [NoStopper EXCEPT !.pc = "created",
                                                 !.state = TASK_UNINTERRUPTIBLE]]
            => Becomes(c, FALSE, << >>, "created", TASK_UNINTERRUPTIBLE, FALSE, NoWork, 0)
         /\ stopper' = [stopper EXCEPT ![c].state = TASK_RUNNING, ![c].enabled = TRUE]
            => Becomes(c, TRUE, stopper[c].works, stopper[c].pc, TASK_RUNNING,
                       stopper[c].should_stop, stopper[c].work, stopper[c].curstate)
         /\ stopper' = [stopper EXCEPT ![c].should_stop = TRUE, ![c].state = TASK_RUNNING]
            => Becomes(c, stopper[c].enabled, stopper[c].works, stopper[c].pc, TASK_RUNNING,
                       TRUE, stopper[c].work, stopper[c].curstate)
         /\ stopper' = [stopper EXCEPT ![c].enabled = FALSE]
            => Becomes(c, FALSE, stopper[c].works, stopper[c].pc, stopper[c].state,
                       stopper[c].should_stop, stopper[c].work, stopper[c].curstate)
<1>1. ASSUME stopper' = [stopper EXCEPT ![c] = [NoStopper EXCEPT !.pc = "created",
                                                 !.state = TASK_UNINTERRUPTIBLE]]
      PROVE  Becomes(c, FALSE, << >>, "created", TASK_UNINTERRUPTIBLE, FALSE, NoWork, 0)
  <2> DEFINE s == [NoStopper EXCEPT !.pc = "created", !.state = TASK_UNINTERRUPTIBLE]
  <2>1. << >> \in Seq(Works)
    OBVIOUS
  <2>2. s \in Stoppers
    <3>1. 0 \in STOPMACHINE_NONE .. STOPMACHINE_EXIT /\ TASK_RUNNING \in TaskStates
      BY DEF TaskStates, STOPMACHINE_NONE, STOPMACHINE_EXIT
    <3>2. NoStopper \in Stoppers
      BY <2>1, <3>1 DEF Stoppers, NoStopper, EmptyList, STOPMACHINE_NONE
    <3> QED
      BY <3>2 DEF Stoppers, TaskStates
  <2>3. /\ s.enabled = FALSE /\ s.works = << >> /\ s.pc = "created"
        /\ s.state = TASK_UNINTERRUPTIBLE /\ s.should_stop = FALSE
        /\ s.work = NoWork /\ s.curstate = 0
    BY DEF NoStopper, EmptyList, STOPMACHINE_NONE
  <2>4. Becomes(c, s.enabled, s.works, s.pc, s.state, s.should_stop, s.work, s.curstate)
    BY <1>1, <2>2, SetStopper
  <2> QED
    BY <2>3, <2>4
<1>2. ASSUME stopper' = [stopper EXCEPT ![c].state = TASK_RUNNING, ![c].enabled = TRUE]
      PROVE  Becomes(c, TRUE, stopper[c].works, stopper[c].pc, TASK_RUNNING,
                     stopper[c].should_stop, stopper[c].work, stopper[c].curstate)
  <2> DEFINE s == [stopper[c] EXCEPT !.state = TASK_RUNNING, !.enabled = TRUE]
  <2>1. stopper' = [stopper EXCEPT ![c] = s]
    BY <1>2
  <2>2. s \in Stoppers
    BY DEF TypeOK, Stoppers, TaskStates
  <2> QED
    BY <2>1, <2>2, SetStopper DEF Becomes, TypeOK, Stoppers
<1>3. ASSUME stopper' = [stopper EXCEPT ![c].should_stop = TRUE, ![c].state = TASK_RUNNING]
      PROVE  Becomes(c, stopper[c].enabled, stopper[c].works, stopper[c].pc, TASK_RUNNING,
                     TRUE, stopper[c].work, stopper[c].curstate)
  <2> DEFINE s == [stopper[c] EXCEPT !.should_stop = TRUE, !.state = TASK_RUNNING]
  <2>1. stopper' = [stopper EXCEPT ![c] = s]
    BY <1>3
  <2>2. s \in Stoppers
    BY DEF TypeOK, Stoppers, TaskStates
  <2> QED
    BY <2>1, <2>2, SetStopper DEF Becomes, TypeOK, Stoppers
<1>4. ASSUME stopper' = [stopper EXCEPT ![c].enabled = FALSE]
      PROVE  Becomes(c, FALSE, stopper[c].works, stopper[c].pc, stopper[c].state,
                     stopper[c].should_stop, stopper[c].work, stopper[c].curstate)
  <2> DEFINE s == [stopper[c] EXCEPT !.enabled = FALSE]
  <2>1. stopper' = [stopper EXCEPT ![c] = s]
    BY <1>4
  <2>2. s \in Stoppers
    BY DEF TypeOK, Stoppers
  <2> QED
    BY <2>1, <2>2, SetStopper DEF Becomes, TypeOK, Stoppers
<1> QED
  BY <1>1, <1>2, <1>3, <1>4

(* The call of task t becomes this, and nobody else's changes. *)
Turns(t, pc, op, cpu, err) ==
  /\ call' \in [Tasks -> Calls]
  /\ \A u \in Tasks \ {t} : call'[u] = call[u]
  /\ call'[t].pc = pc /\ call'[t].op = op /\ call'[t].cpu = cpu /\ call'[t].err = err

CallPcs == {"idle", "BUG"} \cup Reading \cup Starting \cup Updating

(* Writing a whole call record, field by field. *)
LEMMA SetCall ==
  ASSUME TypeOK, NEW t \in Tasks, NEW k \in Calls, call' = [call EXCEPT ![t] = k]
  PROVE  Turns(t, k.pc, k.op, k.cpu, k.err)
BY DEF TypeOK, Turns

(* goto moves the task's place and keeps the rest of its call. *)
LEMMA Goto ==
  ASSUME TypeOK, NEW t \in Tasks, NEW l \in CallPcs, goto(t, l)
  PROVE  Turns(t, l, call[t].op, call[t].cpu, call[t].err)
<1> DEFINE k == [call[t] EXCEPT !.pc = l]
<1>1. call' = [call EXCEPT ![t] = k]
  BY DEF goto
<1>2. k \in Calls
  BY DEF TypeOK, Calls, CallPcs
<1> QED
  BY <1>1, <1>2, SetCall DEF Turns, TypeOK, Calls

(* A refused or failed callback sets err alone. *)
LEMMA SetsErr ==
  ASSUME TypeOK, NEW t \in Tasks, call' = [call EXCEPT ![t].err = TRUE]
  PROVE  Turns(t, call[t].pc, call[t].op, call[t].cpu, TRUE)
<1> DEFINE k == [call[t] EXCEPT !.err = TRUE]
<1>1. call' = [call EXCEPT ![t] = k]
  OBVIOUS
<1>2. k \in Calls
  BY DEF TypeOK, Calls
<1> QED
  BY <1>1, <1>2, SetCall DEF Turns, TypeOK, Calls

(* A call that begins, and one that is over. *)
LEMMA Begins ==
  ASSUME TypeOK, NEW t \in Tasks, NEW l \in CallPcs,
         NEW o \in {"read", "machine", "down", "up"}, NEW b \in CPUs \cup {NULL}
  PROVE  /\ call' = [call EXCEPT ![t] = [Idle EXCEPT !.pc = l, !.op = o, !.cpu = b]]
            => Turns(t, l, o, b, FALSE)
         /\ call' = [call EXCEPT ![t] = [Idle EXCEPT !.pc = l, !.op = o]]
            => Turns(t, l, o, NULL, FALSE)
         /\ call' = [call EXCEPT ![t] = Idle] => Turns(t, "idle", "none", NULL, FALSE)
<1>1. /\ [Idle EXCEPT !.pc = l, !.op = o, !.cpu = b] \in Calls
      /\ [Idle EXCEPT !.pc = l, !.op = o] \in Calls /\ Idle \in Calls
  BY DEF Idle, Calls, CallPcs
<1>2. ASSUME NEW k \in Calls, call' = [call EXCEPT ![t] = k]
      PROVE  Turns(t, k.pc, k.op, k.cpu, k.err)
  BY <1>2, SetCall DEF Turns
<1> QED
  BY <1>1, <1>2 DEF Idle

(* down_prepare() that a notifier refuses. *)
LEMMA Refused ==
  ASSUME TypeOK, NEW t \in Tasks, 
         call' = [call EXCEPT ![t].pc = "release", ![t].err = TRUE]
  PROVE  Turns(t, "release", call[t].op, call[t].cpu, TRUE)
<1> DEFINE k == [call[t] EXCEPT !.pc = "release", !.err = TRUE]
<1>1. call' = [call EXCEPT ![t] = k]
  OBVIOUS
<1>2. k \in Calls
  BY DEF TypeOK, Calls, Updating
<1> QED
  BY <1>1, <1>2, SetCall DEF Turns, TypeOK, Calls
-----------------------------------------------------------------------------
(* The works of t that c has are the same after a step, and so is what c   *)
(* does for t.                                                             *)
SameWork(c, t) ==
  /\ Running(c, t)' <=> Running(c, t)
  /\ Listed(c, t)' <=> Listed(c, t)
  /\ Running(c, t) => /\ stopper'[c].pc = stopper[c].pc
                      /\ stopper'[c].curstate = stopper[c].curstate

SameQueue(t) ==
  \A c \in CPUs : stop_cpus_mutex' = t /\ c \in to_queue' <=> stop_cpus_mutex = t /\ c \in to_queue

Quiet(t) == SameQueue(t) /\ \A c \in CPUs : SameWork(c, t)

(* A step that is quiet for a call leaves it as much to do. *)
LEMMA QuietTodo ==
  ASSUME NEW t, Quiet(t)
  PROVE  Todo(t)' = Todo(t)
BY DEF Quiet, SameQueue, SameWork, Todo

(* A step that is quiet for a call, its state included, leaves nobody further behind. *)
LEMMA QuietBehind ==
  ASSUME NEW t, Quiet(t), smdata'[t].state = smdata[t].state
  PROVE  Behind(t)' = Behind(t) /\ \A c \in CPUs : InStep(c, t) => InStep(c, t)'
<1>1. \A c \in CPUs : Acked(c, t)' <=> Acked(c, t)
  BY DEF Quiet, SameWork, Acked
<1>2. Behind(t)' = Behind(t)
  BY <1>1, QuietTodo, TodoCpus DEF Behind
<1>3. \A c \in CPUs : InStep(c, t) => InStep(c, t)'
  BY DEF Quiet, SameWork, InStep
<1> QED
  BY <1>2, <1>3

(* Where nothing is done to the stoppers and to the queue. *)
LEMMA StillQuiet ==
  ASSUME NEW t, stopper' = stopper, stop_cpus_mutex' = stop_cpus_mutex, to_queue' = to_queue
  PROVE  Quiet(t)
BY DEF Quiet, SameQueue, SameWork, Running, Listed

(* t waits for the same CPUs. *)
LEMMA TodoFrame ==
  ASSUME TypeOK', NEW t \in Tasks, TodoOK(t), Quiet(t), done'[t] = done[t],
         call'[t].pc \in WaitPcs <=> call[t].pc \in WaitPcs
  PROVE  TodoOK(t)'
<1>1. Todo(t)' = Todo(t)
  BY QuietTodo
<1>2. stop_cpus_mutex' = t => \A c \in to_queue' : ~Running(c, t)' /\ ~Listed(c, t)'
  <2> SUFFICES ASSUME stop_cpus_mutex' = t, NEW c \in to_queue'
               PROVE  ~Running(c, t)' /\ ~Listed(c, t)'
    OBVIOUS
  <2>1. c \in CPUs
    BY DEF TypeOK
  <2>2. stop_cpus_mutex = t /\ c \in to_queue
    BY <2>1 DEF Quiet, SameQueue
  <2> QED
    BY <2>1, <2>2 DEF Quiet, SameWork, TodoOK
<1> QED
  BY <1>1, <1>2 DEF TodoOK, WaitPcs

(* A task that waits for nothing, and does not begin to. *)
LEMMA TodoIdle ==
  ASSUME TypeOK', NEW t \in Tasks, Todo(t)' = {}, call'[t].pc \notin WaitPcs,
         done'[t].completed => done'[t].nr_todo = 0
  PROVE  TodoOK(t)'
<1>1. stop_cpus_mutex' = t => to_queue' = {}
  BY DEF Todo, TypeOK
<1> QED
  BY <1>1 DEF TodoOK, WaitPcs

(* What t has the CPUs do goes on. *)
LEMMA MachineFrame ==
  ASSUME NEW t \in Tasks, MachineOK(t), Quiet(t), smdata'[t] = smdata[t],
         done'[t].completed = done[t].completed, online' = online,
         call'[t].op = call[t].op, call'[t].cpu = call[t].cpu, call'[t].err = call[t].err,
         call'[t].pc = "stop_cpus" => call[t].pc = "stop_cpus",
         InStopCpus(t)' => InStopCpus(t)
  PROVE  MachineOK(t)'
<1>1. /\ Todo(t)' = Todo(t) /\ Behind(t)' = Behind(t)
      /\ \A c \in CPUs : InStep(c, t) => InStep(c, t)'
  BY QuietTodo, QuietBehind
<1>2. \A c \in Todo(t) : c \in CPUs
  BY TodoCpus
<1>3. HasRun(t)' <=> HasRun(t)
  BY DEF HasRun, Quiet, SameWork, is_active
<1>4. Involved(t)' = Involved(t) /\ (IsMachine(t)' <=> IsMachine(t))
  BY DEF Involved, IsMachine
<1>5. ASSUME IsMachine(t)', call'[t].pc = "stop_cpus"
      PROVE  /\ smdata'[t].state = STOPMACHINE_PREPARE /\ smdata'[t].ran = 0
             /\ smdata'[t].num_threads = Cardinality(online')
             /\ smdata'[t].thread_ack = Cardinality(online')
  BY <1>4, <1>5 DEF MachineOK
<1>6. ASSUME IsMachine(t)', InStopCpus(t)'
      PROVE  /\ smdata[t].state \in STOPMACHINE_PREPARE .. STOPMACHINE_EXIT + 1
             /\ \A c \in Todo(t) : InStep(c, t)
             /\ smdata[t].state <= STOPMACHINE_EXIT => smdata[t].thread_ack = Cardinality(Behind(t))
             /\ smdata[t].state <= STOPMACHINE_RUN =>
                  /\ Todo(t) = Involved(t) /\ smdata[t].num_threads = Cardinality(Todo(t))
                  /\ ~done[t].completed
             /\ smdata[t].ran = IF \/ smdata[t].state > STOPMACHINE_RUN
                                   \/ smdata[t].state = STOPMACHINE_RUN /\ HasRun(t)
                                THEN 1 ELSE 0
             /\ smdata[t].ran = 1 /\ call[t].op = "down" => call[t].err \/ call[t].cpu \notin online
  BY <1>4, <1>6 DEF MachineOK
<1> QED
  BY <1>1, <1>2, <1>3, <1>4, <1>5, <1>6 DEF MachineOK

(* Tasks that have no machine stopped. *)
LEMMA NoMachine ==
  ASSUME NEW t, \/ call'[t].op \notin {"machine", "down"}
                \/ call'[t].pc \notin {"stop_cpus", "queue", "stop_wait"}
  PROVE  MachineOK(t)'
BY DEF MachineOK, IsMachine, InStopCpus

(* The works of a stopper whose tasks go on waiting. *)
GoesOn(t) == Todo(t) = {} \/ (call'[t].pc \in WaitPcs /\ call'[t].op = call[t].op)

(* A stopper's list stays in order while it and the calls it serves go on. *)
LEMMA WorksFrame ==
  ASSUME TypeOK, NEW c \in CPUs, WorksOK(c), \A t \in Tasks : GoesOn(t),
         stopper'[c].enabled = stopper[c].enabled, stopper'[c].works = stopper[c].works,
         stopper'[c].work = stopper[c].work
  PROVE  WorksOK(c)'
<1>1. ASSUME stopper[c].work # NoWork
      PROVE  Waits(stopper[c].work[2], stopper[c].work[1])'
  <2>1. stopper[c].work[2] \in Tasks
    BY <1>1, StopperType, WorkTask
  <2>2. c \in Todo(stopper[c].work[2])
    BY DEF Todo, Running
  <2> QED
    BY <1>1, <2>1, <2>2 DEF GoesOn, WorksOK, Waits, WaitPcs
<1>2. ASSUME stopper[c].enabled, NEW i \in DOMAIN stopper[c].works
      PROVE  Waits(stopper[c].works[i][2], stopper[c].works[i][1])'
  <2>1. stopper[c].works[i][2] \in Tasks
    BY StopperType
  <2>2. c \in Todo(stopper[c].works[i][2])
    BY <1>2 DEF Todo, Listed
  <2> QED
    BY <1>2, <2>1, <2>2 DEF GoesOn, WorksOK, Waits, WaitPcs
<1> QED
  BY <1>1, <1>2 DEF WorksOK, Running
(* The CPU that t takes down or up is left alone. *)
LEMMA HotFrame ==
  ASSUME NEW t \in Tasks, HotOK(t), online' = online,
         call'[t].op = call[t].op, call'[t].cpu = call[t].cpu, call'[t].err = call[t].err,
         call'[t].pc = call[t].pc,
         InStopCpus(t) => Todo(t)' \subseteq Todo(t),
         call[t].op \in {"down", "up"} =>
           /\ stopper'[call[t].cpu].enabled = stopper[call[t].cpu].enabled
           /\ ~stopper[call[t].cpu].enabled /\ list_empty(stopper[call[t].cpu].works)
              => list_empty(stopper'[call[t].cpu].works)
  PROVE  HotOK(t)'
<1>1. InStopCpus(t)' => Todo(t)' \subseteq Involved(t)'
  BY DEF HotOK, InStopCpus, Involved
<1> QED
  BY <1>1 DEF HotOK

(* A task outside the hotplug operations has nothing to respect of them. *)
LEMMA HotNone ==
  ASSUME NEW t, call'[t].op = "none", call'[t].pc \in {"idle", "one_wait"}
  PROVE  HotOK(t)'
BY DEF HotOK, InStopCpus

(* An online CPU's stopper stays enabled while neither is taken away. *)
LEMMA EnabledFrame ==
  ASSUME NEW c \in CPUs, EnabledOK(c), c \in online' => c \in online,
         c \in online /\ stopper[c].enabled => stopper'[c].enabled,
         \A t \in Tasks : call[t].pc = "online" =>
           call'[t].pc = call[t].pc /\ call'[t].cpu = call[t].cpu
  PROVE  EnabledOK(c)'
BY DEF EnabledOK

(* A reader comes or goes. *)
LEMMA ReaderCount ==
  ASSUME IInv, NEW t \in Tasks, \A u \in Tasks \ {t} : call'[u] = call[u],
         refcount' = refcount + (IF IsReader(t)' THEN 1 ELSE 0) - (IF IsReader(t) THEN 1 ELSE 0)
  PROVE  refcount' = Cardinality({u \in Tasks : IsReader(u)'})
<1> DEFINE R == {u \in Tasks : IsReader(u)}
           S == {u \in Tasks : IsReader(u)'}
<1>1. IsFiniteSet(R) /\ refcount = Cardinality(R) /\ refcount \in Nat
  BY CpuStopAssumption, FS_Subset DEF IInv, LocksInv, TypeOK
<1>2. \A u \in Tasks \ {t} : IsReader(u)' <=> IsReader(u)
  BY DEF IsReader
<1>3. /\ ~IsReader(t) /\ IsReader(t)' => S = R \cup {t} /\ t \notin R
      /\ IsReader(t) /\ ~IsReader(t)' => S = R \ {t} /\ t \in R
      /\ (IsReader(t) <=> IsReader(t)') => S = R
  BY <1>2
<1> HIDE DEF R, S
<1>4. CASE ~IsReader(t) /\ IsReader(t)'
  <2>1. refcount' = refcount + 1
    BY <1>1, <1>4
  <2> QED
    BY <1>1, <1>3, <1>4, <2>1, FS_AddElement DEF S
<1>5. CASE IsReader(t) /\ ~IsReader(t)'
  <2>1. refcount' = refcount - 1
    BY <1>1, <1>5
  <2> QED
    BY <1>1, <1>3, <1>5, <2>1, FS_RemoveElement DEF S
<1>6. CASE IsReader(t) <=> IsReader(t)'
  <2>1. refcount' = refcount
    BY <1>1, <1>6
  <2> QED
    BY <1>1, <1>3, <1>6, <2>1 DEF S
<1> QED
  BY <1>4, <1>5, <1>6 DEF IsReader

(* A step of t leaves the locks of others alone. *)
LEMMA LocksStep ==
  ASSUME IInv, NEW t \in Tasks, \A u \in Tasks \ {t} : call'[u] = call[u],
         \A u \in Tasks \ {t} : /\ cpu_add_remove_lock' = u <=> cpu_add_remove_lock = u
                                /\ lock' = u <=> lock = u
                                /\ stop_cpus_mutex' = u <=> stop_cpus_mutex = u
                                /\ call[u].pc = "stop_wait" => to_queue' = {},
         cpu_add_remove_lock' = t <=> call'[t].op \in {"down", "up"},
         lock' = t <=> IsWriter(t)',
         stop_cpus_mutex' = t <=> InStopCpus(t)',
         call'[t].pc = "stop_wait" => to_queue' = {},
         refcount' = refcount + (IF IsReader(t)' THEN 1 ELSE 0) - (IF IsReader(t) THEN 1 ELSE 0),
         lock' # NULL => refcount' = 0
  PROVE  LocksInv'
<1>1. refcount' = Cardinality({u \in Tasks : IsReader(u)'})
  BY ReaderCount
<1>2. ASSUME NEW u \in Tasks
      PROVE  /\ cpu_add_remove_lock' = u <=> call'[u].op \in {"down", "up"}
             /\ lock' = u <=> IsWriter(u)'
             /\ stop_cpus_mutex' = u <=> InStopCpus(u)'
             /\ call'[u].pc = "stop_wait" => to_queue' = {}
  <2>1. CASE u = t
    BY <2>1
  <2>2. CASE u # t
    BY <2>2 DEF IInv, LocksInv, IsWriter, InStopCpus
  <2> QED
    BY <2>1, <2>2
<1> QED
  BY <1>1, <1>2 DEF LocksInv

(* A step of t that does nothing to stoppers, the online mask and those    *)
(* who wait.                                                               *)
LEMMA CallStep ==
  ASSUME IInv, NEW t \in Tasks, \A u \in Tasks \ {t} : call'[u] = call[u] /\ smdata'[u] = smdata[u],
         stopper' = stopper, done' = done, online' = online,
         stop_cpus_mutex' = stop_cpus_mutex, to_queue' = to_queue,
         call[t].pc \notin WaitPcs \cup {"online"}, call'[t].pc \notin WaitPcs,
         TypeOK', LocksInv', CallOK(t)', HotOK(t)', MachineOK(t)'
  PROVE  IInv'
<1>1. \A u : Quiet(u)
  BY StillQuiet
<1>2. ASSUME NEW u \in Tasks PROVE CallOK(u)' /\ TodoOK(u)' /\ HotOK(u)' /\ MachineOK(u)'
  <2>1. CASE u = t
    <3>1. TodoOK(t)'
      BY <1>1, TodoFrame DEF IInv
    <3> QED
      BY <2>1, <3>1
  <2>2. CASE u # t
    <3>1. call'[u] = call[u] /\ smdata'[u] = smdata[u]
      BY <2>2
    <3>2. CallOK(u)'
      BY <3>1 DEF IInv, CallOK
    <3>3. TodoOK(u)'
      BY <1>1, <3>1, TodoFrame DEF IInv
    <3>4. HotOK(u)'
      BY <1>1, <3>1, QuietTodo, HotFrame DEF IInv
    <3>5. MachineOK(u)'
      BY <1>1, <3>1, MachineFrame DEF IInv, InStopCpus
    <3> QED
      BY <3>2, <3>3, <3>4, <3>5
  <2> QED
    BY <2>1, <2>2
<1>3. ASSUME NEW c \in CPUs PROVE StopperOK(c)' /\ WorksOK(c)' /\ EnabledOK(c)'
  <2>1. StopperOK(c)'
    BY DEF IInv, StopperOK
  <2>2. \A u \in Tasks : GoesOn(u)
    <3> SUFFICES ASSUME NEW u \in Tasks PROVE GoesOn(u)
      OBVIOUS
    <3>1. CASE call[u].pc \in WaitPcs
      BY <3>1 DEF GoesOn
    <3>2. CASE call[u].pc \notin WaitPcs
      BY <3>2 DEF GoesOn, IInv, TodoOK, WaitPcs
    <3> QED
      BY <3>1, <3>2
  <2>3. WorksOK(c)'
    BY <2>2, WorksFrame DEF IInv
  <2>4. EnabledOK(c)'
    <3>1. \A u \in Tasks : call[u].pc = "online" => call'[u] = call[u]
      OBVIOUS
    <3> QED
      BY <3>1, EnabledFrame DEF IInv
  <2> QED
    BY <2>1, <2>3, <2>4
<1> QED
  BY <1>2, <1>3 DEF IInv
HotTypes ==
  /\ smdata' \in [Tasks -> Datas]
  /\ cpu_add_remove_lock' \in Tasks \cup {NULL} /\ lock' \in Tasks \cup {NULL}
  /\ active_writer' \in Tasks \cup {NULL} /\ wstate' \in TaskStates

(* The same, with the step of the call spelled out. *)
LEMMA TurnStep ==
  ASSUME IInv, NEW t \in Tasks, NEW l, NEW o, NEW b, NEW e, Turns(t, l, o, b, e),
         UNCHANGED <<online, stopper, stop_cpus_mutex, to_queue, done>>,
         \A u \in Tasks \ {t} : smdata'[u] = smdata[u],
         call[t].pc \notin WaitPcs \cup {"online"}, l \notin WaitPcs,
         HotTypes, refcount' \in Nat,
         \A u \in Tasks \ {t} : /\ cpu_add_remove_lock' = u <=> cpu_add_remove_lock = u
                                /\ lock' = u <=> lock = u,
         cpu_add_remove_lock' = t <=> o \in {"down", "up"},
         lock' = t <=> IsWriter(t)',
         refcount' = refcount + (IF IsReader(t)' THEN 1 ELSE 0) - (IF IsReader(t) THEN 1 ELSE 0),
         lock' # NULL => refcount' = 0,
         CallOK(t)', HotOK(t)', MachineOK(t)'
  PROVE  IInv'
<1>1. /\ \A u \in Tasks \ {t} : call'[u] = call[u]
      /\ call' \in [Tasks -> Calls] /\ call'[t].pc = l /\ call'[t].op = o
  BY DEF Turns
<1>2. TypeOK'
  BY <1>1 DEF IInv, TypeOK, HotTypes
<1>3. LocksInv'
  <2>1. stop_cpus_mutex' = t <=> InStopCpus(t)'
    BY <1>1 DEF IInv, LocksInv, InStopCpus, WaitPcs
  <2>2. call'[t].pc = "stop_wait" => to_queue' = {}
    BY <1>1 DEF WaitPcs
  <2>3. \A u \in Tasks \ {t} : /\ stop_cpus_mutex' = u <=> stop_cpus_mutex = u
                               /\ call[u].pc = "stop_wait" => to_queue' = {}
    BY DEF IInv, LocksInv
  <2> QED
    BY <1>1, <2>1, <2>2, <2>3, LocksStep
<1> QED
  BY <1>1, <1>2, <1>3, CallStep

(* What is known of a task by the place where it is. *)
LEMMA CallPlace ==
  ASSUME IInv, NEW t \in Tasks
  PROVE  /\ call[t] \in Calls /\ CallOK(t) /\ HotOK(t)
         /\ IsReader(t) <=> call[t].op \in {"read", "machine"}
         /\ refcount \in Nat /\ (IsReader(t) => refcount >= 1 /\ lock = NULL)
         /\ t # NULL
<1>1. call[t] \in Calls /\ CallOK(t) /\ HotOK(t) /\ t # NULL
  BY CpuStopAssumption DEF IInv, TypeOK
<1>2. IsReader(t) <=> call[t].op \in {"read", "machine"}
  BY <1>1 DEF CallOK, IsReader, Reading, Stopping
<1>3. refcount \in Nat /\ (IsReader(t) => refcount >= 1)
  <2>1. IsFiniteSet({u \in Tasks : IsReader(u)})
    BY CpuStopAssumption, FS_Subset
  <2>2. IsReader(t) => refcount # 0
    BY <2>1, FS_EmptySet DEF IInv, LocksInv
  <2> QED
    BY <2>2 DEF IInv, TypeOK
<1>4. IsReader(t) => lock = NULL
  BY <1>3 DEF IInv, LocksInv
<1> QED
  BY <1>1, <1>2, <1>3, <1>4

(* get_online_cpus keeps the invariant. *)
LEMMA ReadStep ==
  ASSUME IInv, NEW t \in Tasks, read(t)
  PROVE  IInv'
<1>1. /\ call[t].pc = "idle" /\ lock = NULL /\ refcount' = refcount + 1
      /\ UNCHANGED <<online, stopper, stop_cpus_mutex, to_queue, done, smdata,
                     cpu_add_remove_lock, active_writer, lock, wstate>>
  BY DEF read, get_online_cpus
<1>2. Turns(t, "reading", "read", NULL, FALSE)
  BY Begins DEF read, IInv, CallPcs, Reading
<1>3. call[t].op = "none" /\ ~IsReader(t)
  BY <1>1, CallPlace DEF CallOK, Starting, Calls
<1>4. IsReader(t)' /\ ~IsWriter(t)' /\ CallOK(t)' /\ HotOK(t)' /\ MachineOK(t)'
  BY <1>2, NoMachine DEF Turns, IsReader, IsWriter, CallOK, HotOK, InStopCpus, Reading
<1>5. cpu_add_remove_lock # t /\ lock # t
  BY <1>1, <1>3, CallPlace DEF IInv, LocksInv
<1>6. /\ refcount' \in Nat
      /\ refcount' = refcount + (IF IsReader(t)' THEN 1 ELSE 0) - (IF IsReader(t) THEN 1 ELSE 0)
  BY <1>1, <1>3, <1>4, CallPlace
<1>7. HotTypes
  BY <1>1 DEF IInv, TypeOK, HotTypes
<1>8. call[t].pc \notin WaitPcs \cup {"online"} /\ "reading" \notin WaitPcs
  BY <1>1 DEF WaitPcs
<1> QED
  BY <1>1, <1>2, <1>4, <1>5, <1>6, <1>7, <1>8, TurnStep
(* __stop_machine() sets up its data. *)
LEMMA StopMachineData ==
  ASSUME TypeOK, NEW t \in Tasks, __stop_machine(t)
  PROVE  /\ smdata' \in [Tasks -> Datas]
         /\ \A u \in Tasks \ {t} : smdata'[u] = smdata[u]
         /\ smdata'[t].state = STOPMACHINE_PREPARE /\ smdata'[t].ran = 0
         /\ smdata'[t].num_threads = Cardinality(online)
         /\ smdata'[t].thread_ack = Cardinality(online)
<1>1. Cardinality(online) \in Nat
  BY CpuCount DEF TypeOK
<1>2. PICK n \in Nat : n = Cardinality(online)
  BY <1>1
<1> DEFINE d == set_state([NoData EXCEPT !.num_threads = n], STOPMACHINE_PREPARE)
<1>3. smdata' = [smdata EXCEPT ![t] = d]
  BY <1>2 DEF __stop_machine
<1>4. /\ d \in Datas /\ d.state = STOPMACHINE_PREPARE /\ d.ran = 0
      /\ d.num_threads = n /\ d.thread_ack = n
  BY DEF set_state, NoData, Datas, STOPMACHINE_PREPARE, STOPMACHINE_NONE
<1> HIDE DEF d
<1> QED
  BY <1>2, <1>3, <1>4 DEF TypeOK

(* The entry of stop_machine keeps the invariant. *)
LEMMA StopMachineStep ==
  ASSUME IInv, NEW t \in Tasks, stop_machine(t)
  PROVE  IInv'
<1>1. /\ call[t].pc = "idle" /\ lock = NULL /\ refcount' = refcount + 1
      /\ UNCHANGED <<online, stopper, stop_cpus_mutex, to_queue, done,
                     cpu_add_remove_lock, active_writer, lock, wstate>>
  BY DEF stop_machine, get_online_cpus
<1>2. Turns(t, "stop_cpus", "machine", NULL, FALSE)
  BY Begins DEF stop_machine, IInv, CallPcs, Reading, Stopping
<1>3. call[t].op = "none" /\ ~IsReader(t)
  BY <1>1, CallPlace DEF CallOK, Starting, Calls
<1>4. /\ smdata' \in [Tasks -> Datas] /\ \A u \in Tasks \ {t} : smdata'[u] = smdata[u]
      /\ smdata'[t].state = STOPMACHINE_PREPARE /\ smdata'[t].ran = 0
      /\ smdata'[t].num_threads = Cardinality(online)
      /\ smdata'[t].thread_ack = Cardinality(online)
  BY StopMachineData DEF IInv, stop_machine
<1>5. IsReader(t)' /\ ~IsWriter(t)' /\ CallOK(t)' /\ HotOK(t)'
  BY <1>2 DEF Turns, IsReader, IsWriter, CallOK, HotOK, InStopCpus, Reading, Stopping
<1>6. MachineOK(t)'
  BY <1>1, <1>2, <1>4 DEF MachineOK, InStopCpus, Turns
<1>7. cpu_add_remove_lock # t /\ lock # t
  BY <1>1, <1>3, CallPlace DEF IInv, LocksInv
<1>8. /\ refcount' \in Nat
      /\ refcount' = refcount + (IF IsReader(t)' THEN 1 ELSE 0) - (IF IsReader(t) THEN 1 ELSE 0)
  BY <1>1, <1>3, <1>5, CallPlace
<1>9. HotTypes
  BY <1>1, <1>4 DEF IInv, TypeOK, HotTypes
<1>10. call[t].pc \notin WaitPcs \cup {"online"} /\ "stop_cpus" \notin WaitPcs
  BY <1>1 DEF WaitPcs
<1> QED
  BY <1>1, <1>2, <1>4, <1>5, <1>6, <1>7, <1>8, <1>9, <1>10, TurnStep

(* put_online_cpus keeps the invariant, the wake-up of the writer included. *)
LEMMA PutStep ==
  ASSUME IInv, NEW t \in Tasks, put_online_cpus(t)
  PROVE  IInv'
<1>1. /\ call[t].pc \in {"reading", "put"} /\ lock = NULL /\ refcount' = refcount - 1
      /\ wstate' \in {TASK_RUNNING, wstate}
      /\ UNCHANGED <<online, stopper, stop_cpus_mutex, to_queue, done, smdata,
                     cpu_add_remove_lock, active_writer, lock>>
  BY DEF put_online_cpus
<1>2. Turns(t, "idle", "none", NULL, FALSE)
  BY Begins DEF put_online_cpus, IInv, CallPcs, Reading
<1>3. call[t].op \in {"read", "machine"} /\ IsReader(t)
  BY <1>1, CallPlace DEF CallOK, Starting, Calls
<1>4. ~IsReader(t)' /\ ~IsWriter(t)' /\ CallOK(t)' /\ HotOK(t)' /\ MachineOK(t)'
  BY <1>2, NoMachine DEF Turns, IsReader, IsWriter, CallOK, HotOK, InStopCpus
<1>5. cpu_add_remove_lock # t /\ lock # t
  BY <1>1, <1>3, CallPlace DEF IInv, LocksInv
<1>6. /\ refcount' \in Nat
      /\ refcount' = refcount + (IF IsReader(t)' THEN 1 ELSE 0) - (IF IsReader(t) THEN 1 ELSE 0)
  BY <1>1, <1>3, <1>4, CallPlace
<1>7. HotTypes
  BY <1>1 DEF IInv, TypeOK, HotTypes, TaskStates
<1>8. call[t].pc \notin WaitPcs \cup {"online"} /\ "idle" \notin WaitPcs
  BY <1>1 DEF WaitPcs
<1> QED
  BY <1>1, <1>2, <1>4, <1>5, <1>6, <1>7, <1>8, TurnStep

(* cpu_maps_update_begin keeps the invariant. *)
LEMMA MapsBeginStep ==
  ASSUME IInv, NEW t \in Tasks, NEW c \in HotCPUs, NEW op \in {"down", "up"},
         cpu_maps_update_begin(t, c, op)
  PROVE  IInv'
<1>1. /\ call[t].pc = "idle" /\ cpu_add_remove_lock = NULL /\ c \in CPUs
      /\ op = "down" => c \in online
      /\ op = "up" => c \notin online
      /\ cpu_add_remove_lock' = t /\ active_writer' = t
      /\ UNCHANGED <<online, stopper, stop_cpus_mutex, to_queue, done, smdata, lock,
                     refcount, wstate>>
  BY CpuHotplugAssumption DEF cpu_maps_update_begin
<1>2. Turns(t, "begin", op, c, FALSE)
  <2>1. "begin" \in CallPcs
    BY DEF CallPcs, Starting
  <2>2. call' = [call EXCEPT ![t] = [Idle EXCEPT !.pc = "begin", !.op = op, !.cpu = c]]
    BY DEF cpu_maps_update_begin
  <2> QED
    BY <1>1, <2>1, <2>2, Begins DEF IInv
<1>3. call[t].op = "none" /\ ~IsReader(t)
  BY <1>1, CallPlace DEF CallOK, Starting, Calls
<1>4. ~IsReader(t)' /\ ~IsWriter(t)' /\ CallOK(t)' /\ MachineOK(t)'
  BY <1>1, <1>2, NoMachine DEF Turns, IsReader, IsWriter, CallOK, Starting
<1>5. HotOK(t)'
  <2>1. op = "down" => stopper[c].enabled
    <3>1. \A u \in Tasks : call[u].pc # "online"
      <4> SUFFICES ASSUME NEW u \in Tasks, call[u].pc = "online" PROVE FALSE
        OBVIOUS
      <4>1. call[u].op = "up"
        BY CallPlace DEF CallOK, Starting, Calls
      <4> QED
        BY <1>1, <4>1, CallPlace DEF IInv, LocksInv
    <3> QED
      BY <1>1, <3>1 DEF IInv, EnabledOK
  <2> QED
    BY <1>1, <1>2, <2>1 DEF Turns, HotOK, InStopCpus
<1>6. lock # t /\ (lock # NULL => refcount = 0) /\ (\A u \in Tasks : cpu_add_remove_lock # u)
  BY <1>1, <1>3, CallPlace DEF IInv, LocksInv, IsWriter
<1>7. /\ refcount' \in Nat
      /\ refcount' = refcount + (IF IsReader(t)' THEN 1 ELSE 0) - (IF IsReader(t) THEN 1 ELSE 0)
  BY <1>1, <1>3, <1>4, CallPlace
<1>8. HotTypes
  BY <1>1 DEF IInv, TypeOK, HotTypes
<1>9. call[t].pc \notin WaitPcs \cup {"online"} /\ "begin" \notin WaitPcs
  BY <1>1 DEF WaitPcs
<1> QED
  BY <1>1, <1>2, <1>4, <1>5, <1>6, <1>7, <1>8, <1>9, TurnStep

(* A task that goes up or down, and stays so, keeps cpu_add_remove_lock,   *)
(* and is no reader.                                                       *)
LEMMA HotplugTask ==
  ASSUME IInv, NEW t \in Tasks, call[t].op \in {"down", "up"}
  PROVE  /\ ~IsReader(t) /\ cpu_add_remove_lock = t /\ call[t].cpu \in CPUs
         /\ \A u \in Tasks \ {t} : cpu_add_remove_lock # u
         /\ lock # NULL => refcount = 0
         /\ lock = t <=> IsWriter(t)
         /\ lock \in Tasks => IsWriter(lock)
         /\ refcount \in Nat /\ t # NULL
<1>1. ~IsReader(t) /\ refcount \in Nat /\ t # NULL /\ call[t].cpu \in CPUs
  BY CallPlace DEF CallOK
<1> QED
  BY <1>1 DEF IInv, LocksInv

(* cpu_hotplug_begin keeps the invariant, whether it goes in or to sleep. *)
LEMMA HotplugBeginStep ==
  ASSUME IInv, NEW t \in Tasks, cpu_hotplug_begin(t)
  PROVE  IInv'
<1>1. /\ call[t].pc = "begin" /\ lock = NULL
      /\ UNCHANGED <<online, stopper, stop_cpus_mutex, to_queue, done, smdata,
                     cpu_add_remove_lock, active_writer, refcount>>
  BY DEF cpu_hotplug_begin
<1>2. call[t].op \in {"down", "up"}
  BY <1>1, CallPlace DEF CallOK, Calls
<1>3. /\ ~IsReader(t) /\ cpu_add_remove_lock = t /\ refcount \in Nat
      /\ lock # t /\ t # NULL /\ HotOK(t) /\ CallOK(t) /\ call[t].cpu \in CPUs
  BY <1>1, <1>2, HotplugTask, CallPlace
<1>4. PICK l \in {"writer", "begin_sleep"} :
        /\ goto(t, l) /\ wstate' \in {wstate, TASK_UNINTERRUPTIBLE}
        /\ l = "writer" => lock' = t /\ refcount = 0
        /\ l = "begin_sleep" => lock' = lock
  BY DEF cpu_hotplug_begin
<1>5. l \in CallPcs
  BY DEF CallPcs, Starting, Updating
<1>6. Turns(t, l, call[t].op, call[t].cpu, call[t].err)
  BY <1>4, <1>5, Goto DEF IInv
<1>7. ~IsReader(t)' /\ (IsWriter(t)' <=> l = "writer") /\ CallOK(t)'
  BY <1>2, <1>3, <1>6 DEF Turns, IsReader, IsWriter, CallOK, Starting
<1>8. HotOK(t)'
  BY <1>1, <1>2, <1>3, <1>6 DEF Turns, HotOK, InStopCpus, Starting
<1>9. MachineOK(t)'
  BY <1>6, NoMachine DEF Turns
<1>10. /\ refcount' \in Nat
       /\ refcount' = refcount + (IF IsReader(t)' THEN 1 ELSE 0) - (IF IsReader(t) THEN 1 ELSE 0)
  BY <1>1, <1>3, <1>7
<1>11. HotTypes
  BY <1>1, <1>4 DEF IInv, TypeOK, HotTypes, TaskStates
<1>12. call[t].pc \notin WaitPcs \cup {"online"} /\ l \notin WaitPcs
  BY <1>1 DEF WaitPcs
<1>13. /\ cpu_add_remove_lock' = t <=> call[t].op \in {"down", "up"}
       /\ lock' = t <=> IsWriter(t)'
       /\ lock' # NULL => refcount' = 0
       /\ \A u \in Tasks \ {t} : /\ cpu_add_remove_lock' = u <=> cpu_add_remove_lock = u
                                 /\ lock' = u <=> lock = u
  BY <1>1, <1>2, <1>3, <1>4, <1>7, CpuStopAssumption
<1> QED
  BY <1>1, <1>6, <1>7, <1>8, <1>9, <1>10, <1>11, <1>12, <1>13, TurnStep

(* The writer's next look at the reference count keeps the invariant. *)
LEMMA BeginWokenStep ==
  ASSUME IInv, NEW t \in Tasks, begin_woken(t)
  PROVE  IInv'
<1>1. /\ call[t].pc = "begin_sleep" /\ goto(t, "begin")
      /\ UNCHANGED <<online, stopper, stop_cpus_mutex, to_queue, done, smdata,
                     cpu_add_remove_lock, active_writer, lock, refcount, wstate>>
  BY DEF begin_woken, hotplugVars
<1>2. call[t].op \in {"down", "up"}
  BY <1>1, CallPlace DEF CallOK, Calls
<1>3. /\ ~IsReader(t) /\ cpu_add_remove_lock = t /\ refcount \in Nat
      /\ (lock # NULL => refcount = 0) /\ HotOK(t) /\ CallOK(t)
      /\ (lock = t <=> IsWriter(t)) /\ call[t].cpu \in CPUs
  BY <1>1, <1>2, HotplugTask, CallPlace
<1>4. Turns(t, "begin", call[t].op, call[t].cpu, call[t].err)
  BY <1>1, Goto DEF IInv, CallPcs, Starting
<1>5. ~IsReader(t)' /\ (IsWriter(t)' <=> IsWriter(t)) /\ CallOK(t)'
  BY <1>1, <1>2, <1>3, <1>4 DEF Turns, IsReader, IsWriter, CallOK, Starting
<1>6. HotOK(t)'
  BY <1>1, <1>2, <1>3, <1>4 DEF Turns, HotOK, InStopCpus, Starting
<1>7. MachineOK(t)'
  BY <1>4, NoMachine DEF Turns
<1>8. /\ refcount' \in Nat
      /\ refcount' = refcount + (IF IsReader(t)' THEN 1 ELSE 0) - (IF IsReader(t) THEN 1 ELSE 0)
  BY <1>1, <1>3, <1>5
<1>9. HotTypes
  BY <1>1 DEF IInv, TypeOK, HotTypes
<1>10. call[t].pc \notin WaitPcs \cup {"online"} /\ "begin" \notin WaitPcs
  BY <1>1 DEF WaitPcs
<1> QED
  BY <1>1, <1>2, <1>3, <1>4, <1>5, <1>6, <1>7, <1>8, <1>9, <1>10, TurnStep

(* cpu_hotplug_done keeps the invariant. *)
LEMMA HotplugDoneStep ==
  ASSUME IInv, NEW t \in Tasks, cpu_hotplug_done(t)
  PROVE  IInv'
<1>1. /\ call[t].pc = "release" /\ active_writer' = NULL /\ lock' = NULL
      /\ UNCHANGED <<online, stopper, stop_cpus_mutex, to_queue, done, smdata,
                     refcount, wstate>>
  BY DEF cpu_hotplug_done
<1>2. call[t].op \in {"down", "up"} /\ IsWriter(t)
  BY <1>1, CallPlace DEF CallOK, Calls, IsWriter, Starting
<1>3. /\ ~IsReader(t) /\ cpu_add_remove_lock = t /\ refcount \in Nat
      /\ (lock # NULL => refcount = 0) /\ HotOK(t) /\ CallOK(t)
      /\ lock = t /\ call[t].cpu \in CPUs /\ t # NULL
  BY <1>1, <1>2, HotplugTask, CallPlace
<1>4. /\ refcount' \in Nat /\ HotTypes
      /\ call[t].pc \notin WaitPcs \cup {"online"} /\ "kill" \notin WaitPcs
      /\ "idle" \notin WaitPcs
  BY <1>1, <1>3, CpuStopAssumption DEF IInv, TypeOK, HotTypes, WaitPcs, cpu_hotplug_done
<1>5. /\ \A u \in Tasks \ {t} : lock' = u <=> lock = u
      /\ lock' # t /\ (lock' # NULL => refcount' = 0)
  BY <1>1, <1>3, CpuStopAssumption
<1>6. CASE call[t].op = "down" /\ ~call[t].err
  <2>1. goto(t, "kill") /\ cpu_add_remove_lock' = cpu_add_remove_lock
    BY <1>6 DEF cpu_hotplug_done
  <2>2. Turns(t, "kill", call[t].op, call[t].cpu, call[t].err)
    BY <2>1, Goto DEF IInv, CallPcs, Updating
  <2>3. ~IsReader(t)' /\ ~IsWriter(t)' /\ CallOK(t)'
    BY <1>3, <1>6, <2>2 DEF Turns, IsReader, IsWriter, CallOK
  <2>4. HotOK(t)'
    BY <1>1, <1>3, <1>6, <2>2 DEF Turns, HotOK, InStopCpus, Starting
  <2>5. MachineOK(t)'
    BY <2>2, NoMachine DEF Turns
  <2>6. refcount' = refcount + (IF IsReader(t)' THEN 1 ELSE 0) - (IF IsReader(t) THEN 1 ELSE 0)
    BY <1>1, <1>3, <2>3
  <2> QED
    BY <1>1, <1>2, <1>3, <1>4, <1>5, <2>1, <2>2, <2>3, <2>4, <2>5, <2>6, TurnStep
<1>7. CASE ~(call[t].op = "down" /\ ~call[t].err)
  <2>1. call' = [call EXCEPT ![t] = Idle] /\ cpu_add_remove_lock' = NULL
    BY <1>7 DEF cpu_hotplug_done
  <2>2. Turns(t, "idle", "none", NULL, FALSE)
    BY <2>1, Begins DEF IInv, CallPcs
  <2>3. ~IsReader(t)' /\ ~IsWriter(t)' /\ CallOK(t)' /\ HotOK(t)' /\ MachineOK(t)'
    BY <2>2, NoMachine DEF Turns, IsReader, IsWriter, CallOK, HotOK, InStopCpus
  <2>4. refcount' = refcount + (IF IsReader(t)' THEN 1 ELSE 0) - (IF IsReader(t) THEN 1 ELSE 0)
    BY <1>1, <1>3, <2>3
  <2>5. \A u \in Tasks : cpu_add_remove_lock' # u /\ (u # t => cpu_add_remove_lock # u)
    BY <1>3, <2>1, CpuStopAssumption
  <2> QED
    BY <1>1, <1>3, <1>4, <1>5, <2>2, <2>3, <2>4, <2>5, TurnStep
<1> QED
  BY <1>6, <1>7

(* The CPU_DOWN_PREPARE step keeps the invariant, refused or going on to stop the machine. *)
LEMMA DownPrepareStep ==
  ASSUME IInv, NEW t \in Tasks, down_prepare(t)
  PROVE  IInv'
<1>1. /\ call[t].pc = "writer" /\ call[t].op = "down"
      /\ UNCHANGED <<online, stopper, stop_cpus_mutex, to_queue, done,
                     cpu_add_remove_lock, active_writer, lock, refcount, wstate>>
  BY DEF down_prepare, hotplugVars
<1>2. IsWriter(t)
  BY <1>1 DEF IsWriter, Starting
<1>3. /\ ~IsReader(t) /\ cpu_add_remove_lock = t /\ refcount \in Nat
      /\ (lock # NULL => refcount = 0) /\ HotOK(t) /\ CallOK(t)
      /\ lock = t /\ call[t].cpu \in CPUs
  BY <1>1, <1>2, HotplugTask, CallPlace
<1>4. /\ refcount' \in Nat /\ call[t].pc \notin WaitPcs \cup {"online"}
      /\ "release" \notin WaitPcs /\ "stop_cpus" \notin WaitPcs
  BY <1>1, <1>3 DEF WaitPcs
<1>5. CASE call' = [call EXCEPT ![t].pc = "release", ![t].err = TRUE] /\ UNCHANGED smdata
  <2>1. Turns(t, "release", "down", call[t].cpu, TRUE)
    BY <1>1, <1>5, Refused DEF IInv
  <2>2. ~IsReader(t)' /\ IsWriter(t)' /\ CallOK(t)'
    BY <1>3, <2>1 DEF Turns, IsReader, IsWriter, CallOK, Starting
  <2>3. HotOK(t)'
    BY <1>1, <1>3, <2>1 DEF Turns, HotOK, InStopCpus, Starting
  <2>4. MachineOK(t)'
    BY <2>1, NoMachine DEF Turns
  <2>5. refcount' = refcount + (IF IsReader(t)' THEN 1 ELSE 0) - (IF IsReader(t) THEN 1 ELSE 0)
    BY <1>1, <1>3, <2>2
  <2>6. HotTypes
    BY <1>1, <1>5 DEF IInv, TypeOK, HotTypes
  <2> QED
    BY <1>1, <1>3, <1>4, <1>5, <2>1, <2>2, <2>3, <2>4, <2>5, <2>6, TurnStep
<1>6. CASE __stop_machine(t) /\ goto(t, "stop_cpus")
  <2>1. Turns(t, "stop_cpus", "down", call[t].cpu, call[t].err)
    BY <1>1, <1>6, Goto DEF IInv, CallPcs, Reading, Stopping
  <2>2. /\ smdata' \in [Tasks -> Datas] /\ \A u \in Tasks \ {t} : smdata'[u] = smdata[u]
        /\ smdata'[t].state = STOPMACHINE_PREPARE /\ smdata'[t].ran = 0
        /\ smdata'[t].num_threads = Cardinality(online)
        /\ smdata'[t].thread_ack = Cardinality(online)
    BY <1>6, StopMachineData DEF IInv
  <2>3. ~IsReader(t)' /\ IsWriter(t)' /\ CallOK(t)'
    BY <1>3, <2>1 DEF Turns, IsReader, IsWriter, CallOK, Starting
  <2>4. HotOK(t)'
    BY <1>1, <1>3, <2>1 DEF Turns, HotOK, InStopCpus, Starting
  <2>5. MachineOK(t)'
    BY <1>1, <2>1, <2>2 DEF MachineOK, InStopCpus, Turns
  <2>6. refcount' = refcount + (IF IsReader(t)' THEN 1 ELSE 0) - (IF IsReader(t) THEN 1 ELSE 0)
    BY <1>1, <1>3, <2>3
  <2>7. HotTypes
    BY <1>1, <2>2 DEF IInv, TypeOK, HotTypes
  <2> QED
    BY <1>1, <1>3, <1>4, <2>1, <2>2, <2>3, <2>4, <2>5, <2>6, <2>7, TurnStep
<1> QED
  BY <1>5, <1>6 DEF down_prepare

(* The step after take_cpu_down keeps the invariant. *)
LEMMA CpuDieStep ==
  ASSUME IInv, NEW t \in Tasks, cpu_die(t)
  PROVE  IInv'
<1>1. /\ call[t].pc = "dying" /\ goto(t, "release")
      /\ UNCHANGED <<online, stopper, stop_cpus_mutex, to_queue, done, smdata,
                     cpu_add_remove_lock, active_writer, lock, refcount, wstate>>
  BY DEF cpu_die, hotplugVars
<1>2. call[t].op = "down" /\ IsWriter(t)
  BY <1>1, CallPlace DEF CallOK, Calls, IsWriter, Starting
<1>3. /\ ~IsReader(t) /\ cpu_add_remove_lock = t /\ refcount \in Nat
      /\ (lock # NULL => refcount = 0) /\ HotOK(t) /\ CallOK(t)
      /\ lock = t /\ call[t].cpu \in CPUs
  BY <1>1, <1>2, HotplugTask, CallPlace
<1>4. Turns(t, "release", "down", call[t].cpu, call[t].err)
  BY <1>1, <1>2, Goto DEF IInv, CallPcs, Updating
<1>5. ~IsReader(t)' /\ IsWriter(t)' /\ CallOK(t)'
  BY <1>3, <1>4 DEF Turns, IsReader, IsWriter, CallOK, Starting
<1>6. HotOK(t)'
  BY <1>1, <1>2, <1>3, <1>4 DEF Turns, HotOK, InStopCpus, Starting
<1>7. MachineOK(t)'
  BY <1>4, NoMachine DEF Turns
<1>8. /\ refcount' \in Nat
      /\ refcount' = refcount + (IF IsReader(t)' THEN 1 ELSE 0) - (IF IsReader(t) THEN 1 ELSE 0)
  BY <1>1, <1>3, <1>5
<1>9. HotTypes
  BY <1>1 DEF IInv, TypeOK, HotTypes
<1>10. call[t].pc \notin WaitPcs \cup {"online"} /\ "release" \notin WaitPcs
  BY <1>1 DEF WaitPcs
<1> QED
  BY <1>1, <1>2, <1>3, <1>4, <1>5, <1>6, <1>7, <1>8, <1>9, <1>10, TurnStep
-----------------------------------------------------------------------------
(* Nobody else goes up or down. *)
LEMMA HotplugAlone ==
  ASSUME IInv, NEW t \in Tasks, call[t].op \in {"down", "up"}, NEW u \in Tasks \ {t}
  PROVE  call[u].op \notin {"down", "up"} /\ call[u].pc # "online"
<1>1. call[u].op \notin {"down", "up"}
  BY HotplugTask DEF IInv, LocksInv
<1> QED
  BY <1>1, CallPlace DEF CallOK, Calls

(* A task that goes up or down does something to the stopper of its CPU,   *)
(* and to no works.                                                        *)
LEMMA HotplugStep ==
  ASSUME IInv, NEW t \in Tasks, call[t].op \in {"down", "up"}, NEW c \in CPUs, c = call[t].cpu,
         stopper' \in [CPUs -> Stoppers], \A d \in CPUs \ {c} : stopper'[d] = stopper[d],
         NEW l \in CallPcs, goto(t, l),
         UNCHANGED <<online, stop_cpus_mutex, to_queue, done, smdata>>,
         UNCHANGED hotplugVars,
         call[t].pc \notin WaitPcs, l \notin WaitPcs \cup {"stop_cpus"},
         \A u \in Tasks : SameWork(c, u),
         IsWriter(t)' <=> IsWriter(t),
         CallOK(t)', HotOK(t)', StopperOK(c)', WorksOK(c)', EnabledOK(c)'
  PROVE  IInv'
<1>1. Turns(t, l, call[t].op, call[t].cpu, call[t].err)
  BY Goto DEF IInv
<1>2. TypeOK'
  BY <1>1 DEF IInv, TypeOK, Turns, hotplugVars
<1>3. \A u \in Tasks : Quiet(u)
  <2> SUFFICES ASSUME NEW u \in Tasks, NEW d \in CPUs
               PROVE  SameWork(d, u)
    BY DEF Quiet, SameQueue
  <2>1. CASE d = c
    BY <2>1
  <2>2. CASE d # c
    BY <2>2 DEF SameWork, Running, Listed
  <2> QED
    BY <2>1, <2>2
<1>4. LocksInv'
  <2>1. ~IsReader(t) /\ ~IsReader(t)'
    BY <1>1, HotplugTask DEF Turns, IsReader
  <2>2. \A u \in Tasks : IsReader(u)' <=> IsReader(u)
    BY <1>1, <2>1 DEF Turns, IsReader
  <2>3. {u \in Tasks : IsReader(u)'} = {u \in Tasks : IsReader(u)}
    BY <2>2
  <2>4. ~InStopCpus(t) /\ ~InStopCpus(t)'
    BY <1>1 DEF Turns, InStopCpus, WaitPcs
  <2>5. ASSUME NEW u \in Tasks
        PROVE  /\ cpu_add_remove_lock' = u <=> call'[u].op \in {"down", "up"}
               /\ lock' = u <=> IsWriter(u)'
               /\ stop_cpus_mutex' = u <=> InStopCpus(u)'
               /\ call'[u].pc = "stop_wait" => to_queue' = {}
    <3>1. CASE u = t
      BY <1>1, <2>4, <3>1 DEF Turns, IInv, LocksInv, hotplugVars, InStopCpus
    <3>2. CASE u # t
      BY <1>1, <3>2 DEF Turns, IInv, LocksInv, hotplugVars, InStopCpus, IsWriter
    <3> QED
      BY <3>1, <3>2
  <2> QED
    BY <2>3, <2>5 DEF IInv, LocksInv, hotplugVars
<1>5. ASSUME NEW u \in Tasks PROVE CallOK(u)' /\ TodoOK(u)' /\ HotOK(u)' /\ MachineOK(u)'
  <2>1. CASE u = t
    <3>1. TodoOK(t)'
      BY <1>1, <1>2, <1>3, TodoFrame DEF IInv, Turns
    <3>2. MachineOK(t)'
      BY <1>1, NoMachine DEF Turns, WaitPcs
    <3> QED
      BY <2>1, <3>1, <3>2
  <2>2. CASE u # t
    <3>1. call'[u] = call[u] /\ smdata'[u] = smdata[u] /\ call[u].op \notin {"down", "up"}
      BY <1>1, <2>2, HotplugAlone DEF Turns
    <3>2. CallOK(u)'
      BY <3>1 DEF IInv, CallOK
    <3>3. TodoOK(u)'
      BY <1>2, <1>3, <3>1, TodoFrame DEF IInv
    <3>4. HotOK(u)'
      BY <1>3, <3>1, QuietTodo, HotFrame DEF IInv
    <3>5. MachineOK(u)'
      BY <1>3, <3>1, MachineFrame DEF IInv, InStopCpus
    <3> QED
      BY <3>2, <3>3, <3>4, <3>5
  <2> QED
    BY <2>1, <2>2
<1>6. ASSUME NEW d \in CPUs PROVE StopperOK(d)' /\ WorksOK(d)' /\ EnabledOK(d)'
  <2>1. CASE d = c
    BY <2>1
  <2>2. CASE d # c
    <3>1. StopperOK(d)'
      BY <2>2 DEF IInv, StopperOK
    <3>2. \A u \in Tasks : GoesOn(u)
      <4> SUFFICES ASSUME NEW u \in Tasks PROVE GoesOn(u)
        OBVIOUS
      <4>1. CASE u = t
        BY <4>1 DEF GoesOn, IInv, TodoOK, WaitPcs
      <4>2. CASE u # t
        BY <1>1, <4>2 DEF GoesOn, IInv, TodoOK, WaitPcs, Turns
      <4> QED
        BY <4>1, <4>2
    <3>3. WorksOK(d)'
      BY <2>2, <3>2, WorksFrame DEF IInv
    <3>4. EnabledOK(d)'
      <4>1. d \in online => stopper[d].enabled
        BY <2>2, HotplugAlone DEF IInv, EnabledOK
      <4> QED
        BY <2>2, <4>1 DEF EnabledOK
    <3> QED
      BY <3>1, <3>3, <3>4
  <2> QED
    BY <2>1, <2>2
<1> QED
  BY <1>2, <1>4, <1>5, <1>6 DEF IInv

(* CPU_UP_PREPARE, refused or not. *)
LEMMA UpPrepareStep ==
  ASSUME IInv, NEW t \in Tasks, up_prepare(t)
  PROVE  IInv'
<1>0. PICK c \in CPUs : c = call[t].cpu
  BY CallPlace DEF CallOK, up_prepare
<1>1. /\ call[t].pc = "writer" /\ call[t].op = "up"
      /\ UNCHANGED <<online, stop_cpus_mutex, to_queue, done, smdata,
                     cpu_add_remove_lock, active_writer, lock, refcount, wstate>>
      /\ UNCHANGED hotplugVars
  BY DEF up_prepare, hotplugVars
<1>2. IsWriter(t)
  BY <1>1 DEF IsWriter, Starting
<1>3. /\ ~IsReader(t) /\ cpu_add_remove_lock = t /\ refcount \in Nat
      /\ (lock # NULL => refcount = 0) /\ HotOK(t) /\ CallOK(t)
      /\ lock = t /\ c \in CPUs
  BY <1>0, <1>1, <1>2, HotplugTask, CallPlace
<1>4. call[t].pc \notin WaitPcs \cup {"online"}
  BY <1>1 DEF WaitPcs
<1>5. ASSUME NEW l \in {"release", "BUG"}, goto(t, l), UNCHANGED stopper
      PROVE  IInv'
  <2>1. Turns(t, l, "up", c, call[t].err)
    <3>1. l \in CallPcs
      BY DEF CallPcs, Updating
    <3> QED
      BY <1>0, <1>1, <1>5, <3>1, Goto DEF IInv
  <2>2. ~IsReader(t)' /\ IsWriter(t)' /\ CallOK(t)'
    BY <1>3, <2>1 DEF Turns, IsReader, IsWriter, CallOK, Starting
  <2>3. HotOK(t)'
    BY <1>0, <1>1, <1>3, <2>1 DEF Turns, HotOK, InStopCpus, Starting
  <2>4. MachineOK(t)'
    BY <2>1, NoMachine DEF Turns
  <2>5. /\ refcount' \in Nat
        /\ refcount' = refcount + (IF IsReader(t)' THEN 1 ELSE 0) - (IF IsReader(t) THEN 1 ELSE 0)
    BY <1>1, <1>3, <2>2
  <2>6. HotTypes /\ l \notin WaitPcs
    BY <1>1, <1>5 DEF IInv, TypeOK, HotTypes, WaitPcs
  <2> QED
    BY <1>1, <1>3, <1>4, <1>5, <2>1, <2>2, <2>3, <2>4, <2>5, <2>6, TurnStep
<1>6. ASSUME NEW l \in {"arch", "kill"}, goto(t, l),
             stopper[c].pc = "exited", ~stopper[c].enabled, list_empty(stopper[c].works),
             stopper' = [stopper EXCEPT ![c] = [NoStopper EXCEPT !.pc = "created",
                                                 !.state = TASK_UNINTERRUPTIBLE]]
      PROVE  IInv'
  <2>1. l \in CallPcs /\ l \notin WaitPcs \cup {"stop_cpus"} /\ call[t].pc \notin WaitPcs
    BY <1>4 DEF CallPcs, Updating, WaitPcs
  <2>2. Turns(t, l, "up", c, call[t].err)
    BY <1>0, <1>1, <1>6, <2>1, Goto DEF IInv
  <2>3. Becomes(c, FALSE, << >>, "created", TASK_UNINTERRUPTIBLE, FALSE, NoWork, 0)
    BY <1>3, <1>6, HotSteps DEF IInv
  <2>4. stopper[c].work = NoWork
    BY <1>3, <1>6 DEF IInv, StopperOK
  <2>5. \A u \in Tasks : SameWork(c, u)
    BY <1>6, <2>3, <2>4, WorkTask DEF SameWork, Becomes, Running, Listed
  <2>6. IsWriter(t)' /\ CallOK(t)'
    BY <1>3, <2>2 DEF Turns, IsWriter, CallOK, Starting
  <2>7. HotOK(t)'
    <3>1. c \notin online
      BY <1>0, <1>1, <1>3 DEF HotOK
    <3> QED
      BY <1>1, <2>2, <2>3, <3>1 DEF Turns, HotOK, InStopCpus, Starting, Becomes, list_empty
  <2>8. StopperOK(c)'
    BY <2>3 DEF StopperOK, Becomes, STOPMACHINE_NONE, TASK_UNINTERRUPTIBLE, TASK_RUNNING
  <2>9. WorksOK(c)'
    BY <2>3 DEF WorksOK, Becomes
  <2>10. EnabledOK(c)'
    BY <1>0, <1>1, <1>3 DEF EnabledOK, HotOK
  <2> QED
    BY <1>0, <1>1, <1>2, <1>3, <1>6, <2>1, <2>3, <2>5, <2>6, <2>7, <2>8, <2>9, <2>10, HotplugStep
       DEF Becomes
<1> QED
  BY <1>0, <1>5, <1>6 DEF up_prepare

(* __cpu_up keeps the invariant: the new CPU has an idle stopper and no works. *)
LEMMA CpuUpStep ==
  ASSUME IInv, NEW t \in Tasks, __cpu_up(t)
  PROVE  IInv'
<1>1. /\ call[t].pc = "arch"
      /\ UNCHANGED <<stopper, stop_cpus_mutex, to_queue, done, smdata,
                     cpu_add_remove_lock, active_writer, lock, refcount, wstate>>
  BY DEF __cpu_up, hotplugVars
<1>2. call[t].op = "up" /\ IsWriter(t)
  BY <1>1, CallPlace DEF CallOK, Calls, IsWriter, Starting
<1>3. /\ ~IsReader(t) /\ cpu_add_remove_lock = t /\ refcount \in Nat
      /\ (lock # NULL => refcount = 0) /\ HotOK(t) /\ CallOK(t)
      /\ lock = t /\ call[t].cpu \in CPUs
  BY <1>1, <1>2, HotplugTask, CallPlace
<1>4. PICK l \in {"online", "kill"} :
        goto(t, l) /\ online' = IF l = "online" THEN online \cup {call[t].cpu} ELSE online
  BY DEF __cpu_up
<1>5. l \in CallPcs /\ l \notin WaitPcs \cup {"stop_cpus"} /\ call[t].pc \notin WaitPcs \cup {"online"}
  BY <1>1 DEF CallPcs, Updating, WaitPcs
<1>6. Turns(t, l, "up", call[t].cpu, call[t].err)
  BY <1>2, <1>4, <1>5, Goto DEF IInv
<1>7. ~IsReader(t)' /\ IsWriter(t)' /\ CallOK(t)'
  BY <1>3, <1>6 DEF Turns, IsReader, IsWriter, CallOK, Starting
<1>8. HotOK(t)'
  BY <1>1, <1>2, <1>3, <1>4, <1>6 DEF Turns, HotOK, InStopCpus, Starting
<1>9. MachineOK(t)'
  BY <1>6, NoMachine DEF Turns
<1>10. /\ refcount' \in Nat
       /\ refcount' = refcount + (IF IsReader(t)' THEN 1 ELSE 0) - (IF IsReader(t) THEN 1 ELSE 0)
  BY <1>1, <1>3, <1>7
<1>11. HotTypes
  BY <1>1 DEF IInv, TypeOK, HotTypes
<1>12. CASE l = "kill"
  BY <1>1, <1>2, <1>3, <1>4, <1>5, <1>6, <1>7, <1>8, <1>9, <1>10, <1>11, <1>12, TurnStep
<1>13. CASE l = "online"
  <2>1. online' = online \cup {call[t].cpu}
    BY <1>4, <1>13
  <2>2. TypeOK'
    BY <1>1, <1>3, <1>6, <1>10, <1>11, <2>1 DEF IInv, TypeOK, HotTypes, Turns
  <2>3. LocksInv'
    <3>1. \A u \in Tasks \ {t} : call'[u] = call[u]
      BY <1>6 DEF Turns
    <3>2. stop_cpus_mutex' = t <=> InStopCpus(t)'
      BY <1>1, <1>5, <1>6 DEF IInv, LocksInv, InStopCpus, WaitPcs, Turns
    <3>3. call'[t].pc # "stop_wait" /\ call'[t].op = "up"
      BY <1>13, <1>6 DEF Turns
    <3>4. \A u \in Tasks \ {t} : call[u].pc = "stop_wait" => to_queue' = {}
      BY <1>1 DEF IInv, LocksInv
    <3> QED
      BY <1>1, <1>3, <1>7, <1>10, <3>1, <3>2, <3>3, <3>4, LocksStep
  <2>4. \A u \in Tasks : Quiet(u)
    BY <1>1, StillQuiet
  <2>5. ASSUME NEW u \in Tasks PROVE CallOK(u)' /\ TodoOK(u)' /\ HotOK(u)' /\ MachineOK(u)'
    <3>1. CASE u = t
      <4>1. TodoOK(t)'
        BY <1>1, <1>5, <1>6, <2>2, <2>4, TodoFrame DEF IInv, Turns
      <4> QED
        BY <1>7, <1>8, <1>9, <3>1, <4>1
    <3>2. CASE u # t
      <4>1. call'[u] = call[u] /\ call[u].op = "none" /\ call[u].pc \in {"idle", "one_wait"}
        BY <1>2, <1>6, <3>2, WriterAlone DEF Turns
      <4>2. CallOK(u)' /\ HotOK(u)' /\ MachineOK(u)'
        BY <4>1, HotNone, NoMachine DEF CallOK
      <4>3. TodoOK(u)'
        BY <1>1, <2>2, <2>4, <4>1, TodoFrame DEF IInv
      <4> QED
        BY <4>2, <4>3
    <3> QED
      BY <3>1, <3>2
  <2>6. ASSUME NEW c \in CPUs PROVE StopperOK(c)' /\ WorksOK(c)' /\ EnabledOK(c)'
    <3>1. StopperOK(c)'
      BY <1>1 DEF IInv, StopperOK
    <3>2. \A u \in Tasks : GoesOn(u)
      <4> SUFFICES ASSUME NEW u \in Tasks PROVE GoesOn(u)
        OBVIOUS
      <4>1. CASE u = t
        BY <1>5, <4>1 DEF GoesOn, IInv, TodoOK, WaitPcs
      <4>2. CASE u # t
        BY <1>6, <4>2 DEF GoesOn, IInv, TodoOK, WaitPcs, Turns
      <4> QED
        BY <4>1, <4>2
    <3>3. WorksOK(c)'
      BY <1>1, <3>2, WorksFrame DEF IInv
    <3>4. EnabledOK(c)'
      <4>1. CASE c = call[t].cpu
        BY <1>13, <1>6, <4>1 DEF EnabledOK, Turns
      <4>2. CASE c # call[t].cpu
        <5>1. c \in online => stopper[c].enabled
          BY <1>2, <4>2, HotplugAlone DEF IInv, EnabledOK
        <5> QED
          BY <1>1, <2>1, <4>2, <5>1 DEF EnabledOK
      <4> QED
        BY <4>1, <4>2
    <3> QED
      BY <3>1, <3>3, <3>4
  <2> QED
    BY <2>2, <2>3, <2>5, <2>6 DEF IInv
<1> QED
  BY <1>12, <1>13

(* The CPU_ONLINE step keeps the invariant: the stopper is enabled. *)
LEMMA CpuOnlineStep ==
  ASSUME IInv, NEW t \in Tasks, cpu_online(t)
  PROVE  IInv'
<1>1. /\ call[t].pc = "online" /\ goto(t, "release")
      /\ UNCHANGED <<online, stop_cpus_mutex, to_queue, done, smdata>>
      /\ UNCHANGED hotplugVars
  BY DEF cpu_online
<1>2. call[t].op = "up" /\ call[t].cpu \in CPUs /\ HotOK(t) /\ IsWriter(t)
  BY <1>1, CallPlace DEF CallOK, Calls, IsWriter, Starting
<1>3. PICK c \in CPUs : c = call[t].cpu
  BY <1>2
<1>4. Turns(t, "release", "up", c, call[t].err)
  BY <1>1, <1>2, <1>3, Goto DEF IInv, CallPcs, Updating
<1>5. Becomes(c, TRUE, stopper[c].works, stopper[c].pc, TASK_RUNNING,
              stopper[c].should_stop, stopper[c].work, stopper[c].curstate)
  BY <1>3, HotSteps DEF IInv, cpu_online
<1>6. ~stopper[c].enabled /\ list_empty(stopper[c].works)
  BY <1>1, <1>2, <1>3 DEF HotOK
<1>7. DOMAIN stopper[c].works = {}
  BY <1>6, StopperType DEF IInv, list_empty
<1>8. \A u \in Tasks : SameWork(c, u)
  BY <1>5, <1>7 DEF SameWork, Becomes, Running, Listed
<1>9. CallOK(t)' /\ IsWriter(t)' /\ HotOK(t)'
  BY <1>3, <1>4 DEF Turns, IsWriter, CallOK, Starting, HotOK, InStopCpus
<1>10. StopperOK(c)'
  BY <1>5 DEF IInv, StopperOK, Becomes
<1>11. WorksOK(c)'
  <2>1. stopper[c].work = NoWork
    BY <1>6 DEF IInv, StopperOK
  <2> QED
    BY <1>5, <1>7, <2>1 DEF WorksOK, Becomes
<1>12. EnabledOK(c)'
  BY <1>5 DEF EnabledOK, Becomes
<1>13. "release" \in CallPcs /\ "release" \notin WaitPcs \cup {"stop_cpus"} /\ call[t].pc \notin WaitPcs
  BY <1>1 DEF CallPcs, Updating, WaitPcs
<1> QED
  BY <1>1, <1>2, <1>3, <1>5, <1>8, <1>9, <1>10, <1>11, <1>12, <1>13, HotplugStep DEF Becomes

(* kthread_stop of a dead CPU's stopper keeps the invariant: nobody waits for its works. *)
LEMMA KthreadStopStep ==
  ASSUME IInv, NEW t \in Tasks, kthread_stop(t)
  PROVE  IInv'
<1>1. /\ call[t].pc = "kill" /\ goto(t, "kill_wait")
      /\ UNCHANGED <<online, stop_cpus_mutex, to_queue, done, smdata>>
      /\ UNCHANGED hotplugVars
  BY DEF kthread_stop
<1>2. call[t].op \in {"down", "up"} /\ call[t].cpu \in CPUs /\ HotOK(t)
  BY <1>1, CallPlace DEF CallOK, Calls
<1>3. PICK c \in CPUs : c = call[t].cpu
  BY <1>2
<1>4. Turns(t, "kill_wait", call[t].op, c, call[t].err)
  BY <1>1, <1>2, <1>3, Goto DEF IInv, CallPcs, Updating
<1>5. Becomes(c, stopper[c].enabled, stopper[c].works, stopper[c].pc, TASK_RUNNING,
              TRUE, stopper[c].work, stopper[c].curstate)
  BY <1>3, HotSteps DEF IInv, kthread_stop
<1>6. \A u \in Tasks : SameWork(c, u)
  BY <1>5 DEF SameWork, Becomes, Running, Listed
<1>7. CallOK(t)' /\ (IsWriter(t)' <=> IsWriter(t))
  BY <1>1, <1>2, <1>3, <1>4 DEF Turns, IsWriter, CallOK, Starting
<1>8. HotOK(t)'
  BY <1>1, <1>2, <1>3, <1>4, <1>5 DEF Turns, HotOK, InStopCpus, Becomes, Starting
<1>9. StopperOK(c)'
  BY <1>5 DEF IInv, StopperOK, Becomes
<1>10. WorksOK(c)'
  <2>1. \A u \in Tasks : GoesOn(u)
    <3> SUFFICES ASSUME NEW u \in Tasks PROVE GoesOn(u)
      OBVIOUS
    <3>1. CASE u = t
      BY <1>1, <3>1 DEF GoesOn, IInv, TodoOK, WaitPcs
    <3>2. CASE u # t
      BY <1>4, <3>2 DEF GoesOn, IInv, TodoOK, WaitPcs, Turns
    <3> QED
      BY <3>1, <3>2
  <2> QED
    BY <1>5, <2>1, WorksFrame DEF IInv, Becomes
<1>11. EnabledOK(c)'
  <2>1. c \in online => stopper[c].enabled
    BY <1>1, <1>2, HotplugAlone DEF IInv, EnabledOK
  <2> QED
    BY <1>1, <1>5, <2>1 DEF EnabledOK, Becomes
<1>12. /\ "kill_wait" \in CallPcs /\ "kill_wait" \notin WaitPcs \cup {"stop_cpus"}
        /\ call[t].pc \notin WaitPcs
  BY <1>1 DEF CallPcs, Updating, WaitPcs
<1> QED
  BY <1>1, <1>2, <1>3, <1>5, <1>6, <1>7, <1>8, <1>9, <1>10, <1>11, <1>12, HotplugStep DEF Becomes

(* The stopper has exited on the way up: nothing is left on its list. *)
LEMMA CanceledStep ==
  ASSUME IInv, NEW t \in Tasks, stopper_exited(t), call[t].op # "down"
  PROVE  IInv'
<1>1. /\ call[t].pc = "kill_wait" /\ goto(t, "release") /\ drain(call[t].cpu)
      /\ UNCHANGED <<online, stop_cpus_mutex, to_queue, smdata, cpu_add_remove_lock,
                     active_writer, lock, refcount, wstate>>
  BY DEF stopper_exited
<1>2. call[t].op = "up" /\ IsWriter(t)
  BY <1>1, CallPlace DEF CallOK, Calls, IsWriter, Starting
<1>3. /\ ~IsReader(t) /\ cpu_add_remove_lock = t /\ refcount \in Nat
      /\ (lock # NULL => refcount = 0) /\ HotOK(t) /\ CallOK(t)
      /\ lock = t /\ call[t].cpu \in CPUs
  BY <1>1, <1>2, HotplugTask, CallPlace
<1>4. PICK c \in CPUs : c = call[t].cpu
  BY <1>3
<1>5. ~stopper[c].enabled /\ list_empty(stopper[c].works)
  BY <1>1, <1>2, <1>3, <1>4 DEF HotOK
<1>6. stopper' = stopper
  <2>1. stopper[c].enabled = FALSE /\ stopper[c] \in Stoppers
    BY <1>5, StopperType DEF IInv
  <2>2. [stopper[c] EXCEPT !.enabled = FALSE] = stopper[c]
    BY <2>1 DEF Stoppers
  <2>3. stopper' = [stopper EXCEPT ![c] = [stopper[c] EXCEPT !.enabled = FALSE]]
    BY <1>1, <1>4 DEF drain
  <2> QED
    BY <2>2, <2>3 DEF IInv, TypeOK
<1>7. done' = done
  <2>1. Entries(stopper[c].works) = {}
    BY <1>5, StopperType, EmptyEntries DEF IInv
  <2>2. done' = [u \in Tasks |-> done[u]]
    BY <1>1, <1>4, <2>1 DEF drain
  <2> QED
    BY <2>2 DEF IInv, TypeOK
<1>8. Turns(t, "release", "up", call[t].cpu, call[t].err)
  BY <1>1, <1>2, Goto DEF IInv, CallPcs, Updating
<1>9. ~IsReader(t)' /\ IsWriter(t)' /\ CallOK(t)' /\ HotOK(t)'
  BY <1>3, <1>8 DEF Turns, IsReader, IsWriter, CallOK, Starting, HotOK, InStopCpus
<1>10. MachineOK(t)'
  BY <1>8, NoMachine DEF Turns
<1>11. /\ refcount' \in Nat
       /\ refcount' = refcount + (IF IsReader(t)' THEN 1 ELSE 0) - (IF IsReader(t) THEN 1 ELSE 0)
  BY <1>1, <1>3, <1>9
<1>12. HotTypes
  BY <1>1 DEF IInv, TypeOK, HotTypes
<1>13. call[t].pc \notin WaitPcs \cup {"online"} /\ "release" \notin WaitPcs
  BY <1>1 DEF WaitPcs
<1> QED
  BY <1>1, <1>2, <1>3, <1>6, <1>7, <1>8, <1>9, <1>10, <1>11, <1>12, <1>13, TurnStep

(* One of the CPUs that t waits for is done. *)
LEMMA Signalled ==
  ASSUME TypeOK, NEW t \in Tasks, NEW executed \in BOOLEAN, done[t].nr_todo >= 1
  PROVE  LET d == cpu_stop_signal_done(done[t], executed)
         IN  /\ d \in Dones /\ d.nr_todo = done[t].nr_todo - 1
             /\ d.completed <=> done[t].nr_todo = 1
<1> DEFINE d == cpu_stop_signal_done(done[t], executed)
<1>1. done[t] \in Dones
  BY DEF TypeOK
<1>2. PICK e \in BOOLEAN, f \in BOOLEAN :
        e = (done[t].executed \/ executed) /\ f = (done[t].nr_todo = 1)
  BY Zenon
<1>3. d = [nr_todo |-> done[t].nr_todo - 1, executed |-> e, completed |-> f]
  BY <1>2, Zenon DEF cpu_stop_signal_done
<1>4. done[t].nr_todo - 1 \in Nat
  BY <1>1 DEF Dones
<1>5. d \in Dones
  BY <1>3, <1>4 DEF Dones
<1>6. d.nr_todo = done[t].nr_todo - 1 /\ d.completed = f
  BY <1>3
<1>7. d.completed <=> done[t].nr_todo = 1
  BY <1>2, <1>6, Zenon
<1> QED
  BY <1>5, <1>6, <1>7

(* The stopper of a dead CPU has exited: the works it has left belong to   *)
(* callers of stop_one_cpu(), who are told that they were not executed.    *)
LEMMA DeadStep ==
  ASSUME IInv, NEW t \in Tasks, stopper_exited(t), call[t].op = "down"
  PROVE  IInv'
<1>1. /\ call[t].pc = "kill_wait" /\ drain(call[t].cpu) /\ stopper[call[t].cpu].pc = "exited"
      /\ call' = [call EXCEPT ![t] = Idle] /\ cpu_add_remove_lock' = NULL
      /\ UNCHANGED <<online, stop_cpus_mutex, to_queue, smdata, active_writer, lock,
                     refcount, wstate>>
  BY DEF stopper_exited
<1>2. /\ ~IsReader(t) /\ cpu_add_remove_lock = t /\ refcount \in Nat
      /\ (lock # NULL => refcount = 0) /\ HotOK(t) /\ CallOK(t)
      /\ ~IsWriter(t) /\ lock # t /\ call[t].cpu \in CPUs
  BY <1>1, HotplugTask, CallPlace DEF IsWriter
<1>3. PICK c \in CPUs : c = call[t].cpu
  BY <1>2
<1>4. stopper[c].enabled /\ c \notin online /\ stopper[c].work = NoWork
  BY <1>1, <1>2, <1>3 DEF HotOK, IInv, StopperOK
<1>5. Becomes(c, FALSE, stopper[c].works, "exited", stopper[c].state,
              stopper[c].should_stop, NoWork, stopper[c].curstate)
  BY <1>1, <1>3, <1>4, HotSteps DEF IInv, drain
<1>6. Turns(t, "idle", "none", NULL, FALSE)
  BY <1>1, Begins DEF IInv, CallPcs
<1>7. \A u \in Tasks : ~(stop_cpus_mutex = u /\ c \in to_queue)
  <2> SUFFICES ASSUME NEW u \in Tasks, stop_cpus_mutex = u, c \in to_queue PROVE FALSE
    OBVIOUS
  <2>1. InStopCpus(u) /\ c \in Todo(u)
    BY DEF IInv, LocksInv, Todo
  <2>2. u # t
    BY <1>1, <2>1 DEF InStopCpus
  <2>3. call[u].op # "down"
    BY <2>2, HotplugAlone
  <2> QED
    BY <1>4, <2>1, <2>3, CallPlace DEF HotOK, Involved
<1>8. \A u \in Tasks : Todo(u)' = Todo(u) \ {c}
  <2> SUFFICES ASSUME NEW u \in Tasks PROVE Todo(u)' = Todo(u) \ {c}
    OBVIOUS
  <2>1. \A d \in CPUs \ {c} : (Running(d, u)' <=> Running(d, u)) /\ (Listed(d, u)' <=> Listed(d, u))
    BY <1>5 DEF Becomes, Running, Listed
  <2>2. ~Running(c, u)' /\ ~Listed(c, u)'
    BY <1>5, WorkTask DEF Becomes, Running, Listed
  <2> QED
    BY <1>1, <1>7, <2>1, <2>2 DEF Todo
<1>9. \A u \in Tasks : (\E w \in Entries(stopper[c].works) : w[2] = u) <=> c \in Todo(u)
  <2> SUFFICES ASSUME NEW u \in Tasks
               PROVE  (\E w \in Entries(stopper[c].works) : w[2] = u) <=> c \in Todo(u)
    OBVIOUS
  <2>1. (\E w \in Entries(stopper[c].works) : w[2] = u) <=> Listed(c, u)
    BY <1>4 DEF Entries, Listed
  <2>2. ~Running(c, u)
    BY <1>4, WorkTask DEF Running
  <2> QED
    BY <1>7, <2>1, <2>2 DEF Todo
<1>10. done' = [u \in Tasks |-> IF c \in Todo(u) THEN cpu_stop_signal_done(done[u], FALSE) ELSE done[u]]
  BY <1>1, <1>3, <1>9 DEF drain
<1>11. ASSUME NEW u \in Tasks, c \in Todo(u)
       PROVE  /\ u # t /\ call[u].op = "none" /\ call[u].pc = "one_wait"
              /\ done[u].nr_todo = Cardinality(Todo(u)) /\ done[u].nr_todo >= 1
              /\ Cardinality(Todo(u) \ {c}) = done[u].nr_todo - 1
  <2>1. call[u].pc \in WaitPcs /\ done[u].nr_todo = Cardinality(Todo(u))
    BY <1>11 DEF IInv, TodoOK, WaitPcs
  <2>2. u # t
    BY <1>1, <2>1 DEF WaitPcs
  <2>3. call[u].op \notin {"down", "up"}
    BY <2>2, HotplugAlone
  <2>4. ~InStopCpus(u)
    BY <1>4, <1>11, <2>3, CallPlace DEF HotOK, Involved
  <2>5. call[u].pc = "one_wait"
    BY <2>1, <2>4 DEF InStopCpus, WaitPcs
  <2>6. call[u].op = "none"
    BY <2>3, <2>5, CallPlace DEF CallOK, Calls
  <2>7. Cardinality(Todo(u)) >= 1 /\ Cardinality(Todo(u) \ {c}) = Cardinality(Todo(u)) - 1
    BY <1>11, CpuCount, TodoCpus
  <2> QED
    BY <2>1, <2>2, <2>5, <2>6, <2>7
<1>12. ASSUME NEW u \in Tasks, c \notin Todo(u)
       PROVE  Quiet(u) /\ done'[u] = done[u]
  <2>1. ~Running(c, u) /\ ~Listed(c, u) /\ ~Running(c, u)' /\ ~Listed(c, u)'
    BY <1>5, <1>12, WorkTask DEF Todo, Becomes, Running, Listed
  <2>2. \A d \in CPUs : SameWork(d, u)
    BY <1>5, <2>1 DEF Becomes, SameWork, Running, Listed
  <2> QED
    BY <1>1, <1>10, <1>12, <2>2 DEF Quiet, SameQueue
<1>13. TypeOK'
  <2>1. \A u \in Tasks : done'[u] \in Dones
    <3> SUFFICES ASSUME NEW u \in Tasks PROVE done'[u] \in Dones
      OBVIOUS
    <3>1. CASE c \in Todo(u)
      BY <1>10, <1>11, <3>1, Signalled DEF IInv
    <3>2. CASE c \notin Todo(u)
      BY <1>10, <3>2 DEF IInv, TypeOK
    <3> QED
      BY <3>1, <3>2
  <2>2. done' \in [Tasks -> Dones]
    BY <1>10, <2>1
  <2> QED
    BY <1>1, <1>5, <1>6, <2>2 DEF IInv, TypeOK, Becomes, Turns
<1>14. LocksInv'
  <2>1. /\ \A u \in Tasks \ {t} : call'[u] = call[u]
        /\ call'[t].pc = "idle" /\ call'[t].op = "none"
    BY <1>6 DEF Turns
  <2>2. ~IsReader(t)' /\ ~IsWriter(t)' /\ ~InStopCpus(t)' /\ ~InStopCpus(t)
    BY <1>1, <2>1 DEF IsReader, IsWriter, InStopCpus
  <2>3. refcount' = refcount + (IF IsReader(t)' THEN 1 ELSE 0) - (IF IsReader(t) THEN 1 ELSE 0)
    BY <1>1, <1>2, <2>2
  <2>4. \A u \in Tasks \ {t} : /\ cpu_add_remove_lock' = u <=> cpu_add_remove_lock = u
                               /\ lock' = u <=> lock = u
                               /\ stop_cpus_mutex' = u <=> stop_cpus_mutex = u
                               /\ call[u].pc = "stop_wait" => to_queue' = {}
    BY <1>1, <1>2, CpuStopAssumption DEF IInv, LocksInv
  <2>5. cpu_add_remove_lock' # t /\ lock' # t /\ stop_cpus_mutex' # t
        /\ (lock' # NULL => refcount' = 0)
    BY <1>1, <1>2, <2>2, CpuStopAssumption DEF IInv, LocksInv
  <2> QED
    BY <2>1, <2>2, <2>3, <2>4, <2>5, LocksStep
<1>15. ASSUME NEW u \in Tasks PROVE CallOK(u)' /\ TodoOK(u)' /\ HotOK(u)' /\ MachineOK(u)'
  <2>1. CASE u = t
    <3>1. c \notin Todo(t)
      BY <1>11
    <3>2. CallOK(t)' /\ HotOK(t)' /\ MachineOK(t)'
      BY <1>6, NoMachine DEF Turns, CallOK, HotOK, InStopCpus
    <3>3. TodoOK(t)'
      <4>1. Todo(t) = {}
        BY <1>1 DEF IInv, TodoOK
      <4>2. Todo(t)' = {} /\ done'[t] = done[t]
        BY <1>8, <1>12, <3>1, <4>1
      <4>3. call'[t].pc \notin WaitPcs
        BY <1>6 DEF Turns, WaitPcs
      <4> QED
        BY <1>13, <4>2, <4>3, TodoIdle DEF IInv, TodoOK
    <3> QED
      BY <2>1, <3>2, <3>3
  <2>2. CASE u # t /\ c \in Todo(u)
    <3>1. call'[u] = call[u] /\ call[u].op = "none" /\ call[u].pc = "one_wait"
      BY <1>6, <1>11, <2>2 DEF Turns
    <3>2. CallOK(u)' /\ HotOK(u)' /\ MachineOK(u)'
      BY <3>1, HotNone, NoMachine DEF CallOK
    <3>3. done'[u] = cpu_stop_signal_done(done[u], FALSE)
      BY <1>10, <2>2
    <3>4. /\ done'[u].nr_todo = Cardinality(Todo(u)')
          /\ done'[u].completed => done'[u].nr_todo = 0
      <4>1. /\ done[u].nr_todo >= 1 /\ Cardinality(Todo(u)') = done[u].nr_todo - 1
        BY <1>8, <1>11, <2>2
      <4>2. /\ done'[u].nr_todo = done[u].nr_todo - 1
            /\ done'[u].completed <=> done[u].nr_todo = 1
        BY <3>3, <4>1, Signalled DEF IInv
      <4> QED
        BY <4>1, <4>2
    <3>5. stop_cpus_mutex' # u
      BY <1>1, <3>1 DEF IInv, LocksInv, InStopCpus
    <3>6. TodoOK(u)'
      BY <3>1, <3>4, <3>5 DEF TodoOK
    <3> QED
      BY <3>2, <3>6
  <2>3. CASE u # t /\ c \notin Todo(u)
    <3>1. call'[u] = call[u] /\ Quiet(u) /\ done'[u] = done[u]
      BY <1>6, <1>12, <2>3 DEF Turns
    <3>2. CallOK(u)'
      BY <3>1 DEF IInv, CallOK
    <3>3. TodoOK(u)'
      BY <1>13, <3>1, TodoFrame DEF IInv
    <3>4. HotOK(u)'
      BY <1>1, <2>3, <3>1, HotplugAlone, QuietTodo, HotFrame DEF IInv
    <3>5. MachineOK(u)'
      BY <1>1, <3>1, MachineFrame DEF IInv, InStopCpus
    <3> QED
      BY <3>2, <3>3, <3>4, <3>5
  <2> QED
    BY <2>1, <2>2, <2>3
<1>16. ASSUME NEW d \in CPUs PROVE StopperOK(d)' /\ WorksOK(d)' /\ EnabledOK(d)'
  <2>1. CASE d = c
    <3>1. stopper[c].curstate = STOPMACHINE_NONE
      BY <1>1, <1>3 DEF IInv, StopperOK
    <3>2. StopperOK(c)'
      BY <1>5, <3>1 DEF StopperOK, Becomes
    <3>3. WorksOK(c)'
      BY <1>5 DEF WorksOK, Becomes
    <3>4. EnabledOK(c)'
      BY <1>1, <1>4 DEF EnabledOK
    <3> QED
      BY <2>1, <3>2, <3>3, <3>4
  <2>2. CASE d # c
    <3>0. stopper'[d] = stopper[d]
      BY <1>5, <2>2 DEF Becomes
    <3>1. StopperOK(d)'
      BY <3>0 DEF IInv, StopperOK
    <3>2. \A u \in Tasks : GoesOn(u)
      <4> SUFFICES ASSUME NEW u \in Tasks PROVE GoesOn(u)
        OBVIOUS
      <4>1. CASE u = t
        BY <1>1, <4>1 DEF GoesOn, IInv, TodoOK
      <4>2. CASE u # t
        BY <1>6, <4>2 DEF GoesOn, IInv, TodoOK, WaitPcs, Turns
      <4> QED
        BY <4>1, <4>2
    <3>3. WorksOK(d)'
      BY <3>0, <3>2, WorksFrame DEF IInv
    <3>4. EnabledOK(d)'
      <4>1. d \in online => stopper[d].enabled
        BY <1>1, HotplugAlone DEF IInv, EnabledOK
      <4> QED
        BY <1>1, <3>0, <4>1 DEF EnabledOK
    <3> QED
      BY <3>1, <3>3, <3>4
  <2> QED
    BY <2>1, <2>2
<1> QED
  BY <1>13, <1>14, <1>15, <1>16 DEF IInv
-----------------------------------------------------------------------------
(* A work of t goes to the list of c. *)
LEMMA Enqueued ==
  ASSUME IInv, NEW c \in CPUs, NEW t \in Tasks, NEW w \in Works, w[2] = t,
         stopper[c].enabled, ~Running(c, t), ~Listed(c, t),
         Becomes(c, TRUE, Append(stopper[c].works, w), stopper[c].pc, TASK_RUNNING,
                 stopper[c].should_stop, stopper[c].work, stopper[c].curstate)
  PROVE  /\ \A u \in Tasks, d \in CPUs : u # t \/ d # c => SameWork(d, u)
         /\ ~Running(c, t)' /\ Listed(c, t)'
         /\ \A d \in CPUs : /\ StopperOK(d)'
                            /\ stopper'[d].enabled = stopper[d].enabled
<1> DEFINE q == stopper[c].works
<1>1. /\ stopper'[c].enabled = TRUE /\ stopper'[c].works = Append(q, w)
      /\ stopper'[c].pc = stopper[c].pc /\ stopper'[c].work = stopper[c].work
      /\ stopper'[c].curstate = stopper[c].curstate
      /\ stopper'[c].should_stop = stopper[c].should_stop
      /\ \A d \in CPUs \ {c} : stopper'[d] = stopper[d]
  BY DEF Becomes
<1>2. /\ DOMAIN Append(q, w) = DOMAIN q \cup {Len(q) + 1}
      /\ \A i \in DOMAIN q : Append(q, w)[i] = q[i]
      /\ Append(q, w)[Len(q) + 1] = w
  <2>1. PICK r \in Seq(Works) : r = q
    BY StopperType DEF IInv
  <2> HIDE DEF q
  <2>2. /\ DOMAIN Append(r, w) = DOMAIN r \cup {Len(r) + 1}
        /\ \A i \in DOMAIN r : Append(r, w)[i] = r[i]
        /\ Append(r, w)[Len(r) + 1] = w
    OBVIOUS
  <2> QED
    BY <2>1, <2>2
<1>3. ASSUME NEW u \in Tasks, NEW d \in CPUs, u # t \/ d # c PROVE SameWork(d, u)
  <2>1. CASE d # c
    BY <1>1, <2>1 DEF SameWork, Running, Listed
  <2>2. CASE d = c
    <3>1. u # t
      BY <1>3, <2>2
    <3>2. Listed(c, u)' <=> Listed(c, u)
      BY <1>1, <1>2, <3>1 DEF Listed
    <3> QED
      BY <1>1, <2>2, <3>2 DEF SameWork, Running
  <2> QED
    BY <2>1, <2>2
<1>4. ~Running(c, t)' /\ Listed(c, t)'
  BY <1>1, <1>2 DEF Running, Listed
<1>5. ASSUME NEW d \in CPUs
      PROVE  StopperOK(d)' /\ stopper'[d].enabled = stopper[d].enabled
  <2>1. CASE d # c
    BY <1>1, <2>1 DEF IInv, StopperOK
  <2>2. CASE d = c
    <3>1. stopper[c].enabled = TRUE
      BY StopperType DEF IInv
    <3> QED
      BY <1>1, <2>2, <3>1 DEF IInv, StopperOK
  <2> QED
    BY <2>1, <2>2
<1> QED
  BY <1>3, <1>4, <1>5

(* Who waits for a CPU goes on doing so. *)
LEMMA WaitsOn ==
  ASSUME NEW u, GoesOn(u), NEW c, c \in Todo(u), NEW k, Waits(u, k)
  PROVE  Waits(u, k)'
BY DEF GoesOn, Waits, WaitPcs

(* ... and its task waits for it. *)
LEMMA EnqueuedWorks ==
  ASSUME IInv, NEW c \in CPUs, NEW t \in Tasks, NEW w \in Works, w[2] = t,
         stopper[c].enabled, ~Running(c, t), ~Listed(c, t),
         Becomes(c, TRUE, Append(stopper[c].works, w), stopper[c].pc, TASK_RUNNING,
                 stopper[c].should_stop, stopper[c].work, stopper[c].curstate),
         \A u \in Tasks : GoesOn(u), Waits(t, w[1])'
  PROVE  \A d \in CPUs : WorksOK(d)'
<1>0. PICK q \in Seq(Works), v \in Works \cup {NoWork} : q = stopper[c].works /\ v = stopper[c].work
  BY StopperType DEF IInv
<1>1. /\ stopper'[c].enabled = TRUE /\ stopper'[c].works = Append(q, w)
      /\ stopper'[c].work = v
      /\ \A d \in CPUs \ {c} : stopper'[d] = stopper[d]
  BY <1>0 DEF Becomes
<1>2. /\ DOMAIN Append(q, w) = DOMAIN q \cup {Len(q) + 1}
      /\ \A i \in DOMAIN q : Append(q, w)[i] = q[i]
      /\ Append(q, w)[Len(q) + 1] = w /\ Len(q) + 1 \notin DOMAIN q
  OBVIOUS
<1>3. \A d \in CPUs \ {c} : WorksOK(d)'
  BY <1>1, WorksFrame DEF IInv
<1>4. WorksOK(c)'
  <2>1. ASSUME v # NoWork
        PROVE  Waits(v[2], v[1])'
    <3>1. v[2] \in Tasks /\ c \in Todo(v[2]) /\ Waits(v[2], v[1])
      BY <1>0, <2>1, WorkTask DEF Todo, Running, IInv, WorksOK
    <3> QED
      BY <3>1, WaitsOn
  <2>2. ASSUME NEW i \in DOMAIN q
        PROVE  Waits(q[i][2], q[i][1])' /\ ~Running(c, q[i][2])' /\ q[i][2] # t
    <3>1. q[i][2] \in Tasks
      BY WorkTask
    <3>2. c \in Todo(q[i][2]) /\ Waits(q[i][2], q[i][1]) /\ ~Running(c, q[i][2])
      BY <1>0 DEF Todo, Listed, IInv, WorksOK
    <3>3. Waits(q[i][2], q[i][1])'
      BY <3>1, <3>2, WaitsOn
    <3> QED
      BY <1>0, <1>1, <3>2, <3>3 DEF Running, Listed
  <2>3. \A i, j \in DOMAIN q : q[i][2] = q[j][2] => i = j
    BY <1>0 DEF IInv, WorksOK
  <2>4. ~Running(c, t)'
    BY <1>0, <1>1 DEF Running
  <2>5. ASSUME NEW i \in DOMAIN Append(q, w)
        PROVE  /\ Waits(Append(q, w)[i][2], Append(q, w)[i][1])'
               /\ ~Running(c, Append(q, w)[i][2])'
               /\ \A j \in DOMAIN Append(q, w) :
                    Append(q, w)[i][2] = Append(q, w)[j][2] => i = j
    <3>1. CASE i \in DOMAIN q
      BY <1>2, <2>2, <2>3, <3>1
    <3>2. CASE i = Len(q) + 1
      BY <1>2, <2>2, <2>3, <2>4, <3>2
    <3> QED
      BY <1>2, <3>1, <3>2
  <2> QED
    BY <1>1, <2>1, <2>5 DEF WorksOK
<1> QED
  BY <1>3, <1>4

(* The rest of a step of t that leaves the online mask and hotplug alone:  *)
(* what is left to show is about t itself and about the stoppers.          *)
LEMMA WaitStep ==
  ASSUME IInv, NEW t \in Tasks, NEW l, Turns(t, l, call[t].op, call[t].cpu, call[t].err),
         UNCHANGED online, UNCHANGED hotplugVars, TypeOK',
         \A u \in Tasks \ {t} : Quiet(u) /\ done'[u] = done[u] /\ smdata'[u] = smdata[u],
         \A u \in Tasks \ {t} : /\ stop_cpus_mutex' = u <=> stop_cpus_mutex = u
                                /\ call[u].pc = "stop_wait" => to_queue' = {},
         stop_cpus_mutex' = t <=> InStopCpus(t)',
         call'[t].pc = "stop_wait" => to_queue' = {},
         call[t].pc # "online",
         IsReader(t)' <=> IsReader(t), IsWriter(t)' <=> IsWriter(t),
         \A d \in CPUs : StopperOK(d)' /\ WorksOK(d)' /\ stopper'[d].enabled = stopper[d].enabled,
         \A d \in CPUs : ~stopper[d].enabled => stopper'[d].works = stopper[d].works,
         CallOK(t)', TodoOK(t)', HotOK(t)', MachineOK(t)'
  PROVE  IInv'
<1>1. /\ \A u \in Tasks \ {t} : call'[u] = call[u]
      /\ call'[t].pc = l /\ call'[t].op = call[t].op
  BY DEF Turns
<1>2. LocksInv'
  <2>1. refcount \in Nat /\ refcount' = refcount /\ lock' = lock
        /\ cpu_add_remove_lock' = cpu_add_remove_lock
    BY DEF IInv, TypeOK, hotplugVars
  <2>2. refcount' = refcount + (IF IsReader(t)' THEN 1 ELSE 0) - (IF IsReader(t) THEN 1 ELSE 0)
    BY <2>1 DEF IsReader
  <2>3. /\ cpu_add_remove_lock = t <=> call[t].op \in {"down", "up"}
        /\ lock = t <=> IsWriter(t)
        /\ lock # NULL => refcount = 0
    BY DEF IInv, LocksInv
  <2> QED
    BY <1>1, <2>1, <2>2, <2>3, LocksStep
<1>3. ASSUME NEW u \in Tasks PROVE CallOK(u)' /\ TodoOK(u)' /\ HotOK(u)' /\ MachineOK(u)'
  <2>1. CASE u = t
    BY <2>1
  <2>2. CASE u # t
    <3>1. call'[u] = call[u] /\ smdata'[u] = smdata[u] /\ done'[u] = done[u] /\ Quiet(u)
      BY <1>1, <2>2
    <3>2. CallOK(u)'
      BY <3>1 DEF IInv, CallOK
    <3>3. TodoOK(u)'
      BY <3>1, TodoFrame DEF IInv
    <3>4. HotOK(u)'
      <4>1. call[u].op \in {"down", "up"} => call[u].cpu \in CPUs
        BY CallPlace DEF CallOK
      <4> QED
        BY <3>1, <4>1, QuietTodo, HotFrame DEF IInv
    <3>5. MachineOK(u)'
      BY <3>1, MachineFrame DEF IInv, InStopCpus
    <3> QED
      BY <3>2, <3>3, <3>4, <3>5
  <2> QED
    BY <2>1, <2>2
<1>4. ASSUME NEW d \in CPUs PROVE EnabledOK(d)'
  <2>1. \A u \in Tasks : call[u].pc = "online" => call'[u] = call[u]
    BY <1>1
  <2> QED
    BY <2>1, EnabledFrame DEF IInv
<1> QED
  BY <1>2, <1>3, <1>4 DEF IInv

(* stop_one_cpu keeps the invariant, whether the stopper takes the work or not. *)
LEMMA StopOneCpuStep ==
  ASSUME IInv, NEW t \in Tasks, NEW c \in CPUs, stop_one_cpu(t, c), UNCHANGED hotplugVars
  PROVE  IInv'
<1> DEFINE w == <<"one", t>>
<1>1. /\ call[t].pc = "idle" /\ goto(t, "one_wait")
      /\ cpu_stop_queue_work(c, w, t, cpu_stop_init_done(1))
      /\ UNCHANGED <<online, stop_cpus_mutex, to_queue, smdata>>
  BY DEF stop_one_cpu
<1>2. /\ call[t].op = "none" /\ Todo(t) = {} /\ stop_cpus_mutex # t
       /\ w \in Works /\ w[2] = t /\ w[1] = "one"
  BY <1>1, CallPlace DEF CallOK, Starting, Calls, IInv, TodoOK, LocksInv, InStopCpus, Works
<1>3. Turns(t, "one_wait", call[t].op, call[t].cpu, call[t].err)
  BY <1>1, Goto DEF IInv, CallPcs, Reading, Stopping
<1>4. \A d \in CPUs : ~Running(d, t) /\ ~Listed(d, t)
  BY <1>2 DEF Todo
<1>5. CallOK(t)' /\ HotOK(t)' /\ MachineOK(t)' /\ ~InStopCpus(t)' /\ call'[t].pc # "stop_wait"
  BY <1>2, <1>3, NoMachine DEF Turns, CallOK, HotOK, InStopCpus
<1>6. (IsReader(t)' <=> IsReader(t)) /\ (IsWriter(t)' <=> IsWriter(t))
  BY <1>2, <1>3 DEF Turns, IsReader, IsWriter
<1>7. /\ \A u \in Tasks \ {t} : /\ stop_cpus_mutex' = u <=> stop_cpus_mutex = u
                                /\ call[u].pc = "stop_wait" => to_queue' = {}
      /\ stop_cpus_mutex' = t <=> InStopCpus(t)'
      /\ call[t].pc # "online"
  BY <1>1, <1>2, <1>5 DEF IInv, LocksInv
<1>8. /\ cpu_stop_init_done(1) \in Dones
      /\ cpu_stop_init_done(1).nr_todo = 1 /\ cpu_stop_init_done(1).completed = FALSE
  BY DEF cpu_stop_init_done, Dones
<1>9. \A u \in Tasks : GoesOn(u)
  <2> SUFFICES ASSUME NEW u \in Tasks PROVE GoesOn(u)
    OBVIOUS
  <2>1. CASE u = t
    BY <1>2, <2>1 DEF GoesOn
  <2>2. CASE u # t
    BY <1>3, <2>2 DEF GoesOn, IInv, TodoOK, WaitPcs, Turns
  <2> QED
    BY <2>1, <2>2
<1> HIDE DEF w
<1>10. CASE stopper[c].enabled
  <2>1. /\ Becomes(c, TRUE, Append(stopper[c].works, w), stopper[c].pc, TASK_RUNNING,
                   stopper[c].should_stop, stopper[c].work, stopper[c].curstate)
        /\ done' = [done EXCEPT ![t] = cpu_stop_init_done(1)]
    <3>1. PICK d \in Dones : d = cpu_stop_init_done(1)
      BY <1>8
    <3>2. cpu_stop_queue_work(c, w, t, d) /\ TypeOK
      BY <1>1, <3>1 DEF IInv
    <3>3. w \in Works
      BY <1>2
    <3>4. /\ Becomes(c, TRUE, Append(stopper[c].works, w), stopper[c].pc, TASK_RUNNING,
                      stopper[c].should_stop, stopper[c].work, stopper[c].curstate)
          /\ done' = [done EXCEPT ![t] = d]
      BY <1>10, <3>2, <3>3, QueuesWork
    <3> QED
      BY <3>1, <3>4
  <2>2. /\ \A u \in Tasks, d \in CPUs : u # t \/ d # c => SameWork(d, u)
        /\ ~Running(c, t)' /\ Listed(c, t)'
        /\ \A d \in CPUs : StopperOK(d)' /\ stopper'[d].enabled = stopper[d].enabled
    <3>1. /\ w \in Works /\ w[2] = t /\ stopper[c].enabled
          /\ ~Running(c, t) /\ ~Listed(c, t)
      BY <1>2, <1>4, <1>10
    <3> QED
      BY <2>1, <3>1, Enqueued, ZenonT(30)
  <2>3. \A d \in CPUs : WorksOK(d)'
    <3>1. Waits(t, w[1])'
      BY <1>2, <1>3 DEF Waits, Turns
    <3> QED
      BY <1>2, <1>4, <1>9, <1>10, <2>1, <3>1, EnqueuedWorks
  <2>4. \A u \in Tasks \ {t} : Quiet(u) /\ done'[u] = done[u] /\ smdata'[u] = smdata[u]
    BY <1>1, <2>1, <2>2 DEF Quiet, SameQueue, IInv, TypeOK
  <2>5. TypeOK'
    BY <1>1, <1>3, <1>8, <2>1 DEF IInv, TypeOK, Turns, Becomes, hotplugVars
  <2>6. Todo(t)' = {c}
    <3>1. \A d \in CPUs \ {c} : ~Running(d, t)' /\ ~Listed(d, t)'
      BY <1>4, <2>2 DEF SameWork
    <3> QED
      BY <1>1, <1>2, <2>2, <3>1 DEF Todo
  <2>7. TodoOK(t)'
    <3>1. done'[t] = cpu_stop_init_done(1)
      BY <2>1 DEF IInv, TypeOK
    <3>2. Cardinality(Todo(t)') = 1
      BY <2>6, FS_Singleton
    <3> QED
      BY <1>1, <1>2, <1>3, <1>8, <3>1, <3>2 DEF TodoOK, Turns
  <2>8. \A d \in CPUs : ~stopper[d].enabled => stopper'[d].works = stopper[d].works
    BY <1>10, <2>1 DEF Becomes
  <2> QED
    BY <1>1, <1>3, <1>5, <1>6, <1>7, <2>2, <2>3, <2>4, <2>5, <2>7, <2>8, WaitStep
<1>11. CASE ~stopper[c].enabled
  <2>1. /\ done' = [done EXCEPT ![t] = cpu_stop_signal_done(cpu_stop_init_done(1), FALSE)]
        /\ stopper' = stopper
    BY <1>1, <1>11 DEF cpu_stop_queue_work
  <2>2. /\ cpu_stop_signal_done(cpu_stop_init_done(1), FALSE) \in Dones
        /\ cpu_stop_signal_done(cpu_stop_init_done(1), FALSE).nr_todo = 0
    BY DEF cpu_stop_signal_done, cpu_stop_init_done, Dones
  <2>3. \A u \in Tasks : Quiet(u)
    BY <1>1, <2>1, StillQuiet
  <2>4. TypeOK'
    BY <1>1, <1>3, <2>1, <2>2 DEF IInv, TypeOK, Turns, hotplugVars
  <2>5. Todo(t)' = {}
    BY <1>2, <2>3, QuietTodo
  <2>6. TodoOK(t)'
    <3>1. done'[t] = cpu_stop_signal_done(cpu_stop_init_done(1), FALSE)
      BY <2>1 DEF IInv, TypeOK
    <3>2. Cardinality(Todo(t)') = 0
      BY <2>5, FS_EmptySet
    <3> QED
      BY <1>1, <1>2, <1>3, <2>2, <3>1, <3>2 DEF TodoOK, Turns
  <2>7. \A d \in CPUs : StopperOK(d)' /\ WorksOK(d)'
    BY <1>9, <2>1, WorksFrame DEF IInv, StopperOK
  <2>8. \A u \in Tasks \ {t} : done'[u] = done[u] /\ smdata'[u] = smdata[u]
    BY <1>1, <2>1 DEF IInv, TypeOK
  <2> QED
    BY <1>1, <1>3, <1>5, <1>6, <1>7, <2>1, <2>3, <2>4, <2>6, <2>7, <2>8, WaitStep
<1> QED
  BY <1>10, <1>11

(* The CPUs that a task stops have their stopper enabled. *)
LEMMA InvolvedEnabled ==
  ASSUME IInv, NEW t \in Tasks, InStopCpus(t), NEW c \in Involved(t)
  PROVE  c \in CPUs /\ stopper[c].enabled
<1>1. CASE call[t].op = "down" /\ c = call[t].cpu
  BY <1>1, CallPlace DEF CallOK, HotOK
<1>2. CASE c \in online
  <2>1. c \in CPUs
    BY <1>2 DEF IInv, TypeOK
  <2>2. \A u \in Tasks : call[u].pc # "online"
    <3> SUFFICES ASSUME NEW u \in Tasks, call[u].pc = "online" PROVE FALSE
      OBVIOUS
    <3>1. IsWriter(u)
      BY CallPlace DEF CallOK, IsWriter, Starting, Calls
    <3>2. u # t
      BY DEF InStopCpus
    <3> QED
      BY <3>1, <3>2, WriterAlone DEF InStopCpus
  <2> QED
    BY <1>2, <2>1, <2>2 DEF IInv, EnabledOK
<1> QED
  BY <1>1, <1>2 DEF Involved

(* Queueing one work of stop_cpus keeps the invariant. *)
LEMMA QueueStep ==
  ASSUME IInv, NEW t \in Tasks, queue(t), UNCHANGED hotplugVars
  PROVE  IInv'
<1>0. PICK w \in Works : w = <<IF call[t].op = "read" THEN "one" ELSE "machine", t>>
  <2>1. PICK k \in {"one", "machine"} : k = IF call[t].op = "read" THEN "one" ELSE "machine"
    OBVIOUS
  <2>2. <<k, t>> \in Works
    BY DEF Works
  <2> QED
    BY <2>1, <2>2
<1>1. /\ call[t].pc = "queue" /\ InStopCpus(t) /\ stop_cpus_mutex = t
      /\ UNCHANGED <<online, stop_cpus_mutex, smdata>>
  BY DEF queue, InStopCpus, IInv, LocksInv
<1>2. PICK c \in to_queue :
        /\ cpu_stop_queue_work(c, w, t, done[t])
        /\ to_queue' = to_queue \ {c}
        /\ goto(t, IF to_queue = {c} THEN "stop_wait" ELSE "queue")
  BY <1>0 DEF queue
<1>3. /\ c \in CPUs /\ c \in Todo(t) /\ ~Running(c, t) /\ ~Listed(c, t)
      /\ w[2] = t
  BY <1>0, <1>1 DEF IInv, TypeOK, Todo, TodoOK
<1>4. stopper[c].enabled
  <2>1. c \in Involved(t)
    BY <1>1, <1>3, CallPlace DEF HotOK
  <2> QED
    BY <1>1, <2>1, InvolvedEnabled
<1>5. PICK l \in {"queue", "stop_wait"} : /\ l = "stop_wait" <=> to_queue = {c}
                                          /\ goto(t, l)
  BY <1>2
<1>6. Turns(t, l, call[t].op, call[t].cpu, call[t].err)
  <2>1. l \in CallPcs
    BY DEF CallPcs, Reading, Stopping
  <2> QED
    BY <1>5, <2>1, Goto DEF IInv
<1>7. call[t].op \in {"read", "machine", "down"} /\ CallOK(t) /\ HotOK(t) /\ TodoOK(t) /\ MachineOK(t)
  BY <1>1, CallPlace DEF CallOK, Calls, Starting, IInv
<1>8. Waits(t, w[1])'
  BY <1>0, <1>5, <1>6, <1>7 DEF Waits, Turns
<1>9. CallOK(t)' /\ InStopCpus(t)'
  BY <1>5, <1>6, <1>7 DEF CallOK, Turns, InStopCpus, Starting
<1>10. (IsReader(t)' <=> IsReader(t)) /\ (IsWriter(t)' <=> IsWriter(t))
  BY <1>1, <1>5, <1>6, <1>7 DEF Turns, IsReader, IsWriter, Reading, Stopping, Starting
<1>11. \A u \in Tasks : GoesOn(u)
  <2> SUFFICES ASSUME NEW u \in Tasks PROVE GoesOn(u)
    OBVIOUS
  <2>1. CASE u = t
    BY <1>5, <1>6, <2>1 DEF GoesOn, Turns, WaitPcs
  <2>2. CASE u # t
    BY <1>6, <2>2 DEF GoesOn, IInv, TodoOK, WaitPcs, Turns
  <2> QED
    BY <2>1, <2>2
<1>12. /\ Becomes(c, TRUE, Append(stopper[c].works, w), stopper[c].pc, TASK_RUNNING,
                  stopper[c].should_stop, stopper[c].work, stopper[c].curstate)
       /\ done' = done
  <2>1. PICK d \in Dones : d = done[t]
    BY DEF IInv, TypeOK
  <2>2. cpu_stop_queue_work(c, w, t, d) /\ TypeOK
    BY <1>2, <2>1 DEF IInv
  <2>3. c \in CPUs
    BY <1>3
  <2>4. /\ Becomes(c, TRUE, Append(stopper[c].works, w), stopper[c].pc, TASK_RUNNING,
                   stopper[c].should_stop, stopper[c].work, stopper[c].curstate)
        /\ done' = [done EXCEPT ![t] = d]
    BY <1>4, <2>2, <2>3, QueuesWork
  <2> QED
    BY <2>1, <2>4 DEF IInv, TypeOK
<1>13. /\ \A u \in Tasks, d \in CPUs : u # t \/ d # c => SameWork(d, u)
       /\ ~Running(c, t)' /\ Listed(c, t)'
       /\ \A d \in CPUs : StopperOK(d)' /\ stopper'[d].enabled = stopper[d].enabled
  <2>1. /\ c \in CPUs /\ w \in Works /\ w[2] = t /\ stopper[c].enabled
        /\ ~Running(c, t) /\ ~Listed(c, t)
    BY <1>3, <1>4
  <2> QED
    BY <1>12, <2>1, Enqueued, ZenonT(30)
<1>14. \A d \in CPUs : WorksOK(d)'
  BY <1>3, <1>4, <1>8, <1>11, <1>12, EnqueuedWorks
<1>15. TypeOK'
  BY <1>1, <1>2, <1>6, <1>12 DEF IInv, TypeOK, Turns, Becomes, hotplugVars
<1>16. \A u \in Tasks \ {t} : /\ Quiet(u) /\ done'[u] = done[u] /\ smdata'[u] = smdata[u]
                              /\ stop_cpus_mutex' = u <=> stop_cpus_mutex = u
                              /\ call[u].pc # "stop_wait"
  BY <1>1, <1>12, <1>13 DEF Quiet, SameQueue, IInv, LocksInv, InStopCpus
<1>17. /\ \A d \in CPUs : (Running(d, t)' <=> Running(d, t))
       /\ \A d \in CPUs : stopper'[d].pc = stopper[d].pc /\ stopper'[d].curstate = stopper[d].curstate
       /\ \A d \in CPUs \ {c} : Listed(d, t)' <=> Listed(d, t)
       /\ \A d \in CPUs : ~stopper[d].enabled => stopper'[d].works = stopper[d].works
  BY <1>3, <1>4, <1>12, <1>13 DEF SameWork, Becomes
<1>18. Todo(t)' = Todo(t)
  BY <1>1, <1>2, <1>3, <1>13, <1>17 DEF Todo
<1>19. TodoOK(t)'
  <2>1. \A d \in to_queue' : ~Running(d, t)' /\ ~Listed(d, t)'
    <3> SUFFICES ASSUME NEW d \in to_queue' PROVE ~Running(d, t)' /\ ~Listed(d, t)'
      OBVIOUS
    <3>1. d \in CPUs /\ d # c /\ d \in to_queue
      BY <1>2 DEF IInv, TypeOK
    <3> QED
      BY <1>1, <1>7, <1>17, <3>1 DEF TodoOK
  <2> QED
    BY <1>1, <1>5, <1>6, <1>7, <1>12, <1>18, <2>1 DEF TodoOK, Turns
<1>20. HotOK(t)'
  <2>1. InStopCpus(t)' => Todo(t)' \subseteq Involved(t)'
    BY <1>1, <1>6, <1>7, <1>18 DEF HotOK, Involved, Turns
  <2>2. call[t].op = "down" => stopper'[call[t].cpu].enabled /\ call'[t].cpu = call[t].cpu
    BY <1>6, <1>7, <1>13 DEF HotOK, CallOK, Turns
  <2> QED
    BY <1>5, <1>6, <1>7, <2>1, <2>2 DEF HotOK, Turns, Starting
<1>21. MachineOK(t)'
  <2>1. \A d \in CPUs : (Acked(d, t)' <=> Acked(d, t)) /\ (InStep(d, t)' <=> InStep(d, t))
    BY <1>1, <1>17 DEF Acked, InStep
  <2>2. Behind(t)' = Behind(t)
    BY <1>18, <2>1, TodoCpus DEF Behind
  <2>3. (HasRun(t)' <=> HasRun(t)) /\ Involved(t)' = Involved(t) /\ (IsMachine(t)' <=> IsMachine(t))
    BY <1>1, <1>6, <1>17 DEF HasRun, is_active, Involved, IsMachine, Turns
  <2>4. \A d \in Todo(t) : d \in CPUs
    BY TodoCpus
  <2>5. call'[t].pc # "stop_cpus" /\ call'[t].op = call[t].op /\ call'[t].cpu = call[t].cpu
        /\ call'[t].err = call[t].err
    BY <1>5, <1>6 DEF Turns
  <2> QED
    BY <1>1, <1>7, <1>12, <1>18, <2>1, <2>2, <2>3, <2>4, <2>5 DEF MachineOK
<1>22. call'[t].pc = "stop_wait" => to_queue' = {}
  BY <1>2, <1>5, <1>6 DEF Turns
<1> QED
  BY <1>1, <1>6, <1>9, <1>10, <1>13, <1>14, <1>15, <1>16, <1>17, <1>19, <1>20, <1>21, <1>22,
     WaitStep

(* With the mutex, a task begins to stop all online CPUs. *)
LEMMA StopCpusStep ==
  ASSUME IInv, NEW t \in Tasks, stop_cpus(t) \/ try_stop_cpus(t), UNCHANGED hotplugVars
  PROVE  IInv'
<1>1. /\ call[t].pc \in {"stop_cpus", "reading"} /\ stop_cpus_mutex = NULL
      /\ stop_cpus_mutex' = t /\ to_queue' = online
      /\ done' = [done EXCEPT ![t] = cpu_stop_init_done(Cardinality(online))]
      /\ goto(t, "queue")
      /\ UNCHANGED <<online, stopper, smdata>>
  BY DEF stop_cpus, try_stop_cpus, __stop_cpus
<1>2. /\ call[t].op \in {"read", "machine", "down"} /\ CallOK(t) /\ HotOK(t) /\ MachineOK(t)
      /\ IsMachine(t) => call[t].pc = "stop_cpus"
      /\ Todo(t) = {}
  BY <1>1, CallPlace DEF CallOK, Calls, Starting, IInv, IsMachine, TodoOK
<1>3. Turns(t, "queue", call[t].op, call[t].cpu, call[t].err)
  BY <1>1, Goto DEF IInv, CallPcs, Reading, Stopping
<1>4. CallOK(t)' /\ InStopCpus(t)' /\ call'[t].pc # "stop_wait"
  BY <1>2, <1>3 DEF CallOK, Turns, InStopCpus, Starting
<1>5. (IsReader(t)' <=> IsReader(t)) /\ (IsWriter(t)' <=> IsWriter(t))
  BY <1>1, <1>2, <1>3 DEF Turns, IsReader, IsWriter, Reading, Stopping, Starting
<1>6. \A u \in Tasks : GoesOn(u)
  <2> SUFFICES ASSUME NEW u \in Tasks PROVE GoesOn(u)
    OBVIOUS
  <2>1. CASE u = t
    BY <1>2, <2>1 DEF GoesOn
  <2>2. CASE u # t
    BY <1>3, <2>2 DEF GoesOn, IInv, TodoOK, WaitPcs, Turns
  <2> QED
    BY <2>1, <2>2
<1>7. \A d \in CPUs : StopperOK(d)' /\ WorksOK(d)'
  BY <1>1, <1>6, WorksFrame DEF IInv, StopperOK
<1>8. \A u \in Tasks \ {t} : /\ Quiet(u) /\ done'[u] = done[u] /\ smdata'[u] = smdata[u]
                             /\ stop_cpus_mutex' = u <=> stop_cpus_mutex = u
                             /\ call[u].pc # "stop_wait"
  BY <1>1, CpuStopAssumption
     DEF Quiet, SameQueue, SameWork, Running, Listed, IInv, LocksInv, InStopCpus, TypeOK
<1>9. PICK n \in Nat : n = Cardinality(online)
  BY CpuCount DEF IInv, TypeOK
<1>10. /\ cpu_stop_init_done(n) \in Dones /\ cpu_stop_init_done(n).nr_todo = n
       /\ cpu_stop_init_done(n).completed = FALSE
  BY DEF cpu_stop_init_done, Dones
<1>11. TypeOK' /\ done'[t] = cpu_stop_init_done(n)
  BY <1>1, <1>3, <1>9, <1>10 DEF IInv, TypeOK, Turns, hotplugVars
<1>12. \A d \in CPUs : ~Running(d, t)' /\ ~Listed(d, t)'
  BY <1>1, <1>2 DEF Todo, Running, Listed
<1>13. Todo(t)' = online /\ online \subseteq CPUs
  BY <1>1, <1>12 DEF Todo, IInv, TypeOK
<1>14. TodoOK(t)'
  BY <1>1, <1>3, <1>9, <1>10, <1>11, <1>12, <1>13 DEF TodoOK, Turns
<1>15. Involved(t)' = online
  BY <1>1, <1>2, <1>3 DEF Involved, HotOK, Turns, IsMachine
<1>16. HotOK(t)'
  BY <1>1, <1>2, <1>3, <1>13, <1>15 DEF HotOK, Turns, Starting
<1>17. MachineOK(t)'
  <2> SUFFICES ASSUME IsMachine(t)' PROVE MachineOK(t)'
    BY DEF MachineOK
  <2>1. IsMachine(t)
    BY <1>3 DEF IsMachine, Turns
  <2>2. /\ smdata'[t].state = STOPMACHINE_PREPARE /\ smdata'[t].ran = 0
        /\ smdata'[t].num_threads = Cardinality(online)
        /\ smdata'[t].thread_ack = Cardinality(online)
    BY <1>1, <1>2, <2>1 DEF MachineOK
  <2>3. Behind(t)' = online
    BY <1>12, <1>13 DEF Behind, Acked
  <2>4. \A d \in Todo(t)' : InStep(d, t)'
    BY <1>12, <1>13, <2>2 DEF InStep
  <2>5. call'[t].pc # "stop_cpus"
    BY <1>3 DEF Turns
  <2> QED
    BY <1>10, <1>11, <1>13, <1>15, <2>2, <2>3, <2>4, <2>5
       DEF MachineOK, STOPMACHINE_PREPARE, STOPMACHINE_EXIT, STOPMACHINE_RUN
<1> QED
  BY <1>1, <1>3, <1>4, <1>5, <1>7, <1>8, <1>11, <1>14, <1>16, <1>17, WaitStep

(* Who has his answer waits for no CPU. *)
LEMMA Answered ==
  ASSUME IInv, NEW t \in Tasks, call[t].pc \in WaitPcs, done[t].completed
  PROVE  Todo(t) = {}
<1>1. done[t].nr_todo = 0 /\ done[t].nr_todo = Cardinality(Todo(t))
  BY DEF IInv, TodoOK, WaitPcs
<1> QED
  BY <1>1, CpuCount, TodoCpus

(* The return of stop_one_cpu keeps the invariant. *)
LEMMA OneReturnStep ==
  ASSUME IInv, NEW t \in Tasks, one_return(t), UNCHANGED hotplugVars
  PROVE  IInv'
<1>1. /\ call[t].pc = "one_wait" /\ done[t].completed /\ goto(t, "idle")
      /\ done' = [done EXCEPT ![t] = cpu_stop_init_done(0)]
      /\ UNCHANGED <<online, stopper, stop_cpus_mutex, to_queue, smdata>>
  BY DEF one_return
<1>2. call[t].op = "none" /\ Todo(t) = {}
  BY <1>1, CallPlace, Answered DEF CallOK, Calls, Starting, WaitPcs
<1>3. Turns(t, "idle", call[t].op, call[t].cpu, call[t].err)
  BY <1>1, Goto DEF IInv, CallPcs
<1>4. CallOK(t)' /\ HotOK(t)' /\ MachineOK(t)' /\ ~InStopCpus(t)' /\ call'[t].pc # "stop_wait"
  BY <1>2, <1>3, NoMachine DEF Turns, CallOK, HotOK, InStopCpus
<1>5. (IsReader(t)' <=> IsReader(t)) /\ (IsWriter(t)' <=> IsWriter(t))
  BY <1>2, <1>3 DEF Turns, IsReader, IsWriter
<1>6. \A u \in Tasks : GoesOn(u)
  <2> SUFFICES ASSUME NEW u \in Tasks PROVE GoesOn(u)
    OBVIOUS
  <2>1. CASE u = t
    BY <1>2, <2>1 DEF GoesOn
  <2>2. CASE u # t
    BY <1>3, <2>2 DEF GoesOn, IInv, TodoOK, WaitPcs, Turns
  <2> QED
    BY <2>1, <2>2
<1>7. \A d \in CPUs : StopperOK(d)' /\ WorksOK(d)'
  BY <1>1, <1>6, WorksFrame DEF IInv, StopperOK
<1>8. \A u \in Tasks : Quiet(u)
  BY <1>1, StillQuiet
<1>9. /\ \A u \in Tasks \ {t} : /\ done'[u] = done[u] /\ smdata'[u] = smdata[u]
                                /\ stop_cpus_mutex' = u <=> stop_cpus_mutex = u
                                /\ call[u].pc = "stop_wait" => to_queue' = {}
      /\ stop_cpus_mutex' = t <=> InStopCpus(t)'
      /\ call[t].pc # "online"
  BY <1>1, <1>4 DEF IInv, LocksInv, InStopCpus, TypeOK
<1>10. /\ cpu_stop_init_done(0) \in Dones /\ cpu_stop_init_done(0).nr_todo = 0
  BY DEF cpu_stop_init_done, Dones
<1>11. TypeOK' /\ done'[t] = cpu_stop_init_done(0)
  BY <1>1, <1>3, <1>10 DEF IInv, TypeOK, Turns, hotplugVars
<1>12. TodoOK(t)'
  <2>1. Todo(t)' = {} /\ call'[t].pc \notin WaitPcs
    BY <1>2, <1>3, <1>8, QuietTodo DEF Turns, WaitPcs
  <2> QED
    BY <1>10, <1>11, <2>1, TodoIdle
<1> QED
  BY <1>1, <1>3, <1>4, <1>5, <1>7, <1>8, <1>9, <1>11, <1>12, WaitStep

(* A machine that has stopped for nobody any more has run the function. *)
LEMMA MachineDone ==
  ASSUME IInv, NEW t \in Tasks, IsMachine(t), InStopCpus(t), done[t].completed
  PROVE  /\ smdata[t].ran = 1
         /\ call[t].op = "down" => call[t].err \/ call[t].cpu \notin online
<1>1. MachineOK(t)
  BY DEF IInv
<1>2. /\ smdata[t].state \in STOPMACHINE_PREPARE .. STOPMACHINE_EXIT + 1
      /\ ~(smdata[t].state <= STOPMACHINE_RUN)
  BY <1>1 DEF MachineOK
<1>3. smdata[t].state > STOPMACHINE_RUN
  BY <1>2 DEF STOPMACHINE_PREPARE, STOPMACHINE_EXIT, STOPMACHINE_RUN
<1> QED
  BY <1>1, <1>3 DEF MachineOK

(* The return of stop_cpus keeps the invariant: no CPU is left in its works. *)
LEMMA StopReturnStep ==
  ASSUME IInv, NEW t \in Tasks, stop_cpus_return(t), UNCHANGED hotplugVars
  PROVE  IInv'
<1>1. /\ call[t].pc = "stop_wait" /\ done[t].completed /\ InStopCpus(t)
      /\ stop_cpus_mutex' = NULL
      /\ done' = [done EXCEPT ![t] = cpu_stop_init_done(0)]
      /\ smdata' = [smdata EXCEPT ![t] = NoData]
      /\ UNCHANGED <<online, stopper, to_queue>>
  BY DEF stop_cpus_return, stop_return, InStopCpus
<1>2. /\ call[t].op \in {"read", "machine", "down"} /\ CallOK(t) /\ HotOK(t)
      /\ Todo(t) = {} /\ to_queue = {} /\ stop_cpus_mutex = t
  BY <1>1, CallPlace, Answered DEF CallOK, Calls, Starting, WaitPcs, IInv, LocksInv
<1>3. PICK l \in {"put", "release", "dying"} :
        /\ goto(t, l)
        /\ l = "put" <=> call[t].op \in {"read", "machine"}
        /\ l = "release" => call[t].err
        /\ l = "dying" => ~call[t].err
  <2>1. goto(t, CASE call[t].op \in {"read", "machine"}     -> "put"
                  [] call[t].op = "down" /\ call[t].err  -> "release"
                  [] call[t].op = "down" /\ ~call[t].err -> "dying")
    BY DEF stop_cpus_return, stop_return
  <2>2. CASE call[t].op \in {"read", "machine"}
    <3>1. goto(t, "put")
      BY <1>2, <2>1, <2>2
    <3> QED
      BY <1>2, <2>2, <3>1
  <2>3. CASE call[t].op \notin {"read", "machine"} /\ call[t].err
    <3>1. goto(t, "release")
      BY <1>2, <2>1, <2>3
    <3> QED
      BY <1>2, <2>3, <3>1
  <2>4. CASE call[t].op \notin {"read", "machine"} /\ ~call[t].err
    <3>1. goto(t, "dying")
      BY <1>2, <2>1, <2>4
    <3> QED
      BY <1>2, <2>4, <3>1
  <2> QED
    BY <1>2, <2>2, <2>3, <2>4
<1>4. Turns(t, l, call[t].op, call[t].cpu, call[t].err)
  <2>1. l \in CallPcs
    BY DEF CallPcs, Reading, Updating
  <2> QED
    BY <1>3, <2>1, Goto DEF IInv
<1>5. CallOK(t)' /\ ~InStopCpus(t)' /\ call'[t].pc # "stop_wait" /\ MachineOK(t)'
  BY <1>2, <1>3, <1>4, NoMachine DEF Turns, CallOK, InStopCpus, Starting
<1>6. (IsReader(t)' <=> IsReader(t)) /\ (IsWriter(t)' <=> IsWriter(t))
  BY <1>1, <1>2, <1>3, <1>4 DEF Turns, IsReader, IsWriter, Reading, Stopping, Starting
<1>7. HotOK(t)'
  <2>1. call[t].op = "down" => call[t].err \/ call[t].cpu \notin online
    BY <1>1, MachineDone DEF IsMachine
  <2> QED
    BY <1>1, <1>2, <1>3, <1>4, <1>5, <2>1 DEF HotOK, Turns, Starting
<1>8. \A u \in Tasks : GoesOn(u)
  <2> SUFFICES ASSUME NEW u \in Tasks PROVE GoesOn(u)
    OBVIOUS
  <2>1. CASE u = t
    BY <1>2, <2>1 DEF GoesOn
  <2>2. CASE u # t
    BY <1>4, <2>2 DEF GoesOn, IInv, TodoOK, WaitPcs, Turns
  <2> QED
    BY <2>1, <2>2
<1>9. \A d \in CPUs : StopperOK(d)' /\ WorksOK(d)'
  BY <1>1, <1>8, WorksFrame DEF IInv, StopperOK
<1>10. \A u \in Tasks : Quiet(u)
  BY <1>1, <1>2 DEF Quiet, SameQueue, SameWork, Running, Listed
<1>11. /\ \A u \in Tasks \ {t} : /\ done'[u] = done[u] /\ smdata'[u] = smdata[u]
                                 /\ stop_cpus_mutex' = u <=> stop_cpus_mutex = u
       /\ to_queue' = {}
       /\ stop_cpus_mutex' = t <=> InStopCpus(t)'
       /\ call[t].pc # "online"
  BY <1>1, <1>2, <1>5, CpuStopAssumption DEF IInv, TypeOK
<1>12. /\ cpu_stop_init_done(0) \in Dones /\ cpu_stop_init_done(0).nr_todo = 0 /\ NoData \in Datas
  BY DEF cpu_stop_init_done, Dones, Datas, NoData, STOPMACHINE_NONE
<1>13. TypeOK' /\ done'[t] = cpu_stop_init_done(0)
  BY <1>1, <1>4, <1>12 DEF IInv, TypeOK, Turns, hotplugVars
<1>14. TodoOK(t)'
  <2>1. Todo(t)' = {} /\ call'[t].pc \notin WaitPcs
    BY <1>2, <1>3, <1>4, <1>10, QuietTodo DEF Turns, WaitPcs
  <2> QED
    BY <1>12, <1>13, <2>1, TodoIdle
<1> QED
  BY <1>1, <1>4, <1>5, <1>6, <1>7, <1>9, <1>10, <1>11, <1>13, <1>14, WaitStep
-----------------------------------------------------------------------------
(* A step of the stopper of c, on behalf of t if of anyone: what is left   *)
(* to show is about t and c.                                               *)
LEMMA StopperStep ==
  ASSUME IInv, NEW c \in CPUs, NEW t,
         stopper' \in [CPUs -> Stoppers], \A d \in CPUs \ {c} : stopper'[d] = stopper[d],
         UNCHANGED <<online, call, stop_cpus_mutex, to_queue>>, UNCHANGED hotplugVars,
         done' \in [Tasks -> Dones], smdata' \in [Tasks -> Datas],
         \A u \in Tasks \ {t} : SameWork(c, u) /\ done'[u] = done[u] /\ smdata'[u] = smdata[u],
         stopper'[c].enabled = stopper[c].enabled,
         ~stopper[c].enabled => stopper'[c].works = stopper[c].works,
         t \in Tasks => TodoOK(t)' /\ MachineOK(t)' /\ Todo(t)' \subseteq Todo(t),
         StopperOK(c)', WorksOK(c)'
  PROVE  IInv'
<1>1. TypeOK'
  BY DEF IInv, TypeOK, hotplugVars
<1>2. LocksInv'
  BY DEF IInv, LocksInv, IsWriter, InStopCpus, IsReader, hotplugVars
<1>3. \A u \in Tasks \ {t} : Quiet(u)
  <2> SUFFICES ASSUME NEW u \in Tasks \ {t}, NEW d \in CPUs PROVE SameWork(d, u)
    BY DEF Quiet, SameQueue
  <2>1. CASE d = c
    BY <2>1
  <2>2. CASE d # c
    BY <2>2 DEF SameWork, Running, Listed
  <2> QED
    BY <2>1, <2>2
<1>4. ASSUME NEW u \in Tasks PROVE CallOK(u)' /\ TodoOK(u)' /\ HotOK(u)' /\ MachineOK(u)'
  <2>1. CallOK(u)'
    BY DEF IInv, CallOK
  <2>2. TodoOK(u)' /\ MachineOK(u)' /\ Todo(u)' \subseteq Todo(u)
    <3>1. CASE u = t
      BY <3>1
    <3>2. CASE u # t
      <4>1. Quiet(u) /\ done'[u] = done[u] /\ smdata'[u] = smdata[u]
        BY <1>3, <3>2
      <4> QED
        BY <1>1, <4>1, TodoFrame, MachineFrame, QuietTodo DEF IInv, InStopCpus
    <3> QED
      BY <3>1, <3>2
  <2>3. HotOK(u)'
    <3>1. call[u].op \in {"down", "up"} => call[u].cpu \in CPUs
      BY CallPlace DEF CallOK
    <3>2. \A d \in CPUs : /\ stopper'[d].enabled = stopper[d].enabled
                          /\ ~stopper[d].enabled => stopper'[d].works = stopper[d].works
      OBVIOUS
    <3> QED
      BY <2>2, <3>1, <3>2, HotFrame DEF IInv
  <2> QED
    BY <2>1, <2>2, <2>3
<1>5. ASSUME NEW d \in CPUs PROVE StopperOK(d)' /\ WorksOK(d)' /\ EnabledOK(d)'
  <2>1. EnabledOK(d)'
    BY EnabledFrame DEF IInv
  <2>2. StopperOK(d)' /\ WorksOK(d)'
    <3>1. CASE d = c
      BY <3>1
    <3>2. CASE d # c
      <4>1. \A u \in Tasks : GoesOn(u)
        BY DEF GoesOn, IInv, TodoOK, WaitPcs
      <4>2. WorksOK(d)'
        BY <3>2, <4>1, WorksFrame DEF IInv
      <4>3. StopperOK(d)'
        BY <3>2 DEF IInv, StopperOK
      <4> QED
        BY <4>2, <4>3
    <3> QED
      BY <3>1, <3>2
  <2> QED
    BY <2>1, <2>2
<1> QED
  BY <1>1, <1>2, <1>4, <1>5 DEF IInv

(* The thread goes around without a work. *)
LEMMA IdlesStep ==
  ASSUME IInv, NEW c \in CPUs, NEW p, NEW s, Idles(c, p, s),
         UNCHANGED <<online, stop_cpus_mutex, to_queue, call, done, smdata>>,
         UNCHANGED hotplugVars,
         stopper[c].pc \notin StatePcs, p \notin StatePcs,
         ~stopper[c].enabled => p = "exited"
  PROVE  IInv'
<1>1. /\ stopper'[c].enabled = stopper[c].enabled /\ stopper'[c].works = stopper[c].works
      /\ stopper'[c].pc = p /\ stopper'[c].work = stopper[c].work
      /\ stopper'[c].curstate = stopper[c].curstate
      /\ stopper' \in [CPUs -> Stoppers] /\ \A d \in CPUs \ {c} : stopper'[d] = stopper[d]
  BY DEF Idles, Becomes
<1>2. stopper[c].work = NoWork /\ stopper[c].curstate = STOPMACHINE_NONE
  BY DEF IInv, StopperOK, StatePcs
<1>3. \A u \in Tasks : SameWork(c, u)
  BY <1>1, <1>2, WorkTask DEF SameWork, Running, Listed
<1>4. StopperOK(c)'
  BY <1>1, <1>2 DEF StopperOK, StatePcs
<1>5. WorksOK(c)'
  <2>1. \A u \in Tasks : GoesOn(u)
    BY DEF GoesOn, IInv, TodoOK, WaitPcs
  <2> QED
    BY <1>1, <2>1, WorksFrame DEF IInv
<1>6. done' \in [Tasks -> Dones] /\ smdata' \in [Tasks -> Datas] /\ NULL \notin Tasks
  BY WorkTask DEF IInv, TypeOK
<1> QED
  BY <1>1, <1>3, <1>4, <1>5, <1>6, StopperStep

(* The steps of a stopper thread without a work keep the invariant. *)
LEMMA IdleThreadStep ==
  ASSUME IInv, NEW c \in CPUs, UNCHANGED hotplugVars,
         \/ thread_starts(c) \/ set_current_state(c) \/ kthread_should_stop(c) \/ schedule(c)
         \/ take_work(c) /\ list_empty(stopper[c].works)
  PROVE  IInv'
<1>1. /\ stopper[c].pc \notin StatePcs
      /\ UNCHANGED <<online, stop_cpus_mutex, to_queue, call, done, smdata>>
  BY DEF thread_starts, set_current_state, kthread_should_stop, schedule, take_work, StatePcs
<1>2. TypeOK /\ StopperOK(c)
  BY DEF IInv
<1>3. /\ "exited" \notin StatePcs /\ "set" \notin StatePcs /\ "check" \notin StatePcs
      /\ "take" \notin StatePcs /\ "schedule" \notin StatePcs
  BY DEF StatePcs
<1>4. CASE thread_starts(c)
  <2>1. PICK p \in {"exited", "set"} : p = IF stopper[c].should_stop THEN "exited" ELSE "set"
    OBVIOUS
  <2>2. Idles(c, p, stopper[c].state)
    BY <1>2, <1>4, <2>1, IdleSteps
  <2>3. ~stopper[c].enabled => p = "exited"
    BY <1>2, <1>4, <2>1 DEF StopperOK, thread_starts
  <2>4. PICK s : s = stopper[c].state
    OBVIOUS
  <2> QED
    BY <1>1, <1>3, <2>1, <2>2, <2>3, <2>4, IdlesStep
<1>5. CASE set_current_state(c)
  <2>1. stopper[c].enabled /\ Idles(c, "check", TASK_INTERRUPTIBLE)
    BY <1>2, <1>5, IdleSteps DEF StopperOK, set_current_state
  <2> QED
    BY <1>1, <1>3, <2>1, IdlesStep
<1>6. CASE kthread_should_stop(c)
  <2>1. PICK p \in {"exited", "take"} : p = IF stopper[c].should_stop THEN "exited" ELSE "take"
    OBVIOUS
  <2>2. Idles(c, p, stopper[c].state)
    BY <1>2, <1>6, <2>1, IdleSteps
  <2>3. stopper[c].enabled
    BY <1>2, <1>6 DEF StopperOK, kthread_should_stop
  <2>4. PICK s : s = stopper[c].state
    OBVIOUS
  <2> QED
    BY <1>1, <1>3, <2>1, <2>2, <2>3, <2>4, IdlesStep
<1>7. CASE schedule(c)
  <2>1. stopper[c].enabled /\ Idles(c, "set", stopper[c].state)
    BY <1>2, <1>7, IdleSteps DEF StopperOK, schedule
  <2>2. PICK s : s = stopper[c].state
    OBVIOUS
  <2> QED
    BY <1>1, <1>3, <2>1, <2>2, IdlesStep
<1>8. CASE take_work(c) /\ list_empty(stopper[c].works)
  <2>1. stopper[c].enabled /\ Idles(c, "schedule", stopper[c].state)
    BY <1>2, <1>8, IdleSteps DEF StopperOK, take_work
  <2>2. PICK s : s = stopper[c].state
    OBVIOUS
  <2> QED
    BY <1>1, <1>3, <2>1, <2>2, IdlesStep
<1> QED
  BY <1>4, <1>5, <1>6, <1>7, <1>8

(* The first work of the list is taken. *)
LEMMA TakeWorkStep ==
  ASSUME IInv, NEW c \in CPUs, UNCHANGED hotplugVars,
         take_work(c), ~list_empty(stopper[c].works)
  PROVE  IInv'
<1>0. PICK q \in Seq(Works) : q = stopper[c].works
  BY StopperType DEF IInv
<1>1. q[1] \in Works /\ 1 \in DOMAIN q /\ Len(q) >= 1
  BY <1>0 DEF list_empty
<1>2. PICK w \in Works, t \in Tasks : w = q[1] /\ t = w[2] /\ w # NoWork
  BY <1>1, WorkTask
<1>3. PICK p \in {"fn", "spin"} : /\ p = "fn" <=> w[1] = "one"
                                  /\ p = IF w[1] = "one" THEN "fn" ELSE "spin"
  OBVIOUS
<1>4. /\ stopper[c].pc = "take"
      /\ UNCHANGED <<online, stop_cpus_mutex, to_queue, call, done, smdata>>
  BY DEF take_work
<1>5. stopper[c].enabled /\ stopper[c].work = NoWork /\ stopper[c].curstate = STOPMACHINE_NONE
  BY <1>4 DEF IInv, StopperOK
<1>6. /\ stopper'[c].enabled = stopper[c].enabled /\ stopper'[c].works = Tail(q)
      /\ stopper'[c].pc = p /\ stopper'[c].work = w
      /\ stopper'[c].curstate = STOPMACHINE_NONE
      /\ stopper' \in [CPUs -> Stoppers] /\ \A d \in CPUs \ {c} : stopper'[d] = stopper[d]
  BY <1>0, <1>2, <1>3, <1>5, WorkSteps DEF Becomes, IInv
<1>7. /\ DOMAIN Tail(q) = 1 .. (Len(q) - 1) /\ DOMAIN q = 1 .. Len(q)
      /\ \A i \in 1 .. (Len(q) - 1) : Tail(q)[i] = q[i + 1] /\ i + 1 \in DOMAIN q
      /\ \A i \in DOMAIN q : i # 1 => i - 1 \in 1 .. (Len(q) - 1) /\ Tail(q)[i - 1] = q[i]
  BY <1>1
<1>8. /\ \A i, j \in DOMAIN q : q[i][2] = q[j][2] => i = j
      /\ \A i \in DOMAIN q : Waits(q[i][2], q[i][1])
  BY <1>0, <1>5 DEF IInv, WorksOK
<1>9. Listed(c, t) /\ ~Running(c, t) /\ ~Listed(c, t)' /\ Running(c, t)'
  <2>1. Listed(c, t)
    BY <1>0, <1>1, <1>2, <1>5 DEF Listed
  <2>2. ~Running(c, t) /\ Running(c, t)'
    BY <1>2, <1>5, <1>6, WorkTask DEF Running
  <2>3. ~Listed(c, t)'
    <3> SUFFICES ASSUME NEW i \in 1 .. (Len(q) - 1), Tail(q)[i][2] = t PROVE FALSE
      BY <1>6, <1>7 DEF Listed
    <3> QED
      BY <1>1, <1>2, <1>7, <1>8
  <2> QED
    BY <2>1, <2>2, <2>3
<1>10. ASSUME NEW u \in Tasks \ {t} PROVE SameWork(c, u)
  <2>1. ~Running(c, u) /\ ~Running(c, u)'
    BY <1>2, <1>5, <1>6, WorkTask DEF Running
  <2>2. Listed(c, u)' <=> Listed(c, u)
    <3>1. ASSUME NEW i \in DOMAIN q, q[i][2] = u PROVE \E j \in DOMAIN Tail(q) : Tail(q)[j][2] = u
      BY <1>2, <1>7, <3>1
    <3>2. ASSUME NEW i \in DOMAIN Tail(q), Tail(q)[i][2] = u PROVE \E j \in DOMAIN q : q[j][2] = u
      BY <1>7, <3>2
    <3> QED
      BY <1>0, <1>5, <1>6, <3>1, <3>2 DEF Listed
  <2> QED
    BY <2>1, <2>2 DEF SameWork
<1>11. Todo(t)' = Todo(t)
  <2>1. \A d \in CPUs \ {c} : (Running(d, t)' <=> Running(d, t)) /\ (Listed(d, t)' <=> Listed(d, t))
    BY <1>6 DEF Running, Listed
  <2> QED
    BY <1>4, <1>9, <2>1 DEF Todo
<1>12. TodoOK(t)'
  <2>1. stop_cpus_mutex' = t => \A d \in to_queue' : ~Running(d, t)' /\ ~Listed(d, t)'
    <3> SUFFICES ASSUME stop_cpus_mutex = t, NEW d \in to_queue
                 PROVE  ~Running(d, t)' /\ ~Listed(d, t)'
      BY <1>4
    <3>1. d \in CPUs /\ ~Running(d, t) /\ ~Listed(d, t)
      BY DEF IInv, TypeOK, TodoOK
    <3>2. d # c
      BY <1>9, <3>1
    <3> QED
      BY <1>6, <3>1, <3>2 DEF Running, Listed
  <2> QED
    BY <1>4, <1>11, <2>1 DEF IInv, TodoOK
<1>13. Waits(t, w[1])
  BY <1>1, <1>2, <1>8
<1>14. MachineOK(t)'
  <2> SUFFICES ASSUME IsMachine(t)', InStopCpus(t)' PROVE MachineOK(t)'
    <3>1. CASE ~IsMachine(t)'
      BY <3>1 DEF MachineOK
    <3>2. CASE IsMachine(t)' /\ ~InStopCpus(t)'
      BY <1>4, <3>2 DEF IInv, MachineOK, InStopCpus, IsMachine
    <3> QED
      BY <3>1, <3>2
  <2>1. IsMachine(t) /\ InStopCpus(t) /\ MachineOK(t) /\ c \in Todo(t)
    BY <1>4, <1>9 DEF IInv, IsMachine, InStopCpus, Todo
  <2>2. smdata[t].state = 1
    BY <1>9, <2>1 DEF MachineOK, InStep, STOPMACHINE_PREPARE
  <2>3. p = "spin"
    BY <1>3, <1>13, <2>1 DEF Waits, IsMachine
  <2>4. ~Acked(c, t) /\ ~Acked(c, t)' /\ InStep(c, t)'
    BY <1>4, <1>6, <1>9, <2>2, <2>3 DEF Acked, InStep, STOPMACHINE_NONE, STOPMACHINE_EXIT
  <2>5. \A d \in CPUs \ {c} : (Acked(d, t)' <=> Acked(d, t)) /\ (InStep(d, t)' <=> InStep(d, t))
    BY <1>4, <1>6 DEF Acked, InStep, Running
  <2>6. Behind(t)' = Behind(t)
    BY <1>11, <2>4, <2>5, TodoCpus DEF Behind
  <2>7. \A d \in Todo(t)' : InStep(d, t)'
    BY <1>11, <2>1, <2>4, <2>5, TodoCpus DEF MachineOK
  <2>8. Involved(t)' = Involved(t)
    BY <1>4 DEF Involved
  <2> QED
    BY <1>4, <1>11, <2>1, <2>2, <2>6, <2>7, <2>8
       DEF MachineOK, STOPMACHINE_PREPARE, STOPMACHINE_EXIT, STOPMACHINE_RUN, InStopCpus
<1>15. StopperOK(c)'
  <2>1. w[1] = "one" \/ w[1] = "machine"
    BY WorkTask
  <2> QED
    BY <1>2, <1>3, <1>5, <1>6, <2>1 DEF StopperOK
<1>16. WorksOK(c)'
  <2>1. Waits(w[2], w[1])'
    BY <1>2, <1>4, <1>13 DEF Waits
  <2>2. ASSUME NEW i \in DOMAIN Tail(q)
        PROVE  /\ Waits(Tail(q)[i][2], Tail(q)[i][1])'
               /\ ~Running(c, Tail(q)[i][2])'
               /\ \A j \in DOMAIN Tail(q) : Tail(q)[i][2] = Tail(q)[j][2] => i = j
    <3>1. Tail(q)[i] = q[i + 1] /\ i + 1 \in DOMAIN q /\ i + 1 # 1
      BY <1>1, <1>7
    <3>2. Waits(Tail(q)[i][2], Tail(q)[i][1])'
      BY <1>4, <1>8, <3>1 DEF Waits
    <3>3. ~Running(c, Tail(q)[i][2])'
      BY <1>1, <1>2, <1>6, <1>8, <3>1 DEF Running
    <3>4. ASSUME NEW j \in DOMAIN Tail(q), Tail(q)[i][2] = Tail(q)[j][2] PROVE i = j
      BY <1>1, <1>7, <1>8, <3>4
    <3> QED
      BY <3>2, <3>3, <3>4
  <2> QED
    BY <1>6, <2>1, <2>2 DEF WorksOK
<1>17. done' \in [Tasks -> Dones] /\ smdata' \in [Tasks -> Datas]
  BY <1>4 DEF IInv, TypeOK
<1>18. \A u \in Tasks \ {t} : SameWork(c, u) /\ done'[u] = done[u] /\ smdata'[u] = smdata[u]
  BY <1>4, <1>10
<1>19. /\ t \in Tasks => TodoOK(t)' /\ MachineOK(t)' /\ Todo(t)' \subseteq Todo(t)
       /\ ~stopper[c].enabled => stopper'[c].works = stopper[c].works
       /\ UNCHANGED <<online, call, stop_cpus_mutex, to_queue>>
  BY <1>4, <1>5, <1>11, <1>12, <1>14
<1> QED
  BY <1>6, <1>15, <1>16, <1>17, <1>18, <1>19, StopperStep

(* The function of a work has returned. *)
LEMMA SignalDoneStep ==
  ASSUME IInv, NEW c \in CPUs, UNCHANGED hotplugVars, signal_done(c)
  PROVE  IInv'
<1>0. PICK t \in Tasks : t = stopper[c].work[2]
  BY RunsWork DEF signal_done, StatePcs
<1>1. /\ stopper[c].pc = "fn" /\ Running(c, t) /\ c \in Todo(t) /\ call[t].pc \in WaitPcs
      /\ done[t].nr_todo = Cardinality(Todo(t)) /\ done[t].nr_todo >= 1 /\ stopper[c].enabled
  BY <1>0, RunsWork DEF signal_done, StatePcs
<1>2. /\ done' = [done EXCEPT ![t] = cpu_stop_signal_done(done[t], TRUE)]
      /\ UNCHANGED <<online, stop_cpus_mutex, to_queue, call, smdata>>
  BY <1>0 DEF signal_done
<1>3. /\ stopper'[c].enabled = stopper[c].enabled /\ stopper'[c].works = stopper[c].works
      /\ stopper'[c].pc = "set" /\ stopper'[c].work = NoWork
      /\ stopper'[c].curstate = STOPMACHINE_NONE
      /\ stopper' \in [CPUs -> Stoppers] /\ \A d \in CPUs \ {c} : stopper'[d] = stopper[d]
  BY <1>1, WorkSteps DEF Becomes, IInv, StopperOK
<1>4. PICK f \in Dones : /\ f = cpu_stop_signal_done(done[t], TRUE)
                         /\ f.nr_todo = done[t].nr_todo - 1
                         /\ f.completed <=> done[t].nr_todo = 1
  BY <1>1, Signalled DEF IInv
<1>5. done' \in [Tasks -> Dones] /\ done'[t] = f /\ \A u \in Tasks \ {t} : done'[u] = done[u]
  BY <1>2, <1>4 DEF IInv, TypeOK
<1>6. \A u \in Tasks : ~Running(c, u)'
  BY <1>3, WorkTask DEF Running
<1>7. \A u \in Tasks : Listed(c, u)' <=> Listed(c, u)
  BY <1>3 DEF Listed
<1>8. ~Listed(c, t)
  BY <1>1 DEF IInv, WorksOK, Listed
<1>9. \A u \in Tasks \ {t} : SameWork(c, u)
  BY <1>0, <1>6, <1>7 DEF SameWork, Running
<1>10. \A d \in CPUs \ {c} : (Running(d, t)' <=> Running(d, t)) /\ (Listed(d, t)' <=> Listed(d, t))
  BY <1>3 DEF Running, Listed
<1>11. ~(stop_cpus_mutex = t /\ c \in to_queue)
  BY <1>1 DEF IInv, TodoOK
<1>12. Todo(t)' = Todo(t) \ {c}
  BY <1>2, <1>6, <1>7, <1>8, <1>10, <1>11 DEF Todo
<1>13. TodoOK(t)'
  <2>1. stop_cpus_mutex' = t => \A d \in to_queue' : ~Running(d, t)' /\ ~Listed(d, t)'
    BY <1>2, <1>6, <1>7, <1>10 DEF IInv, TypeOK, TodoOK
  <2>2. Cardinality(Todo(t)') = done[t].nr_todo - 1
    BY <1>1, <1>12, CpuCount, TodoCpus
  <2>3. done'[t].nr_todo = Cardinality(Todo(t)')
    BY <1>4, <1>5, <2>2
  <2>4. done'[t].completed => done'[t].nr_todo = 0
    <3>1. done'[t].completed => done[t].nr_todo = 1
      BY <1>4, <1>5, Zenon
    <3>2. done'[t].nr_todo = done[t].nr_todo - 1
      BY <2>2, <2>3
    <3>3. done[t].nr_todo = 1 => done'[t].nr_todo = 0
      BY <3>2
    <3> QED
      BY <3>1, <3>3, Zenon
  <2>5. call'[t].pc \in WaitPcs
    BY <1>1, <1>2
  <2> QED
    BY <2>1, <2>3, <2>4, <2>5 DEF TodoOK, WaitPcs
<1>14. MachineOK(t)'
  <2> SUFFICES ASSUME IsMachine(t)', InStopCpus(t)' PROVE MachineOK(t)'
    BY <1>1, <1>2 DEF MachineOK, WaitPcs
  <2>1. IsMachine(t) /\ InStopCpus(t) /\ MachineOK(t)
    BY <1>2 DEF IInv, IsMachine, InStopCpus
  <2>2. smdata[t].state \in 1 .. 5 /\ smdata[t].state > 3
    BY <1>1, <2>1 DEF MachineOK, InStep, STOPMACHINE_RUN, STOPMACHINE_PREPARE, STOPMACHINE_EXIT
  <2>3. /\ Acked(c, t)
         /\ \A d \in CPUs \ {c} : (Acked(d, t)' <=> Acked(d, t)) /\ (InStep(d, t)' <=> InStep(d, t))
    BY <1>1, <1>2, <1>3 DEF Acked, InStep, Running
  <2>4. Behind(t)' = Behind(t)
    BY <1>12, <2>3, TodoCpus DEF Behind
  <2>5. \A d \in Todo(t)' : InStep(d, t)'
    BY <1>12, <2>1, <2>3, TodoCpus DEF MachineOK
  <2>6. /\ smdata[t].state <= 4 => smdata[t].thread_ack = Cardinality(Behind(t))
        /\ smdata[t].ran = 1 /\ (call[t].op = "down" => call[t].err \/ call[t].cpu \notin online)
    BY <2>1, <2>2 DEF MachineOK, STOPMACHINE_EXIT, STOPMACHINE_RUN
  <2>7. call'[t].pc # "stop_cpus" /\ smdata' = smdata /\ call' = call /\ online' = online
    BY <1>1, <1>2 DEF WaitPcs
  <2> QED
    BY <2>2, <2>4, <2>5, <2>6, <2>7
       DEF MachineOK, STOPMACHINE_PREPARE, STOPMACHINE_EXIT, STOPMACHINE_RUN
<1>15. StopperOK(c)'
  BY <1>1, <1>3 DEF StopperOK
<1>16. WorksOK(c)'
  <2>1. \A i \in DOMAIN stopper[c].works : stopper[c].works[i][2] \in Tasks
    BY StopperType DEF IInv
  <2> QED
    BY <1>1, <1>2, <1>3, <1>6, <2>1 DEF IInv, WorksOK, Waits
<1>17. smdata' \in [Tasks -> Datas]
  BY <1>2 DEF IInv, TypeOK
<1> QED
  BY <1>2, <1>3, <1>5, <1>9, <1>12, <1>13, <1>14, <1>15, <1>16, <1>17, StopperStep

(* One CPU is active, and there is one. *)
LEMMA OneActive ==
  ASSUME IInv, NEW t, NEW c \in CPUs, NEW d \in CPUs, is_active(c, t), is_active(d, t)
  PROVE  c = d
<1>1. c \in Nat /\ d \in Nat
  BY CpuStopAssumption
<1> QED
  BY <1>1 DEF is_active

(* Among the CPUs a call involves, one is active and so will run the function. *)
LEMMA SomeActive ==
  ASSUME IInv, NEW t \in Tasks, NEW c \in Involved(t)
  PROVE  \E d \in Involved(t) : is_active(d, t)
<1>1. CASE call[t].op = "down"
  BY <1>1 DEF Involved, is_active
<1>2. CASE call[t].op # "down"
  <2>1. c \in online /\ online \subseteq Nat
    BY <1>2, CpuStopAssumption DEF Involved, IInv, TypeOK
  <2> DEFINE R == {p \in Nat \X Nat : p[1] < p[2]}
  <2>2. IsWellFoundedOn(R, Nat)
    BY NatLessThanWellFounded DEF OpToRel
  <2>3. PICK d \in online : \A e \in online : ~(<<e, d>> \in R)
    BY <2>1, <2>2, WFMin
  <2>4. ASSUME NEW e \in online PROVE d <= e
    <3>1. d \in Nat /\ e \in Nat /\ <<e, d>> \in Nat \X Nat
      BY <2>1
    <3>2. ~(<<e, d>>[1] < <<e, d>>[2])
      BY <2>3, <3>1
    <3> QED
      BY <3>1, <3>2
  <2> QED
    BY <1>2, <2>4 DEF is_active, Involved
<1> QED
  BY <1>1, <1>2

(* What is known of a machine that has its CPUs stopped, with the states   *)
(* of enum stopmachine_state as numbers.                                   *)
MachineFacts(t) ==
  /\ IsMachine(t) /\ InStopCpus(t) /\ smdata[t].state \in 1 .. 5
  /\ \A c \in Todo(t) : InStep(c, t)
  /\ smdata[t].state <= 4 => smdata[t].thread_ack = Cardinality(Behind(t))
  /\ smdata[t].state <= 3 => /\ Todo(t) = Involved(t)
                             /\ smdata[t].num_threads = Cardinality(Todo(t))
                             /\ ~done[t].completed
  /\ smdata[t].state > 3 => smdata[t].ran = 1
  /\ smdata[t].state = 3 => smdata[t].ran = IF HasRun(t) THEN 1 ELSE 0
  /\ smdata[t].state < 3 => smdata[t].ran = 0
  /\ smdata[t].ran = 1 /\ call[t].op = "down" => call[t].err \/ call[t].cpu \notin online

(* What the invariant says of a stop_machine call inside stop_cpus. *)
LEMMA MachineIs ==
  ASSUME NEW t, IsMachine(t), InStopCpus(t)
  PROVE  MachineOK(t) <=> MachineFacts(t)
<1>1. MachineOK(t) => MachineFacts(t)
  BY DEF MachineOK, MachineFacts, STOPMACHINE_PREPARE, STOPMACHINE_EXIT, STOPMACHINE_RUN
<1>2. MachineFacts(t) => MachineOK(t)
  BY DEF MachineOK, MachineFacts, InStopCpus, STOPMACHINE_PREPARE, STOPMACHINE_EXIT, STOPMACHINE_RUN
<1> QED
  BY <1>1, <1>2

(* The same after a step. *)
LEMMA MachineIsNext ==
  ASSUME NEW t, MachineFacts(t)'
  PROVE  MachineOK(t)'
BY DEF MachineOK, MachineFacts, InStopCpus, STOPMACHINE_PREPARE, STOPMACHINE_EXIT, STOPMACHINE_RUN

(* The stopper of c, which works for t's machine, goes on in its loop. *)
Loops(c, t, p, k) ==
  /\ stopper' \in [CPUs -> Stoppers] /\ \A d \in CPUs \ {c} : stopper'[d] = stopper[d]
  /\ stopper'[c].enabled = stopper[c].enabled /\ stopper'[c].works = stopper[c].works
  /\ stopper'[c].pc = p /\ stopper'[c].work = stopper[c].work
  /\ stopper'[c].curstate = k
  /\ UNCHANGED <<stop_cpus_mutex, to_queue, done>>

(* A step of one CPU's state loop disturbs neither other calls nor the works. *)
LEMMA LoopsFrame ==
  ASSUME IInv, NEW c \in CPUs, stopper[c].pc \in {"spin", "ack"}, NEW t \in Tasks,
         t = stopper[c].work[2], NEW p \in StatePcs, NEW k, Loops(c, t, p, k),
         p = "fn" => k = STOPMACHINE_NONE
  PROVE  /\ \A u \in Tasks \ {t} : SameWork(c, u)
         /\ \A d \in CPUs : /\ Running(d, t)' <=> Running(d, t)
                            /\ Listed(d, t)' <=> Listed(d, t)
         /\ Todo(t)' = Todo(t) /\ StopperOK(c)'
<1>1. \A d \in CPUs, u \in Tasks : /\ Running(d, u)' <=> Running(d, u)
                                   /\ Listed(d, u)' <=> Listed(d, u)
  BY DEF Loops, Running, Listed
<1>2. \A u \in Tasks \ {t} : SameWork(c, u)
  BY <1>1 DEF SameWork, Running
<1>3. Todo(t)' = Todo(t)
  BY <1>1 DEF Todo, Loops
<1>4. stopper[c].work # NoWork /\ stopper[c].work[1] = "machine" /\ stopper[c].enabled
  BY DEF IInv, StopperOK
<1>5. StopperOK(c)'
  BY <1>4 DEF StopperOK, Loops, StatePcs
<1> QED
  BY <1>1, <1>2, <1>3, <1>5

(* A step of the state loop leaves as much to do. *)
LEMMA LoopsTodo ==
  ASSUME IInv, NEW t \in Tasks, UNCHANGED <<stop_cpus_mutex, to_queue, done>>, Todo(t)' = Todo(t),
         \A d \in CPUs : /\ Running(d, t)' <=> Running(d, t)
                         /\ Listed(d, t)' <=> Listed(d, t),
         call'[t].pc = call[t].pc
  PROVE  TodoOK(t)'
<1>1. stop_cpus_mutex' = t => \A d \in to_queue' : ~Running(d, t)' /\ ~Listed(d, t)'
  <2>1. to_queue \subseteq CPUs /\ TodoOK(t)
    BY DEF IInv, TypeOK
  <2> QED
    BY <2>1 DEF TodoOK
<1> QED
  BY <1>1 DEF IInv, TodoOK

(* Everybody has acknowledged but c, and so the machine moves on. *)
LEMMA LastAck ==
  ASSUME IInv, NEW c \in CPUs, NEW t \in Tasks, t = stopper[c].work[2],
         stopper[c].pc = "ack", MachineFacts(t), smdata[t].thread_ack = 1,
         NEW st \in 1 .. 4, smdata[t].state = st, stopper[c].curstate = st,
         Loops(c, t, IF st = 4 THEN "fn" ELSE "spin", IF st = 4 THEN 0 ELSE st),
         UNCHANGED <<online, call>>,
         smdata'[t].state = st + 1, smdata'[t].thread_ack = smdata[t].num_threads,
         smdata'[t].num_threads = smdata[t].num_threads, smdata'[t].ran = smdata[t].ran,
         Todo(t)' = Todo(t), \A d \in CPUs : Running(d, t)' <=> Running(d, t)
  PROVE  MachineFacts(t)'
<1>1. Running(c, t) /\ c \in Todo(t) /\ ~Acked(c, t)
  BY DEF Running, Todo, Acked
<1>2. Behind(t) = {c}
  <2>1. c \in Behind(t) /\ Behind(t) \subseteq CPUs /\ Cardinality(Behind(t)) = 1
    BY <1>1, TodoCpus DEF Behind, MachineFacts
  <2> QED
    BY <2>1, CpuCount
<1>3. /\ stopper'[c].pc = IF st = 4 THEN "fn" ELSE "spin"
      /\ stopper'[c].curstate = IF st = 4 THEN 0 ELSE st
      /\ \A d \in CPUs \ {c} : stopper'[d] = stopper[d]
      /\ done' = done
  BY DEF Loops
<1>4. ASSUME NEW d \in Todo(t)
      PROVE  /\ d \in CPUs /\ Running(d, t) /\ Running(d, t)'
             /\ st = 4 => stopper'[d].pc = "fn"
             /\ st < 4 => stopper'[d].pc = "spin" /\ stopper'[d].curstate = st
             /\ st < 4 => stopper[d].curstate = st
  <2>1. d \in CPUs /\ InStep(d, t)
    BY TodoCpus DEF MachineFacts
  <2>2. CASE d = c
    BY <1>1, <1>3, <2>1, <2>2
  <2>3. CASE d # c
    <3>1. Acked(d, t)
      BY <1>2, <2>3 DEF Behind
    <3>2. Running(d, t) /\ stopper'[d] = stopper[d]
      BY <1>3, <2>1, <2>3, <3>1 DEF Acked
    <3>3. /\ stopper[d].pc = "fn" => st > 3
          /\ stopper[d].pc = "spin" => stopper[d].curstate < 4
      BY <2>1, <3>2 DEF InStep, STOPMACHINE_RUN, STOPMACHINE_EXIT
    <3> QED
      BY <2>1, <3>1, <3>2, <3>3 DEF Acked
  <2> QED
    BY <2>2, <2>3
<1>5. \A d \in Todo(t)' : InStep(d, t)'
  <2> SUFFICES ASSUME NEW d \in Todo(t) PROVE InStep(d, t)'
    OBVIOUS
  <2> QED
    BY <1>4 DEF InStep, STOPMACHINE_RUN, STOPMACHINE_EXIT
<1>6. st < 4 => Behind(t)' = Todo(t)
  <2> SUFFICES ASSUME st < 4, NEW d \in Todo(t) PROVE ~Acked(d, t)'
    BY DEF Behind
  <2> QED
    BY <1>4 DEF Acked
<1>7. st < 4 => /\ Todo(t) = Involved(t) /\ smdata[t].num_threads = Cardinality(Todo(t))
                /\ ~done[t].completed
  BY DEF MachineFacts
<1>8. Involved(t)' = Involved(t) /\ IsMachine(t)' /\ InStopCpus(t)'
  BY DEF Involved, MachineFacts, IsMachine, InStopCpus
<1>9. st = 3 => smdata[t].ran = 1
  <2> SUFFICES ASSUME st = 3 PROVE HasRun(t)
    BY DEF MachineFacts
  <2>1. PICK d \in Involved(t) : is_active(d, t)
    BY <1>1, <1>7, SomeActive
  <2> QED
    BY <1>4, <1>7, <2>1 DEF HasRun, STOPMACHINE_RUN
<1>10. st < 3 => smdata[t].ran = 0
  BY DEF MachineFacts
<1>11. st = 2 => ~HasRun(t)'
  <2> SUFFICES ASSUME st = 2, NEW d \in CPUs, Running(d, t)', stopper'[d].curstate = 3 PROVE FALSE
    BY DEF HasRun, STOPMACHINE_RUN
  <2>1. d \in Todo(t)
    BY DEF Todo
  <2> QED
    BY <1>4, <2>1
<1>12. smdata[t].ran = 1 /\ call[t].op = "down" => call[t].err \/ call[t].cpu \notin online
  BY DEF MachineFacts
<1>13. st = 4 => smdata[t].ran = 1
  BY DEF MachineFacts
<1> QED
  BY <1>3, <1>5, <1>6, <1>7, <1>8, <1>9, <1>10, <1>11, <1>12, <1>13, SMTT(30)
     DEF MachineFacts

(* Another one has acknowledged. *)
LEMMA NextAck ==
  ASSUME IInv, NEW c \in CPUs, NEW t \in Tasks, t = stopper[c].work[2],
         stopper[c].pc = "ack", MachineFacts(t),
         NEW st \in 1 .. 4, smdata[t].state = st, stopper[c].curstate = st,
         Loops(c, t, IF st = 4 THEN "fn" ELSE "spin", IF st = 4 THEN 0 ELSE st),
         UNCHANGED <<online, call>>,
         smdata'[t].state = st, smdata'[t].thread_ack = smdata[t].thread_ack - 1,
         smdata'[t].num_threads = smdata[t].num_threads, smdata'[t].ran = smdata[t].ran,
         Todo(t)' = Todo(t), \A d \in CPUs : Running(d, t)' <=> Running(d, t)
  PROVE  MachineFacts(t)'
<1>1. Running(c, t) /\ c \in Todo(t) /\ ~Acked(c, t)
  BY DEF Running, Todo, Acked
<1>2. /\ stopper'[c].pc = IF st = 4 THEN "fn" ELSE "spin"
      /\ stopper'[c].curstate = IF st = 4 THEN 0 ELSE st
      /\ \A d \in CPUs \ {c} : stopper'[d] = stopper[d]
      /\ done' = done
  BY DEF Loops
<1>3. Acked(c, t)' /\ InStep(c, t)'
  BY <1>1, <1>2 DEF Acked, InStep, STOPMACHINE_RUN, STOPMACHINE_EXIT
<1>4. \A d \in CPUs \ {c} : (Acked(d, t)' <=> Acked(d, t)) /\ (InStep(d, t)' <=> InStep(d, t))
  BY <1>2 DEF Acked, InStep
<1>5. Behind(t)' = Behind(t) \ {c} /\ c \in Behind(t)
  BY <1>1, <1>3, <1>4, TodoCpus DEF Behind
<1>6. \A d \in Todo(t)' : InStep(d, t)'
  BY <1>3, <1>4, TodoCpus DEF MachineFacts
<1>7. smdata'[t].thread_ack = Cardinality(Behind(t)')
  <2>1. smdata[t].thread_ack = Cardinality(Behind(t))
    BY DEF MachineFacts
  <2> QED
    BY <1>5, <2>1, CpuCount, TodoCpus
<1>8. Involved(t)' = Involved(t) /\ IsMachine(t)' /\ InStopCpus(t)'
  BY DEF Involved, MachineFacts, IsMachine, InStopCpus
<1>9. st = 3 => (HasRun(t)' <=> HasRun(t))
  <2> SUFFICES ASSUME st = 3 PROVE HasRun(t)' <=> HasRun(t)
    OBVIOUS
  <2>1. \A d \in CPUs : stopper'[d].curstate = stopper[d].curstate
    BY <1>2
  <2> QED
    BY <2>1 DEF HasRun, is_active
<1> QED
  BY <1>2, <1>6, <1>7, <1>8, <1>9 DEF MachineFacts

(* ack_state keeps the invariant: only the last CPU to acknowledge moves the state on. *)
LEMMA AckStateStep ==
  ASSUME IInv, NEW c \in CPUs, UNCHANGED hotplugVars, ack_state(c)
  PROVE  IInv'
<1>1. stopper[c].pc = "ack" /\ UNCHANGED <<online, stop_cpus_mutex, to_queue, call, done>>
  BY DEF ack_state
<1>2. PICK t \in Tasks : t = stopper[c].work[2]
  BY <1>1, RunsMachine
<1>3. /\ MachineFacts(t) /\ InStep(c, t) /\ Running(c, t) /\ c \in Todo(t)
      /\ smdata[t].state \in 1 .. 5 /\ smdata[t] \in Datas
  BY <1>1, <1>2, RunsMachine, MachineIs DEF IInv, TypeOK
<1>4. PICK st \in 1 .. 4 : st = smdata[t].state /\ st = stopper[c].curstate
  <2>1. stopper[c].curstate \in 0 .. 4
    BY StopperType DEF IInv
  <2>2. stopper[c].curstate = smdata[t].state
    BY <1>1, <1>3 DEF InStep
  <2> QED
    BY <1>3, <2>1, <2>2
<1>5. PICK p \in StatePcs, k \in 0 .. 4 : /\ p = IF st = 4 THEN "fn" ELSE "spin"
                                          /\ k = IF st = 4 THEN 0 ELSE st
  BY DEF StatePcs
<1>6. Loops(c, t, p, k)
  BY <1>1, <1>4, <1>5, WorkSteps DEF Loops, Becomes, IInv
<1>7. /\ \A u \in Tasks \ {t} : SameWork(c, u)
      /\ \A d \in CPUs : /\ Running(d, t)' <=> Running(d, t)
                         /\ Listed(d, t)' <=> Listed(d, t)
      /\ Todo(t)' = Todo(t) /\ StopperOK(c)'
  <2>1. p = "fn" => k = STOPMACHINE_NONE
    BY <1>5 DEF STOPMACHINE_NONE
  <2>2. stopper[c].pc \in {"spin", "ack"}
    BY <1>1
  <2> QED
    BY <1>2, <1>6, <2>1, <2>2, LoopsFrame
<1>8. TodoOK(t)'
  BY <1>1, <1>7, LoopsTodo
<1>9. PICK a \in Nat \ {0}, n \in Nat, r \in Nat :
        a = smdata[t].thread_ack /\ n = smdata[t].num_threads /\ r = smdata[t].ran
  <2>1. c \in Behind(t)
    BY <1>1, <1>3 DEF Behind, Acked
  <2>2. smdata[t].thread_ack = Cardinality(Behind(t))
    BY <1>3, <1>4 DEF MachineFacts
  <2>3. smdata[t].thread_ack >= 1
    BY <2>1, <2>2, CpuCount, TodoCpus
  <2> QED
    BY <1>3, <2>3 DEF Datas
<1>10. PICK m \in Datas : /\ smdata' = [smdata EXCEPT ![t] = m] /\ m.num_threads = n /\ m.ran = r
                          /\ a = 1 => m.state = st + 1 /\ m.thread_ack = n
                          /\ a # 1 => m.state = st /\ m.thread_ack = a - 1
  <2>1. CASE a = 1
    <3> DEFINE m == [smdata[t] EXCEPT !.thread_ack = n, !.state = st + 1]
    <3>1. smdata' = [smdata EXCEPT ![t] = m]
      BY <1>2, <1>4, <1>9, <2>1 DEF ack_state, set_state
    <3>2. st + 1 \in Nat /\ smdata[t] \in Datas
      BY <1>3
    <3>3. m \in Datas /\ m.state = st + 1 /\ m.thread_ack = n /\ m.num_threads = n /\ m.ran = r
      BY <1>9, <3>2 DEF Datas
    <3> HIDE DEF m
    <3> QED
      BY <2>1, <3>1, <3>3
  <2>2. CASE a # 1
    <3> DEFINE m == [smdata[t] EXCEPT !.thread_ack = a - 1]
    <3>1. smdata' = [smdata EXCEPT ![t] = m]
      BY <1>2, <1>4, <1>9, <2>2 DEF ack_state
    <3>2. a - 1 \in Nat /\ smdata[t] \in Datas
      BY <1>3
    <3>3. m \in Datas /\ m.state = st /\ m.thread_ack = a - 1 /\ m.num_threads = n /\ m.ran = r
      BY <1>4, <1>9, <3>2 DEF Datas
    <3> HIDE DEF m
    <3> QED
      BY <2>2, <3>1, <3>3
  <2> QED
    BY <2>1, <2>2
<1>11. /\ smdata' \in [Tasks -> Datas] /\ smdata'[t] = m
       /\ \A u \in Tasks \ {t} : smdata'[u] = smdata[u]
  BY <1>10 DEF IInv, TypeOK
<1>12. MachineFacts(t)'
  <2>1. /\ stopper[c].pc = "ack" /\ MachineFacts(t) /\ UNCHANGED <<online, call>>
        /\ Loops(c, t, IF st = 4 THEN "fn" ELSE "spin", IF st = 4 THEN 0 ELSE st)
    BY <1>1, <1>3, <1>5, <1>6
  <2>2. /\ smdata[t].state = st /\ stopper[c].curstate = st
        /\ smdata'[t].num_threads = smdata[t].num_threads /\ smdata'[t].ran = smdata[t].ran
    BY <1>4, <1>9, <1>10, <1>11
  <2>3. CASE a = 1
    <3>1. /\ smdata[t].thread_ack = 1 /\ smdata'[t].state = st + 1
          /\ smdata'[t].thread_ack = smdata[t].num_threads
      BY <1>9, <1>10, <1>11, <2>3
    <3> QED
      BY <1>2, <1>7, <2>1, <2>2, <3>1, LastAck
  <2>4. CASE a # 1
    <3>1. smdata'[t].state = st /\ smdata'[t].thread_ack = smdata[t].thread_ack - 1
      BY <1>9, <1>10, <1>11, <2>4
    <3> QED
      BY <1>2, <1>7, <2>1, <2>2, <3>1, NextAck
  <2> QED
    BY <2>3, <2>4
<1>13. MachineOK(t)'
  BY <1>12, MachineIsNext
<1>14. WorksOK(c)'
  <2>1. \A u \in Tasks : GoesOn(u)
    BY <1>1 DEF GoesOn, IInv, TodoOK, WaitPcs
  <2> QED
    BY <1>6, <2>1, WorksFrame DEF IInv, Loops
<1>15. /\ stopper' \in [CPUs -> Stoppers] /\ \A d \in CPUs \ {c} : stopper'[d] = stopper[d]
       /\ stopper'[c].enabled = stopper[c].enabled /\ stopper'[c].works = stopper[c].works
       /\ done' \in [Tasks -> Dones] /\ Todo(t)' \subseteq Todo(t)
       /\ \A u \in Tasks \ {t} : done'[u] = done[u]
  BY <1>1, <1>6, <1>7 DEF Loops, IInv, TypeOK
<1> QED
  BY <1>1, <1>7, <1>8, <1>11, <1>13, <1>14, <1>15, StopperStep

(* The CPU that goes down is involved whether it is still online or not. *)
LEMMA DownInvolved ==
  ASSUME NEW t, call[t].op = "down", call'[t].op = "down", call'[t].cpu = call[t].cpu,
         online' = online \/ online' = online \ {call[t].cpu}
  PROVE  /\ Involved(t)' = Involved(t)
         /\ \A c \in CPUs : is_active(c, t)' <=> is_active(c, t)
<1>1. Involved(t) = online \cup {call[t].cpu} /\ Involved(t)' = online' \cup {call[t].cpu}
  BY DEF Involved
<1>2. \A c \in CPUs : is_active(c, t)' <=> is_active(c, t)
  BY DEF is_active
<1> QED
  BY <1>1, <1>2

(* The next state is seen on c: it is the one after the state it was in,   *)
(* and nobody else has had the function run.                               *)
LEMMA SeenState ==
  ASSUME IInv, NEW c \in CPUs, NEW t \in Tasks, t = stopper[c].work[2],
         stopper[c].pc = "spin", MachineFacts(t),
         NEW st \in 1 .. 4, smdata[t].state = st, stopper[c].curstate = st - 1,
         Loops(c, t, "ack", st),
         smdata'[t].state = st, smdata'[t].thread_ack = smdata[t].thread_ack,
         smdata'[t].num_threads = smdata[t].num_threads,
         Todo(t)' = Todo(t), \A d \in CPUs : Running(d, t)' <=> Running(d, t),
         call'[t].pc = call[t].pc, call'[t].op = call[t].op, call'[t].cpu = call[t].cpu,
         Involved(t)' = Involved(t), is_active(c, t)' <=> is_active(c, t),
         \A d \in CPUs \ {c} : (st = 3 /\ is_active(c, t)) \/ (is_active(d, t)' <=> is_active(d, t)),
         smdata'[t].ran = smdata[t].ran + IF st = 3 /\ is_active(c, t) THEN 1 ELSE 0,
         smdata[t].ran \in Nat,
         smdata'[t].ran = 1 /\ call[t].op = "down" => call'[t].err \/ call[t].cpu \notin online'
  PROVE  MachineFacts(t)'
<1>1. Running(c, t) /\ Running(c, t)'
  BY DEF Running
<1>2. /\ stopper'[c].pc = "ack" /\ stopper'[c].curstate = st
      /\ \A d \in CPUs \ {c} : stopper'[d] = stopper[d]
      /\ done' = done
  BY DEF Loops
<1>3. ~Acked(c, t) /\ ~Acked(c, t)' /\ InStep(c, t)'
  BY <1>1, <1>2 DEF Acked, InStep
<1>4. \A d \in CPUs \ {c} : (Acked(d, t)' <=> Acked(d, t)) /\ (InStep(d, t)' <=> InStep(d, t))
  BY <1>2 DEF Acked, InStep
<1>5. Behind(t)' = Behind(t)
  BY <1>3, <1>4, TodoCpus DEF Behind
<1>6. \A d \in Todo(t)' : InStep(d, t)'
  BY <1>3, <1>4, TodoCpus DEF MachineFacts
<1>7. IsMachine(t)' /\ InStopCpus(t)'
  <2>1. IsMachine(t) /\ InStopCpus(t)
    BY DEF MachineFacts
  <2> QED
    BY <2>1 DEF IsMachine, InStopCpus
<1>8. CASE st = 3 /\ is_active(c, t)
  <2>1. ~HasRun(t)
    <3> SUFFICES ASSUME NEW d \in CPUs, Running(d, t), is_active(d, t), stopper[d].curstate = 3
                 PROVE  FALSE
      BY DEF HasRun, STOPMACHINE_RUN
    <3>1. d = c
      BY <1>8, OneActive
    <3>2. stopper[c].curstate = 2
      BY <1>8
    <3> QED
      BY <3>1, <3>2
  <2>2. HasRun(t)'
    BY <1>1, <1>2, <1>8 DEF HasRun, STOPMACHINE_RUN
  <2>3. smdata[t].ran = 0
    <3>1. smdata[t].state = 3
      BY <1>8, Zenon
    <3> QED
      BY <2>1, <3>1 DEF MachineFacts
  <2> QED
    BY <1>2, <1>5, <1>6, <1>7, <1>8, <2>2, <2>3, SMTT(30) DEF MachineFacts
<1>9. CASE ~(st = 3 /\ is_active(c, t))
  <2>1. smdata'[t].ran = smdata[t].ran
    BY <1>9
  <2>2. st = 3 => (HasRun(t)' <=> HasRun(t))
    <3> SUFFICES ASSUME st = 3 PROVE HasRun(t)' <=> HasRun(t)
      OBVIOUS
    <3>1. ~is_active(c, t) /\ ~is_active(c, t)'
      BY <1>9
    <3> QED
      BY <1>2, <1>9, <3>1 DEF HasRun
  <2> QED
    BY <1>2, <1>5, <1>6, <1>7, <2>1, <2>2 DEF MachineFacts
<1> QED
  BY <1>8, <1>9

(* Where a task t that takes a CPU down has the mask or its err changed. *)
LEMMA SeesStep ==
  ASSUME IInv, NEW c \in CPUs, stopper[c].pc = "spin", NEW t \in Tasks, t = stopper[c].work[2],
         call[t].op = "down", UNCHANGED hotplugVars, NEW k, Loops(c, t, "ack", k),
         online' \in {online, online \ {call[t].cpu}},
         NEW e, Turns(t, call[t].pc, call[t].op, call[t].cpu, e),
         smdata' \in [Tasks -> Datas], MachineOK(t)'
  PROVE  IInv'
<1>1. /\ \A u \in Tasks \ {t} : SameWork(c, u)
      /\ \A d \in CPUs : /\ Running(d, t)' <=> Running(d, t)
                         /\ Listed(d, t)' <=> Listed(d, t)
      /\ Todo(t)' = Todo(t) /\ StopperOK(c)'
  <2>1. stopper[c].pc \in {"spin", "ack"} /\ "ack" \in StatePcs /\ "ack" # "fn"
    BY DEF StatePcs
  <2> QED
    BY <2>1, LoopsFrame
<1>2. /\ stopper' \in [CPUs -> Stoppers] /\ \A d \in CPUs \ {c} : stopper'[d] = stopper[d]
      /\ stopper'[c].enabled = stopper[c].enabled /\ stopper'[c].works = stopper[c].works
      /\ stopper'[c].work = stopper[c].work
      /\ UNCHANGED <<stop_cpus_mutex, to_queue, done>>
  BY DEF Loops
<1>3. /\ call' \in [Tasks -> Calls] /\ \A u \in Tasks \ {t} : call'[u] = call[u]
      /\ call'[t].pc = call[t].pc /\ call'[t].op = "down" /\ call'[t].cpu = call[t].cpu
  BY DEF Turns
<1>4. InStopCpus(t) /\ IsWriter(t) /\ call[t].cpu \in CPUs /\ HotOK(t) /\ CallOK(t)
  <2>1. InStopCpus(t)
    BY RunsMachine
  <2> QED
    BY <2>1, CallPlace DEF IsWriter, InStopCpus, Starting, CallOK
<1>5. TypeOK'
  BY <1>2, <1>3 DEF IInv, TypeOK, hotplugVars
<1>6. LocksInv'
  <2>1. \A u \in Tasks : call'[u].pc = call[u].pc /\ call'[u].op = call[u].op
    BY <1>3
  <2>2. \A u \in Tasks : /\ IsReader(u)' <=> IsReader(u)
                         /\ IsWriter(u)' <=> IsWriter(u)
                         /\ InStopCpus(u)' <=> InStopCpus(u)
    BY <2>1 DEF IsReader, IsWriter, InStopCpus
  <2>3. {u \in Tasks : IsReader(u)'} = {u \in Tasks : IsReader(u)}
    BY <2>2
  <2> QED
    BY <1>2, <2>1, <2>2, <2>3, ZenonT(30) DEF IInv, LocksInv, hotplugVars
<1>7. ASSUME NEW u \in Tasks PROVE CallOK(u)' /\ TodoOK(u)' /\ HotOK(u)' /\ MachineOK(u)'
  <2>1. CASE u = t
    <3>1. TodoOK(t)'
      BY <1>1, <1>2, <1>3, LoopsTodo
    <3>2. CallOK(t)'
      BY <1>3, <1>4 DEF CallOK
    <3>3. Involved(t)' = Involved(t)
      BY <1>3, DownInvolved
    <3>4. stopper'[call[t].cpu].enabled
      BY <1>2, <1>4 DEF HotOK
    <3>5. HotOK(t)'
      BY <1>1, <1>3, <1>4, <3>3, <3>4, ZenonT(30) DEF HotOK, InStopCpus, Starting
    <3> QED
      BY <2>1, <3>1, <3>2, <3>5
  <2>2. CASE u # t
    <3>1. call'[u] = call[u] /\ call[u].op = "none" /\ call[u].pc \in {"idle", "one_wait"}
      BY <1>3, <1>4, <2>2, WriterAlone
    <3>2. CallOK(u)' /\ HotOK(u)' /\ MachineOK(u)'
      BY <3>1, HotNone, NoMachine DEF CallOK
    <3>3. Quiet(u)
      <4>1. \A d \in CPUs : SameWork(d, u)
        BY <1>1, <1>2, <2>2 DEF SameWork, Running, Listed
      <4> QED
        BY <1>2, <4>1 DEF Quiet, SameQueue
    <3>4. TodoOK(u)'
      BY <1>2, <1>5, <3>1, <3>3, TodoFrame DEF IInv
    <3> QED
      BY <3>2, <3>4
  <2> QED
    BY <2>1, <2>2
<1>8. ASSUME NEW d \in CPUs PROVE StopperOK(d)' /\ WorksOK(d)' /\ EnabledOK(d)'
  <2>1. \A u \in Tasks : GoesOn(u)
    <3>1. \A u \in Tasks : call'[u].pc = call[u].pc /\ call'[u].op = call[u].op
      BY <1>3
    <3> QED
      BY <3>1 DEF GoesOn, IInv, TodoOK, WaitPcs
  <2>2. /\ stopper'[d].enabled = stopper[d].enabled /\ stopper'[d].works = stopper[d].works
        /\ stopper'[d].work = stopper[d].work
    BY <1>2
  <2>3. WorksOK(d)'
    BY <2>1, <2>2, WorksFrame DEF IInv
  <2>4. StopperOK(d)'
    BY <1>1, <1>2 DEF IInv, StopperOK
  <2>5. EnabledOK(d)'
    <3>1. \A u \in Tasks : call[u].pc = "online" =>
             call'[u].pc = call[u].pc /\ call'[u].cpu = call[u].cpu
      BY <1>3
    <3> QED
      BY <2>2, <3>1, EnabledFrame DEF IInv
  <2> QED
    BY <2>3, <2>4, <2>5
<1> QED
  BY <1>5, <1>6, <1>7, <1>8 DEF IInv

(* see_state keeps the invariant: a CPU follows by one state, never by two. *)
LEMMA SeeStateStep ==
  ASSUME IInv, NEW c \in CPUs, UNCHANGED hotplugVars, see_state(c)
  PROVE  IInv'
<1>1. stopper[c].pc = "spin" /\ UNCHANGED <<stop_cpus_mutex, to_queue, done>>
  BY DEF see_state
<1>2. PICK t \in Tasks : t = stopper[c].work[2]
  BY <1>1, RunsMachine
<1>3. /\ MachineFacts(t) /\ InStep(c, t) /\ Running(c, t) /\ c \in Todo(t)
      /\ smdata[t].state \in 1 .. 5 /\ smdata[t] \in Datas
  BY <1>1, <1>2, RunsMachine, MachineIs DEF IInv, TypeOK
<1>4. PICK st \in 1 .. 4 : st = smdata[t].state /\ stopper[c].curstate = st - 1
  <2>1. stopper[c].curstate \in 0 .. 4 /\ stopper[c].curstate # smdata[t].state
    BY <1>2, StopperType DEF IInv, see_state
  <2>2. stopper[c].curstate < 4 /\ stopper[c].curstate \in {smdata[t].state - 1, smdata[t].state}
    BY <1>1, <1>3 DEF InStep, STOPMACHINE_EXIT
  <2> QED
    BY <1>3, <2>1, <2>2
<1>5. Loops(c, t, "ack", st)
  BY <1>1, <1>2, <1>4, WorkSteps DEF Loops, Becomes, IInv
<1>6. /\ \A u \in Tasks \ {t} : SameWork(c, u)
      /\ \A d \in CPUs : /\ Running(d, t)' <=> Running(d, t)
                         /\ Listed(d, t)' <=> Listed(d, t)
      /\ Todo(t)' = Todo(t) /\ StopperOK(c)'
  <2>1. stopper[c].pc \in {"spin", "ack"} /\ "ack" \in StatePcs /\ "ack" # "fn"
    BY <1>1 DEF StatePcs
  <2> QED
    BY <1>2, <1>5, <2>1, LoopsFrame
<1>7. /\ stopper' \in [CPUs -> Stoppers] /\ \A d \in CPUs \ {c} : stopper'[d] = stopper[d]
      /\ stopper'[c].enabled = stopper[c].enabled /\ stopper'[c].works = stopper[c].works
      /\ stopper'[c].work = stopper[c].work
      /\ done' \in [Tasks -> Dones] /\ Todo(t)' \subseteq Todo(t)
      /\ \A u \in Tasks \ {t} : done'[u] = done[u]
  BY <1>1, <1>5, <1>6 DEF Loops, IInv, TypeOK
<1>8. smdata[t].ran \in Nat
  BY <1>3 DEF Datas
<1>9. ASSUME UNCHANGED <<online, call>>, MachineOK(t)', smdata' \in [Tasks -> Datas],
             \A u \in Tasks \ {t} : smdata'[u] = smdata[u]
      PROVE  IInv'
  <2>1. TodoOK(t)'
    BY <1>1, <1>6, <1>9, LoopsTodo
  <2>2. WorksOK(c)'
    <3>1. \A u \in Tasks : GoesOn(u)
      BY <1>9 DEF GoesOn, IInv, TodoOK, WaitPcs
    <3> QED
      BY <1>7, <3>1, WorksFrame DEF IInv
  <2> QED
    BY <1>1, <1>6, <1>7, <1>9, <2>1, <2>2, StopperStep
<1>10. CASE ~(st = 3 /\ is_active(c, t))
  <2>1. UNCHANGED <<online, call, smdata>>
    BY <1>2, <1>4, <1>10 DEF see_state, STOPMACHINE_RUN
  <2>2. /\ Involved(t)' = Involved(t) /\ smdata' \in [Tasks -> Datas]
        /\ \A d \in CPUs : is_active(d, t)' <=> is_active(d, t)
    BY <2>1 DEF Involved, is_active, IInv, TypeOK
  <2>3. /\ smdata'[t].ran = smdata[t].ran + IF st = 3 /\ is_active(c, t) THEN 1 ELSE 0
        /\ smdata'[t] = smdata[t]
        /\ smdata'[t].ran = 1 /\ call[t].op = "down" => call'[t].err \/ call[t].cpu \notin online'
    <3>1. smdata'[t] = smdata[t] /\ call'[t] = call[t] /\ online' = online
      BY <2>1
    <3>2. smdata[t].ran = 1 /\ call[t].op = "down" => call[t].err \/ call[t].cpu \notin online
      BY <1>3, Zenon DEF MachineFacts
    <3> QED
      BY <1>8, <1>10, <3>1, <3>2
  <2>4. MachineFacts(t)'
    BY <1>1, <1>2, <1>3, <1>4, <1>5, <1>6, <1>8, <2>1, <2>2, <2>3, SeenState
  <2>5. MachineOK(t)'
    BY <2>4, MachineIsNext
  <2> QED
    BY <1>9, <2>1, <2>2, <2>5
<1>11. CASE st = 3 /\ is_active(c, t)
  <2>1. run_fn(t)
    BY <1>2, <1>4, <1>11 DEF see_state, STOPMACHINE_RUN
  <2>2. PICK m \in Datas : /\ smdata' = [smdata EXCEPT ![t] = m] /\ m.ran = smdata[t].ran + 1
                           /\ m.state = smdata[t].state /\ m.thread_ack = smdata[t].thread_ack
                           /\ m.num_threads = smdata[t].num_threads
    <3>1. PICK r \in Nat : r = smdata[t].ran + 1
      BY <1>8
    <3> DEFINE m == [smdata[t] EXCEPT !.ran = r]
    <3>2. smdata' = [smdata EXCEPT ![t] = m]
      BY <2>1, <3>1 DEF run_fn
    <3>3. m \in Datas /\ m.ran = r /\ m.state = smdata[t].state
          /\ m.thread_ack = smdata[t].thread_ack /\ m.num_threads = smdata[t].num_threads
      BY <1>3 DEF Datas
    <3> HIDE DEF m
    <3> QED
      BY <3>1, <3>2, <3>3
  <2>3. /\ smdata' \in [Tasks -> Datas] /\ smdata'[t] = m
        /\ \A u \in Tasks \ {t} : smdata'[u] = smdata[u]
    BY <2>2 DEF IInv, TypeOK
  <2>4. /\ smdata'[t].ran = smdata[t].ran + IF st = 3 /\ is_active(c, t) THEN 1 ELSE 0
        /\ smdata'[t].state = st /\ smdata'[t].thread_ack = smdata[t].thread_ack
        /\ smdata'[t].num_threads = smdata[t].num_threads
    BY <1>4, <1>11, <2>2, <2>3
  <2>5. CASE call[t].op # "down"
    <3>1. UNCHANGED <<online, call>>
      BY <2>1, <2>5 DEF run_fn
    <3>2. Involved(t)' = Involved(t) /\ (is_active(c, t)' <=> is_active(c, t))
      BY <3>1 DEF Involved, is_active
    <3>3. MachineFacts(t)'
      BY <1>1, <1>2, <1>3, <1>4, <1>5, <1>6, <1>8, <1>11, <2>4, <2>5, <3>1, <3>2, SeenState
    <3> QED
      BY <1>9, <2>3, <3>1, <3>3, MachineIsNext
  <2>6. CASE call[t].op = "down"
    <3>1. PICK e \in BOOLEAN :
            /\ Turns(t, call[t].pc, call[t].op, call[t].cpu, e)
            /\ online' \in {online, online \ {call[t].cpu}}
            /\ e \/ call[t].cpu \notin online'
      <4>1. CASE online' = online \ {call[t].cpu} /\ UNCHANGED call
        <5>1. Turns(t, call[t].pc, call[t].op, call[t].cpu, call[t].err) /\ call[t].err \in BOOLEAN
          BY <4>1 DEF Turns, IInv, TypeOK, Calls
        <5> QED
          BY <4>1, <5>1
      <4>2. CASE call' = [call EXCEPT ![t].err = TRUE] /\ UNCHANGED online
        <5>1. Turns(t, call[t].pc, call[t].op, call[t].cpu, TRUE)
          BY <4>2, SetsErr DEF IInv
        <5> QED
          BY <4>2, <5>1
      <4> QED
        BY <2>1, <2>6, <4>1, <4>2 DEF run_fn
    <3>2. /\ call'[t].pc = call[t].pc /\ call'[t].op = call[t].op /\ call'[t].cpu = call[t].cpu
          /\ call'[t].err = e
      BY <3>1 DEF Turns
    <3>3. Involved(t)' = Involved(t) /\ (is_active(c, t)' <=> is_active(c, t))
      <4>1. online' = online \/ online' = online \ {call[t].cpu}
        BY <3>1, Zenon
      <4> QED
        BY <1>1, <2>6, <3>2, <4>1, DownInvolved
    <3>4. MachineFacts(t)'
      BY <1>1, <1>2, <1>3, <1>4, <1>5, <1>6, <1>8, <1>11, <2>4, <3>1, <3>2, <3>3, SeenState
    <3>5. MachineOK(t)'
      BY <3>4, MachineIsNext
    <3> QED
      BY <1>1, <1>2, <1>5, <2>3, <2>6, <3>1, <3>5, SeesStep
  <2> QED
    BY <2>5, <2>6
<1> QED
  BY <1>10, <1>11
-----------------------------------------------------------------------------
(* The invariant holds at the start. *)
LEMMA InitIInv == Init => IInv
<1> SUFFICES ASSUME Init PROVE IInv
  OBVIOUS
<1>1. /\ online = CPUs /\ stop_cpus_mutex = NULL /\ to_queue = {}
      /\ stopper = [c \in CPUs |-> Asleep] /\ call = [t \in Tasks |-> Idle]
      /\ done = [t \in Tasks |-> cpu_stop_init_done(0)]
      /\ smdata = [t \in Tasks |-> NoData]
      /\ cpu_add_remove_lock = NULL /\ active_writer = NULL /\ lock = NULL
      /\ refcount = 0 /\ wstate = TASK_RUNNING
  BY DEF Init, StopInit
<1>2. /\ Asleep \in Stoppers /\ Asleep.enabled = TRUE /\ Asleep.works = << >>
      /\ Asleep.pc = "schedule" /\ Asleep.work = NoWork /\ Asleep.curstate = STOPMACHINE_NONE
  <2>1. << >> \in Seq(Works) /\ 0 \in STOPMACHINE_NONE .. STOPMACHINE_EXIT
    BY DEF STOPMACHINE_NONE, STOPMACHINE_EXIT
  <2>2. NoStopper \in Stoppers
    BY <2>1 DEF Stoppers, NoStopper, EmptyList, STOPMACHINE_NONE, TaskStates
  <2>3. Asleep \in Stoppers
    BY <2>2 DEF Stoppers, Asleep, TaskStates
  <2> QED
    BY <2>3 DEF Asleep, NoStopper, EmptyList
<1>3. Idle \in Calls /\ Idle.pc = "idle" /\ Idle.op = "none"
  BY DEF Idle, Calls
<1>4. /\ cpu_stop_init_done(0) \in Dones /\ cpu_stop_init_done(0).nr_todo = 0 /\ NoData \in Datas
  BY DEF cpu_stop_init_done, Dones, NoData, Datas, STOPMACHINE_NONE
<1>5. TypeOK
  BY <1>1, <1>2, <1>3, <1>4 DEF TypeOK, TaskStates
<1>6. LocksInv
  <2>1. {t \in Tasks : IsReader(t)} = {}
    BY <1>1, <1>3 DEF IsReader
  <2>2. Cardinality({t \in Tasks : IsReader(t)}) = 0
    BY <2>1, FS_EmptySet
  <2> QED
    BY <1>1, <1>3, <2>2, CpuStopAssumption DEF LocksInv, IsWriter, InStopCpus
<1>7. ASSUME NEW t \in Tasks PROVE CallOK(t) /\ TodoOK(t) /\ HotOK(t) /\ MachineOK(t)
  <2>1. call[t].pc = "idle" /\ call[t].op = "none" /\ done[t].nr_todo = 0
    BY <1>1, <1>3, <1>4
  <2>2. Todo(t) = {}
    BY <1>1, <1>2, WorkTask DEF Todo, Running, Listed
  <2>3. TodoOK(t)
    BY <1>1, <2>1, <2>2 DEF TodoOK
  <2> QED
    BY <2>1, <2>3 DEF CallOK, HotOK, MachineOK, IsMachine, InStopCpus
<1>8. ASSUME NEW c \in CPUs PROVE StopperOK(c) /\ WorksOK(c) /\ EnabledOK(c)
  BY <1>1, <1>2 DEF StopperOK, WorksOK, EnabledOK
<1> QED
  BY <1>5, <1>6, <1>7, <1>8 DEF IInv

(* Every step keeps the invariant. *)
LEMMA StepIInv == IInv /\ [Next]_vars => IInv'
<1> SUFFICES ASSUME IInv, [Next]_vars PROVE IInv'
  OBVIOUS
<1>1. ASSUME NEW t \in Tasks, (StopCall(t) \/ stop_cpus(t) \/ try_stop_cpus(t)) /\ UNCHANGED hotplugVars
      PROVE  IInv'
  BY <1>1, OneReturnStep, QueueStep, StopReturnStep, StopCpusStep DEF StopCall
<1>2. ASSUME NEW t \in Tasks, Proceed(t) \/ read(t) \/ stop_machine(t)
      PROVE  IInv'
  BY <1>2, PutStep, HotplugBeginStep, BeginWokenStep, HotplugDoneStep, DownPrepareStep,
     CpuDieStep, UpPrepareStep, CpuUpStep, CpuOnlineStep, KthreadStopStep, CanceledStep,
     DeadStep, ReadStep, StopMachineStep DEF Proceed
<1>3. ASSUME NEW t \in Tasks, NEW c \in CPUs, stop_one_cpu(t, c) /\ UNCHANGED hotplugVars
      PROVE  IInv'
  BY <1>3, StopOneCpuStep
<1>4. ASSUME NEW t \in Tasks, NEW c \in HotCPUs, NEW op \in {"down", "up"},
             cpu_maps_update_begin(t, c, op)
      PROVE  IInv'
  BY <1>4, MapsBeginStep
<1>5. ASSUME NEW c \in CPUs, cpu_stopper_thread(c) /\ UNCHANGED hotplugVars
      PROVE  IInv'
  BY <1>5, IdleThreadStep, TakeWorkStep, SignalDoneStep, SeeStateStep, AckStateStep
     DEF cpu_stopper_thread
<1>6. CASE UNCHANGED vars
  <2>1. UNCHANGED <<online, stopper, stop_cpus_mutex, to_queue, call, done, smdata,
                    cpu_add_remove_lock, active_writer, lock, refcount, wstate>>
    BY <1>6 DEF vars, stopVars, hotplugVars
  <2>2. TypeOK' /\ LocksInv'
    BY <2>1 DEF IInv, TypeOK, LocksInv, IsReader, IsWriter, InStopCpus
  <2>3. \A u \in Tasks : Quiet(u)
    BY <2>1, StillQuiet
  <2>4. ASSUME NEW u \in Tasks PROVE CallOK(u)' /\ TodoOK(u)' /\ HotOK(u)' /\ MachineOK(u)'
    <3>1. CallOK(u)'
      BY <2>1 DEF IInv, CallOK
    <3>2. TodoOK(u)'
      BY <2>1, <2>2, <2>3, TodoFrame DEF IInv
    <3>3. HotOK(u)'
      BY <2>1, <2>3, QuietTodo, HotFrame DEF IInv
    <3>4. MachineOK(u)'
      BY <2>1, <2>3, MachineFrame DEF IInv, InStopCpus
    <3> QED
      BY <3>1, <3>2, <3>3, <3>4
  <2>5. ASSUME NEW c \in CPUs PROVE StopperOK(c)' /\ WorksOK(c)' /\ EnabledOK(c)'
    <3>1. \A u \in Tasks : GoesOn(u)
      BY <2>1 DEF GoesOn, IInv, TodoOK, WaitPcs
    <3> QED
      BY <2>1, <3>1, WorksFrame DEF IInv, StopperOK, EnabledOK
  <2> QED
    BY <2>2, <2>4, <2>5 DEF IInv
<1> QED
  BY <1>1, <1>2, <1>3, <1>4, <1>5, <1>6 DEF Next

(* The invariant holds in every reachable state. *)
LEMMA Invariant == Spec => []IInv
<1>1. Init => IInv
  BY InitIInv
<1>2. IInv /\ [Next]_vars => IInv'
  BY StepIInv
<1> QED
  BY <1>1, <1>2, PTL DEF Spec

(* The stoppers, the calls and the locks keep their types. *)
THEOREM TypeCorrect == Spec => []TypeOK
<1>1. IInv => TypeOK
  BY DEF IInv
<1> QED
  BY <1>1, Invariant, PTL

(* stop_machine() runs its function where every online CPU is in its       *)
(* stopper with interrupts off, and exactly once before it returns, for    *)
(* any number of CPUs and callers, while CPUs go up and down.              *)
THEOREM LockStepCorrect == Spec => []LockStep
<1>1. IInv => LockStep
  <2> SUFFICES ASSUME IInv PROVE LockStep
    OBVIOUS
  <2>1. ASSUME NEW c \in CPUs, stopper[c].pc = "ack", stopper[c].curstate = STOPMACHINE_RUN,
               is_active(c, stopper[c].work[2]), NEW d \in online \cup {c}
        PROVE  IrqsOff(d)
    <3>1. PICK t \in Tasks : t = stopper[c].work[2]
      BY <2>1, RunsMachine
    <3>2. MachineFacts(t) /\ InStep(c, t) /\ Running(c, t) /\ c \in Todo(t)
      BY <2>1, <3>1, RunsMachine, MachineIs
    <3>3. smdata[t].state = 3
      BY <2>1, <3>2 DEF InStep, STOPMACHINE_RUN
    <3>4. d \in Todo(t) /\ d \in CPUs /\ InStep(d, t)
      BY <3>2, <3>3, TodoCpus DEF MachineFacts, Involved
    <3>5. Running(d, t)
      BY <3>3, <3>4 DEF InStep, STOPMACHINE_PREPARE
    <3>6. stopper[d].pc \in {"spin", "ack"} /\ stopper[d].curstate \in {2, 3}
      BY <3>3, <3>4, <3>5 DEF InStep, STOPMACHINE_RUN
    <3> QED
      BY <3>6 DEF IrqsOff, STOPMACHINE_DISABLE_IRQ
  <2>2. ASSUME NEW t \in Tasks, call[t].op # "read", call[t].pc = "stop_wait", done[t].completed
        PROVE  smdata[t].ran = 1
    <3>1. IsMachine(t) /\ InStopCpus(t)
      BY <2>2, CallPlace DEF IsMachine, InStopCpus, CallOK, Calls, Starting
    <3> QED
      BY <2>2, <3>1, MachineDone
  <2> QED
    BY <2>1, <2>2 DEF LockStep
<1> QED
  BY <1>1, Invariant, PTL

(* Only who keeps the lock changes the online mask. *)
LEMMA MaskChange ==
  ASSUME IInv, Next, online' # online
  PROVE  \E t \in Tasks : IsWriter(t)
<1>1. ASSUME NEW t \in Tasks, __cpu_up(t) PROVE IsWriter(t)
  BY <1>1, CallPlace DEF __cpu_up, CallOK, Calls, IsWriter, Starting
<1>2. ASSUME NEW c \in CPUs, see_state(c) PROVE IsWriter(stopper[c].work[2])
  <2>1. stopper[c].pc = "spin" /\ run_fn(stopper[c].work[2])
    BY <1>2 DEF see_state
  <2>2. call[stopper[c].work[2]].op = "down"
    BY <2>1 DEF run_fn
  <2> QED
    BY <2>1, <2>2, RunsMachine DEF IsWriter, InStopCpus, Starting
<1>3. ASSUME NEW t \in Tasks, StopCall(t) \/ stop_cpus(t) \/ try_stop_cpus(t) PROVE FALSE
  BY <1>3 DEF StopCall, one_return, queue, stop_cpus_return, stop_return, stop_cpus,
              try_stop_cpus, __stop_cpus
<1>4. ASSUME NEW t \in Tasks, Proceed(t) \/ read(t) \/ stop_machine(t) PROVE __cpu_up(t)
  BY <1>4 DEF Proceed, read, stop_machine, put_online_cpus, cpu_hotplug_begin, begin_woken,
              cpu_hotplug_done, down_prepare, cpu_die, up_prepare, cpu_online, kthread_stop,
              stopper_exited
<1>5. ASSUME NEW t \in Tasks, NEW c \in CPUs, stop_one_cpu(t, c) PROVE FALSE
  BY <1>5 DEF stop_one_cpu
<1>6. ASSUME NEW t \in Tasks, NEW c \in HotCPUs, NEW op \in {"down", "up"},
             cpu_maps_update_begin(t, c, op)
      PROVE  FALSE
  BY <1>6 DEF cpu_maps_update_begin
<1>7. ASSUME NEW c \in CPUs, cpu_stopper_thread(c) PROVE see_state(c)
  BY <1>7 DEF cpu_stopper_thread, thread_starts, set_current_state, kthread_should_stop,
              take_work, schedule, signal_done, ack_state
<1>8. \A c \in CPUs : see_state(c) => stopper[c].work[2] \in Tasks
  BY RunsMachine DEF see_state
<1> QED
  BY <1>1, <1>2, <1>3, <1>4, <1>5, <1>6, <1>7, <1>8 DEF Next

(* No CPU comes or goes between anybody's get_online_cpus() and            *)
(* put_online_cpus(), although cpu_hotplug_begin() looks at the count only *)
(* once, when it takes the lock.                                           *)
THEOREM OnlineStableCorrect == Spec => OnlineStable
<1>1. IInv /\ [Next]_vars => [online' # online => \A t \in Tasks : ~IsReader(t)]_vars
  <2> SUFFICES ASSUME IInv, Next, online' # online, NEW u \in Tasks PROVE ~IsReader(u)
    OBVIOUS
  <2>1. PICK t \in Tasks : IsWriter(t)
    BY MaskChange
  <2>2. CASE u = t
    BY <2>1, <2>2 DEF IsReader, IsWriter
  <2>3. CASE u # t
    BY <2>1, <2>3, WriterAlone
  <2> QED
    BY <2>2, <2>3
<1> QED
  BY <1>1, Invariant, PTL DEF Spec, OnlineStable

=============================================================================
