--------------------------- MODULE Tasklet_proofs ---------------------------
(***************************************************************************)
(* Safety of tasklets for any number of CPUs, tasklets and contexts, with  *)
(* CPUs that come and go any number of times: the invariant IInv of module *)
(* Tasklet is inductive.                                                   *)
(***************************************************************************)
EXTENDS Tasklet, LinuxList_proofs, FiniteSetTheorems

(* The steps of a context ... *)
CtxStep(x) ==
  \/ \E c \in online, i \in BOOLEAN : __tasklet_schedule(x, c, i)
  \/ irq_exit(x) \/ tasklet_disable(x) \/ tasklet_enable(x)
  \/ kill_take(x) \/ kill_return(x) \/ yield(x)
  \/ \E t \in Tasklets :
       tasklet_schedule(x, t) \/ tasklet_kill(x, t) \/ tasklet_disable_nosync(x, t)

(* ... and of a CPU. *)
CpuStep(c) ==
  \/ Softirq(c) \/ run_ksoftirqd(c)
  \/ cpu_down(c) \/ takeover_tasklets(c) \/ cpu_up(c)

(* Every step is one of them. *)
LEMMA NextIsStep ==
  Next => (\E x \in Contexts : CtxStep(x)) \/ \E c \in CPUs : CpuStep(c)
BY DEF Next, CtxStep, CpuStep, Enqueue, Kill

(* What __do_softirq() and a context may be. *)
SoftirqPCs == {"idle", "action", "next", "count", "clear", "func", "requeue"}
SoftirqType == [pc : SoftirqPCs, list : Seq(Tasklets), t : Tasklets \cup {NULL}]
CtxPCs == {"idle", "enqueue", "exit", "nosync", "disabled", "kill", "kill_wait"}
CtxType == [pc : CtxPCs, t : Tasklets \cup {NULL}, cpu : CPUs \cup {NULL}]

(* The two idle ones, and the beginning of __do_softirq(). *)
Started == [pc |-> "action", list |-> EmptyList, t |-> NULL]
(* The idle records are of their types. *)
LEMMA IdleTypes ==
  /\ NoSoftirq \in SoftirqType /\ Started \in SoftirqType /\ Idle \in CtxType
  /\ [NoSoftirq EXCEPT !.pc = "action"] = Started
<1>1. EmptyList \in Seq(Tasklets)
  BY DEF EmptyList
<1>2. NoSoftirq \in SoftirqType /\ Started \in SoftirqType
  BY <1>1 DEF NoSoftirq, Started, SoftirqType, SoftirqPCs
<1>3. Idle \in CtxType
  BY DEF Idle, CtxType, CtxPCs
<1>4. [NoSoftirq EXCEPT !.pc = "action"] = Started
  BY DEF NoSoftirq, Started
<1> QED
  BY <1>2, <1>3, <1>4

(* A context's record after At() and Done(), and in irq_exit()'s way. *)
CtxIs(x, l, t, c) ==
  /\ ctx' \in [Contexts -> CtxType]
  /\ ctx'[x].pc = l /\ ctx'[x].t = t /\ ctx'[x].cpu = c
  /\ \A y \in Contexts \ {x} : ctx'[y] = ctx[y]

(* What a context writes to its record, field by field. *)
LEMMA CtxSet ==
  ASSUME TypeOK, NEW x \in Contexts
  PROVE  /\ \A l \in CtxPCs, t \in Tasklets : At(x, l, t) => CtxIs(x, l, t, NULL)
         /\ Done(x) => CtxIs(x, "idle", NULL, NULL)
         /\ \A c \in CPUs : ctx' = [ctx EXCEPT ![x] = [pc |-> "exit", t |-> NULL, cpu |-> c]]
              => CtxIs(x, "exit", NULL, c)
<1>1. ctx \in [Contexts -> CtxType]
  BY DEF TypeOK, CtxType, CtxPCs
<1>2. ASSUME NEW r \in CtxType, ctx' = [ctx EXCEPT ![x] = r]
      PROVE  CtxIs(x, r.pc, r.t, r.cpu)
  BY <1>1, <1>2 DEF CtxIs
<1>3. ASSUME NEW l \in CtxPCs, NEW t \in Tasklets, At(x, l, t)
      PROVE  CtxIs(x, l, t, NULL)
  <2> DEFINE r == [Idle EXCEPT !.pc = l, !.t = t]
  <2>1. r.pc = l /\ r.t = t /\ r.cpu = NULL
    BY DEF Idle
  <2>2. r \in CtxType
    BY DEF Idle, CtxType
  <2> QED
    BY <1>2, <1>3, <2>1, <2>2 DEF At
<1>4. ASSUME Done(x) PROVE CtxIs(x, "idle", NULL, NULL)
  BY <1>2, <1>4, IdleTypes DEF Done, Idle
<1>5. ASSUME NEW c \in CPUs, ctx' = [ctx EXCEPT ![x] = [pc |-> "exit", t |-> NULL, cpu |-> c]]
      PROVE  CtxIs(x, "exit", NULL, c)
  <2> DEFINE r == [pc |-> "exit", t |-> NULL, cpu |-> c]
  <2>1. r \in CtxType
    BY DEF CtxType, CtxPCs
  <2> QED
    BY <1>2, <1>5, <2>1
<1> QED
  BY <1>3, <1>4, <1>5

(* A CPU's softirq record after a step. *)
SoftirqIs(c, l, q, t) ==
  /\ softirq' \in [CPUs -> SoftirqType]
  /\ softirq'[c].pc = l /\ softirq'[c].list = q /\ softirq'[c].t = t
  /\ \A d \in CPUs \ {c} : softirq'[d] = softirq[d]

(* What a softirq handler writes to its record, field by field. *)
LEMMA SoftirqSet ==
  ASSUME TypeOK, NEW c \in CPUs
  PROVE  /\ \A l \in SoftirqPCs, q \in Seq(Tasklets), t \in Tasklets \cup {NULL} :
              softirq' = [softirq EXCEPT ![c].pc = l, ![c].t = t, ![c].list = q]
                => SoftirqIs(c, l, q, t)
         /\ \A l \in SoftirqPCs, t \in Tasklets \cup {NULL} :
              softirq' = [softirq EXCEPT ![c].pc = l, ![c].t = t]
                => SoftirqIs(c, l, softirq[c].list, t)
         /\ \A l \in SoftirqPCs, q \in Seq(Tasklets) :
              softirq' = [softirq EXCEPT ![c].pc = l, ![c].list = q]
                => SoftirqIs(c, l, q, softirq[c].t)
         /\ \A l \in SoftirqPCs : softirq' = [softirq EXCEPT ![c].pc = l]
              => SoftirqIs(c, l, softirq[c].list, softirq[c].t)
         /\ softirq' = [softirq EXCEPT ![c] = NoSoftirq]
              => SoftirqIs(c, "idle", EmptyList, NULL)
         /\ start_softirq(c) => SoftirqIs(c, "action", EmptyList, NULL)
<1>1. softirq \in [CPUs -> SoftirqType]
  BY DEF TypeOK, SoftirqType, SoftirqPCs
<1>2. ASSUME NEW l \in SoftirqPCs, NEW q \in Seq(Tasklets), NEW t \in Tasklets \cup {NULL},
             softirq' = [softirq EXCEPT ![c].pc = l, ![c].t = t, ![c].list = q]
      PROVE  SoftirqIs(c, l, q, t)
  BY <1>1, <1>2 DEF SoftirqIs, SoftirqType
<1>3. ASSUME NEW l \in SoftirqPCs, NEW t \in Tasklets \cup {NULL},
             softirq' = [softirq EXCEPT ![c].pc = l, ![c].t = t]
      PROVE  SoftirqIs(c, l, softirq[c].list, t)
  BY <1>1, <1>3 DEF SoftirqIs, SoftirqType
<1>4. ASSUME NEW l \in SoftirqPCs, NEW q \in Seq(Tasklets),
             softirq' = [softirq EXCEPT ![c].pc = l, ![c].list = q]
      PROVE  SoftirqIs(c, l, q, softirq[c].t)
  BY <1>1, <1>4 DEF SoftirqIs, SoftirqType
<1>5. ASSUME NEW l \in SoftirqPCs, softirq' = [softirq EXCEPT ![c].pc = l]
      PROVE  SoftirqIs(c, l, softirq[c].list, softirq[c].t)
  BY <1>1, <1>5 DEF SoftirqIs, SoftirqType
<1>6. ASSUME softirq' = [softirq EXCEPT ![c] = NoSoftirq]
      PROVE  SoftirqIs(c, "idle", EmptyList, NULL)
  BY <1>1, <1>6, IdleTypes DEF SoftirqIs, NoSoftirq
<1>7. ASSUME start_softirq(c) PROVE SoftirqIs(c, "action", EmptyList, NULL)
  <2>1. softirq' = [softirq EXCEPT ![c] = Started]
    BY <1>7, IdleTypes DEF start_softirq
  <2> QED
    BY <1>1, <2>1, IdleTypes DEF SoftirqIs, Started
<1> QED
  BY <1>2, <1>3, <1>4, <1>5, <1>6, <1>7

(* Waking a ksoftirqd. *)
LEMMA WakeType ==
  ASSUME TypeOK, NEW c \in CPUs
  PROVE  /\ wake_up_process(kstate, c)
              \in [CPUs -> {TASK_RUNNING, TASK_INTERRUPTIBLE}]
         /\ wake_up_process(kstate, c)[c] = TASK_RUNNING
         /\ \A d \in CPUs : wake_up_process(kstate, c)[d] \in {kstate[d], TASK_RUNNING}
BY DEF TypeOK, wake_up_process, try_to_wake_up, TASK_ALL, TASK_RUNNING,
       TASK_INTERRUPTIBLE

(* The type invariant with named record types. *)
Types ==
  /\ bits \in [Tasklets -> SUBSET {"SCHED", "RUN"}]
  /\ count \in [Tasklets -> Nat]
  /\ tasklet_vec \in [CPUs -> Seq(Tasklets)]
  /\ pending \in [CPUs -> BOOLEAN]
  /\ softirq \in [CPUs -> SoftirqType]
  /\ kpc \in [CPUs -> {"none", "set", "check", "loop", "softirq"}]
  /\ kstate \in [CPUs -> {TASK_RUNNING, TASK_INTERRUPTIBLE}]
  /\ ctx \in [Contexts -> CtxType]
  /\ online \subseteq CPUs /\ dead \in CPUs \cup {NULL} /\ downs \in 0 .. MaxDown

(* The type invariant in the form that the proofs use, before and after a step. *)
LEMMA TypesDef == (TypeOK <=> Types) /\ (TypeOK' <=> Types')
BY DEF TypeOK, Types, SoftirqType, SoftirqPCs, CtxType, CtxPCs

(* What the fields of the records are. *)
LEMMA Fields ==
  ASSUME Types
  PROVE  /\ \A c \in CPUs : /\ softirq[c].pc \in SoftirqPCs
                            /\ softirq[c].list \in Seq(Tasklets)
                            /\ softirq[c].t \in Tasklets \cup {NULL}
                            /\ tasklet_vec[c] \in Seq(Tasklets)
         /\ \A x \in Contexts : /\ ctx[x].pc \in CtxPCs
                                /\ ctx[x].t \in Tasklets \cup {NULL}
                                /\ ctx[x].cpu \in CPUs \cup {NULL}
BY DEF Types, SoftirqType, CtxType

(* The tasklet that a context or a CPU is busy with. *)
LEMMA InHandType ==
  ASSUME Types, SoftirqInv
  PROVE  /\ \A c \in CPUs : softirq[c].pc \notin {"idle", "action", "next"}
                              => softirq[c].t \in Tasklets
         /\ \A x \in Contexts : ctx[x].pc \notin {"idle", "exit"} => ctx[x].t \in Tasklets
BY Fields DEF SoftirqInv

(* The atomic bit operations. *)
LEMMA BitSet ==
  ASSUME Types, NEW b \in {"SCHED", "RUN"}, NEW t \in Tasklets
  PROVE  /\ test_and_set_bit(b, t) =>
              /\ bits' \in [Tasklets -> SUBSET {"SCHED", "RUN"}]
              /\ b \notin bits[t] /\ bits'[t] = bits[t] \cup {b}
              /\ \A s \in Tasklets \ {t} : bits'[s] = bits[s]
         /\ clear_bit(b, t) =>
              /\ bits' \in [Tasklets -> SUBSET {"SCHED", "RUN"}]
              /\ bits'[t] = bits[t] \ {b}
              /\ \A s \in Tasklets \ {t} : bits'[s] = bits[s]
<1> DEFINE B == SUBSET {"SCHED", "RUN"}
<1>1. bits \in [Tasklets -> B] /\ bits[t] \cup {b} \in B /\ bits[t] \ {b} \in B
  BY DEF Types
<1> HIDE DEF B
<1>2. ASSUME test_and_set_bit(b, t)
      PROVE  /\ bits' \in [Tasklets -> B] /\ b \notin bits[t]
             /\ bits'[t] = bits[t] \cup {b}
             /\ \A s \in Tasklets \ {t} : bits'[s] = bits[s]
  BY <1>1, <1>2 DEF test_and_set_bit
<1>3. ASSUME clear_bit(b, t)
      PROVE  /\ bits' \in [Tasklets -> B] /\ bits'[t] = bits[t] \ {b}
             /\ \A s \in Tasklets \ {t} : bits'[s] = bits[s]
  BY <1>1, <1>3 DEF clear_bit
<1> QED
  BY <1>2, <1>3 DEF B

(* The contexts' steps keep the types. *)
LEMMA TypeCtx ==
  ASSUME Types, SoftirqInv, CountInv, NEW x \in Contexts, CtxStep(x)
  PROVE  Types'
<1> USE TypesDef
<1>1. ctx' \in [Contexts -> CtxType]
  <2>1. ASSUME NEW c \in online, NEW i \in BOOLEAN, __tasklet_schedule(x, c, i)
        PROVE  ctx' \in [Contexts -> CtxType]
    BY <2>1, CtxSet DEF __tasklet_schedule, CtxIs, Types
  <2>2. CASE irq_exit(x) \/ tasklet_enable(x) \/ kill_return(x)
    BY <2>2, CtxSet DEF irq_exit, tasklet_enable, kill_return, CtxIs
  <2>3. CASE tasklet_disable(x) \/ kill_take(x)
    BY <2>3, CtxSet, InHandType DEF tasklet_disable, kill_take, CtxIs, CtxPCs
  <2>4. CASE yield(x)
    BY <2>4 DEF yield, vars, Types
  <2>5. ASSUME NEW t \in Tasklets,
               tasklet_schedule(x, t) \/ tasklet_kill(x, t) \/ tasklet_disable_nosync(x, t)
        PROVE  ctx' \in [Contexts -> CtxType]
    BY <2>5, CtxSet DEF tasklet_schedule, tasklet_kill, tasklet_disable_nosync, CtxIs, CtxPCs
  <2> QED
    BY <2>1, <2>2, <2>3, <2>4, <2>5 DEF CtxStep
<1>2. ASSUME NEW c \in online, NEW i \in BOOLEAN, __tasklet_schedule(x, c, i)
      PROVE  Types'
  <2>1. ctx[x].t \in Tasklets /\ c \in CPUs
    BY <1>2, InHandType DEF __tasklet_schedule, Types
  <2>2. list_add_tail(tasklet_vec[c], ctx[x].t) \in Seq(Tasklets)
    BY <2>1, AddTail DEF Types
  <2>3. tasklet_vec' \in [CPUs -> Seq(Tasklets)]
    BY <1>2, <2>1, <2>2 DEF __tasklet_schedule, Types
  <2>4. /\ pending' \in [CPUs -> BOOLEAN]
        /\ kstate' \in [CPUs -> {TASK_RUNNING, TASK_INTERRUPTIBLE}]
    BY <1>2, <2>1, WakeType DEF __tasklet_schedule, raise_softirq_irqoff, wakeup_softirqd, Types
  <2> QED
    BY <1>1, <1>2, <2>3, <2>4 DEF __tasklet_schedule, Types, hotplug
<1>3. CASE irq_exit(x)
  <2>1. softirq' \in [CPUs -> SoftirqType] /\ pending' \in [CPUs -> BOOLEAN]
    <3>1. CASE UNCHANGED <<pending, softirq>>
      BY <3>1 DEF Types
    <3>2. CASE start_softirq(ctx[x].cpu)
      <4>1. ctx[x].cpu \in CPUs
        BY <1>3 DEF irq_exit, SoftirqInv, Types
      <4> QED
        BY <3>2, <4>1, SoftirqSet DEF start_softirq, SoftirqIs, Types
    <3> QED
      BY <1>3, <3>1, <3>2 DEF irq_exit
  <2> QED
    BY <1>1, <1>3, <2>1 DEF irq_exit, Types, hotplug
<1>4. CASE tasklet_disable(x) \/ yield(x)
  BY <1>1, <1>4 DEF tasklet_disable, yield, Types, vars, hotplug
<1>5. CASE tasklet_enable(x)
  <2>1. ctx[x].t \in Tasklets /\ x \in Disablers(ctx[x].t)
    BY <1>5, InHandType DEF tasklet_enable, Disablers
  <2>2. IsFiniteSet(Disablers(ctx[x].t))
    BY FS_Subset, TaskletAssumption DEF Disablers
  <2>3. Cardinality(Disablers(ctx[x].t)) \in Nat /\ Cardinality(Disablers(ctx[x].t)) # 0
    BY <2>1, <2>2, FS_CardinalityType, FS_EmptySet
  <2>4. count[ctx[x].t] - 1 \in Nat
    BY <2>1, <2>3 DEF CountInv
  <2>5. count' \in [Tasklets -> Nat]
    BY <1>5, <2>1, <2>4 DEF tasklet_enable, Types
  <2> QED
    BY <1>1, <1>5, <2>5 DEF tasklet_enable, Types, hotplug
<1>6. CASE kill_take(x) \/ kill_return(x)
  <2>1. ctx[x].t \in Tasklets
    BY <1>6, InHandType DEF kill_take, kill_return
  <2>2. bits' \in [Tasklets -> SUBSET {"SCHED", "RUN"}]
    BY <1>6, <2>1, BitSet DEF kill_take, kill_return
  <2> QED
    BY <1>1, <1>6, <2>2 DEF kill_take, kill_return, Types, hotplug
<1>7. ASSUME NEW t \in Tasklets, tasklet_schedule(x, t) \/ tasklet_kill(x, t)
      PROVE  Types'
  <2>1. bits' \in [Tasklets -> SUBSET {"SCHED", "RUN"}]
    <3>1. CASE tasklet_schedule(x, t)
      BY <3>1, BitSet DEF tasklet_schedule
    <3>2. CASE tasklet_kill(x, t)
      BY <3>2 DEF tasklet_kill, Types
    <3> QED
      BY <1>7, <3>1, <3>2
  <2> QED
    BY <1>1, <1>7, <2>1 DEF tasklet_schedule, tasklet_kill, Types, hotplug
<1>8. ASSUME NEW t \in Tasklets, tasklet_disable_nosync(x, t)
      PROVE  Types'
  BY <1>1, <1>8 DEF tasklet_disable_nosync, Types, hotplug
<1> QED
  BY <1>2, <1>3, <1>4, <1>5, <1>6, <1>7, <1>8 DEF CtxStep

(* The CPUs' steps too. *)
LEMMA TypeCpu ==
  ASSUME Types, SoftirqInv, ListInv, NEW c \in CPUs, CpuStep(c)
  PROVE  Types'
<1> USE TypesDef
<1>1. CASE tasklet_action(c)
  <2>1. softirq' \in [CPUs -> SoftirqType]
    <3>1. "next" \in SoftirqPCs /\ tasklet_vec[c] \in Seq(Tasklets)
      BY Fields DEF SoftirqPCs
    <3>2. SoftirqIs(c, "next", tasklet_vec[c], softirq[c].t)
      BY <1>1, <3>1, SoftirqSet DEF tasklet_action
    <3> QED
      BY <3>2 DEF SoftirqIs
  <2>2. tasklet_vec' \in [CPUs -> Seq(Tasklets)]
    BY <1>1 DEF tasklet_action, EmptyList, Types
  <2> QED
    BY <1>1, <2>1, <2>2 DEF tasklet_action, Types, hotplug
<1>2. CASE tasklet_trylock(c)
  <2> DEFINE q == softirq[c].list
             t == list_first_entry(q)
  <2>1. q \in Seq(Tasklets) /\ ~list_empty(q) /\ IsList(q)
    BY <1>2, Fields DEF tasklet_trylock, ListInv
  <2>2. t \in Tasklets /\ Tail(q) \in Seq(Tasklets)
    BY <2>1, HeadIsEntry, TailList
  <2>3. \E l \in {"count", "requeue"} :
          softirq' = [softirq EXCEPT ![c].pc = l, ![c].t = t, ![c].list = Tail(q)]
    BY <1>2 DEF tasklet_trylock
  <2>4. bits' \in [Tasklets -> SUBSET {"SCHED", "RUN"}]
    BY <1>2, <2>2, BitSet DEF tasklet_trylock, Types
  <2> HIDE DEF q, t
  <2>5. softirq' \in [CPUs -> SoftirqType]
    <3>1. PICK l \in {"count", "requeue"} :
            softirq' = [softirq EXCEPT ![c].pc = l, ![c].t = t, ![c].list = Tail(q)]
      BY <2>3
    <3>2. SoftirqIs(c, l, Tail(q), t)
      BY <2>2, <3>1, SoftirqSet DEF SoftirqPCs
    <3> QED
      BY <3>2 DEF SoftirqIs
  <2> QED
    BY <1>2, <2>4, <2>5 DEF tasklet_trylock, Types, hotplug
<1>3. CASE test_count(c) \/ start_func(c) \/ tasklet_unlock(c)
  <2>1. softirq[c].t \in Tasklets
    BY <1>3, InHandType DEF test_count, start_func, tasklet_unlock
  <2>2. softirq' \in [CPUs -> SoftirqType]
    BY <1>3, SoftirqSet DEF test_count, start_func, tasklet_unlock, SoftirqIs, SoftirqPCs
  <2>3. bits' \in [Tasklets -> SUBSET {"SCHED", "RUN"}]
    BY <1>3, <2>1, BitSet DEF test_count, start_func, tasklet_unlock, Types
  <2> QED
    BY <1>3, <2>2, <2>3 DEF test_count, start_func, tasklet_unlock, Types, hotplug
<1>4. CASE requeue(c)
  <2>1. softirq[c].t \in Tasklets
    BY <1>4, InHandType DEF requeue
  <2>2. softirq' \in [CPUs -> SoftirqType]
    BY <1>4, SoftirqSet DEF requeue, SoftirqIs, SoftirqPCs
  <2>3. list_add_tail(tasklet_vec[c], softirq[c].t) \in Seq(Tasklets)
    BY <2>1, AddTail DEF Types
  <2> QED
    BY <1>4, <2>2, <2>3 DEF requeue, Types, hotplug
<1>5. CASE end_softirq(c)
  <2>1. softirq' \in [CPUs -> SoftirqType]
    BY <1>5, SoftirqSet DEF end_softirq, SoftirqIs
  <2>2. /\ pending' \in [CPUs -> BOOLEAN]
        /\ kstate' \in [CPUs -> {TASK_RUNNING, TASK_INTERRUPTIBLE}]
    BY <1>5, WakeType DEF end_softirq, start_softirq, wakeup_softirqd, Types
  <2>3. kpc' \in [CPUs -> {"none", "set", "check", "loop", "softirq"}]
    BY <1>5 DEF end_softirq, Types
  <2> QED
    BY <1>5, <2>1, <2>2, <2>3 DEF end_softirq, Types, hotplug
<1>6. CASE set_current_state(c) \/ check_pending(c)
  BY <1>6 DEF set_current_state, check_pending, kgoto, Types, hotplug
<1>7. CASE inner_loop(c)
  <2>1. softirq' \in [CPUs -> SoftirqType] /\ pending' \in [CPUs -> BOOLEAN]
    <3>1. CASE UNCHANGED <<pending, softirq>>
      BY <3>1 DEF Types
    <3>2. CASE start_softirq(c)
      BY <3>2, SoftirqSet DEF start_softirq, SoftirqIs, Types
    <3> QED
      BY <1>7, <3>1, <3>2 DEF inner_loop
  <2>2. kpc' \in [CPUs -> {"none", "set", "check", "loop", "softirq"}]
    BY <1>7 DEF inner_loop, kgoto, Types
  <2> QED
    BY <1>7, <2>1, <2>2 DEF inner_loop, Types, hotplug
<1>8. CASE cpu_down(c)
  BY <1>8, TaskletAssumption DEF cpu_down, Types
<1>9. CASE takeover_tasklets(c)
  <2>1. dead \in CPUs
    BY <1>9 DEF takeover_tasklets, Types
  <2>2. tasklet_vec[c] \o tasklet_vec[dead] \in Seq(Tasklets) /\ EmptyList \in Seq(Tasklets)
    BY <2>1, Spliced DEF Types, EmptyList
  <2>3. tasklet_vec' \in [CPUs -> Seq(Tasklets)]
    BY <1>9, <2>1, <2>2 DEF takeover_tasklets, Types
  <2>4. /\ pending' \in [CPUs -> BOOLEAN]
        /\ kstate' \in [CPUs -> {TASK_RUNNING, TASK_INTERRUPTIBLE}]
    BY <1>9, WakeType DEF takeover_tasklets, raise_softirq_irqoff, wakeup_softirqd, Types
  <2> QED
    BY <1>9, <2>1, <2>3, <2>4 DEF takeover_tasklets, kgoto, Types
<1>10. CASE cpu_up(c)
  BY <1>10 DEF cpu_up, kgoto, Types
<1> QED
  BY <1>1, <1>2, <1>3, <1>4, <1>5, <1>6, <1>7, <1>8, <1>9, <1>10
     DEF CpuStep, Softirq, run_ksoftirqd

-----------------------------------------------------------------------------
(* The records of contexts and CPUs stay in shape. *)

LEMMA ShapeCtx ==
  ASSUME Types, SoftirqInv, NEW x \in Contexts, CtxStep(x)
  PROVE  SoftirqInv'
<1> USE TypesDef
<1>1. UNCHANGED <<online, dead>>
  BY DEF CtxStep, __tasklet_schedule, irq_exit, tasklet_disable, tasklet_enable,
         kill_take, kill_return, yield, tasklet_schedule, tasklet_kill,
         tasklet_disable_nosync, hotplug, vars
<1>2. \/ \E l \in CtxPCs \ {"idle", "exit"}, t \in Tasklets : CtxIs(x, l, t, NULL)
      \/ CtxIs(x, "idle", NULL, NULL)
      \/ \E c \in online : CtxIs(x, "exit", NULL, c)
      \/ ctx' = ctx
  <2>1. ASSUME NEW c \in online, NEW i \in BOOLEAN, __tasklet_schedule(x, c, i)
        PROVE  CtxIs(x, "idle", NULL, NULL) \/ CtxIs(x, "exit", NULL, c)
    BY <2>1, CtxSet DEF __tasklet_schedule, Types
  <2>2. CASE irq_exit(x) \/ tasklet_enable(x) \/ kill_return(x)
    BY <2>2, CtxSet DEF irq_exit, tasklet_enable, kill_return
  <2>3. CASE tasklet_disable(x) \/ kill_take(x)
    BY <2>3, CtxSet, InHandType DEF tasklet_disable, kill_take, CtxPCs
  <2>4. CASE yield(x)
    BY <2>4 DEF yield, vars
  <2>5. ASSUME NEW t \in Tasklets,
               tasklet_schedule(x, t) \/ tasklet_kill(x, t) \/ tasklet_disable_nosync(x, t)
        PROVE  \E l \in CtxPCs \ {"idle", "exit"} : CtxIs(x, l, t, NULL)
    BY <2>5, CtxSet DEF tasklet_schedule, tasklet_kill, tasklet_disable_nosync, CtxPCs
  <2> QED
    BY <2>1, <2>2, <2>3, <2>4, <2>5 DEF CtxStep
<1>3. softirq' = softirq \/ \E c \in online : SoftirqIs(c, "action", EmptyList, NULL)
  <2>1. CASE irq_exit(x)
    <3>1. ctx[x].cpu \in online /\ ctx[x].cpu \in CPUs
      BY <2>1 DEF irq_exit, SoftirqInv, Types
    <3> QED
      BY <2>1, <3>1, SoftirqSet DEF irq_exit
  <2>2. CASE ~irq_exit(x)
    BY <2>2 DEF CtxStep, __tasklet_schedule, tasklet_disable, tasklet_enable,
         kill_take, kill_return, yield, tasklet_schedule, tasklet_kill,
         tasklet_disable_nosync, vars
  <2> QED
    BY <2>1, <2>2
<1>4. \A c \in CPUs : SoftirqInv!1!(c)'
  <2>1. CASE softirq' = softirq
    BY <1>1, <2>1 DEF SoftirqInv
  <2>2. ASSUME NEW d \in online, SoftirqIs(d, "action", EmptyList, NULL)
        PROVE  \A c \in CPUs : SoftirqInv!1!(c)'
    BY <1>1, <2>2 DEF SoftirqInv, SoftirqIs, EmptyList, list_empty
  <2> QED
    BY <1>3, <2>1, <2>2
<1>5. \A y \in Contexts : SoftirqInv!2!(y)'
  <2>1. CASE ctx' = ctx
    BY <1>1, <2>1 DEF SoftirqInv
  <2>2. ASSUME NEW l \in CtxPCs \ {"idle", "exit"}, NEW t \in Tasklets, CtxIs(x, l, t, NULL)
        PROVE  \A y \in Contexts : SoftirqInv!2!(y)'
    BY <1>1, <2>2, TaskletAssumption DEF SoftirqInv, CtxIs
  <2>3. ASSUME CtxIs(x, "idle", NULL, NULL) \/ \E c \in online : CtxIs(x, "exit", NULL, c)
        PROVE  \A y \in Contexts : SoftirqInv!2!(y)'
    BY <1>1, <2>3 DEF SoftirqInv, CtxIs
  <2> QED
    BY <1>2, <2>1, <2>2, <2>3
<1> QED
  BY <1>1, <1>4, <1>5 DEF SoftirqInv

(* What the loop of __do_softirq() does to its own record; t is the head of *)
(* its list when it has one.                                               *)
LEMMA LoopEffect ==
  ASSUME Types, SoftirqInv, ListInv, NEW c \in CPUs
  PROVE  /\ tasklet_action(c) => SoftirqIs(c, "next", tasklet_vec[c], NULL)
         /\ tasklet_trylock(c) =>
              \E l \in {"count", "requeue"}, t \in Tasklets :
                SoftirqIs(c, l, Tail(softirq[c].list), t)
         /\ test_count(c) => \E l \in {"clear", "requeue"} :
              SoftirqIs(c, l, softirq[c].list, softirq[c].t)
         /\ start_func(c) => SoftirqIs(c, "func", softirq[c].list, softirq[c].t)
         /\ tasklet_unlock(c) => SoftirqIs(c, "next", softirq[c].list, NULL)
         /\ requeue(c) => SoftirqIs(c, "next", softirq[c].list, NULL)
         /\ end_softirq(c) => \/ SoftirqIs(c, "action", EmptyList, NULL)
                              \/ SoftirqIs(c, "idle", EmptyList, NULL)
<1> USE TypesDef
<1>1. ASSUME tasklet_action(c) PROVE SoftirqIs(c, "next", tasklet_vec[c], NULL)
  <2>1. softirq[c].t = NULL
    BY <1>1 DEF tasklet_action, SoftirqInv
  <2> QED
    BY <1>1, <2>1, SoftirqSet, Fields DEF tasklet_action, SoftirqPCs
<1>2. ASSUME tasklet_trylock(c)
      PROVE  \E l \in {"count", "requeue"}, t \in Tasklets :
               SoftirqIs(c, l, Tail(softirq[c].list), t)
  <2> DEFINE q == softirq[c].list
             t == list_first_entry(q)
  <2>1. q \in Seq(Tasklets) /\ ~list_empty(q) /\ IsList(q)
    BY <1>2, Fields DEF tasklet_trylock, ListInv
  <2>2. t \in Tasklets /\ Tail(q) \in Seq(Tasklets)
    BY <2>1, HeadIsEntry, TailList
  <2>3. PICK l \in {"count", "requeue"} :
          softirq' = [softirq EXCEPT ![c].pc = l, ![c].t = t, ![c].list = Tail(q)]
    BY <1>2 DEF tasklet_trylock
  <2> HIDE DEF q, t
  <2>4. SoftirqIs(c, l, Tail(q), t)
    BY <2>2, <2>3, SoftirqSet DEF SoftirqPCs
  <2> QED
    BY <2>2, <2>4 DEF q
<1>3. ASSUME test_count(c) PROVE \E l \in {"clear", "requeue"} :
        SoftirqIs(c, l, softirq[c].list, softirq[c].t)
  BY <1>3, SoftirqSet DEF test_count, SoftirqPCs
<1>4. ASSUME start_func(c) PROVE SoftirqIs(c, "func", softirq[c].list, softirq[c].t)
  BY <1>4, SoftirqSet DEF start_func, SoftirqPCs
<1>5. ASSUME tasklet_unlock(c) \/ requeue(c)
      PROVE  SoftirqIs(c, "next", softirq[c].list, NULL)
  BY <1>5, SoftirqSet DEF tasklet_unlock, requeue, SoftirqPCs
<1>6. ASSUME end_softirq(c)
      PROVE  \/ SoftirqIs(c, "action", EmptyList, NULL)
             \/ SoftirqIs(c, "idle", EmptyList, NULL)
  BY <1>6, SoftirqSet DEF end_softirq
<1> QED
  BY <1>1, <1>2, <1>3, <1>4, <1>5, <1>6

(* A softirq handler's step keeps its place and the entry in hand consistent. *)
LEMMA ShapeCpu ==
  ASSUME Types, SoftirqInv, ListInv, NEW c \in CPUs, CpuStep(c)
  PROVE  SoftirqInv'
<1> USE TypesDef
<1>1. CASE Softirq(c)
  <2>1. UNCHANGED <<ctx, online, dead>>
    BY <1>1 DEF Softirq, tasklet_action, tasklet_trylock, test_count, start_func,
                tasklet_unlock, requeue, end_softirq, hotplug
  <2>2. softirq[c].pc # "idle" /\ c \in online
    BY <1>1 DEF Softirq, tasklet_action, tasklet_trylock, test_count, start_func,
                tasklet_unlock, requeue, end_softirq, SoftirqInv
  <2>3. CASE tasklet_trylock(c)
    BY <2>1, <2>2, <2>3, LoopEffect, TaskletAssumption DEF SoftirqIs, SoftirqInv
  <2>4. CASE test_count(c) \/ start_func(c)
    <3>1. softirq[c].t # NULL
      BY <2>4 DEF test_count, start_func, SoftirqInv
    <3> QED
      BY <2>1, <2>2, <2>4, <3>1, LoopEffect DEF SoftirqIs, SoftirqInv
  <2>5. CASE tasklet_action(c) \/ tasklet_unlock(c) \/ requeue(c)
    BY <2>1, <2>2, <2>5, LoopEffect DEF SoftirqIs, SoftirqInv
  <2>6. CASE end_softirq(c)
    BY <2>1, <2>2, <2>6, LoopEffect DEF SoftirqIs, SoftirqInv, EmptyList, list_empty
  <2> QED
    BY <1>1, <2>3, <2>4, <2>5, <2>6 DEF Softirq
<1>2. CASE run_ksoftirqd(c)
  <2>1. UNCHANGED <<ctx, online, dead>> /\ c \in online
    BY <1>2 DEF run_ksoftirqd, set_current_state, check_pending, inner_loop, hotplug
  <2>2. softirq' = softirq \/ SoftirqIs(c, "action", EmptyList, NULL)
    BY <1>2, SoftirqSet DEF run_ksoftirqd, set_current_state, check_pending, inner_loop
  <2> QED
    BY <2>1, <2>2 DEF SoftirqIs, SoftirqInv, EmptyList, list_empty
<1>3. CASE cpu_down(c)
  BY <1>3 DEF cpu_down, SoftirqInv
<1>4. CASE takeover_tasklets(c)
  BY <1>4, TaskletAssumption DEF takeover_tasklets, SoftirqInv, Types
<1>5. CASE cpu_up(c)
  BY <1>5, TaskletAssumption DEF cpu_up, SoftirqInv
<1> QED
  BY <1>1, <1>2, <1>3, <1>4, <1>5 DEF CpuStep

-----------------------------------------------------------------------------
(* Lists are served. *)

LEMMA ServedCtx ==
  ASSUME Types, SoftirqInv, ListServed, NEW x \in Contexts, CtxStep(x)
  PROVE  ListServed'
<1> USE TypesDef
<1>1. ASSUME NEW c \in online, NEW i \in BOOLEAN, __tasklet_schedule(x, c, i)
      PROVE  ListServed'
  <2>1. /\ c \in CPUs /\ ctx[x].pc = "enqueue" /\ UNCHANGED <<softirq, kpc, online, dead>>
        /\ pending'[c] /\ \A d \in CPUs \ {c} : pending'[d] = pending[d]
        /\ \A d \in CPUs \ {c} : tasklet_vec'[d] = tasklet_vec[d]
    BY <1>1 DEF __tasklet_schedule, raise_softirq_irqoff, Types, hotplug
  <2>2. \/ kstate'[c] = TASK_RUNNING
        \/ CtxIs(x, "exit", NULL, c)
    BY <1>1, <2>1, WakeType, CtxSet DEF __tasklet_schedule, raise_softirq_irqoff, wakeup_softirqd
  <2>3. \A y \in Contexts \ {x} : ctx'[y] = ctx[y]
    BY <1>1, <2>1, CtxSet DEF __tasklet_schedule, CtxIs
  <2>4. \A d \in CPUs : kstate'[d] \in {kstate[d], TASK_RUNNING}
    BY <1>1, <2>1, WakeType DEF __tasklet_schedule, raise_softirq_irqoff, wakeup_softirqd
  <2> QED
    BY <2>1, <2>2, <2>3, <2>4 DEF ListServed, CtxIs
<1>2. CASE irq_exit(x)
  <2> DEFINE c == ctx[x].cpu
  <2>1. /\ c \in CPUs /\ ctx[x].pc = "exit"
        /\ UNCHANGED <<tasklet_vec, kpc, kstate, online, dead>>
    BY <1>2 DEF irq_exit, SoftirqInv, Types, hotplug
  <2>2. CtxIs(x, "idle", NULL, NULL)
    BY <1>2, CtxSet DEF irq_exit
  <2>3. CASE in_interrupt(x, c) /\ UNCHANGED <<pending, softirq>>
    BY <2>1, <2>2, <2>3 DEF in_interrupt, CtxIs, ListServed
  <2>4. CASE ~pending[c] /\ UNCHANGED <<pending, softirq>>
    BY <2>1, <2>2, <2>4 DEF CtxIs, ListServed
  <2>5. CASE start_softirq(c)
    <3>1. SoftirqIs(c, "action", EmptyList, NULL)
      BY <2>1, <2>5, SoftirqSet
    <3>2. ~pending'[c] /\ \A d \in CPUs \ {c} : pending'[d] = pending[d]
      BY <2>1, <2>5 DEF start_softirq, Types
    <3> QED
      BY <2>1, <2>2, <3>1, <3>2 DEF SoftirqIs, CtxIs, ListServed
  <2> QED
    BY <1>2, <2>3, <2>4, <2>5 DEF irq_exit
<1>3. CASE \/ tasklet_disable(x) \/ tasklet_enable(x) \/ kill_take(x) \/ kill_return(x)
           \/ yield(x)
           \/ \E t \in Tasklets :
                tasklet_schedule(x, t) \/ tasklet_kill(x, t) \/ tasklet_disable_nosync(x, t)
  <2>1. UNCHANGED <<tasklet_vec, pending, softirq, kpc, kstate, online, dead>>
    BY <1>3 DEF tasklet_disable, tasklet_enable, kill_take, kill_return, yield,
         tasklet_schedule, tasklet_kill, tasklet_disable_nosync, hotplug, vars
  <2>2. CASE ctx[x].pc # "exit"
    <3>1. \A y \in Contexts \ {x} : ctx'[y] = ctx[y]
      BY <1>3, CtxSet, InHandType DEF tasklet_disable, tasklet_enable, kill_take, kill_return,
         yield, tasklet_schedule, tasklet_kill, tasklet_disable_nosync, vars, At, Done, Types
    <3> QED
      BY <2>1, <2>2, <3>1 DEF ListServed
  <2>3. ctx[x].pc # "exit"
    BY <1>3 DEF tasklet_disable, tasklet_enable, kill_take, kill_return, yield,
         tasklet_schedule, tasklet_kill, tasklet_disable_nosync
  <2> QED
    BY <2>2, <2>3
<1> QED
  BY <1>1, <1>2, <1>3 DEF CtxStep

(* A softirq handler's step leaves no list without a raised or running softirq. *)
LEMMA ServedCpu ==
  ASSUME Types, SoftirqInv, ListInv, ListServed, NEW c \in CPUs, CpuStep(c)
  PROVE  ListServed'
<1> USE TypesDef
<1>1. CASE tasklet_action(c)
  <2>1. /\ UNCHANGED <<pending, kpc, kstate, ctx, online, dead>>
        /\ list_empty(tasklet_vec'[c])
        /\ \A d \in CPUs \ {c} : tasklet_vec'[d] = tasklet_vec[d]
    BY <1>1 DEF tasklet_action, hotplug, Types, list_empty, EmptyList
  <2> QED
    BY <1>1, <2>1, LoopEffect DEF SoftirqIs, ListServed
<1>2. CASE tasklet_trylock(c) \/ test_count(c) \/ start_func(c) \/ tasklet_unlock(c)
  <2>1. /\ UNCHANGED <<tasklet_vec, pending, kpc, kstate, ctx, online, dead>>
        /\ softirq[c].pc \notin {"idle", "action"}
    BY <1>2 DEF tasklet_trylock, test_count, start_func, tasklet_unlock, hotplug
  <2>2. softirq'[c].pc # "idle" /\ \A d \in CPUs \ {c} : softirq'[d] = softirq[d]
    BY <1>2, LoopEffect DEF SoftirqIs
  <2> QED
    BY <2>1, <2>2 DEF ListServed
<1>3. CASE requeue(c)
  <2>1. /\ UNCHANGED <<kpc, kstate, ctx, online, dead>>
        /\ pending'[c] /\ \A d \in CPUs \ {c} : pending'[d] = pending[d]
        /\ \A d \in CPUs \ {c} : tasklet_vec'[d] = tasklet_vec[d]
    BY <1>3 DEF requeue, hotplug, Types
  <2>2. c \in online
    BY <1>3 DEF requeue, SoftirqInv
  <2> QED
    BY <1>3, <2>1, <2>2, LoopEffect DEF SoftirqIs, ListServed
<1>4. CASE end_softirq(c)
  <2>1. UNCHANGED <<tasklet_vec, ctx, online, dead>> /\ softirq[c].pc = "next"
    BY <1>4 DEF end_softirq, hotplug
  <2>2. CASE start_softirq(c) /\ UNCHANGED <<kpc, kstate>>
    <3>1. SoftirqIs(c, "action", EmptyList, NULL)
      BY <2>2, SoftirqSet
    <3>2. ~pending'[c] /\ \A d \in CPUs \ {c} : pending'[d] = pending[d]
      BY <2>2 DEF start_softirq, Types
    <3> QED
      BY <2>1, <2>2, <3>1, <3>2 DEF SoftirqIs, ListServed
  <2>3. CASE /\ softirq' = [softirq EXCEPT ![c] = NoSoftirq]
             /\ IF pending[c] THEN wakeup_softirqd(c) ELSE UNCHANGED kstate
             /\ kpc' = [kpc EXCEPT ![c] = IF @ = "softirq" THEN "loop" ELSE @]
             /\ UNCHANGED pending
    <3>1. SoftirqIs(c, "idle", EmptyList, NULL)
      BY <2>3, SoftirqSet
    <3>2. pending[c] => kstate'[c] = TASK_RUNNING
      BY <2>3, WakeType DEF wakeup_softirqd
    <3>3. \A d \in CPUs : kstate'[d] \in {kstate[d], TASK_RUNNING}
      BY <2>3, WakeType DEF wakeup_softirqd
    <3>4. \A d \in CPUs \ {c} : kpc'[d] = kpc[d]
      BY <2>3 DEF Types
    <3> QED
      BY <2>1, <2>3, <3>1, <3>2, <3>3, <3>4 DEF SoftirqIs, ListServed
  <2> QED
    BY <1>4, <2>2, <2>3 DEF end_softirq
<1>5. CASE set_current_state(c)
  BY <1>5 DEF set_current_state, kgoto, hotplug, Types, ListServed
<1>6. CASE check_pending(c)
  BY <1>6 DEF check_pending, kgoto, hotplug, Types, ListServed
<1>7. CASE inner_loop(c)
  <2>1. /\ UNCHANGED <<tasklet_vec, kstate, ctx, online, dead>>
        /\ \A d \in CPUs \ {c} : kpc'[d] = kpc[d]
    BY <1>7 DEF inner_loop, kgoto, hotplug, Types
  <2>2. CASE ~pending[c] /\ UNCHANGED <<pending, softirq>>
    BY <2>1, <2>2 DEF ListServed
  <2>3. CASE start_softirq(c)
    <3>1. SoftirqIs(c, "action", EmptyList, NULL)
      BY <2>3, SoftirqSet
    <3>2. ~pending'[c] /\ \A d \in CPUs \ {c} : pending'[d] = pending[d]
      BY <2>3 DEF start_softirq, Types
    <3> QED
      BY <2>1, <3>1, <3>2 DEF SoftirqIs, ListServed
  <2> QED
    BY <1>7, <2>2, <2>3 DEF inner_loop
<1>8. CASE cpu_down(c)
  BY <1>8, TaskletAssumption DEF cpu_down, ListServed
<1>9. CASE takeover_tasklets(c)
  <2>1. /\ dead \in CPUs /\ dead # c /\ c \in online /\ dead' = NULL /\ dead \notin online
        /\ UNCHANGED <<softirq, ctx, online>>
    BY <1>9 DEF takeover_tasklets, Types, SoftirqInv
  <2>2. /\ pending'[c] /\ kstate'[c] = TASK_RUNNING
        /\ \A d \in CPUs \ {c} : pending'[d] = pending[d]
        /\ \A d \in CPUs : kstate'[d] \in {kstate[d], TASK_RUNNING}
        /\ \A d \in CPUs \ {dead} : kpc'[d] = kpc[d]
    BY <1>9, <2>1, WakeType DEF takeover_tasklets, raise_softirq_irqoff, wakeup_softirqd,
                                kgoto, Types
  <2>3. /\ list_empty(tasklet_vec'[dead])
        /\ \A d \in CPUs \ {c, dead} : tasklet_vec'[d] = tasklet_vec[d]
    BY <1>9, <2>1 DEF takeover_tasklets, Types, list_empty, EmptyList
  <2> QED
    BY <2>1, <2>2, <2>3, TaskletAssumption DEF ListServed
<1>10. CASE cpu_up(c)
  BY <1>10, TaskletAssumption DEF cpu_up, kgoto, Types, ListServed
<1> QED
  BY <1>1, <1>2, <1>3, <1>4, <1>5, <1>6, <1>7, <1>8, <1>9, <1>10
     DEF CpuStep, Softirq, run_ksoftirqd

-----------------------------------------------------------------------------
(* RUN is a lock. *)

(* A context leaves the softirqs alone or starts one. *)
LEMMA SoftirqOfCtx ==
  ASSUME Types, SoftirqInv, NEW x \in Contexts, CtxStep(x)
  PROVE  \/ softirq' = softirq
         \/ /\ irq_exit(x)
            /\ \E c \in CPUs :
                 softirq[c].pc = "idle" /\ SoftirqIs(c, "action", EmptyList, NULL)
<1> USE TypesDef
<1>1. CASE irq_exit(x)
  <2>1. ctx[x].cpu \in CPUs
    BY <1>1 DEF irq_exit, SoftirqInv, Types
  <2> QED
    BY <1>1, <2>1, SoftirqSet DEF irq_exit, in_interrupt
<1>2. CASE ~irq_exit(x)
  BY <1>2 DEF CtxStep, __tasklet_schedule, tasklet_disable, tasklet_enable,
       kill_take, kill_return, yield, tasklet_schedule, tasklet_kill,
       tasklet_disable_nosync, vars
<1> QED
  BY <1>1, <1>2

(* So nobody runs a tasklet after it who did not before. *)
LEMMA RunsOfCtx ==
  ASSUME Types, SoftirqInv, NEW x \in Contexts, CtxStep(x)
  PROVE  \A c \in CPUs : \/ softirq'[c] = softirq[c]
                         \/ softirq'[c].pc = "action" /\ softirq'[c].t = NULL
BY SoftirqOfCtx DEF SoftirqIs

(* A context's step keeps RUN with the handlers that took it. *)
LEMMA RunCtx ==
  ASSUME Types, SoftirqInv, RunInv, NEW x \in Contexts, CtxStep(x)
  PROVE  RunInv'
<1>1. \A t \in Tasklets : "RUN" \in bits'[t] <=> "RUN" \in bits[t]
  <2>1. CASE kill_take(x) \/ kill_return(x)
    BY <2>1, BitSet, InHandType DEF kill_take, kill_return
  <2>2. ASSUME NEW t \in Tasklets, tasklet_schedule(x, t)
        PROVE  \A s \in Tasklets : "RUN" \in bits'[s] <=> "RUN" \in bits[s]
    BY <2>2, BitSet DEF tasklet_schedule
  <2>3. CASE UNCHANGED bits
    BY <2>3
  <2> QED
    BY <2>1, <2>2, <2>3 DEF CtxStep, __tasklet_schedule, irq_exit, tasklet_disable,
       tasklet_enable, yield, tasklet_kill, tasklet_disable_nosync, vars
<1>2. \A c \in CPUs, t \in Tasklets : Runs(c, t)' => Runs(c, t)
  BY RunsOfCtx, TaskletAssumption DEF Runs
<1> QED
  BY <1>1, <1>2 DEF RunInv

(* A handler's step keeps RUN with the handlers that took it. *)
LEMMA RunCpu ==
  ASSUME Types, SoftirqInv, ListInv, RunInv, NEW c \in CPUs, CpuStep(c)
  PROVE  RunInv'
<1> USE TypesDef
<1>1. CASE tasklet_trylock(c)
  <2> DEFINE q == softirq[c].list
             t == list_first_entry(q)
  <2>1. q \in Seq(Tasklets) /\ ~list_empty(q) /\ IsList(q)
    BY <1>1, Fields DEF tasklet_trylock, ListInv
  <2>2. t \in Tasklets /\ Tail(q) \in Seq(Tasklets)
    BY <2>1, HeadIsEntry, TailList
  <2>3. softirq[c].pc = "next" /\ \A s \in Tasklets : ~Runs(c, s)
    BY <1>1 DEF tasklet_trylock, Runs
  <2>4. CASE /\ test_and_set_bit("RUN", t)
             /\ softirq' = [softirq EXCEPT ![c].pc = "count", ![c].t = t, ![c].list = Tail(q)]
    <3> HIDE DEF q, t
    <3>1. SoftirqIs(c, "count", Tail(q), t)
      BY <2>2, <2>4, SoftirqSet DEF SoftirqPCs
    <3>2. /\ "RUN" \notin bits[t] /\ bits'[t] = bits[t] \cup {"RUN"}
          /\ \A s \in Tasklets \ {t} : bits'[s] = bits[s]
      BY <2>2, <2>4, BitSet
    <3>3. \A d \in CPUs : ~Runs(d, t)
      BY <2>2, <3>2 DEF RunInv
    <3>4. \A d \in CPUs, s \in Tasklets : Runs(d, s)' <=> Runs(d, s) \/ (d = c /\ s = t)
      BY <2>3, <3>1 DEF SoftirqIs, Runs
    <3> QED
      BY <3>2, <3>3, <3>4 DEF RunInv
  <2>5. CASE /\ UNCHANGED bits
             /\ softirq' = [softirq EXCEPT ![c].pc = "requeue", ![c].t = t, ![c].list = Tail(q)]
    <3> HIDE DEF q, t
    <3>1. SoftirqIs(c, "requeue", Tail(q), t)
      BY <2>2, <2>5, SoftirqSet DEF SoftirqPCs
    <3>2. \A d \in CPUs, s \in Tasklets : Runs(d, s)' => Runs(d, s)
      BY <3>1 DEF SoftirqIs, Runs
    <3> QED
      BY <2>5, <3>2 DEF RunInv
  <2> QED
    BY <1>1, <2>4, <2>5 DEF tasklet_trylock
<1>2. CASE test_count(c) \/ tasklet_unlock(c)
  <2> DEFINE t == softirq[c].t
  <2>1. t \in Tasklets /\ Runs(c, t)
    BY <1>2, InHandType DEF test_count, tasklet_unlock, Runs
  <2>2. CASE UNCHANGED bits /\ softirq' = [softirq EXCEPT ![c].pc = "clear"]
    <3>1. SoftirqIs(c, "clear", softirq[c].list, softirq[c].t)
      BY <2>2, SoftirqSet DEF SoftirqPCs
    <3>2. \A d \in CPUs, s \in Tasklets : Runs(d, s)' <=> Runs(d, s)
      BY <2>1, <3>1 DEF SoftirqIs, Runs
    <3> QED
      BY <2>2, <3>2 DEF RunInv
  <2>3. CASE clear_bit("RUN", t) /\ \/ SoftirqIs(c, "next", softirq[c].list, NULL)
                                    \/ SoftirqIs(c, "requeue", softirq[c].list, softirq[c].t)
    <3>1. \A s \in Tasklets \ {t} : bits'[s] = bits[s]
      BY <2>1, <2>3, BitSet
    <3>2. \A d \in CPUs, s \in Tasklets : Runs(d, s)' => Runs(d, s) /\ d # c
      BY <2>3 DEF SoftirqIs, Runs
    <3>3. \A d \in CPUs, s \in Tasklets : Runs(d, s)' => s # t
      BY <2>1, <3>2 DEF RunInv
    <3> QED
      BY <3>1, <3>2, <3>3 DEF RunInv
  <2>4. \/ UNCHANGED bits /\ softirq' = [softirq EXCEPT ![c].pc = "clear"]
        \/ clear_bit("RUN", t) /\ \/ SoftirqIs(c, "next", softirq[c].list, NULL)
                                  \/ SoftirqIs(c, "requeue", softirq[c].list, softirq[c].t)
    BY <1>2, SoftirqSet DEF test_count, tasklet_unlock, SoftirqPCs
  <2> QED
    BY <2>2, <2>3, <2>4
<1>3. CASE start_func(c)
  <2>1. softirq[c].t \in Tasklets /\ softirq[c].pc = "clear"
    BY <1>3, InHandType DEF start_func
  <2>2. \A s \in Tasklets : "RUN" \in bits'[s] <=> "RUN" \in bits[s]
    BY <1>3, <2>1, BitSet DEF start_func
  <2>3. \A d \in CPUs, s \in Tasklets : Runs(d, s)' <=> Runs(d, s)
    BY <1>3, <2>1, LoopEffect DEF SoftirqIs, Runs
  <2> QED
    BY <2>2, <2>3 DEF RunInv
<1>4. CASE \/ tasklet_action(c) \/ requeue(c) \/ end_softirq(c) \/ run_ksoftirqd(c)
           \/ cpu_down(c) \/ takeover_tasklets(c) \/ cpu_up(c)
  <2>1. UNCHANGED bits
    BY <1>4 DEF tasklet_action, requeue, end_softirq, run_ksoftirqd, set_current_state,
                check_pending, inner_loop, cpu_down, takeover_tasklets, cpu_up
  <2>2. \/ softirq' = softirq
        \/ \E l \in {"next", "action", "idle"}, q \in Seq(Tasklets) : SoftirqIs(c, l, q, NULL)
    <3>1. EmptyList \in Seq(Tasklets)
      BY DEF EmptyList
    <3>2. CASE tasklet_action(c) \/ requeue(c) \/ end_softirq(c)
      BY <3>1, <3>2, LoopEffect, Fields
    <3>3. CASE run_ksoftirqd(c)
      BY <3>1, <3>3, SoftirqSet DEF run_ksoftirqd, set_current_state, check_pending, inner_loop
    <3>4. CASE cpu_down(c) \/ takeover_tasklets(c) \/ cpu_up(c)
      BY <3>4 DEF cpu_down, takeover_tasklets, cpu_up
    <3> QED
      BY <1>4, <3>2, <3>3, <3>4
  <2>3. \A d \in CPUs, s \in Tasklets : Runs(d, s)' => Runs(d, s)
    BY <2>2, TaskletAssumption DEF SoftirqIs, Runs
  <2> QED
    BY <2>1, <2>3 DEF RunInv
<1> QED
  BY <1>1, <1>2, <1>3, <1>4 DEF CpuStep, Softirq

-----------------------------------------------------------------------------
(* Disabled tasklets do not run. *)

(* The sets of those who have disabled a tasklet are finite. *)
LEMMA DisablersFinite ==
  ASSUME NEW t PROVE IsFiniteSet(Disablers(t)) /\ Cardinality(Disablers(t)) \in Nat
BY FS_Subset, FS_CardinalityType, TaskletAssumption DEF Disablers

(* A context's step keeps the disable count equal to the disables outstanding. *)
LEMMA CountCtx ==
  ASSUME Types, SoftirqInv, CountInv, NEW x \in Contexts, CtxStep(x)
  PROVE  CountInv'
<1> USE TypesDef
<1>1. ASSUME NEW t \in Tasklets, tasklet_disable_nosync(x, t) PROVE CountInv'
  <2>1. CtxIs(x, "nosync", t, NULL) /\ ctx[x].pc = "idle"
    BY <1>1, CtxSet DEF tasklet_disable_nosync, CtxPCs
  <2>2. x \notin Disablers(t) /\ Disablers(t)' = Disablers(t) \cup {x}
    BY <2>1 DEF CtxIs, Disablers
  <2>3. \A s \in Tasklets \ {t} : Disablers(s)' = Disablers(s)
    BY <2>1 DEF CtxIs, Disablers
  <2>4. Cardinality(Disablers(t)') = Cardinality(Disablers(t)) + 1
    BY <2>2, DisablersFinite, FS_AddElement
  <2>5. count' = [count EXCEPT ![t] = count[t] + 1]
    BY <1>1 DEF tasklet_disable_nosync
  <2> QED
    BY <2>3, <2>4, <2>5 DEF CountInv, Types
<1>2. CASE tasklet_enable(x)
  <2>1. PICK t \in Tasklets : t = ctx[x].t
    BY <1>2, InHandType DEF tasklet_enable
  <2>2. /\ CtxIs(x, "idle", NULL, NULL) /\ ctx[x].pc \in {"disabled", "nosync"}
        /\ count' = [count EXCEPT ![t] = count[t] - 1]
    BY <1>2, <2>1, CtxSet DEF tasklet_enable
  <2>3. x \in Disablers(t) /\ Disablers(t)' = Disablers(t) \ {x}
    BY <2>1, <2>2 DEF CtxIs, Disablers
  <2>4. \A s \in Tasklets \ {t} : Disablers(s)' = Disablers(s)
    BY <2>1, <2>2 DEF CtxIs, Disablers
  <2>5. Cardinality(Disablers(t)') = Cardinality(Disablers(t)) - 1
    BY <2>3, DisablersFinite, FS_RemoveElement
  <2> QED
    BY <2>2, <2>4, <2>5 DEF CountInv, Types
<1>3. CASE tasklet_disable(x)
  <2>1. PICK t \in Tasklets : t = ctx[x].t
    BY <1>3, InHandType DEF tasklet_disable
  <2>2. CtxIs(x, "disabled", t, NULL) /\ ctx[x].pc = "nosync" /\ count' = count
    BY <1>3, <2>1, CtxSet DEF tasklet_disable, CtxPCs
  <2>3. \A s \in Tasklets : Disablers(s)' = Disablers(s)
    BY <2>1, <2>2 DEF CtxIs, Disablers
  <2> QED
    BY <2>2, <2>3 DEF CountInv
<1>4. CASE \/ \E c \in online, i \in BOOLEAN : __tasklet_schedule(x, c, i)
           \/ irq_exit(x) \/ kill_take(x) \/ kill_return(x) \/ yield(x)
           \/ \E t \in Tasklets : tasklet_schedule(x, t) \/ tasklet_kill(x, t)
  <2>1. count' = count /\ ctx[x].pc \notin {"nosync", "disabled"}
    BY <1>4 DEF __tasklet_schedule, irq_exit, kill_take, kill_return, yield,
                tasklet_schedule, tasklet_kill, vars
  <2>2. /\ ctx'[x].pc \notin {"nosync", "disabled"}
        /\ \A y \in Contexts \ {x} : ctx'[y] = ctx[y]
    <3>1. ASSUME NEW c \in online, NEW i \in BOOLEAN, __tasklet_schedule(x, c, i)
          PROVE  CtxIs(x, "idle", NULL, NULL) \/ CtxIs(x, "exit", NULL, c)
      BY <3>1, CtxSet DEF __tasklet_schedule, Types
    <3>2. CASE irq_exit(x) \/ kill_return(x)
      BY <3>2, CtxSet DEF irq_exit, kill_return, CtxIs
    <3>3. CASE kill_take(x)
      BY <3>3, CtxSet, InHandType DEF kill_take, CtxPCs, CtxIs
    <3>4. CASE yield(x)
      BY <2>1, <3>4 DEF yield, vars
    <3>5. ASSUME NEW t \in Tasklets, tasklet_schedule(x, t) \/ tasklet_kill(x, t)
          PROVE  CtxIs(x, "enqueue", t, NULL) \/ CtxIs(x, "kill", t, NULL)
      BY <3>5, CtxSet DEF tasklet_schedule, tasklet_kill, CtxPCs
    <3> QED
      BY <1>4, <3>1, <3>2, <3>3, <3>4, <3>5 DEF CtxIs
  <2>3. \A s \in Tasklets : Disablers(s)' = Disablers(s)
    BY <2>1, <2>2 DEF Disablers
  <2> QED
    BY <2>1, <2>3 DEF CountInv
<1> QED
  BY <1>1, <1>2, <1>3, <1>4 DEF CtxStep

(* CPUs neither disable nor enable. *)
LEMMA CpuLeavesCtx ==
  ASSUME NEW c \in CPUs, CpuStep(c) PROVE UNCHANGED <<count, ctx>>
BY DEF CpuStep, Softirq, tasklet_action, tasklet_trylock, test_count, start_func,
       tasklet_unlock, requeue, end_softirq, run_ksoftirqd, set_current_state,
       check_pending, inner_loop, cpu_down, takeover_tasklets, cpu_up

(* A handler's step leaves the disable count alone. *)
LEMMA CountCpu ==
  ASSUME Types, CountInv, NEW c \in CPUs, CpuStep(c)
  PROVE  CountInv'
<1>1. UNCHANGED <<count, ctx>>
  BY CpuLeavesCtx
<1>2. \A s \in Tasklets : Disablers(s)' = Disablers(s)
  BY <1>1 DEF Disablers
<1> QED
  BY <1>1, <1>2 DEF CountInv

(* tasklet_disable() returns when nobody runs the tasklet. *)
LEMMA DisabledCtx ==
  ASSUME Types, SoftirqInv, RunInv, DisabledInv, NEW x \in Contexts, CtxStep(x)
  PROVE  DisabledInv'
<1> USE TypesDef
<1>1. CASE tasklet_disable(x)
  <2>1. PICK t \in Tasklets : t = ctx[x].t
    BY <1>1, InHandType DEF tasklet_disable
  <2>2. CtxIs(x, "disabled", t, NULL) /\ softirq' = softirq /\ "RUN" \notin bits[t]
    BY <1>1, <2>1, CtxSet DEF tasklet_disable, CtxPCs, tasklet_unlock_wait
  <2>3. \A c \in CPUs : ~Runs(c, t)
    BY <2>1, <2>2 DEF RunInv
  <2> QED
    BY <2>2, <2>3 DEF CtxIs, Runs, DisabledInv
<1>2. CASE ~tasklet_disable(x)
  <2>1. ctx' = ctx \/ \E l \in CtxPCs \ {"disabled"} : \E t, c : CtxIs(x, l, t, c)
    <3>1. ASSUME NEW c \in online, NEW i \in BOOLEAN, __tasklet_schedule(x, c, i)
          PROVE  CtxIs(x, "idle", NULL, NULL) \/ CtxIs(x, "exit", NULL, c)
      BY <3>1, CtxSet DEF __tasklet_schedule, Types
    <3>2. CASE irq_exit(x) \/ kill_return(x) \/ tasklet_enable(x)
      BY <3>2, CtxSet DEF irq_exit, kill_return, tasklet_enable, CtxPCs
    <3>3. CASE kill_take(x)
      BY <3>3, CtxSet, InHandType DEF kill_take, CtxPCs
    <3>4. CASE yield(x)
      BY <3>4 DEF yield, vars
    <3>5. ASSUME NEW t \in Tasklets,
                 tasklet_schedule(x, t) \/ tasklet_kill(x, t) \/ tasklet_disable_nosync(x, t)
          PROVE  \E l \in CtxPCs \ {"disabled"} : CtxIs(x, l, t, NULL)
      BY <3>5, CtxSet DEF tasklet_schedule, tasklet_kill, tasklet_disable_nosync, CtxPCs
    <3> QED
      BY <1>2, <3>1, <3>2, <3>3, <3>4, <3>5 DEF CtxStep, CtxPCs
  <2>2. \A y \in Contexts : ctx'[y].pc = "disabled" => ctx'[y] = ctx[y]
    BY <2>1 DEF CtxIs
  <2>3. \A c \in CPUs : softirq'[c] = softirq[c] \/ softirq'[c].pc = "action"
    BY RunsOfCtx
  <2> QED
    BY <2>2, <2>3 DEF DisabledInv
<1> QED
  BY <1>1, <1>2

(* Nobody passes the test of t->count while it is disabled. *)
LEMMA DisabledCpu ==
  ASSUME Types, SoftirqInv, ListInv, CountInv, DisabledInv, NEW c \in CPUs, CpuStep(c)
  PROVE  DisabledInv'
<1> USE TypesDef
<1>1. ctx' = ctx
  BY CpuLeavesCtx
<1>2. CASE test_count(c)
  <2>1. PICK t \in Tasklets : t = softirq[c].t
    BY <1>2, InHandType DEF test_count
  <2>2. CASE count[t] = 0
    <3>1. Disablers(t) = {}
      BY <2>2, DisablersFinite, FS_EmptySet DEF CountInv
    <3>2. \A x \in Contexts : ctx[x].pc = "disabled" => ctx[x].t # t
      BY <3>1 DEF Disablers
    <3>3. PICK l : SoftirqIs(c, l, softirq[c].list, t)
      BY <1>2, <2>1, LoopEffect
    <3> QED
      BY <1>1, <3>2, <3>3 DEF SoftirqIs, DisabledInv
  <2>3. CASE count[t] # 0
    <3>1. SoftirqIs(c, "requeue", softirq[c].list, t)
      BY <1>2, <2>1, <2>3, SoftirqSet DEF test_count, SoftirqPCs
    <3> QED
      BY <1>1, <3>1 DEF SoftirqIs, DisabledInv
  <2> QED
    BY <2>2, <2>3
<1>3. CASE start_func(c)
  BY <1>1, <1>3, LoopEffect DEF start_func, SoftirqIs, DisabledInv
<1>4. CASE ~test_count(c) /\ ~start_func(c)
  <2>1. \A d \in CPUs : softirq'[d] = softirq[d] \/ softirq'[d].pc \notin {"clear", "func"}
    <3>1. CASE Softirq(c)
      BY <1>4, <3>1, LoopEffect DEF Softirq, SoftirqIs
    <3>2. CASE run_ksoftirqd(c)
      BY <3>2, SoftirqSet DEF run_ksoftirqd, set_current_state, check_pending, inner_loop, SoftirqIs
    <3>3. CASE cpu_down(c) \/ takeover_tasklets(c) \/ cpu_up(c)
      BY <3>3 DEF cpu_down, takeover_tasklets, cpu_up
    <3> QED
      BY <3>1, <3>2, <3>3 DEF CpuStep
  <2> QED
    BY <1>1, <2>1 DEF DisabledInv
<1> QED
  BY <1>2, <1>3, <1>4

-----------------------------------------------------------------------------
(* One holder of SCHED. *)

Hs == Contexts \cup CPUs

(* A step leaves the holders of tasklet t as they are, ... *)
Same(t) ==
  /\ "SCHED" \in bits'[t] <=> "SCHED" \in bits[t]
  /\ \A k \in Ways, h \in Hs : Holds(t, k, h)' <=> Holds(t, k, h)

(* ... leaves it with one, ... *)
OnlyHolder(t, l, g) == \A k \in Ways, h \in Hs : Holds(t, k, h)' <=> k = l /\ h = g
One(t) == "SCHED" \in bits'[t] /\ \E l \in Ways, g \in Hs : OnlyHolder(t, l, g)

(* ... or with none. *)
None(t) == "SCHED" \notin bits'[t] /\ \A k \in Ways, h \in Hs : ~Holds(t, k, h)'

(* These are the ways to keep the invariant. *)
LEMMA HolderKept ==
  ASSUME HolderInv, \A t \in Tasklets : Same(t) \/ One(t) \/ None(t)
  PROVE  HolderInv'
<1> SUFFICES ASSUME NEW t \in Tasklets
             PROVE  /\ "SCHED" \in bits'[t] <=> \E k \in Ways, h \in Hs : Holds(t, k, h)'
                    /\ \A k, l \in Ways : \A g, h \in Hs :
                         Holds(t, k, g)' /\ Holds(t, l, h)' => k = l /\ g = h
  BY DEF HolderInv, Hs
<1>1. CASE Same(t)
  BY <1>1 DEF Same, HolderInv, Hs
<1>2. CASE One(t)
  BY <1>2 DEF One, OnlyHolder
<1>3. CASE None(t)
  BY <1>3 DEF None
<1> QED
  BY <1>1, <1>2, <1>3

(* Who holds a tasklet is alone with it, and SCHED is set. *)
LEMMA HolderAlone ==
  ASSUME HolderInv, NEW t \in Tasklets, NEW l \in Ways, NEW g \in Hs, Holds(t, l, g)
  PROVE  /\ "SCHED" \in bits[t]
         /\ \A k \in Ways, h \in Hs : Holds(t, k, h) <=> k = l /\ h = g
BY DEF HolderInv, Hs

(* Without SCHED nobody holds it. *)
LEMMA NoHolder ==
  ASSUME HolderInv, NEW t \in Tasklets, "SCHED" \notin bits[t]
  PROVE  \A k \in Ways, h \in Hs : ~Holds(t, k, h)
BY DEF HolderInv, Hs

(* What the holders are made of did not change for the worse: a context    *)
(* or a CPU that is not one of a tasklet's holders before or after.        *)
CtxHolds(x, t) == ctx[x].t = t /\ ctx[x].pc \in {"enqueue", "kill_wait"}

(* A tasklet's holders stay the same when nothing that makes one changes. *)
LEMMA SameIf ==
  ASSUME NEW t \in Tasklets, "SCHED" \in bits'[t] <=> "SCHED" \in bits[t],
         \A x \in Contexts : CtxHolds(x, t)' <=> CtxHolds(x, t),
         \A c \in CPUs :
           /\ t \in Entries(tasklet_vec'[c]) <=> t \in Entries(tasklet_vec[c])
           /\ t \in Entries(softirq'[c].list) <=> t \in Entries(softirq[c].list)
           /\ softirq'[c].t = t /\ softirq'[c].pc # "func"
                <=> softirq[c].t = t /\ softirq[c].pc # "func"
  PROVE  Same(t)
BY DEF Same, Holds, CtxHolds

(* A tasklet is put on a CPU's list. *)
LEMMA Queued ==
  ASSUME Types, ListInv, NEW c \in CPUs, NEW t \in Tasklets, t \notin Entries(tasklet_vec[c]),
         tasklet_vec' = [tasklet_vec EXCEPT ![c] = list_add_tail(tasklet_vec[c], t)]
  PROVE  /\ Entries(tasklet_vec'[c]) = Entries(tasklet_vec[c]) \cup {t}
         /\ IsList(tasklet_vec'[c])
         /\ \A d \in CPUs \ {c} : tasklet_vec'[d] = tasklet_vec[d]
<1>1. /\ tasklet_vec'[c] = list_add_tail(tasklet_vec[c], t)
      /\ \A d \in CPUs \ {c} : tasklet_vec'[d] = tasklet_vec[d]
  BY DEF Types
<1>2. tasklet_vec[c] \in Seq(Tasklets) /\ IsList(tasklet_vec[c])
  BY DEF Types, ListInv
<1>3. /\ Entries(list_add_tail(tasklet_vec[c], t)) = Entries(tasklet_vec[c]) \cup {t}
      /\ IsList(list_add_tail(tasklet_vec[c], t))
  BY <1>2, AddTail
<1> QED
  BY <1>1, <1>3

(* Contexts keep one holder for each tasklet. *)
LEMMA HolderCtx ==
  ASSUME Types, SoftirqInv, HolderInv, ListInv, NEW x \in Contexts, CtxStep(x)
  PROVE  HolderInv' /\ ListInv'
<1> USE TypesDef
<1>1. ASSUME NEW c \in online, NEW i \in BOOLEAN, __tasklet_schedule(x, c, i)
      PROVE  HolderInv' /\ ListInv'
  <2>1. PICK t \in Tasklets : t = ctx[x].t
    BY <1>1, InHandType DEF __tasklet_schedule
  <2>2. /\ c \in CPUs /\ ctx[x].pc = "enqueue" /\ UNCHANGED <<bits, softirq>>
        /\ tasklet_vec' = [tasklet_vec EXCEPT ![c] = list_add_tail(tasklet_vec[c], t)]
    BY <1>1, <2>1 DEF __tasklet_schedule, Types
  <2>3. Holds(t, "ctx", x)
    BY <2>1, <2>2 DEF Holds
  <2>4. /\ "SCHED" \in bits[t]
        /\ \A k \in Ways, h \in Hs : Holds(t, k, h) <=> k = "ctx" /\ h = x
    BY <2>3, HolderAlone DEF Ways, Hs
  <2>5. t \notin Entries(tasklet_vec[c])
    BY <2>2, <2>4 DEF Holds, Ways, Hs
  <2>6. /\ Entries(tasklet_vec'[c]) = Entries(tasklet_vec[c]) \cup {t}
        /\ IsList(tasklet_vec'[c])
        /\ \A d \in CPUs \ {c} : tasklet_vec'[d] = tasklet_vec[d]
    BY <2>2, <2>5, Queued
  <2>7. ListInv'
    BY <2>2, <2>6 DEF ListInv
  <2>8. /\ ctx'[x].pc \notin {"enqueue", "kill_wait"}
        /\ \A y \in Contexts \ {x} : ctx'[y] = ctx[y]
    BY <1>1, <2>2, CtxSet DEF __tasklet_schedule, CtxIs
  <2>9. One(t)
    <3>1. OnlyHolder(t, "vec", c)
      BY <2>2, <2>4, <2>6, <2>8 DEF OnlyHolder, Holds, Ways, Hs
    <3> QED
      BY <2>2, <2>4, <3>1 DEF One, Ways, Hs
  <2>10. ASSUME NEW s \in Tasklets \ {t} PROVE Same(s)
    <3>1. \A y \in Contexts : CtxHolds(y, s)' <=> CtxHolds(y, s)
      BY <2>1, <2>8 DEF CtxHolds
    <3> QED
      BY <2>2, <2>6, <3>1, SameIf
  <2> QED
    BY <2>7, <2>9, <2>10, HolderKept
<1>2. CASE irq_exit(x)
  <2>1. UNCHANGED <<bits, tasklet_vec>> /\ ctx[x].pc = "exit"
    BY <1>2 DEF irq_exit
  <2>2. CtxIs(x, "idle", NULL, NULL)
    BY <1>2, CtxSet DEF irq_exit
  <2>3. \A c \in CPUs : \/ softirq'[c] = softirq[c]
                        \/ /\ softirq[c].t = NULL /\ softirq'[c].t = NULL
                           /\ softirq[c].list = EmptyList /\ softirq'[c].list = EmptyList
    <3>1. ASSUME NEW c \in CPUs, softirq[c].pc = "idle"
          PROVE  softirq[c].t = NULL /\ softirq[c].list = EmptyList
      BY <3>1, Fields DEF SoftirqInv, list_empty, EmptyList
    <3> QED
      BY <3>1, SoftirqOfCtx DEF SoftirqIs
  <2>4. ASSUME NEW s \in Tasklets PROVE Same(s)
    <3>1. \A y \in Contexts : CtxHolds(y, s)' <=> CtxHolds(y, s)
      BY <2>1, <2>2 DEF CtxHolds, CtxIs
    <3> QED
      BY <2>1, <2>3, <3>1, SameIf, TaskletAssumption
  <2>5. ListInv'
    BY <2>1, <2>3 DEF ListInv, IsList, EmptyList
  <2> QED
    BY <2>4, <2>5, HolderKept
<1>3. ASSUME NEW t \in Tasklets, NEW l \in {"enqueue", "kill_wait"},
             test_and_set_bit("SCHED", t), CtxIs(x, l, t, NULL),
             ctx[x].pc \notin {"enqueue", "kill_wait"}, UNCHANGED <<tasklet_vec, softirq>>
      PROVE  HolderInv' /\ ListInv'
  <2>1. /\ "SCHED" \notin bits[t] /\ "SCHED" \in bits'[t]
        /\ \A s \in Tasklets \ {t} : bits'[s] = bits[s]
    BY <1>3, BitSet
  <2>2. \A k \in Ways, h \in Hs : ~Holds(t, k, h)
    BY <2>1, NoHolder
  <2>3. One(t)
    <3>1. OnlyHolder(t, "ctx", x)
      BY <1>3, <2>2 DEF OnlyHolder, Holds, CtxIs, Ways, Hs
    <3> QED
      BY <2>1, <3>1 DEF One, Ways, Hs
  <2>4. ASSUME NEW s \in Tasklets \ {t} PROVE Same(s)
    <3>1. \A y \in Contexts : CtxHolds(y, s)' <=> CtxHolds(y, s)
      BY <1>3 DEF CtxHolds, CtxIs
    <3> QED
      BY <1>3, <2>1, <3>1, SameIf
  <2>5. ListInv'
    BY <1>3 DEF ListInv
  <2> QED
    BY <2>3, <2>4, <2>5, HolderKept
<1>4. ASSUME NEW t \in Tasklets, tasklet_schedule(x, t) PROVE HolderInv' /\ ListInv'
  BY <1>3, <1>4, CtxSet DEF tasklet_schedule, CtxPCs
<1>5. CASE kill_take(x)
  <2>1. PICK t \in Tasklets : t = ctx[x].t
    BY <1>5, InHandType DEF kill_take
  <2> QED
    BY <1>3, <1>5, <2>1, CtxSet DEF kill_take, CtxPCs
<1>6. CASE kill_return(x)
  <2>1. PICK t \in Tasklets : t = ctx[x].t
    BY <1>6, InHandType DEF kill_return
  <2>2. /\ ctx[x].pc = "kill_wait" /\ CtxIs(x, "idle", NULL, NULL)
        /\ UNCHANGED <<tasklet_vec, softirq>>
    BY <1>6, CtxSet DEF kill_return
  <2>3. "SCHED" \notin bits'[t] /\ \A s \in Tasklets \ {t} : bits'[s] = bits[s]
    BY <1>6, <2>1, BitSet DEF kill_return
  <2>4. Holds(t, "ctx", x)
    BY <2>1, <2>2 DEF Holds
  <2>5. \A k \in Ways, h \in Hs : Holds(t, k, h) <=> k = "ctx" /\ h = x
    BY <2>4, HolderAlone DEF Ways, Hs
  <2>6. None(t)
    BY <2>2, <2>3, <2>5 DEF None, Holds, CtxIs, Ways, Hs
  <2>7. ASSUME NEW s \in Tasklets \ {t} PROVE Same(s)
    <3>1. \A y \in Contexts : CtxHolds(y, s)' <=> CtxHolds(y, s)
      BY <2>1, <2>2 DEF CtxHolds, CtxIs
    <3> QED
      BY <2>2, <2>3, <3>1, SameIf
  <2>8. ListInv'
    BY <2>2 DEF ListInv
  <2> QED
    BY <2>6, <2>7, <2>8, HolderKept
<1>7. CASE \/ tasklet_disable(x) \/ tasklet_enable(x) \/ yield(x)
           \/ \E t \in Tasklets : tasklet_kill(x, t) \/ tasklet_disable_nosync(x, t)
  <2>1. UNCHANGED <<bits, tasklet_vec, softirq>> /\ ctx[x].pc \notin {"enqueue", "kill_wait"}
    BY <1>7 DEF tasklet_disable, tasklet_enable, yield, tasklet_kill,
                tasklet_disable_nosync, vars
  <2>2. /\ ctx'[x].pc \notin {"enqueue", "kill_wait"}
        /\ \A y \in Contexts \ {x} : ctx'[y] = ctx[y]
    <3>1. CASE tasklet_disable(x)
      BY <3>1, InHandType, CtxSet DEF tasklet_disable, CtxIs, CtxPCs
    <3>2. CASE tasklet_enable(x)
      BY <3>2, CtxSet DEF tasklet_enable, CtxIs
    <3>3. CASE yield(x)
      BY <2>1, <3>3 DEF yield, vars
    <3>4. ASSUME NEW t \in Tasklets, tasklet_kill(x, t) \/ tasklet_disable_nosync(x, t)
          PROVE  CtxIs(x, "kill", t, NULL) \/ CtxIs(x, "nosync", t, NULL)
      BY <3>4, CtxSet DEF tasklet_kill, tasklet_disable_nosync, CtxPCs
    <3> QED
      BY <1>7, <3>1, <3>2, <3>3, <3>4 DEF CtxIs
  <2>3. ASSUME NEW s \in Tasklets PROVE Same(s)
    <3>1. \A y \in Contexts : CtxHolds(y, s)' <=> CtxHolds(y, s)
      BY <2>1, <2>2 DEF CtxHolds
    <3> QED
      BY <2>1, <3>1, SameIf
  <2>4. ListInv'
    BY <2>1 DEF ListInv
  <2> QED
    BY <2>3, <2>4, HolderKept
<1> QED
  BY <1>1, <1>2, <1>4, <1>5, <1>6, <1>7 DEF CtxStep

(* So do CPUs. *)
LEMMA HolderCpu ==
  ASSUME Types, SoftirqInv, HolderInv, ListInv, NEW c \in CPUs, CpuStep(c)
  PROVE  HolderInv' /\ ListInv'
<1> USE TypesDef
<1>1. ctx' = ctx /\ \A x \in Contexts, t \in Tasklets : CtxHolds(x, t)' <=> CtxHolds(x, t)
  BY CpuLeavesCtx DEF CtxHolds
<1>2. CASE tasklet_action(c)
  <2>1. /\ softirq[c].pc = "action" /\ bits' = bits
        /\ SoftirqIs(c, "next", tasklet_vec[c], NULL)
        /\ tasklet_vec'[c] = EmptyList
        /\ \A d \in CPUs \ {c} : tasklet_vec'[d] = tasklet_vec[d]
    BY <1>2, LoopEffect DEF tasklet_action, Types
  <2>2. softirq[c].t = NULL /\ softirq[c].list = EmptyList
    BY <2>1, Fields DEF SoftirqInv, list_empty, EmptyList
  <2>3. Entries(EmptyList) = {} /\ IsList(EmptyList)
    BY DEF Entries, IsList, EmptyList
  <2>4. ListInv'
    BY <2>1, <2>3 DEF ListInv, SoftirqIs
  <2>5. ASSUME NEW t \in Entries(tasklet_vec[c]), t \in Tasklets PROVE One(t)
    <3>1. Holds(t, "vec", c)
      BY DEF Holds
    <3>2. /\ "SCHED" \in bits[t]
          /\ \A k \in Ways, h \in Hs : Holds(t, k, h) <=> k = "vec" /\ h = c
      BY <2>5, <3>1, HolderAlone DEF Ways, Hs
    <3>3. OnlyHolder(t, "list", c)
      BY <1>1, <2>1, <2>3, <2>5, <3>2, TaskletAssumption
         DEF OnlyHolder, Holds, SoftirqIs, Ways, Hs
    <3> QED
      BY <2>1, <3>2, <3>3 DEF One, Ways, Hs
  <2>6. ASSUME NEW t \in Tasklets, t \notin Entries(tasklet_vec[c]) PROVE Same(t)
    BY <1>1, <2>1, <2>2, <2>3, <2>6, SameIf, TaskletAssumption DEF SoftirqIs
  <2> QED
    BY <2>4, <2>5, <2>6, HolderKept
<1>3. CASE tasklet_trylock(c)
  <2>1. PICK q : q = softirq[c].list
    OBVIOUS
  <2>2. q \in Seq(Tasklets) /\ ~list_empty(q) /\ IsList(q) /\ softirq[c].pc = "next"
    BY <1>3, <2>1, Fields DEF tasklet_trylock, ListInv
  <2>3. PICK t : t = list_first_entry(q)
    OBVIOUS
  <2>4. /\ t \in Tasklets /\ t \in Entries(q) /\ Tail(q) \in Seq(Tasklets) /\ IsList(Tail(q))
        /\ Entries(Tail(q)) = Entries(q) \ {t}
    BY <2>2, <2>3, HeadIsEntry, TailList
  <2>5. /\ tasklet_vec' = tasklet_vec
        /\ bits' = bits \/ test_and_set_bit("RUN", t)
        /\ \E l \in {"count", "requeue"} :
             softirq' = [softirq EXCEPT ![c].pc = l, ![c].t = t, ![c].list = Tail(q)]
    BY <1>3, <2>1, <2>3 DEF tasklet_trylock
  <2>6. PICK l \in {"count", "requeue"} : SoftirqIs(c, l, Tail(q), t)
    BY <2>4, <2>5, SoftirqSet DEF SoftirqPCs
  <2>7. \A s \in Tasklets : "SCHED" \in bits'[s] <=> "SCHED" \in bits[s]
    BY <2>4, <2>5, BitSet
  <2>8. ListInv'
    BY <2>4, <2>5, <2>6 DEF ListInv, SoftirqIs
  <2>9. One(t)
    <3>1. Holds(t, "list", c)
      BY <2>1, <2>4 DEF Holds
    <3>2. /\ "SCHED" \in bits[t]
          /\ \A k \in Ways, h \in Hs : Holds(t, k, h) <=> k = "list" /\ h = c
      BY <2>4, <3>1, HolderAlone DEF Ways, Hs
    <3>3. OnlyHolder(t, "hand", c)
      BY <1>1, <2>4, <2>5, <2>6, <3>2 DEF OnlyHolder, Holds, SoftirqIs, Ways, Hs
    <3> QED
      BY <2>4, <2>7, <3>2, <3>3 DEF One, Ways, Hs
  <2>10. ASSUME NEW s \in Tasklets \ {t} PROVE Same(s)
    <3>1. softirq[c].t = NULL
      BY <2>2 DEF SoftirqInv
    <3> QED
      BY <1>1, <2>1, <2>4, <2>5, <2>6, <2>7, <3>1, SameIf, TaskletAssumption DEF SoftirqIs
  <2> QED
    BY <2>8, <2>9, <2>10, HolderKept
<1>4. CASE test_count(c) \/ tasklet_unlock(c)
  <2>1. softirq[c].t \in Tasklets /\ tasklet_vec' = tasklet_vec
    BY <1>4, InHandType DEF test_count, tasklet_unlock
  <2>2. \A s \in Tasklets : "SCHED" \in bits'[s] <=> "SCHED" \in bits[s]
    BY <1>4, <2>1, BitSet DEF test_count, tasklet_unlock
  <2>3. /\ softirq'[c].list = softirq[c].list
        /\ \A d \in CPUs \ {c} : softirq'[d] = softirq[d]
        /\ \A s \in Tasklets : softirq'[c].t = s /\ softirq'[c].pc # "func"
                                 <=> softirq[c].t = s /\ softirq[c].pc # "func"
    <3>1. CASE test_count(c)
      <4>1. PICK l \in {"clear", "requeue"} : SoftirqIs(c, l, softirq[c].list, softirq[c].t)
        BY <3>1, LoopEffect
      <4>2. softirq[c].pc = "count"
        BY <3>1 DEF test_count
      <4> QED
        BY <4>1, <4>2 DEF SoftirqIs
    <3>2. CASE tasklet_unlock(c)
      <4>1. SoftirqIs(c, "next", softirq[c].list, NULL) /\ softirq[c].pc = "func"
        BY <3>2, LoopEffect DEF tasklet_unlock
      <4> QED
        BY <4>1, TaskletAssumption DEF SoftirqIs
    <3> QED
      BY <1>4, <3>1, <3>2
  <2>4. ASSUME NEW s \in Tasklets PROVE Same(s)
    BY <1>1, <2>1, <2>2, <2>3, SameIf
  <2>5. ListInv'
    BY <2>1, <2>3 DEF ListInv
  <2> QED
    BY <2>4, <2>5, HolderKept
<1>5. CASE start_func(c)
  <2>1. PICK t \in Tasklets : t = softirq[c].t
    BY <1>5, InHandType DEF start_func
  <2>2. /\ softirq[c].pc = "clear" /\ tasklet_vec' = tasklet_vec
        /\ SoftirqIs(c, "func", softirq[c].list, t)
    BY <1>5, <2>1, LoopEffect DEF start_func
  <2>3. "SCHED" \notin bits'[t] /\ \A s \in Tasklets \ {t} : bits'[s] = bits[s]
    BY <1>5, <2>1, BitSet DEF start_func
  <2>4. Holds(t, "hand", c)
    BY <2>1, <2>2 DEF Holds
  <2>5. \A k \in Ways, h \in Hs : Holds(t, k, h) <=> k = "hand" /\ h = c
    BY <2>4, HolderAlone DEF Ways, Hs
  <2>6. None(t)
    BY <1>1, <2>2, <2>3, <2>5 DEF None, Holds, SoftirqIs, Ways, Hs
  <2>7. ASSUME NEW s \in Tasklets \ {t} PROVE Same(s)
    BY <1>1, <2>1, <2>2, <2>3, SameIf DEF SoftirqIs
  <2>8. ListInv'
    BY <2>2 DEF ListInv, SoftirqIs
  <2> QED
    BY <2>6, <2>7, <2>8, HolderKept
<1>6. CASE requeue(c)
  <2>1. PICK t \in Tasklets : t = softirq[c].t
    BY <1>6, InHandType DEF requeue
  <2>2. /\ softirq[c].pc = "requeue" /\ bits' = bits
        /\ SoftirqIs(c, "next", softirq[c].list, NULL)
        /\ tasklet_vec' = [tasklet_vec EXCEPT ![c] = list_add_tail(tasklet_vec[c], t)]
    BY <1>6, <2>1, LoopEffect DEF requeue
  <2>3. Holds(t, "hand", c)
    BY <2>1, <2>2 DEF Holds
  <2>4. /\ "SCHED" \in bits[t]
        /\ \A k \in Ways, h \in Hs : Holds(t, k, h) <=> k = "hand" /\ h = c
    BY <2>3, HolderAlone DEF Ways, Hs
  <2>5. t \notin Entries(tasklet_vec[c])
    BY <2>4 DEF Holds, Ways, Hs
  <2>6. /\ Entries(tasklet_vec'[c]) = Entries(tasklet_vec[c]) \cup {t}
        /\ IsList(tasklet_vec'[c])
        /\ \A d \in CPUs \ {c} : tasklet_vec'[d] = tasklet_vec[d]
    BY <2>2, <2>5, Queued
  <2>7. ListInv'
    BY <2>2, <2>6 DEF ListInv, SoftirqIs
  <2>8. One(t)
    <3>1. OnlyHolder(t, "vec", c)
      BY <1>1, <2>2, <2>4, <2>6, TaskletAssumption DEF OnlyHolder, Holds, SoftirqIs, Ways, Hs
    <3> QED
      BY <2>2, <2>4, <3>1 DEF One, Ways, Hs
  <2>9. ASSUME NEW s \in Tasklets \ {t} PROVE Same(s)
    BY <1>1, <2>1, <2>2, <2>6, SameIf, TaskletAssumption DEF SoftirqIs
  <2> QED
    BY <2>7, <2>8, <2>9, HolderKept
<1>7. CASE end_softirq(c) \/ run_ksoftirqd(c) \/ cpu_down(c) \/ cpu_up(c)
  <2>1. UNCHANGED <<bits, tasklet_vec>>
    BY <1>7 DEF end_softirq, run_ksoftirqd, set_current_state, check_pending, inner_loop,
                cpu_down, cpu_up
  <2>2. \/ softirq' = softirq
        \/ /\ softirq[c].t = NULL /\ softirq'[c].t = NULL
           /\ softirq[c].list = EmptyList /\ softirq'[c].list = EmptyList
           /\ \A d \in CPUs \ {c} : softirq'[d] = softirq[d]
    <3>1. ASSUME softirq[c].t = NULL, list_empty(softirq[c].list)
          PROVE  softirq[c].list = EmptyList
      BY <3>1, Fields DEF list_empty, EmptyList
    <3>2. CASE end_softirq(c)
      <4>1. softirq[c].t = NULL /\ list_empty(softirq[c].list)
        BY <3>2 DEF end_softirq, SoftirqInv
      <4> QED
        BY <3>1, <3>2, <4>1, LoopEffect DEF SoftirqIs
    <3>3. CASE run_ksoftirqd(c)
      <4>1. softirq[c].pc = "idle" => softirq[c].t = NULL /\ list_empty(softirq[c].list)
        BY DEF SoftirqInv
      <4>2. softirq' = softirq \/ (softirq[c].pc = "idle" /\ start_softirq(c))
        BY <3>3 DEF run_ksoftirqd, set_current_state, check_pending, inner_loop
      <4> QED
        BY <3>1, <4>1, <4>2, SoftirqSet DEF SoftirqIs
    <3>4. CASE cpu_down(c) \/ cpu_up(c)
      BY <3>4 DEF cpu_down, cpu_up
    <3> QED
      BY <1>7, <3>2, <3>3, <3>4
  <2>3. ASSUME NEW s \in Tasklets PROVE Same(s)
    BY <1>1, <2>1, <2>2, SameIf, TaskletAssumption
  <2>4. ListInv'
    BY <2>1, <2>2 DEF ListInv, IsList, EmptyList
  <2> QED
    BY <2>3, <2>4, HolderKept
<1>8. CASE takeover_tasklets(c)
  <2>1. PICK d \in CPUs : d = dead
    BY <1>8 DEF takeover_tasklets, Types
  <2>2. d # c /\ UNCHANGED <<bits, softirq>>
    BY <1>8, <2>1 DEF takeover_tasklets, SoftirqInv
  <2>3. /\ tasklet_vec'[c] = tasklet_vec[c] \o tasklet_vec[d]
        /\ tasklet_vec'[d] = EmptyList
        /\ \A e \in CPUs \ {c, d} : tasklet_vec'[e] = tasklet_vec[e]
    BY <1>8, <2>1, <2>2 DEF takeover_tasklets, Types
  <2>4. ASSUME NEW t \in Tasklets, t \in Entries(tasklet_vec[d])
        PROVE  /\ "SCHED" \in bits[t]
               /\ \A k \in Ways, h \in Hs : Holds(t, k, h) <=> k = "vec" /\ h = d
    <3>1. Holds(t, "vec", d)
      BY <2>4 DEF Holds
    <3> QED
      BY <3>1, HolderAlone DEF Ways, Hs
  <2>5. /\ tasklet_vec[c] \in Seq(Tasklets) /\ tasklet_vec[d] \in Seq(Tasklets)
        /\ IsList(tasklet_vec[c]) /\ IsList(tasklet_vec[d])
    BY DEF Types, ListInv
  <2>6. Entries(tasklet_vec[d]) \subseteq Tasklets
    BY <2>5 DEF Entries
  <2>7. Entries(tasklet_vec[c]) \cap Entries(tasklet_vec[d]) = {}
    BY <2>2, <2>4, <2>6 DEF Holds, Ways, Hs
  <2>8. /\ Entries(tasklet_vec'[c]) = Entries(tasklet_vec[c]) \cup Entries(tasklet_vec[d])
        /\ IsList(tasklet_vec'[c])
    BY <2>3, <2>5, <2>7, Spliced
  <2>9. Entries(tasklet_vec'[d]) = {} /\ IsList(tasklet_vec'[d])
    BY <2>3 DEF Entries, IsList, EmptyList
  <2>10. ListInv'
    BY <2>2, <2>3, <2>8, <2>9 DEF ListInv
  <2>11. ASSUME NEW t \in Tasklets, t \in Entries(tasklet_vec[d]) PROVE One(t)
    <3>1. /\ \A h \in CPUs : /\ t \in Entries(tasklet_vec[h]) <=> h = d
                             /\ t \notin Entries(softirq[h].list)
                             /\ ~(softirq[h].t = t /\ softirq[h].pc # "func")
          /\ \A h \in Contexts : ~(ctx[h].t = t /\ ctx[h].pc \in {"enqueue", "kill_wait"})
      BY <2>4, <2>11 DEF Holds, Ways, Hs
    <3>2. \A h \in CPUs : t \in Entries(tasklet_vec'[h]) <=> h = c
      BY <2>3, <2>8, <2>9, <2>11, <3>1
    <3>3. OnlyHolder(t, "vec", c)
      BY <1>1, <2>2, <3>1, <3>2 DEF OnlyHolder, Holds, Ways, Hs
    <3> QED
      BY <2>2, <2>4, <2>11, <3>3 DEF One, Ways, Hs
  <2>12. ASSUME NEW t \in Tasklets, t \notin Entries(tasklet_vec[d]) PROVE Same(t)
    BY <1>1, <2>2, <2>3, <2>8, <2>9, <2>12, SameIf
  <2> QED
    BY <2>10, <2>11, <2>12, HolderKept
<1> QED
  BY <1>2, <1>3, <1>4, <1>5, <1>6, <1>7, <1>8 DEF CpuStep, Softirq

-----------------------------------------------------------------------------
(* At first no tasklet is scheduled. *)
LEMMA InitIInv == Init => IInv
<1> SUFFICES ASSUME Init PROVE IInv
  OBVIOUS
<1>1. Types
  BY IdleTypes, TaskletAssumption DEF Init, Types, EmptyList
<1>2. SoftirqInv
  BY TaskletAssumption DEF Init, SoftirqInv, NoSoftirq, Idle, EmptyList, list_empty
<1>3. Entries(EmptyList) = {} /\ IsList(EmptyList)
  BY DEF Entries, IsList, EmptyList
<1>4. HolderInv /\ ListInv
  BY <1>3, TaskletAssumption DEF Init, HolderInv, ListInv, Holds, NoSoftirq, Idle
<1>5. RunInv /\ DisabledInv
  BY DEF Init, RunInv, Runs, DisabledInv, NoSoftirq, Idle
<1>6. CountInv
  <2>1. \A t \in Tasklets : Disablers(t) = {}
    BY DEF Init, Disablers, Idle
  <2> QED
    BY <2>1, FS_EmptySet DEF Init, CountInv
<1>7. ListServed
  BY DEF Init, ListServed, EmptyList, list_empty
<1> QED
  BY <1>1, <1>2, <1>4, <1>5, <1>6, <1>7, TypesDef DEF IInv

(* Every step keeps the invariant. *)
LEMMA StepIInv == IInv /\ [Next]_vars => IInv'
<1> SUFFICES ASSUME IInv, [Next]_vars PROVE IInv'
  OBVIOUS
<1>1. /\ Types /\ SoftirqInv /\ HolderInv /\ ListInv /\ RunInv /\ CountInv
      /\ DisabledInv /\ ListServed
  BY TypesDef DEF IInv
<1>2. ASSUME NEW x \in Contexts, CtxStep(x) PROVE IInv'
  BY <1>1, <1>2, TypesDef, TypeCtx, ShapeCtx, HolderCtx, RunCtx, CountCtx, DisabledCtx,
     ServedCtx DEF IInv
<1>3. ASSUME NEW c \in CPUs, CpuStep(c) PROVE IInv'
  BY <1>1, <1>3, TypesDef, TypeCpu, ShapeCpu, HolderCpu, RunCpu, CountCpu, DisabledCpu,
     ServedCpu DEF IInv
<1>4. CASE UNCHANGED vars
  <2>1. UNCHANGED <<bits, count, tasklet_vec, pending, softirq, kpc, kstate, ctx, online,
                    dead, downs>>
    BY <1>4 DEF vars, hotplug
  <2>2. Types' /\ SoftirqInv' /\ ListServed'
    BY <1>1, <2>1 DEF Types, SoftirqInv, ListServed
  <2>3. HolderInv' /\ ListInv'
    <3>1. \A t \in Tasklets : Same(t)
      BY <2>1 DEF Same, Holds
    <3> QED
      BY <1>1, <2>1, <3>1, HolderKept DEF ListInv
  <2>4. RunInv' /\ DisabledInv'
    BY <1>1, <2>1 DEF RunInv, Runs, DisabledInv
  <2>5. CountInv'
    <3>1. \A t \in Tasklets : Disablers(t)' = Disablers(t)
      BY <2>1 DEF Disablers
    <3> QED
      BY <1>1, <2>1, <3>1 DEF CountInv
  <2> QED
    BY <2>2, <2>3, <2>4, <2>5, TypesDef DEF IInv
<1> QED
  BY <1>2, <1>3, <1>4, NextIsStep

(* IInv holds throughout. *)
LEMMA Invariant == Spec => []IInv
BY InitIInv, StepIInv, PTL DEF Spec

-----------------------------------------------------------------------------
(* The holders of a tasklet are its places: there is one of each or none. *)
LEMMA OnePlaceFollows == IInv => OnePlace
<1> SUFFICES ASSUME IInv, NEW t \in Tasklets
             PROVE  Cardinality(Places(t)) = IF "SCHED" \in bits[t] THEN 1 ELSE 0
  BY DEF OnePlace
<1>1. Types /\ HolderInv /\ ListInv
  BY TypesDef DEF IInv
<1> DEFINE C == {<<"ctx", x>> : x \in {y \in Contexts : ctx[y].t = t
                                          /\ ctx[y].pc \in {"enqueue", "kill_wait"}}}
           V(c) == {<<"vec", c, i>> : i \in {j \in DOMAIN tasklet_vec[c] :
                                               tasklet_vec[c][j] = t}}
           L(c) == {<<"list", c, i>> : i \in {j \in DOMAIN softirq[c].list :
                                                softirq[c].list[j] = t}}
           H == {<<"hand", c>> : c \in {d \in CPUs : softirq[d].t = t
                                                     /\ softirq[d].pc # "func"}}
<1>2. Places(t) = C \cup (UNION {V(c) : c \in CPUs}) \cup (UNION {L(c) : c \in CPUs}) \cup H
  BY DEF Places
<1>3. /\ \A x \in Contexts : Holds(t, "ctx", x) <=> ctx[x].t = t /\ ctx[x].pc \in {"enqueue", "kill_wait"}
      /\ \A c \in CPUs : Holds(t, "vec", c) <=> t \in Entries(tasklet_vec[c])
      /\ \A c \in CPUs : Holds(t, "list", c) <=> t \in Entries(softirq[c].list)
      /\ \A c \in CPUs : Holds(t, "hand", c) <=> softirq[c].t = t /\ softirq[c].pc # "func"
  BY DEF Holds
<1>4. ASSUME NEW c \in CPUs, ~Holds(t, "vec", c) PROVE V(c) = {}
  BY <1>3, <1>4 DEF Entries
<1>5. ASSUME NEW c \in CPUs, ~Holds(t, "list", c) PROVE L(c) = {}
  BY <1>3, <1>5 DEF Entries
<1>6. ASSUME \A x \in Contexts : ~Holds(t, "ctx", x) PROVE C = {}
  BY <1>3, <1>6
<1>7. ASSUME \A c \in CPUs : ~Holds(t, "hand", c) PROVE H = {}
  BY <1>3, <1>7
<1>8. ASSUME NEW q, IsList(q), t \in Entries(q)
      PROVE  \E i : {j \in DOMAIN q : q[j] = t} = {i}
  <2>1. PICK i \in DOMAIN q : q[i] = t
    BY <1>8 DEF Entries
  <2>2. {j \in DOMAIN q : q[j] = t} = {i}
    BY <1>8, <2>1 DEF IsList
  <2> QED
    BY <2>2
<1> HIDE DEF C, V, L, H
<1>9. PICK P : P = Places(t)
  OBVIOUS
<1>10. \A p : p \in P <=> \/ p \in C \/ p \in H
                          \/ \E c \in CPUs : p \in V(c) \/ p \in L(c)
  <2>1. PICK A, B : A = UNION {V(c) : c \in CPUs} /\ B = UNION {L(c) : c \in CPUs}
    OBVIOUS
  <2>2. P = C \cup A \cup B \cup H
    BY <1>2, <1>9, <2>1
  <2>3. \A p : p \in A <=> \E c \in CPUs : p \in V(c)
    BY <2>1
  <2>4. \A p : p \in B <=> \E c \in CPUs : p \in L(c)
    BY <2>1
  <2>5. \A p : p \in P <=> p \in C \/ p \in A \/ p \in B \/ p \in H
    BY <2>2
  <2> QED
    BY <2>3, <2>4, <2>5
<1>11. CASE "SCHED" \notin bits[t]
  <2>1. \A k \in Ways, h \in Hs : ~Holds(t, k, h)
    BY <1>1, <1>11, NoHolder
  <2>2. C = {} /\ H = {} /\ \A c \in CPUs : V(c) = {} /\ L(c) = {}
    BY <1>4, <1>5, <1>6, <1>7, <2>1 DEF Ways, Hs
  <2>3. P = {}
    BY <1>10, <2>2
  <2> QED
    BY <1>11, <1>9, <2>3, FS_EmptySet
<1>12. CASE "SCHED" \in bits[t]
  <2>1. PICK l \in Ways, g \in Hs : Holds(t, l, g)
    BY <1>1, <1>12 DEF HolderInv, Hs
  <2>2. \A k \in Ways, h \in Hs : Holds(t, k, h) <=> k = l /\ h = g
    BY <1>1, <2>1, HolderAlone
  <2>3. \/ l = "ctx" /\ g \in Contexts
        \/ l \in {"vec", "list", "hand"} /\ g \in CPUs
    BY <2>1 DEF Holds
  <2>4. SUFFICES Cardinality(P) = 1
    BY <1>12, <1>9
  <2>5. CASE l = "ctx"
    <3>1. H = {} /\ \A c \in CPUs : V(c) = {} /\ L(c) = {}
      BY <1>4, <1>5, <1>7, <2>2, <2>5 DEF Ways, Hs
    <3>2. C = {<<"ctx", g>>}
      <4>1. {y \in Contexts : ctx[y].t = t /\ ctx[y].pc \in {"enqueue", "kill_wait"}} = {g}
        BY <1>3, <2>2, <2>3, <2>5 DEF Ways, Hs
      <4> QED
        BY <4>1 DEF C
    <3>3. \A p : p \in P <=> p = <<"ctx", g>>
      BY <1>10, <3>1, <3>2
    <3>4. P = {<<"ctx", g>>}
      BY <3>3
    <3> QED
      BY <3>4, FS_Singleton
  <2>6. CASE l = "vec"
    <3>1. C = {} /\ H = {} /\ \A c \in CPUs : L(c) = {} /\ (c # g => V(c) = {})
      BY <1>4, <1>5, <1>6, <1>7, <2>2, <2>6 DEF Ways, Hs
    <3>2. PICK i : {j \in DOMAIN tasklet_vec[g] : tasklet_vec[g][j] = t} = {i}
      BY <1>1, <1>3, <1>8, <2>1, <2>3, <2>6 DEF ListInv
    <3>3. V(g) = {<<"vec", g, i>>}
      BY <3>2 DEF V
    <3>4. \A p : p \in P <=> p = <<"vec", g, i>>
      BY <1>10, <2>3, <2>6, <3>1, <3>3
    <3>5. P = {<<"vec", g, i>>}
      BY <3>4
    <3> QED
      BY <3>5, FS_Singleton
  <2>7. CASE l = "list"
    <3>1. C = {} /\ H = {} /\ \A c \in CPUs : V(c) = {} /\ (c # g => L(c) = {})
      BY <1>4, <1>5, <1>6, <1>7, <2>2, <2>7 DEF Ways, Hs
    <3>2. PICK i : {j \in DOMAIN softirq[g].list : softirq[g].list[j] = t} = {i}
      BY <1>1, <1>3, <1>8, <2>1, <2>3, <2>7 DEF ListInv
    <3>3. L(g) = {<<"list", g, i>>}
      BY <3>2 DEF L
    <3>4. \A p : p \in P <=> p = <<"list", g, i>>
      BY <1>10, <2>3, <2>7, <3>1, <3>3
    <3>5. P = {<<"list", g, i>>}
      BY <3>4
    <3> QED
      BY <3>5, FS_Singleton
  <2>8. CASE l = "hand"
    <3>1. C = {} /\ \A c \in CPUs : V(c) = {} /\ L(c) = {}
      BY <1>4, <1>5, <1>6, <2>2, <2>8 DEF Ways, Hs
    <3>2. H = {<<"hand", g>>}
      <4>1. {d \in CPUs : softirq[d].t = t /\ softirq[d].pc # "func"} = {g}
        BY <1>3, <2>2, <2>3, <2>8 DEF Ways, Hs
      <4> QED
        BY <4>1 DEF H
    <3>3. \A p : p \in P <=> p = <<"hand", g>>
      BY <1>10, <3>1, <3>2
    <3>4. P = {<<"hand", g>>}
      BY <3>3
    <3> QED
      BY <3>4, FS_Singleton
  <2> QED
    BY <2>5, <2>6, <2>7, <2>8 DEF Ways
<1> QED
  BY <1>11, <1>12

(* RUN is the lock that serializes a tasklet. *)
LEMMA SerializedFollows == IInv => Serialized
<1> SUFFICES ASSUME IInv, NEW t \in Tasklets
             PROVE  /\ Cardinality(InFunc(t)) <= 1
                    /\ \A x \in Contexts :
                         /\ ctx[x].t = t
                         /\ \/ ctx[x].pc = "disabled"
                            \/ ctx[x].pc = "kill_wait" /\ tasklet_unlock_wait(x)
                         => InFunc(t) = {}
  BY DEF Serialized
<1>1. /\ \A c \in InFunc(t) : c \in CPUs /\ Runs(c, t) /\ "RUN" \in bits[t]
      /\ \A c, d \in InFunc(t) : c = d
  BY DEF IInv, RunInv, Runs, InFunc
<1>2. Cardinality(InFunc(t)) <= 1
  <2>1. CASE InFunc(t) = {}
    BY <2>1, FS_EmptySet
  <2>2. CASE InFunc(t) # {}
    <3>1. PICK c : InFunc(t) = {c}
      BY <1>1, <2>2
    <3>2. Cardinality({c}) = 1
      BY FS_Singleton
    <3> QED
      BY <3>1, <3>2
  <2> QED
    BY <2>1, <2>2
<1>3. ASSUME NEW x \in Contexts, ctx[x].t = t, ctx[x].pc = "disabled"
      PROVE  InFunc(t) = {}
  BY <1>3 DEF IInv, DisabledInv, InFunc
<1>4. ASSUME NEW x \in Contexts, ctx[x].t = t, tasklet_unlock_wait(x)
      PROVE  InFunc(t) = {}
  BY <1>1, <1>4 DEF tasklet_unlock_wait
<1> QED
  BY <1>2, <1>3, <1>4

(* All variables keep their types; t->count is never enabled below zero. *)
THEOREM TypeCorrect == Spec => []TypeOK
BY Invariant, PTL DEF IInv

(* A tasklet is in exactly one place while its SCHED bit is set and in     *)
(* none otherwise: neither __tasklet_schedule(), nor tasklet_action() when *)
(* it takes, requeues or runs it, nor tasklet_kill(), nor                  *)
(* takeover_tasklets() of a dead CPU loses or doubles it.                  *)
THEOREM OnePlaceCorrect == Spec => []OnePlace
BY Invariant, OnePlaceFollows, PTL

(* The function of a tasklet runs on one CPU at a time, on none while a    *)
(* tasklet_disable() that has returned is in force and on none when        *)
(* tasklet_kill() returns.                                                 *)
THEOREM SerializedCorrect == Spec => []Serialized
BY Invariant, SerializedFollows, PTL

(* A list of tasklets on a CPU that is online has its softirq pending, and *)
(* what is pending will be seen: by the softirq that runs, on the way out  *)
(* of an interrupt, or by a ksoftirqd that is awake.                       *)
THEOREM ListServedCorrect == Spec => []ListServed
BY Invariant, PTL DEF IInv

=============================================================================
