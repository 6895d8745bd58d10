------------------------------ MODULE Tasklet ------------------------------
(***************************************************************************)
(* Tasklets and the softirq that runs them: kernel/softirq.c and           *)
(* include/linux/interrupt.h.                                              *)
(*                                                                         *)
(* A tasklet has two bits that are only touched by atomic operations:      *)
(* SCHED belongs to whoever has to put it on a list, has it on a list or   *)
(* kills it, RUN to the CPU that runs it.  Each CPU has a list, a pending  *)
(* bit and a ksoftirqd thread.  What a CPU does with its interrupts off is *)
(* one step; every other access to a tasklet is a step of its own.         *)
(*                                                                         *)
(* A context is a task, an interrupt handler or the function of a tasklet  *)
(* that uses tasklets.  Contexts of one CPU interleave freely here; on the *)
(* real one they nest, which is a special case.  Only TASKLET_SOFTIRQ is   *)
(* modelled; tasklet_hi_action() is the same code on a second list.        *)
(***************************************************************************)
EXTENDS Naturals, FiniteSets, Sequences, LinuxList, TaskSched

CONSTANTS CPUs, Tasklets, Contexts, NULL,
          HotCPUs,            \* bound: the CPUs that go offline
          MaxDown             \* bound: how often they do

ASSUME TaskletAssumption ==
  /\ IsFiniteSet(CPUs) /\ IsFiniteSet(Tasklets) /\ IsFiniteSet(Contexts)
  /\ NULL \notin Tasklets \cup CPUs /\ HotCPUs \subseteq CPUs
  /\ MaxDown \in Nat

VARIABLES
  bits,         \* t->state
  count,        \* t->count
  tasklet_vec,  \* each CPU's list
  pending,      \* local_softirq_pending() of each CPU
  softirq,      \* what __do_softirq() does on each CPU, with its locals
  kpc,          \* where each ksoftirqd is
  kstate,       \* and its task->state
  ctx,          \* what each context does
  online,       \* the CPUs that are online
  dead,         \* the CPU that has gone offline and has not been cleaned up
  downs         \* bookkeeping for MaxDown

hotplug == <<online, dead, downs>>
vars == <<bits, count, tasklet_vec, pending, softirq, kpc, kstate, ctx, hotplug>>

(***************************************************************************)
(* __do_softirq(): "action" (pending is cleared), "next" (list is what     *)
(* tasklet_action() has left to do), and with tasklet t in hand "count"    *)
(* (RUN is set), "clear" (it is not disabled), "func" or "requeue".        *)
(***************************************************************************)
NoSoftirq == [pc |-> "idle", list |-> EmptyList, t |-> NULL]

(***************************************************************************)
(* A context: "enqueue" (it has set SCHED), "exit" (it has raised the      *)
(* softirq on cpu, inside an interrupt or with bottom halves disabled),    *)
(* "nosync" (after tasklet_disable_nosync() or in tasklet_disable()),      *)
(* "disabled" (after the latter), "kill" and "kill_wait" (in               *)
(* tasklet_kill(), which wants SCHED or has it).                           *)
(***************************************************************************)
Idle == [pc |-> "idle", t |-> NULL, cpu |-> NULL]

At(x, l, t) == ctx' = [ctx EXCEPT ![x] = [Idle EXCEPT !.pc = l, !.t = t]]

Done(x) == ctx' = [ctx EXCEPT ![x] = Idle]

kgoto(c, l) == kpc' = [kpc EXCEPT ![c] = l]

InFunc(t) == {c \in CPUs : softirq[c].pc = "func" /\ softirq[c].t = t}

(* DECLARE_TASKLET(); the CPUs are up and their ksoftirqd starts. *)
Init ==
  /\ bits = [t \in Tasklets |-> {}] /\ count = [t \in Tasklets |-> 0]
  /\ tasklet_vec = [c \in CPUs |-> EmptyList]
  /\ pending = [c \in CPUs |-> FALSE]
  /\ softirq = [c \in CPUs |-> NoSoftirq]
  /\ kpc = [c \in CPUs |-> "set"] /\ kstate = [c \in CPUs |-> TASK_RUNNING]
  /\ ctx = [x \in Contexts |-> Idle]
  /\ online = CPUs /\ dead = NULL /\ downs = 0

test_and_set_bit(b, t) == b \notin bits[t] /\ bits' = [bits EXCEPT ![t] = @ \cup {b}]

clear_bit(b, t) == bits' = [bits EXCEPT ![t] = @ \ {b}]

-----------------------------------------------------------------------------
(* Mutated forms of the definitions below, one plausible slip each. *)

(* The dead CPU's list is left as it was. *)
MutTakeover(c) ==
  /\ dead # NULL /\ c \in online
  /\ tasklet_vec' = [tasklet_vec EXCEPT ![c] = @ \o tasklet_vec[dead]]
  /\ pending' = [pending EXCEPT ![c] = TRUE]
  /\ kstate' = wake_up_process(kstate, c)
  /\ kgoto(dead, "none")
  /\ dead' = NULL
  /\ UNCHANGED <<bits, count, softirq, ctx, online, downs>>

(* The form for kernels without SMP: nothing to wait for. *)
MutUnlockWait(x) == TRUE

(* ksoftirqd is not woken for what is left. *)
MutEndSoftirq(c) ==
  /\ softirq[c].pc = "next" /\ list_empty(softirq[c].list)
  /\ softirq' = [softirq EXCEPT ![c] = NoSoftirq]
  /\ kpc' = [kpc EXCEPT ![c] = IF @ = "softirq" THEN "loop" ELSE @]
  /\ UNCHANGED <<bits, count, tasklet_vec, pending, kstate, ctx, hotplug>>

(* A tasklet that runs elsewhere is put back and the softirq not raised. *)
MutRequeue(c) ==
  /\ softirq[c].pc = "requeue"
  /\ tasklet_vec' = [tasklet_vec EXCEPT ![c] = list_add_tail(@, softirq[c].t)]
  /\ softirq' = [softirq EXCEPT ![c].pc = "next", ![c].t = NULL]
  /\ UNCHANGED <<bits, count, pending, kpc, kstate, ctx, hotplug>>

(* tasklet_kill() keeps SCHED. *)
MutKillReturn(x) ==
  /\ ctx[x].pc = "kill_wait" /\ "RUN" \notin bits[ctx[x].t]
  /\ Done(x)
  /\ UNCHANGED <<bits, count, tasklet_vec, pending, softirq, kpc, kstate, hotplug>>

-----------------------------------------------------------------------------
(* tasklet_schedule(): a tasklet that is SCHED already is left alone ... *)
tasklet_schedule(x, t) ==
  /\ ctx[x].pc = "idle"
  /\ test_and_set_bit("SCHED", t)
  /\ At(x, "enqueue", t)
  /\ UNCHANGED <<count, tasklet_vec, pending, softirq, kpc, kstate, hotplug>>

wakeup_softirqd(c) == kstate' = wake_up_process(kstate, c)

(* ksoftirqd is woken unless in_interrupt(): then the softirq is run on    *)
(* the way out.                                                            *)
raise_softirq_irqoff(c, irq) ==
  /\ pending' = [pending EXCEPT ![c] = TRUE]
  /\ IF irq THEN UNCHANGED kstate ELSE wakeup_softirqd(c)

(* ... another goes on the list of the CPU the context is on by now. *)
__tasklet_schedule(x, c, irq) ==
  /\ ctx[x].pc = "enqueue" /\ c \in online
  /\ tasklet_vec' = [tasklet_vec EXCEPT ![c] = list_add_tail(@, ctx[x].t)]
  /\ raise_softirq_irqoff(c, irq)
  /\ IF irq THEN ctx' = [ctx EXCEPT ![x] = [pc |-> "exit", t |-> NULL, cpu |-> c]]
     ELSE Done(x)
  /\ UNCHANGED <<bits, count, softirq, kpc, hotplug>>

(* Some other context of c is in an interrupt or has bottom halves off. *)
in_interrupt(x, c) ==
  \/ softirq[c].pc # "idle"
  \/ \E y \in Contexts \ {x} : ctx[y].pc = "exit" /\ ctx[y].cpu = c

(* __do_softirq() up to local_irq_enable(). *)
start_softirq(c) ==
  /\ pending' = [pending EXCEPT ![c] = FALSE]
  /\ softirq' = [softirq EXCEPT ![c] = [NoSoftirq EXCEPT !.pc = "action"]]

(* irq_exit() or local_bh_enable(): the outermost one runs what is pending. *)
irq_exit(x) ==
  LET c == ctx[x].cpu
  IN  /\ ctx[x].pc = "exit"
      /\ Done(x)
      /\ IF ~in_interrupt(x, c) /\ pending[c]
         THEN start_softirq(c)
         ELSE UNCHANGED <<pending, softirq>>
      /\ UNCHANGED <<bits, count, tasklet_vec, kpc, kstate, hotplug>>

-----------------------------------------------------------------------------
(* tasklet_action(): the whole list is taken ... *)
tasklet_action(c) ==
  /\ softirq[c].pc = "action"
  /\ softirq' = [softirq EXCEPT ![c].pc = "next", ![c].list = tasklet_vec[c]]
  /\ tasklet_vec' = [tasklet_vec EXCEPT ![c] = EmptyList]
  /\ UNCHANGED <<bits, count, pending, kpc, kstate, ctx, hotplug>>

(* ... its first tasklet is tried: if it runs on another CPU, it is put    *)
(* back on the list ...                                                    *)
tasklet_trylock(c) ==
  LET t == list_first_entry(softirq[c].list)
      go(l) == softirq' = [softirq EXCEPT ![c].pc = l, ![c].t = t,
                                          ![c].list = Tail(@)]
  IN  /\ softirq[c].pc = "next" /\ ~list_empty(softirq[c].list)
      /\ \/ test_and_set_bit("RUN", t) /\ go("count")
         \/ "RUN" \in bits[t] /\ go("requeue") /\ UNCHANGED bits
      /\ UNCHANGED <<count, tasklet_vec, pending, kpc, kstate, ctx, hotplug>>

(* ... and also if it is disabled. *)
test_count(c) ==
  LET t == softirq[c].t
  IN  /\ softirq[c].pc = "count"
      /\ \/ /\ count[t] = 0
            /\ softirq' = [softirq EXCEPT ![c].pc = "clear"]
            /\ UNCHANGED bits
         \/ /\ count[t] # 0
            /\ softirq' = [softirq EXCEPT ![c].pc = "requeue"]
            /\ clear_bit("RUN", t)
      /\ UNCHANGED <<count, tasklet_vec, pending, kpc, kstate, ctx, hotplug>>

(* test_and_clear_bit(SCHED), which had better be set, and t->func(). *)
start_func(c) ==
  /\ softirq[c].pc = "clear"
  /\ clear_bit("SCHED", softirq[c].t)
  /\ softirq' = [softirq EXCEPT ![c].pc = "func"]
  /\ UNCHANGED <<count, tasklet_vec, pending, kpc, kstate, ctx, hotplug>>

tasklet_unlock(c) ==
  /\ softirq[c].pc = "func"
  /\ clear_bit("RUN", softirq[c].t)
  /\ softirq' = [softirq EXCEPT ![c].pc = "next", ![c].t = NULL]
  /\ UNCHANGED <<count, tasklet_vec, pending, kpc, kstate, ctx, hotplug>>

requeue(c) ==
  /\ softirq[c].pc = "requeue"
  /\ tasklet_vec' = [tasklet_vec EXCEPT ![c] = list_add_tail(@, softirq[c].t)]
  /\ pending' = [pending EXCEPT ![c] = TRUE]
  /\ softirq' = [softirq EXCEPT ![c].pc = "next", ![c].t = NULL]
  /\ UNCHANGED <<bits, count, kpc, kstate, ctx, hotplug>>

(* The end of __do_softirq(): what is pending by then is done at once or,  *)
(* after MAX_SOFTIRQ_RESTART times, left to ksoftirqd.  The times are not  *)
(* counted.                                                                *)
end_softirq(c) ==
  /\ softirq[c].pc = "next" /\ list_empty(softirq[c].list)
  /\ \/ pending[c] /\ start_softirq(c) /\ UNCHANGED <<kpc, kstate>>
     \/ /\ softirq' = [softirq EXCEPT ![c] = NoSoftirq]
        /\ IF pending[c] THEN wakeup_softirqd(c) ELSE UNCHANGED kstate
        /\ kpc' = [kpc EXCEPT ![c] = IF @ = "softirq" THEN "loop" ELSE @]
        /\ UNCHANGED pending
  /\ UNCHANGED <<bits, count, tasklet_vec, ctx, hotplug>>

Softirq(c) ==
  tasklet_action(c) \/ tasklet_trylock(c) \/ test_count(c) \/ start_func(c)
    \/ tasklet_unlock(c) \/ requeue(c) \/ end_softirq(c)

-----------------------------------------------------------------------------
(* run_ksoftirqd(): "set" (before set_current_state()), "check" (pending   *)
(* is looked at), "loop" (in schedule() or, when the thread is running, at *)
(* the top of the inner loop) and "softirq" (in __do_softirq()).  The      *)
(* thread of a CPU that is offline does no more than wait for              *)
(* kthread_stop().                                                         *)
set_current_state(c) ==
  /\ kpc[c] = "set" /\ c \in online
  /\ kstate' = [kstate EXCEPT ![c] = TASK_INTERRUPTIBLE]
  /\ kgoto(c, "check")
  /\ UNCHANGED <<bits, count, tasklet_vec, pending, softirq, ctx, hotplug>>

check_pending(c) ==
  /\ kpc[c] = "check" /\ c \in online
  /\ kstate' = IF pending[c] THEN [kstate EXCEPT ![c] = TASK_RUNNING] ELSE kstate
  /\ kgoto(c, "loop")
  /\ UNCHANGED <<bits, count, tasklet_vec, pending, softirq, ctx, hotplug>>

inner_loop(c) ==
  /\ kpc[c] = "loop" /\ c \in online
  /\ kstate[c] = TASK_RUNNING /\ softirq[c].pc = "idle"
  /\ \/ pending[c] /\ start_softirq(c) /\ kgoto(c, "softirq")
     \/ ~pending[c] /\ kgoto(c, "set") /\ UNCHANGED <<pending, softirq>>
  /\ UNCHANGED <<bits, count, tasklet_vec, kstate, ctx, hotplug>>

run_ksoftirqd(c) == set_current_state(c) \/ check_pending(c) \/ inner_loop(c)

-----------------------------------------------------------------------------
(* tasklet_disable_nosync(); tasklet_disable() then waits for the tasklet  *)
(* to finish.                                                              *)
tasklet_disable_nosync(x, t) ==
  /\ ctx[x].pc = "idle"
  /\ count' = [count EXCEPT ![t] = @ + 1]
  /\ At(x, "nosync", t)
  /\ UNCHANGED <<bits, tasklet_vec, pending, softirq, kpc, kstate, hotplug>>

tasklet_unlock_wait(x) == "RUN" \notin bits[ctx[x].t]

tasklet_disable(x) ==
  /\ ctx[x].pc = "nosync" /\ tasklet_unlock_wait(x)
  /\ At(x, "disabled", ctx[x].t)
  /\ UNCHANGED <<bits, count, tasklet_vec, pending, softirq, kpc, kstate, hotplug>>

tasklet_enable(x) ==
  /\ ctx[x].pc \in {"disabled", "nosync"}
  /\ count' = [count EXCEPT ![ctx[x].t] = @ - 1]
  /\ Done(x)
  /\ UNCHANGED <<bits, tasklet_vec, pending, softirq, kpc, kstate, hotplug>>

(* tasklet_kill() takes SCHED for itself, yielding as long as it is set ... *)
tasklet_kill(x, t) ==
  /\ ctx[x].pc = "idle"
  /\ At(x, "kill", t)
  /\ UNCHANGED <<bits, count, tasklet_vec, pending, softirq, kpc, kstate, hotplug>>

kill_take(x) ==
  /\ ctx[x].pc = "kill"
  /\ test_and_set_bit("SCHED", ctx[x].t)
  /\ At(x, "kill_wait", ctx[x].t)
  /\ UNCHANGED <<count, tasklet_vec, pending, softirq, kpc, kstate, hotplug>>

yield(x) ==
  /\ ctx[x].pc = "kill" /\ "SCHED" \in bits[ctx[x].t]
  /\ UNCHANGED vars

(* ... waits for the tasklet to finish and gives SCHED back. *)
kill_return(x) ==
  /\ ctx[x].pc = "kill_wait" /\ tasklet_unlock_wait(x)
  /\ clear_bit("SCHED", ctx[x].t)
  /\ Done(x)
  /\ UNCHANGED <<count, tasklet_vec, pending, softirq, kpc, kstate, hotplug>>

-----------------------------------------------------------------------------
(* A CPU goes offline.  The stopper thread brings it down, so that no      *)
(* softirq runs there, and no interrupt handler.                           *)
cpu_down(c) ==
  /\ downs < MaxDown /\ dead = NULL /\ c \in online \cap HotCPUs /\ online # {c}
  /\ softirq[c].pc = "idle"
  /\ \A x \in Contexts : ctx[x].cpu # c
  /\ online' = online \ {c} /\ dead' = c /\ downs' = downs + 1
  /\ UNCHANGED <<bits, count, tasklet_vec, pending, softirq, kpc, kstate, ctx>>

(* CPU_DEAD: ksoftirqd is stopped, and takeover_tasklets() appends the     *)
(* list to that of the CPU it is called on and raises the softirq there.   *)
takeover_tasklets(c) ==
  /\ dead # NULL /\ c \in online
  /\ tasklet_vec' = [tasklet_vec EXCEPT ![c] = @ \o tasklet_vec[dead],
                                        ![dead] = EmptyList]
  /\ raise_softirq_irqoff(c, FALSE)
  /\ kgoto(dead, "none")
  /\ dead' = NULL
  /\ UNCHANGED <<bits, count, softirq, ctx, online, downs>>

(* CPU_UP_PREPARE creates a ksoftirqd, CPU_ONLINE wakes it: one step, in   *)
(* which nothing fails.                                                    *)
cpu_up(c) ==
  /\ dead = NULL /\ c \notin online
  /\ online' = online \cup {c}
  /\ kgoto(c, "set")
  /\ kstate' = [kstate EXCEPT ![c] = TASK_RUNNING]
  /\ UNCHANGED <<bits, count, tasklet_vec, pending, softirq, ctx, dead, downs>>

-----------------------------------------------------------------------------
Enqueue(x) == \E c \in online, i \in BOOLEAN : __tasklet_schedule(x, c, i)

Kill(x) == kill_take(x) \/ kill_return(x)

Next ==
  \/ \E x \in Contexts :
       \/ Enqueue(x) \/ irq_exit(x) \/ tasklet_disable(x) \/ tasklet_enable(x)
       \/ Kill(x) \/ yield(x)
       \/ \E t \in Tasklets :
            \/ tasklet_schedule(x, t) \/ tasklet_kill(x, t)
            \/ tasklet_disable_nosync(x, t)
  \/ \E c \in CPUs :
       Softirq(c) \/ run_ksoftirqd(c) \/ cpu_down(c) \/ takeover_tasklets(c) \/ cpu_up(c)

Spec == Init /\ [][Next]_vars

(* CPUs and runnable threads run, tasklet functions return, and a hotplug  *)
(* operation that has begun goes on.  Nobody has to schedule or enable.    *)
Fairness ==
  /\ \A x \in Contexts : WF_vars(Enqueue(x)) /\ WF_vars(irq_exit(x)) /\ WF_vars(Kill(x))
  /\ \A c \in CPUs : WF_vars(Softirq(c)) /\ WF_vars(run_ksoftirqd(c))
  /\ WF_vars(\E c \in CPUs : takeover_tasklets(c))

FairSpec == Spec /\ Fairness

-----------------------------------------------------------------------------
TypeOK ==
  /\ bits \in [Tasklets -> SUBSET {"SCHED", "RUN"}]
  /\ count \in [Tasklets -> Nat]
  /\ tasklet_vec \in [CPUs -> Seq(Tasklets)]
  /\ pending \in [CPUs -> BOOLEAN]
  /\ softirq \in [CPUs -> [pc : {"idle", "action", "next", "count", "clear", "func",
                                 "requeue"},
                           list : Seq(Tasklets), t : Tasklets \cup {NULL}]]
  /\ kpc \in [CPUs -> {"none", "set", "check", "loop", "softirq"}]
  /\ kstate \in [CPUs -> {TASK_RUNNING, TASK_INTERRUPTIBLE}]
  /\ ctx \in [Contexts -> [pc : {"idle", "enqueue", "exit", "nosync", "disabled",
                                 "kill", "kill_wait"},
                           t : Tasklets \cup {NULL}, cpu : CPUs \cup {NULL}]]
  /\ online \subseteq CPUs /\ dead \in CPUs \cup {NULL} /\ downs \in 0 .. MaxDown

(* Who holds SCHED of tasklet t: a context that is about to queue it or    *)
(* kills it, a place on a list, or the CPU that has it in hand.            *)
Places(t) ==
  {<<"ctx", x>> : x \in {y \in Contexts : ctx[y].t = t
                                          /\ ctx[y].pc \in {"enqueue", "kill_wait"}}}
  \cup (UNION {{<<"vec", c, i>> : i \in {j \in DOMAIN tasklet_vec[c] :
                                           tasklet_vec[c][j] = t}} : c \in CPUs})
  \cup (UNION {{<<"list", c, i>> : i \in {j \in DOMAIN softirq[c].list :
                                            softirq[c].list[j] = t}} : c \in CPUs})
  \cup {<<"hand", c>> : c \in {d \in CPUs : softirq[d].t = t /\ softirq[d].pc # "func"}}

(* A tasklet is SCHED exactly while one place holds it: it is on one list  *)
(* at most, however often it is scheduled, requeued, killed or taken over, *)
(* and never off all of them with the bit set, which would keep it from    *)
(* being scheduled for good.  So the BUG() in tasklet_action() is not met. *)
OnePlace ==
  \A t \in Tasklets : Cardinality(Places(t)) = IF "SCHED" \in bits[t] THEN 1 ELSE 0

(* "Tasklet is strictly serialized wrt itself": one CPU runs it, none      *)
(* while a tasklet_disable() that has returned is in force, and none when  *)
(* tasklet_kill() returns.                                                 *)
Serialized ==
  \A t \in Tasklets :
    /\ Cardinality(InFunc(t)) <= 1
    /\ \A x \in Contexts :
         /\ ctx[x].t = t
         /\ ctx[x].pc = "disabled" \/ (ctx[x].pc = "kill_wait" /\ tasklet_unlock_wait(x))
         => InFunc(t) = {}

(* A list with something on it is looked at: the softirq is pending, and   *)
(* it runs, or will on the way out of an interrupt, or ksoftirqd is awake. *)
(* Lists of CPUs that are offline wait for takeover_tasklets().            *)
ListServed ==
  \A c \in CPUs :
    /\ ~list_empty(tasklet_vec[c]) =>
         \/ softirq[c].pc = "action"
         \/ dead = c
         \/ c \in online /\ pending[c]
    /\ c \in online /\ pending[c] =>
         \/ softirq[c].pc # "idle"
         \/ \E x \in Contexts : ctx[x].pc = "exit" /\ ctx[x].cpu = c
         \/ kpc[c] # "loop" \/ kstate[c] = TASK_RUNNING

(* "If tasklet_schedule() is called, then tasklet is guaranteed to be      *)
(* executed on some cpu at least once after this", unless it is disabled:  *)
(* SCHED is cleared, which tasklet_action() does as it calls the function. *)
ScheduledRuns ==
  \A t \in Tasklets : "SCHED" \in bits[t] ~> "SCHED" \notin bits[t] \/ count[t] > 0

(* tasklet_kill() returns unless the tasklet is disabled or somebody       *)
(* schedules or kills it once more.                                        *)
KillReturns ==
  \A x \in Contexts, t \in Tasklets :
    (ctx[x].t = t /\ ctx[x].pc \in {"kill", "kill_wait"})
      ~> \/ ctx[x].pc = "idle" \/ count[t] > 0
         \/ \E y \in Contexts \ {x} : ctx[y].t = t /\ ctx[y].pc \in {"enqueue", "kill_wait"}

-----------------------------------------------------------------------------
(***************************************************************************)
(* The inductive invariant behind the safety properties.                   *)
(***************************************************************************)

(* __do_softirq() has a tasklet in hand exactly in the loop's body, has    *)
(* nothing left to do before and after it, and runs on a CPU that is       *)
(* online; so does the way out of an interrupt.                            *)
SoftirqInv ==
  /\ \A c \in CPUs :
       /\ softirq[c].pc \in {"idle", "action", "next"} <=> softirq[c].t = NULL
       /\ softirq[c].pc \in {"idle", "action"} => list_empty(softirq[c].list)
       /\ softirq[c].pc # "idle" => c \in online
  /\ \A x \in Contexts :
       /\ ctx[x].pc \in {"idle", "exit"} <=> ctx[x].t = NULL
       /\ ctx[x].pc = "exit" => ctx[x].cpu \in online
  /\ dead \notin online

(* h holds SCHED of tasklet t, in the way k. *)
Ways == {"ctx", "vec", "list", "hand"}
Holds(t, k, h) ==
  \/ /\ k = "ctx" /\ h \in Contexts
     /\ ctx[h].t = t /\ ctx[h].pc \in {"enqueue", "kill_wait"}
  \/ k = "vec" /\ h \in CPUs /\ t \in Entries(tasklet_vec[h])
  \/ k = "list" /\ h \in CPUs /\ t \in Entries(softirq[h].list)
  \/ k = "hand" /\ h \in CPUs /\ softirq[h].t = t /\ softirq[h].pc # "func"

(* Nobody does unless the bit is set, and then one does: OnePlace without  *)
(* counting.                                                               *)
HolderInv ==
  \A t \in Tasklets :
    /\ "SCHED" \in bits[t] <=> \E k \in Ways, h \in Contexts \cup CPUs : Holds(t, k, h)
    /\ \A k, l \in Ways : \A g, h \in Contexts \cup CPUs :
         Holds(t, k, g) /\ Holds(t, l, h) => k = l /\ g = h

(* No tasklet is twice on one list. *)
ListInv == \A c \in CPUs : IsList(tasklet_vec[c]) /\ IsList(softirq[c].list)

(* RUN is a lock. *)
Runs(c, t) == softirq[c].t = t /\ softirq[c].pc \in {"count", "clear", "func"}
RunInv ==
  \A t \in Tasklets : \A c \in CPUs : Runs(c, t) =>
    "RUN" \in bits[t] /\ \A d \in CPUs : Runs(d, t) => c = d

(* t->count is the number of those who have disabled the tasklet, and once *)
(* tasklet_disable() has returned nobody is past the test of it.           *)
Disablers(t) == {x \in Contexts : ctx[x].t = t /\ ctx[x].pc \in {"nosync", "disabled"}}
CountInv == \A t \in Tasklets : count[t] = Cardinality(Disablers(t))
DisabledInv ==
  \A x \in Contexts : ctx[x].pc = "disabled" =>
    \A c \in CPUs : softirq[c].t = ctx[x].t => softirq[c].pc \notin {"clear", "func"}

IInv ==
  /\ TypeOK /\ SoftirqInv /\ HolderInv /\ ListInv /\ RunInv /\ CountInv
  /\ DisabledInv /\ ListServed

=============================================================================
