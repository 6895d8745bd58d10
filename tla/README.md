# Blocking locks and deferred execution of the kernel, in TLA+

The repository is a Linux 3.0.35 kernel tree (Freescale i.MX). This project
models the part of it that is the kernel's own concurrent core and small enough
to be checked exhaustively: the sleeping locks and the machinery that runs
functions later or elsewhere. It contains TLA+ modules, TLC configurations and
TLAPS proofs; `PROJECT.json` maps every definition to its source lines.

The build that is modelled is the one of `include/generated/autoconf.h`: SMP,
PREEMPT, `RWSEM_GENERIC_SPINLOCK`, `MUTEX_SPIN_ON_OWNER`, `TREE_PREEMPT_RCU`,
no lock debugging. `arch/` is empty in this tree; for the mutex fast paths the
generic header `asm-generic/mutex-dec.h` stands for the architecture's.

## Inventory

| Part | State | Operations | What is hard |
|---|---|---|---|
| Read/write semaphore, `lib/rwsem-spinlock.c` | `activity`, `wait_list`, on-stack waiters | down/up read/write, trylocks, downgrade | the sleeper reads `waiter.task` without the lock; `up_read` wakes the head unseen |
| Counting semaphore, `kernel/semaphore.c` | `count`, `wait_list`, `waiter.up` | five down functions, `up` from any context | hand-over racing with signals and timeouts |
| Mutex, `kernel/mutex.c`, `mutex-dec.h` | atomic `count`, `owner`, `wait_list` | lock (3 modes), trylock, unlock | atomic operations with and without `wait_lock`; stealing; waiters that leave |
| Asynchronous calls, `kernel/async.c` | cookies, pending list, running lists, `entry_count` | schedule, worker, synchronize | workers out of order; lists read without the lock; self-synchronization |
| Task states and wake-ups, `kernel/sched.c`, `signal.c`, `timer.c`, `wait.c` | `task->state`, pending signal, timer | wake_up_process, signals, schedule_timeout, wait_event | wake-ups between test and sleep |
| SRCU, `kernel/srcu.c` | `completed`, per-CPU counters | read lock/unlock, synchronize | readers change CPU while they are summed up; early exit |
| irq_work, `kernel/irq_work.c` | PENDING/BUSY bits, per-CPU lists | queue, run, sync | an entry reclaimed on another CPU during its callback |
| Completions, `kernel/sched.c`, `completion.h` | `done`, queue of waiters | complete(_all), six waits, reinitialisation | timeout and signal against complete; wake-ups without hand-over; counter width |
| Tasklets and their softirq, `kernel/softirq.c`, `interrupt.h` | SCHED/RUN bits, disable count, per-CPU lists and pending bits, ksoftirqd | schedule, action, disable, enable, kill; take-over of a dead CPU's list | requeueing against kill; ksoftirqd going to sleep; CPUs that come and go |
| cpu_stop and stop_machine, `kernel/stop_machine.c` | stopper threads and queues, `nr_todo`, states and ack counter | stop one CPU or all, stop the machine | lock-step; works queued while a CPU goes away |
| CPU hotplug, `kernel/cpu.c`; kernel threads, `kthread.c` | online mask, `cpu_hotplug`, `should_stop` | get/put online cpus, cpu_down, cpu_up, kthread_stop | readers against the writer; failure at every stage; stopping a thread that has not started |
| Cross-CPU calls, `kernel/smp.c` | call data, flags, refs | single and many, with and without wait | reuse of call data |
| kfifo, `kernel/kfifo.c` | `in`, `out`, mask | in, out, peek, records | indices that wrap |
| Everything else (mm, fs, net, drivers, sound, ...) | | | not modelled; see `components` in `PROJECT.json` for the reason of each |

The locks interact with the rest only through task states: they put the caller
to sleep, and `wake_up_process()`, a signal or a timer makes it runnable again.
`async.c` uses a workqueue (any item runs, in any order) and a wait queue.
CPU hotplug is where the deferred-execution parts meet: `cpu_down()` stops the
machine through the stopper threads, which are themselves kernel threads that it
then stops, with a completion; tasklets of the CPU that went away move to another.

`PROJECT.json` lists the hazards with the line where each one bites and the
properties that would catch it.

## Modules

| Module | What it is |
|---|---|
| `LinuxList` | `list.h` as sequences of distinct entries |
| `Cpus` | the constants `CPUs` and `NULL` that `IrqWork` and `Srcu` share |
| `TaskSched` | task states, `try_to_wake_up`, signal tests |
| `RWLock` | abstract: what a read/write lock promises |
| `RwSem` | `lib/rwsem-spinlock.c` behind `kernel/rwsem.c`; implements `RWLock` |
| `Semaphore` | `kernel/semaphore.c` |
| `Mutex` | `kernel/mutex.c` with the decrement fast paths |
| `Async` | `kernel/async.c` with `wait_event()` |
| `IrqWork` | `kernel/irq_work.c` |
| `Srcu` | `kernel/srcu.c` |
| `Completion` | `complete()` and `wait_for_common()` of `kernel/sched.c` |
| `Tasklet` | tasklets, softirq loop, ksoftirqd and CPU notifier of `kernel/softirq.c` |
| `CpuStop` | stopper threads and `stop_machine()`, `kernel/stop_machine.c` |
| `CpuHotplug` | composes `CpuStop` with `kernel/cpu.c`, the stoppers' CPU notifier and `kthread_stop()` |
| `MC*` | the models that TLC runs |
| `LinuxList_proofs` | lemmas about lists |
| `RwSem_proofs`, `Semaphore_proofs`, `Mutex_proofs`, `Completion_proofs`, `Tasklet_proofs`, `CpuHotplug_proofs` | theorems about the module each is named after |
| `Deferred_proofs` | theorems about `Async`, `Srcu` and `IrqWork`, in three parts that share their lemmas |

So that `Deferred_proofs` can extend three components at once, their definitions
carry the component's name where the other modules have `Init`, `Next`, `Spec`,
`TypeOK` and `IInv`: `AsyncSpec`, `SrcuSpec`, `IrqSpec` and so on.

In every module a variable has the name of the field it models, an action the
name of the function or of the part of it that it is, and `pc` says where each
task is. What a critical section of a spinlock does is one step if nobody can
look inside; it is split where somebody can:

- `RwSem`: the stores to `waiter.task` and the wake-ups while `wait_lock` is
  held, because sleepers test `waiter.task` without it.
- `Semaphore`: between the signal test, the store to `task->state` and the
  release of `sem->lock`, because signals and timers do not take it.
- `Mutex`: every access to `count` and `owner`, because fast paths and spinners
  do not take `wait_lock`.
- `Async`: between the loads of the two lists and of `next_cookie` in
  `async_synchronize_full()`, between linking an entry and `queue_work()`, and
  between unlinking and `wake_up()`.
- `IrqWork`: every `cmpxchg`/`xchg` is a step; so is the call of the function, and
  its return. Plain accesses to a claimed entry belong to the step before the
  atomic operation, since nobody else may change the entry.
- `Srcu`: reading the rank and counting in it, each CPU's counter in the sum, the
  load of `completed` before the mutex, and each call of `synchronize_sched()`.
- `Completion`: as `Semaphore`, at the store to `task->state`. `complete()` itself is
  one step: it holds `x->wait.lock` throughout and wakes with it held.
- `Tasklet`: every atomic operation on the bits and on `count` is a step; what a CPU
  does with interrupts off (linking and raising, taking the list, requeueing) is one.
  Tasks, interrupt handlers and tasklet functions that use tasklets are "contexts"
  that interleave freely; on one real CPU they nest, which is a special case. How
  often `__do_softirq()` has restarted is not counted: it may go round or leave the
  rest to ksoftirqd each time. ksoftirqd of a CPU that is offline only waits to be
  stopped.
- `CpuStop`, `CpuHotplug`: a critical section of `stopper->lock`, of
  `cpu_hotplug.lock` or a step of the state machine is one step (the state a stopper
  sees and its acknowledgement are two). In `set_state()` the counter is reset and then
  the state stored; it is one step, because nobody touches the counter before he has seen
  the state, and so the runs say nothing about the opposite order.
  `wait_for_completion()` is "wait until completed" and a mutex a variable with its holder, which is what `Completion` and
  `Mutex` show them to be. Tasks are not bound to CPUs, so that what the
  `preempt_disable()` in `__stop_cpus()` is there for is not examined. Notifiers other
  than the stopper's may fail where the code lets them and do nothing else.

Functions that return clear the locals they leave behind (mode, cookie, waiter
fields), so that equal program states are equal model states. A trylock that
fails changes nothing and is not a step, except for the mutex's slow path,
which touches `count`.

Memory is sequentially consistent. The code has the barriers that this
requires where the models depend on it (`smp_mb()` before `waiter->task = NULL`,
the barrier in `set_task_state()`, atomic operations, spinlocks); that they are
sufficient on a weaker machine is not checked. For SRCU this leaves out one of the
two purposes of `synchronize_sched()`: it is modelled as waiting for the sections
with preemption off that it met (in `rcutree.c` it waits for
a callback that runs after a grace period; the machinery behind that is not modelled), not as a barrier on all CPUs. The first and third call are there for the barrier only, and
the rule that the early exit needs two advances (not one) cannot be told from a
rule of one advance in this model; an exit that needs none is caught.

History variables: `Async` keeps `asked` (`next_cookie` at the call of
`async_synchronize_full()`) and `overtaken` (domains in which an entry started
before an earlier one). No guard reads `overtaken`; `asked` only tells the two
callers of the wait apart. `IrqWork` keeps `overlapped` (entries a CPU started
before another had finished with them) and `Srcu` keeps `before` (readers inside at
the call of `synchronize_srcu()` and not out since); no guard reads either.
`Completion` keeps `posted` (which also bounds the run) and `taken`; `CpuStop` counts
in `smdata.ran` how often the function of a `stop_machine()` has run.

## Runs

| Run | Instance | Result |
|---|---|---|
| `rwsem` | 4 tasks | 7 properties hold, 78,656 states |
| `semaphore` | 2 tasks, `sema_init(0)`, 2 outside `up()` | 5 properties hold, 7,209 states |
| `mutex` | 3 tasks, uninterruptible and interruptible callers, ordinary signals | 5 properties hold, 213,008 states |
| `async` | 2 callers (one synchronizes), 3 cookies, 2 domains, `MAX_WORK = 0` | 5 properties hold, 156,041 states |
| `irq_work` | 2 CPUs, 2 entries, 2 contexts | 3 properties hold, 157,960 states |
| `irq_work_sync` | 2 CPUs, 1 entry, 2 contexts | `SyncSound` is violated |
| `srcu` | 2 CPUs, 2 readers, 2 updaters, counters modulo 4, calls until `completed` is 2 | 3 properties hold, 118,780 states |
| `completion` | 2 tasks, uninterruptible and interruptible waits with and without a timeout, a counter of 6 values, 6 events | 4 properties hold, 25,776 states |
| `tasklet` | 2 CPUs, one of which goes offline once, 1 tasklet, 2 contexts | 5 properties hold, 209,589 states |
| `cpu_hotplug` | 2 CPUs that both go offline and come back, 2 tasks | 3 properties hold, 55,522 states |
| `cpu_up_assert` | 2 CPUs, one of which goes offline and comes back, 2 tasks | `UpPrepareFresh` is violated |
| `async_full` | 1 domain, 2 cookies | `FullWaitsForAll` is violated |

Why the bounds are enough for the cases that matter. `rwsem`: four tasks are a
waker, a holder and two waiters, so that the wake-up loop goes round twice and
meets a reader and a writer. `semaphore`: starting with no unit makes every
`down` contend; two outside calls of `up()` and the holder's own reach both
branches of `up()`. `mutex`: three tasks are a holder, a waiter and a thief;
`TASK_KILLABLE` with a fatal signal follows the same branches as
`TASK_INTERRUPTIBLE` with an ordinary one. `async`: three entries can start and
finish out of order across two domains, and with `MAX_WORK = 0` the limit is
reached. `irq_work`: two entries make lists of length two, two CPUs let an entry be
on one list while its callback runs for the other, and two contexts race for a
claim and for a list head. `srcu`: `completed` can reach 3 because both updaters may be
in the call at 1, so that the early exit is taken and both ranks are used again; two
readers that migrate drive the counters through 0 and round (`Width` need only
exceed the number of readers). `completed` itself stays far from its own wrap.
`completion`: a counter of 6 values is the smallest even one on which
`complete_all()` adds more than one event (`UINT_MAX/2` is 2), and six events take it
all the way round. `tasklet`: two CPUs and two contexts let a tasklet run on one CPU
while it is scheduled on, taken by or left over from the other, with one context
killing or disabling it; the CPU that goes away comes back. `cpu_hotplug`: one task
stops, reads or stops the machine while the other takes a CPU down or up, with both
CPUs allowed to go so that the first online CPU changes. The
proofs below remove the bounds for the safety properties of all modules.

The type invariants (`TypeOK`) are not part of the runs; TLC agrees with all of
them on the same instances, and all are proved. So are the inductive invariants
(`IInv`) of the proofs, which TLC has checked on the instances of the runs. Two of
them quantify over functions: that of `Srcu`, over functions on sets of CPUs, was
checked on a smaller instance (counters modulo 3, calls until `completed` is 1, 23,229
states), that of `IrqWork` with the contents of the lists and the places of the entries
computed from the links instead of quantified. Also checked once and too slow to keep:
the invariants of `Completion` with three tasks (1.8 million states), those of `Tasklet`
with two tasklets (9.8 million states) and `LockStep` with three tasks and one CPU that
goes down (454 thousand states).

### What the properties say

- `rwsem`. `ActivityAccurate`: the counter is the number of holders whenever the
  spinlock is free. `WaitersLive`: a waiter the waker can reach is still on its
  owner's stack, and task references balance. `QueueHeadBlocked`: what
  `__up_read()` takes for granted about the head of the queue. `IsLockedSound`:
  `rwsem_is_locked()` never calls a held semaphore free. `NoOvertaking`,
  `EventuallyGranted`: order and absence of starvation. `RefinesRWLock`: every
  step is a step of the abstract lock or none.
- `semaphore`. `UnitsConserved`: no unit is lost or made up. `QueueExact`: the
  queue is exactly the waiters without a unit, and empty while units are free.
  `GrantKept`: no error return with a unit in hand. `WaitAborts`: signals and
  timeouts end a wait. `DownReturns`: a wait ends if units are released.
- `mutex`. `MutualExclusion`, `OwnerIsHolder`, `NoLostWakeup` (while the head of
  the queue sleeps, somebody will find it), `CountBounded` (the counter is not
  driven down without limit), `LockProgress` (somebody gets the mutex; a single
  waiter may be overtaken for ever, which the code allows).
- `irq_work`. `ListsIntact`: the lists have no cycle, and an entry is PENDING exactly
  while one context, list or run holds it. `BusyWhileRunning`: BUSY covers the
  callback as long as no two CPUs had the entry at once. `ClaimedRuns`: what was
  claimed is run.
- `srcu`. `GracePeriod`: `synchronize_srcu()` returns only when the readers it met are
  out. `OldRankDrains`: nobody joins the rank that is being added up. `SyncCompletes`:
  it returns although new readers come all the time.
- `completion`. `EventsConserved`: every event is taken by exactly the wait that
  reports it, as long as the counter does not wrap. `NoneStranded`: no event is left
  lying while a waiter sleeps that nobody has woken for it. `TimedWaitEnds`: a timeout
  or a signal ends the wait though nothing is posted. `EventDelivered`: a posted event
  ends a wait.
- `tasklet`. `OnePlace`: SCHED is set exactly while one context, list or CPU has the
  tasklet, over requeueing, killing and take-over. `Serialized`: it runs on one CPU at
  a time, not at all after `tasklet_disable()` or when `tasklet_kill()` returns.
  `ListServed`: a list that is not empty has somebody awake to look at it.
  `ScheduledRuns`, `KillReturns`: a scheduled tasklet runs unless disabled, and killing
  it ends unless it is disabled or claimed by somebody else.
- `cpu_hotplug`. `LockStep`: the function of `stop_machine()` runs once, with every
  online CPU in its stopper and interrupts off. `OnlineStable`: the online mask does not
  change between `get_online_cpus()` and `put_online_cpus()`. `StopReturns`: whoever
  stops CPUs, the machine, or takes a CPU down or up gets his answer. Four exceptions are
  named in it: a `stop_machine()` that is overtaken for ever at `stop_cpus_mutex`
  (`NotOvertaken`; a writer needs no such proviso, since its lock shuts out the others),
  the two listed under Observations, and the `BUG_ON()` of the run `cpu_up_assert`. Without
  the first TLC finds a task that waits for the mutex while another takes it again and
  again. The call is followed up to `put_online_cpus()`, which has one more mutex to take.
- `cpu_up_assert`. `UpPrepareFresh`: what the `BUG_ON()` of CPU_UP_PREPARE asserts of a
  stopper whose CPU comes up.
- `async`. `ListsExact`, `EntryCountBound`; `SyncInOrder` and `SyncQuiescent` are
  the two cases in which the synchronization keeps its promise: entries started
  in order, or nothing submitted meanwhile. `SyncReturns`: it always ends.

### Findings

Two are in `kernel/async.c`. `async_synchronize_cookie()` may return before an
earlier function has run: `__lowest_in_progress()` trusts the head of the running
list and ignores a lower cookie that is still pending (an entry is queued after
the lock was dropped, and workers start in any order). `async_synchronize_full()`
may return while a function submitted before it runs: a worker moves the entry
from the pending to the running list between its two unlocked tests. It gets to the
tests with that entry still pending because of the first: the run `async_full` shows
both, one after the other.

One is in `kernel/irq_work.c`. An entry may be queued again while its callback runs.
If a second CPU starts it before the first gets to the `cmpxchg` that clears BUSY,
the word looks as if nobody had claimed the entry, BUSY is cleared during the second
callback, and `irq_work_sync()` returns while the entry is in use.

One is in `kernel/stop_machine.c`. `cpu_stop_cpu_callback()` signals the works that a
stopped stopper has left on its list but does not unlink them (line 336). A
`stop_one_cpu()` that comes between the thread's last look at its list and
`enabled = false` returns, and its on-stack work stays on the list; the next
CPU_UP_PREPARE of that CPU fails its `BUG_ON(... !list_empty(&stopper->works))` (line
302). In `cpu_hotplug` the task that brings the CPU up goes to `"BUG"`, where it ends.

The runs `async_full`, `irq_work_sync` and `cpu_up_assert` print the traces.

### Observations

Met while modelling; they have no run of their own.

- `_cpu_down()` waits for the CPU to be idle (`cpu.c:255`) while its stopper is still
  enabled: callers of `stop_one_cpu()` that never stop can keep it there, with
  `cpu_hotplug.lock` held. That readers can keep the writer waiting before it has the
  lock is said in the comment at `cpu.c:95`. `StopReturns` names both.
- `x->done` of a completion comes back to 0 after two `complete_all()` and two
  `complete()` without `INIT_COMPLETION()`; `EventsConserved` is stated below that.
- The comment of `completion_done()` (`sched.c:4752`) speaks of waiters; the code tests
  `x->done`, and answers 0 as well when nobody waits and nothing was posted.
- `__tasklet_hi_schedule_first()` (`softirq.c:433`) links at the head and does not move
  `tail` when the list was empty, so that the next tasklet would replace it; nobody
  calls it in this tree.
- `kthread_worker_fn()` sets `done_seq` to the current `queue_seq` after the function
  has returned (`kthread.c:344`); a work queued again while it runs counts as done, and
  `flush_kthread_work()` returns before the second run.

### Fairness

- A task that is runnable and inside one of these functions goes on: weak
  fairness of its steps. This is what the scheduler gives.
- A task that spins on a spinlock gets it: strong fairness of the steps that take
  one (`TakeWaitLock`, `relock`). The ticket or FIFO order of the spinlock is
  not modelled; the critical sections are bounded.
- A timer fires: strong fairness of `process_timeout`, because time goes on
  whatever other wake-ups happen meanwhile.
- Holders of `rwsem` and `mutex` let go, and functions called by `async.c` return;
  this is a duty of the callers. For the semaphore it is an assumption inside
  `DownReturns` only; `WaitAborts` holds without it.
- `irq_work`: the tick comes on every CPU (the architecture has no
  `arch_irq_work_raise()`, the weak one is empty, and `update_process_times()` calls
  `irq_work_run()`), functions return, and a context that goes round the `cmpxchg`
  loop of the push gets through in the end (strong fairness): each failure needs an
  interrupt on its own CPU in a window of a few instructions.
- `srcu`: readers leave, and the steps of an updater are weakly fair, waiting for the
  mutex included; since the calls are bounded, this also stands for the progress of
  `mutex_lock()` without assuming more of the mutex than `LockProgress`.
- `completion`: as the semaphore; nobody has to post an event.
- `tasklet`: CPUs and ksoftirqd threads run, tasklet functions return, and a hotplug
  operation that has begun goes on (weak fairness). Nobody has to enable a tasklet;
  `tasklet_kill()`, which polls, gets the bit if it stays free.
- `cpu_hotplug`: tasks and stopper threads run, and whoever keeps the CPUs online lets
  them go (weak fairness). A task that waits for `stop_cpus_mutex` gets it if it stays
  free, which is what `LockProgress` gives; that it is not overtaken for ever is a premise
  inside `StopReturns`, of the calls that need it. `cpu_hotplug.lock` is free between steps
  unless a writer keeps it. `get_online_cpus()` and `put_online_cpus()` are one step each,
  so that overtaking at this mutex is not represented; no part of `StopReturns` waits for a
  reader to get it, and a writer that loses it to readers is excepted by `refcount # 0`.
- Nothing is assumed of new calls, signals or spurious wake-ups.

## Proofs

With TLAPS, for every value of the constants: any number of tasks, CPUs, callers,
tasklets, units, cookies and events. In each module `IInv` is the inductive invariant;
the proof has one lemma for each kind of step and each part of `IInv` the step can
disturb, then `InitIInv`, `StepIInv` and `Invariant`, from which the theorems follow
(in `Deferred_proofs` with the component's name: `AsyncInv`, `AsyncInvariant`).

- `Mutex_proofs`: `TypeCorrect`, `Exclusion`, `OwnerCorrect`, `WakeupsKept`,
  `CountKept`. `IInv` adds to the properties that `wait_lock` is held
  exactly in the critical sections (`WaitLockInv`), that after a failed
  `xchg(-1)` the holder is marked or already in the unlock slow path
  (`FailedInv`: this is what makes it safe to go to sleep), that a new holder
  finds the count negative (`GotInv`), and where the owner is (`OwnerInv`).
  `CountBounded` is inductive with the types alone.
- `RwSem_proofs`: `TypeCorrect`, `ActivityCorrect`, `WaitersSafe`, `HeadIsBlocked`,
  `IsLockedCorrect`, the action property `InOrder`, and `Refinement`: the semaphore
  implements `RWLock`. While a waker goes through the queue, `activity` lags behind
  the holders; `WakeInv` says by how much at each place of `__rwsem_do_wake()`, and what
  the head of the queue is there. `TskInv` says that the task in the waker's hand is
  not on the queue: the reason why the reference it holds is the only one.
- `Semaphore_proofs`: `TypeCorrect`, `UnitsKept`, `QueueCorrect`, `GrantsKept`.
  `IInv` adds that `sem->lock` is held exactly in the loop's critical section and
  that a waiter which was given its unit is asleep or waking, never inside the
  section (`UpInv`): that is why testing `waiter.up` first is enough.
- `Completion_proofs`: `TypeCorrect`, `EventsKept`, `WakeupsKept`, for any number of
  waiters and any width of the counter. `IInv` adds that the queue holds exactly those
  who wait (`QueueInv`), that `x->wait.lock` is held inside the loop and only while
  there is no event (`LockInv`: this is why an error return takes none and why whoever
  goes to sleep strands nobody), and that only a task in `schedule()` is not
  TASK_RUNNING (`StateInv`).
- `Deferred_proofs`, SRCU: `SrcuTypeCorrect`, `OldRankCorrect`, `GracePeriodCorrect`, for any number
  of CPUs, readers, updaters and calls. The two halves of the argument: (1) what
  `completed` tells of the readers an updater waits for (`BeforeInv`: one flip after the
  call they are all in one rank, after two they are gone: this is the early exit); (2) a
  sum of zero means that the old rank is empty, although the counters are read one after
  the other while readers leave through other CPUs, and each counter alone may be
  anything (`SumInv`). A sum over the CPUs would need induction over sets; instead
  `SumInv` claims that there is a function `S` on sets of CPUs which adds up the
  counters, and every step of a reader gives the next one by a shift on the sets that
  contain its CPU (lemma `ShiftIsSum`).
- `Tasklet_proofs`: `TypeCorrect`, `OnePlaceCorrect`, `SerializedCorrect`,
  `ListServedCorrect`, for any number of CPUs, tasklets and contexts and CPUs that
  go and come back any number of times. `HolderInv` is `OnePlace` without counting: SCHED
  is set if and only if somebody holds the tasklet, in one of four ways, and two holders
  are the same. `RunInv` makes RUN a lock, `CountInv` makes `count` the number of those
  who disabled the tasklet, and `DisabledInv` says that after `tasklet_disable()` nobody
  is past the test of `count`: the reason for `tasklet_unlock_wait()`.
- `Deferred_proofs`, asynchronous calls: `AsyncTypeCorrect`, `ListsCorrect`, `LimitKept`,
  `SyncOrdered`, `SyncIdle`,
  for any number of callers, domains and cookies and any limit. `LimitInv` counts the
  callers that have passed the test of the limit and not yet linked their entry;
  `CookieInv` says that cookies not yet given out belong to no entry, so that a
  new entry is the last; `OrderInv` that the pending list is in the order of the cookies,
  and so is the running list of a domain that was not overtaken, and before the pending
  ones. From these follows what `lowest_in_progress()` returns (`LowestFirst`,
  `LowestIdle`), and these are all that a synchronization relies on. That the condition
  of `SyncInOrder` cannot be dropped is what the first half of the trace of `async_full` shows.
- `Deferred_proofs`, irq_work: `IrqTypeCorrect`, `ListsIntactCorrect`,
  `BusyWhileRunningCorrect`, for any number of CPUs, contexts and entries. The lists are
  links from word to word, and `ListsIntact` says what is reached by following them.
  `IrqInv` says that there are sequences, two for each CPU, that are the contents of the
  lists (`Linked`), and a function that gives each entry the one place where it is
  (`AtSpot`); each atomic operation of the code changes one of them at one point: a push
  prepends (`LinkedCons`), `irq_work_run()` takes a sequence over, a callback starts with
  its tail (`LinkedTail`), and no word of an entry that is on a list is ever written
  (`LinksKept`, `LinkedFrame`), because whoever writes it holds the entry. That this is
  what `Walk()` finds is lemma `WalkIs`: the sequence satisfies the recursive equation of
  `Walk()`, and two solutions of it that differ would differ for the first time somewhere
  (`LeastOf`), which they cannot. `BusyOK` says that an entry no two CPUs had at once has
  one user at most, the one whose `cmpxchg` may clear BUSY. That the condition cannot be
  dropped is what the run `irq_work_sync` shows.
- `CpuHotplug_proofs`: `TypeCorrect`, `LockStepCorrect` and the action property
  `OnlineStableCorrect`, for any number of CPUs and tasks and CPUs that go and come back any
  number of times. `LocksInv` says who holds which lock, and that `cpu_hotplug.lock` is
  kept only over a count of 0, where the count is the number of readers: `OnlineStable` needs
  this, and that the stopper that takes a CPU down works for the holder (`WorksOK`). For `LockStep` the works of a call have to be followed over the
  queues: `Todo(t)` is the set of CPUs that have a work of `t`, to be queued, on the list of an
  enabled stopper or in its hands, and `nr_todo` counts it (`TodoOK`), each stopper having
  one work of a task at most (`WorksOK`). Until the function has run, `Todo(t)` is all
  CPUs that are online (`MachineOK`; for `cpu_down()` with the one that is going), no
  stopper is further from the state of the machine than one step (`InStep`), and
  `thread_ack` counts those behind it, so that the last to acknowledge really is the last.
  `HotOK` and `EnabledOK` say where the stopper of a CPU that comes or goes is enabled: no
  work is given to one that will not run it, and `cpu_down()` disables it only after its
  own call of `stop_machine()` is over.
- `LinuxList_proofs`: what `list_add_tail`, `list_del`, taking the first entry and
  splicing two lists do to the entries of a list.

Assumptions: `MutexAssumption`, `TasksAssumption`, `SemAssumption`,
`CompletionAssumption`, `CpusAssumption`, `SrcuAssumption`, `IrqWorkAssumption`,
`TaskletAssumption`, `CpuStopAssumption`, `AsyncAssumption`. They
say that the sets are finite and do not contain `NULL` (callers of `async.c` are not
numbers, because entries are; CPUs of `CpuStop` are, because the code takes the first), that the bounds are numbers, that the counter of a
completion has more than three values, and that the counters of SRCU have more values
than there are readers (the code has 32 bits). TLC evaluates them in the runs. The
named bounds on cookies, events and calls are constants like the others: the theorems
hold for each of their values.

Only model-checked is what is about liveness, which is outside the reach of the prover:
`EventuallyGranted`, `WaitAborts`, `DownReturns`, `LockProgress`, `SyncReturns`,
`ClaimedRuns`, `SyncCompletes`, `TimedWaitEnds`, `EventDelivered`, `ScheduledRuns`,
`KillReturns`, `StopReturns`. Every invariant and every action property of the runs that
pass, and the refinement of `RWLock` (its steps; it has no fairness), has a theorem.

## Plan

1. `SmpCall`: reuse of call data and the reference count of `smp_call_function_many()`.
2. `KthreadWorker` on top of `Completion`, and `Kfifo` with indices modulo `2^w`.
3. In `CpuStop`, `stop_one_cpu_nowait()`, whose works outlive their caller.

## Not modelled

`atomic_dec_and_mutex_lock()`, lock debugging and lockdep, the xadd variant of
the read/write semaphore (not built), the boot-time timing messages of
`async.c`, `cleanup_srcu_struct()`. Of `softirq.c`: softirqs other than the tasklet's,
the high-priority list (the same code on a second list),
`tasklet_kill_immediate()`, tasklet hrtimers, and a CPU that fails to come up
(`kthread_create()` failing in `cpu_callback()`, CPU_UP_CANCELED): `cpu_up` of `Tasklet`
is CPU_UP_PREPARE, the store to the mask and CPU_ONLINE in one step. Of `stop_machine.c`:
`stop_one_cpu_nowait()`, whose works outlive their caller, and a mask `active_cpus` of
several CPUs: `is_active` knows the first online CPU (NULL) and the one CPU that
`_cpu_down()` names, so that "the function runs once" is said of these; nobody in the
tree passes more. Of `cpu.c`: the suspend path, what other notifiers do, and the early
return of `get_online_cpus()` and `put_online_cpus()` when the writer itself calls them,
which the modelled writer does not. Of `kthread.c`: kthreadd and kthread workers. Weak memory.
Everything that `components` lists as `not_modelled`, with its reason; most of the
tree is drivers, file systems, networking and architecture tables, which share
nothing with this core but its locks.
