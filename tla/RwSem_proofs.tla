---------------------------- MODULE RwSem_proofs ----------------------------
(***************************************************************************)
(* Safety of the read/write semaphore for any number of tasks: the         *)
(* invariant IInv of module RwSem is inductive, nobody overtakes the       *)
(* queue, and the semaphore implements the abstract lock of RWLock.        *)
(***************************************************************************)
EXTENDS RwSem, LinuxList_proofs, FiniteSetTheorems

(* The steps of task t. *)
Step(t) ==
  \/ down_read(t) \/ down_write(t)
  \/ down_read_trylock(t) \/ down_write_trylock(t)
  \/ wait_check(t) \/ wait_schedule(t) \/ spurious_wakeup(t)
  \/ up_read(t) \/ up_write(t) \/ downgrade_write(t)
  \/ wake_one_writer(t) \/ do_wake_grant_writer(t) \/ do_wake_grant_reader(t)
  \/ wake_writer(t) \/ wake_reader(t)

(* Every step is one of them. *)
LEMMA NextIsStep == Next => \E t \in Tasks : Step(t)
BY DEF Next, Step, Release, Proceed

(* The invariant without the part about numbers: control, the waiters and  *)
(* the references to their tasks.                                          *)
Shape == WakerInv /\ WaiterInv /\ TskInv /\ WaitersLive

-----------------------------------------------------------------------------
(* Steps that do the same to the semaphore. *)

(* A task gets the semaphore at once. *)
GrantStep(t) ==
  /\ pc[t] = "idle" /\ wait_lock = NULL
  /\ \/ ReadGrantable /\ grant(t, activity + 1, "reading")
     \/ WriteGrantable /\ grant(t, -1, "writing")
  /\ UNCHANGED <<wait_lock, tsk, woken>>

(* A task queues. *)
QueueStep(t) ==
  /\ pc[t] = "idle" /\ wait_lock = NULL
  /\ \/ ~ReadGrantable /\ enqueue(t, READ)
     \/ ~WriteGrantable /\ enqueue(t, WRITE)
  /\ UNCHANGED <<wait_lock, tsk, woken>>

(* The waker takes the head off the queue and hands the semaphore over. *)
HandStep(t) ==
  wake_one_writer(t) \/ do_wake_grant_writer(t) \/ do_wake_grant_reader(t)

(* What the four lock functions do on entry. *)
LEMMA EntrySteps ==
  ASSUME NEW t \in Tasks,
         down_read(t) \/ down_write(t) \/ down_read_trylock(t) \/ down_write_trylock(t)
  PROVE  GrantStep(t) \/ QueueStep(t)
BY DEF down_read, down_write, down_read_trylock, down_write_trylock, GrantStep, QueueStep

(* So a step is one of these. *)
LEMMA StepCases ==
  ASSUME NEW t \in Tasks, Step(t)
  PROVE  \/ GrantStep(t) \/ QueueStep(t)
         \/ wait_check(t) \/ wait_schedule(t) \/ spurious_wakeup(t)
         \/ up_read(t) \/ up_write(t) \/ downgrade_write(t)
         \/ HandStep(t) \/ wake_writer(t) \/ wake_reader(t)
BY EntrySteps DEF Step, HandStep

(* A wake-up keeps the type of the task states. *)
LEMMA WakeUpType ==
  ASSUME NEW st \in [Tasks -> TaskStates], NEW t
  PROVE  wake_up_process(st, t) \in [Tasks -> TaskStates]
BY DEF wake_up_process, try_to_wake_up, TaskStates

(* The waker finds somebody at the head of the queue, who waits for it. *)
LEMMA HeadWaits ==
  ASSUME TypeOK, Shape, ~list_empty(wait_list),
         NEW u, u = list_first_entry(wait_list)
  PROVE  /\ u \in Tasks /\ u \in Entries(wait_list)
         /\ pc[u] \in Waiting /\ waiter_task[u] = u
         /\ waiter_flags[u] \in {READ, WRITE}
<1>1. u \in Tasks /\ u \in Entries(wait_list)
  BY HeadIsEntry DEF TypeOK
<1>2. pc[u] \in Waiting /\ waiter_task[u] = u
  BY <1>1 DEF Shape, WaitersLive
<1>3. waiter_flags[u] \in {READ, WRITE}
  BY <1>1, <1>2 DEF Shape, WaiterInv, TypeOK
<1> QED
  BY <1>1, <1>2, <1>3

(* So a handover is one of the head, by a waker with nobody in hand. *)
LEMMA HandOver ==
  ASSUME TypeOK, Shape, WakeInv, NEW t \in Tasks, HandStep(t),
         NEW u, u = list_first_entry(wait_list)
  PROVE  /\ ~list_empty(wait_list)
         /\ pc[t] \in {"up_wake_one", "up_grant", "dg_grant"}
         /\ tsk = NULL
         /\ UNCHANGED woken
         /\ \/ /\ waiter_flags[u] = WRITE /\ activity' = -1
               /\ pc[t] \in {"up_wake_one", "up_grant"} /\ ReadHeld(0, 0)
               /\ hand_over(t, u, "up_wake_writer")
            \/ /\ waiter_flags[u] = READ /\ UNCHANGED activity
               /\ pc[t] = "up_grant" /\ ReadHeld(0, woken)
               /\ hand_over(t, u, "up_wake_reader")
            \/ /\ waiter_flags[u] = READ /\ UNCHANGED activity
               /\ pc[t] = "dg_grant" /\ ReadHeld(1, woken + 1)
               /\ hand_over(t, u, "dg_wake_reader")
<1>1. ~list_empty(wait_list) /\ pc[t] \in {"up_wake_one", "up_grant", "dg_grant"}
  BY DEF HandStep, HeadWants, WakeInv, wake_one_writer, do_wake_grant_writer,
         do_wake_grant_reader
<1>2. \A v \in Tasks : pc[v] \notin InHand
  BY <1>1 DEF Shape, WakerInv, UpWake, DowngrWake, InHand
<1>3. tsk = NULL
  BY <1>2 DEF Shape, TskInv
<1> QED
  BY <1>1, <1>3 DEF HandStep, HeadWants, WakeInv, wake_one_writer, do_wake_grant_writer,
                    do_wake_grant_reader

-----------------------------------------------------------------------------
(* Type correctness.  activity stays at -1 or above because a reader that  *)
(* leaves has been counted.                                                *)

(* The readers are finitely many. *)
LEMMA ReadersFinite ==
  /\ IsFiniteSet(Readers) /\ Cardinality(Readers) \in Nat
  /\ Cardinality(Readers) = 0 <=> Readers = {}
<1>1. IsFiniteSet(Readers)
  BY FS_Subset, TasksAssumption DEF Readers
<1> QED
  BY <1>1, FS_CardinalityType, FS_EmptySet

(* With wait_lock free, a reader has been counted ... *)
LEMMA ReaderCounted ==
  ASSUME TypeOK, ActivityAccurate, NEW t \in Tasks, pc[t] = "reading", wait_lock = NULL
  PROVE  Writers = {} /\ activity = Cardinality(Readers) /\ activity > 0
<1>1. t \in Readers
  BY DEF Readers
<1>2. activity # -1
  BY <1>1 DEF ActivityAccurate
<1> QED
  BY <1>1, <1>2, ReadersFinite DEF ActivityAccurate

(* ... and a writer is the only holder. *)
LEMMA WriterAlone ==
  ASSUME TypeOK, ActivityAccurate, NEW t \in Tasks, pc[t] = "writing", wait_lock = NULL
  PROVE  activity = -1 /\ Readers = {} /\ Writers = {t}
<1>1. t \in Writers
  BY DEF Writers
<1> QED
  BY <1>1 DEF ActivityAccurate

(* Every step keeps the types. *)
LEMMA TypeStep ==
  ASSUME TypeOK, Shape, ActivityAccurate, WakeInv, NEW t \in Tasks, Step(t)
  PROVE  TypeOK'
<1> USE TasksAssumption DEF TypeOK, PCs, Waiting, UpWake, DowngrWake, goto
<1>1. CASE GrantStep(t)
  <2>1. activity' \in Int /\ activity' >= -1
    BY <1>1 DEF GrantStep, grant, ReadGrantable
  <2>2. \E l \in PCs : pc' = [pc EXCEPT ![t] = l]
    BY <1>1 DEF GrantStep, grant
  <2> QED
    BY <1>1, <2>1, <2>2 DEF GrantStep, grant
<1>2. CASE QueueStep(t)
  <2>1. PICK f \in {READ, WRITE} : enqueue(t, f)
    BY <1>2 DEF QueueStep
  <2>2. UNCHANGED <<activity, wait_lock, tsk, woken>>
    BY <1>2, <2>1 DEF QueueStep, enqueue
  <2>3. wait_list' \in Seq(Tasks)
    BY <2>1, AddTail DEF enqueue
  <2>4. usage[t] + 1 \in Nat /\ usage' = [usage EXCEPT ![t] = usage[t] + 1]
    BY <2>1 DEF enqueue
  <2>5. state' \in [Tasks -> TaskStates]
    BY <2>1 DEF enqueue, TaskStates
  <2>6. pc' \in [Tasks -> PCs] /\ waiter_task' \in [Tasks -> Tasks \cup {NULL}]
    BY <2>1 DEF enqueue
  <2>7. waiter_flags' \in [Tasks -> {READ, WRITE, DEAD}]
    BY <2>1 DEF enqueue
  <2> QED
    BY <2>2, <2>3, <2>4, <2>5, <2>6, <2>7
<1>3. CASE wait_check(t) \/ wait_schedule(t)
  BY <1>3 DEF wait_check, wait_return, wait_schedule, semVars, TaskStates
<1>4. CASE spurious_wakeup(t)
  BY <1>4, WakeUpType DEF spurious_wakeup, semVars
<1>5. CASE up_read(t)
  <2>1. activity > 0
    BY <1>5, ReaderCounted DEF up_read
  <2>2. /\ activity' = activity - 1 /\ wait_lock' \in {t, wait_lock}
        /\ \E l \in PCs : pc' = [pc EXCEPT ![t] = l]
    BY <1>5 DEF up_read
  <2> QED
    BY <1>5, <2>1, <2>2 DEF up_read
<1>6. CASE up_write(t) \/ downgrade_write(t)
  <2>1. /\ activity' \in {0, 1} /\ wait_lock' \in {t, wait_lock} /\ woken' \in {0, woken}
        /\ \E l \in PCs : pc' = [pc EXCEPT ![t] = l]
    BY <1>6 DEF up_write, downgrade_write
  <2> QED
    BY <1>6, <2>1 DEF up_write, downgrade_write
<1>7. CASE HandStep(t)
  <2> DEFINE u == list_first_entry(wait_list)
  <2>1. u \in Tasks /\ list_del(wait_list, u) \in Seq(Tasks)
    BY <1>7, HandOver, HeadWaits, DelType
  <2>2. activity' \in Int /\ activity' >= -1 /\ woken' = woken
    BY <1>7, HandOver
  <2>3. \E l \in PCs : hand_over(t, u, l)
    BY <1>7, HandOver
  <2> QED
    BY <2>1, <2>2, <2>3 DEF hand_over
<1>8. CASE wake_writer(t) \/ wake_reader(t)
  <2>1. tsk \in Tasks /\ usage[tsk] = 1
    BY <1>8 DEF wake_writer, wake_reader, Shape, TskInv, InHand, WaitersLive
  <2>2. wake_tsk
    BY <1>8 DEF wake_writer, wake_reader
  <2>3. usage' = [usage EXCEPT ![tsk] = 0] /\ tsk' = NULL
    BY <2>1, <2>2 DEF wake_tsk
  <2>4. state' \in [Tasks -> TaskStates]
    BY <2>2, WakeUpType DEF wake_tsk
  <2>5. /\ activity' \in Int /\ activity' >= -1 /\ woken' \in Nat
        /\ wait_lock' \in {wait_lock, NULL}
        /\ UNCHANGED <<wait_list, waiter_task, waiter_flags>>
    BY <1>8 DEF wake_writer, wake_reader, finish_wake
  <2>6. pc' \in [Tasks -> PCs]
    BY <1>8 DEF wake_writer, wake_reader, finish_wake
  <2> QED
    BY <2>3, <2>4, <2>5, <2>6
<1> QED
  BY <1>1, <1>2, <1>3, <1>4, <1>5, <1>6, <1>7, <1>8, StepCases

-----------------------------------------------------------------------------
(* Control, waiters and references. *)

(* A waker has nobody in hand before the handover, and holds wait_lock. *)
LEMMA WakerAlone ==
  ASSUME TypeOK, Shape, NEW t \in Tasks, wait_lock \in {t, NULL}
  PROVE  /\ \A u \in Tasks \ {t} : pc[u] \notin UpWake \cup DowngrWake
         /\ pc[t] \notin InHand => tsk = NULL
         /\ pc[t] \in InHand => tsk \in Tasks
BY TasksAssumption DEF TypeOK, Shape, WakerInv, TskInv, InHand, UpWake, DowngrWake

(* Steps that leave the queue, the waiters and the references alone, and   *)
(* move no task into or out of the wait loop.                              *)
LEMMA QueueUntouched ==
  ASSUME Shape, NEW t \in Tasks, pc \in [Tasks -> PCs],
         NEW l \in PCs \ (Waiting \cup InHand), pc' = [pc EXCEPT ![t] = l],
         pc[t] \notin Waiting \cup InHand,
         UNCHANGED <<wait_list, waiter_task, waiter_flags, usage, tsk>>
  PROVE  WaiterInv' /\ TskInv' /\ WaitersLive'
<1>1. WaiterInv'
  BY DEF Shape, WaiterInv
<1>2. TskInv'
  BY DEF Shape, TskInv
<1>3. WaitersLive'
  BY DEF Shape, WaitersLive
<1> QED
  BY <1>1, <1>2, <1>3

(* Every step keeps the shape. *)
LEMMA ShapeStep ==
  ASSUME TypeOK, Shape, WakeInv, NEW t \in Tasks, Step(t)
  PROVE  Shape'
<1> USE TasksAssumption DEF TypeOK, goto
<1>1. CASE GrantStep(t)
  <2>1. /\ pc[t] = "idle" /\ wait_lock' = wait_lock
        /\ \E l \in {"reading", "writing"} : pc' = [pc EXCEPT ![t] = l]
        /\ UNCHANGED <<wait_list, waiter_task, waiter_flags, usage, tsk>>
    BY <1>1 DEF GrantStep, grant
  <2>2. WaiterInv' /\ TskInv' /\ WaitersLive'
    BY <2>1, QueueUntouched DEF PCs, Waiting, InHand
  <2>3. WakerInv'
    BY <2>1 DEF Shape, WakerInv, UpWake, DowngrWake
  <2> QED
    BY <2>2, <2>3 DEF Shape
<1>2. CASE QueueStep(t)
  <2>1. PICK f \in {READ, WRITE} : enqueue(t, f)
    BY <1>2 DEF QueueStep
  <2>2. /\ pc[t] = "idle" /\ wait_lock = NULL /\ UNCHANGED <<wait_lock, tsk>>
        /\ wait_list' = list_add_tail(wait_list, t)
        /\ pc' = [pc EXCEPT ![t] = "wait_check"]
    BY <1>2, <2>1 DEF QueueStep, enqueue
  <2>3. t \notin Entries(wait_list) /\ tsk = NULL
    BY <2>2, WakerAlone DEF Shape, WaitersLive, Waiting, InHand
  <2>4. IsList(wait_list') /\ Entries(wait_list') = Entries(wait_list) \cup {t}
    <3>1. IsList(wait_list)
      BY DEF Shape, WaitersLive
    <3> QED
      BY <2>2, <2>3, <3>1, AddTail
  <2>5. WakerInv'
    BY <2>2 DEF Shape, WakerInv, UpWake, DowngrWake
  <2>6. WaiterInv'
    BY <2>1, <2>2 DEF enqueue, Shape, WaiterInv, Waiting, READ, WRITE, DEAD
  <2>7. TskInv'
    BY <2>2, <2>3, <2>4 DEF Shape, TskInv, InHand
  <2>8. /\ usage' = [usage EXCEPT ![t] = usage[t] + 1]
        /\ waiter_task' = [waiter_task EXCEPT ![t] = t]
        /\ usage[t] = 0
    BY <2>1, <2>3 DEF enqueue, Shape, WaitersLive
  <2>9. WaitersLive'
    BY <2>2, <2>3, <2>4, <2>8 DEF Shape, WaitersLive, Waiting
  <2> QED
    BY <2>5, <2>6, <2>7, <2>9 DEF Shape
<1>3. CASE wait_check(t) \/ wait_schedule(t) \/ spurious_wakeup(t)
  <2>1. /\ pc[t] \in Waiting /\ UNCHANGED <<semVars, wait_lock, tsk>>
        /\ \/ /\ waiter_task[t] = NULL /\ waiter_flags' = [waiter_flags EXCEPT ![t] = DEAD]
              /\ \E l \in {"reading", "writing"} : pc' = [pc EXCEPT ![t] = l]
           \/ /\ waiter_flags' = waiter_flags
              /\ \E l \in Waiting : pc' = [pc EXCEPT ![t] = l]
    <3>1. CASE wait_check(t)
      BY <3>1 DEF wait_check, wait_return, Waiting
    <3>2. CASE wait_schedule(t)
      BY <3>2 DEF wait_schedule, Waiting
    <3>3. CASE spurious_wakeup(t)
      BY <3>3 DEF spurious_wakeup, Waiting
    <3> QED
      BY <1>3, <3>1, <3>2, <3>3
  <2>2. WakerInv'
    BY <2>1 DEF Shape, WakerInv, UpWake, DowngrWake, Waiting
  <2>3. WaiterInv'
    BY <2>1 DEF Shape, WaiterInv, Waiting, semVars
  <2>4. TskInv'
    BY <2>1 DEF Shape, TskInv, InHand, Waiting, semVars
  <2>5. WaitersLive'
    BY <2>1 DEF Shape, WaitersLive, Waiting, semVars
  <2> QED
    BY <2>2, <2>3, <2>4, <2>5 DEF Shape
<1>4. CASE up_read(t) \/ up_write(t) \/ downgrade_write(t)
  <2>1. /\ pc[t] \in {"reading", "writing"} /\ wait_lock = NULL
        /\ \/ /\ wait_lock' = NULL
              /\ \E l \in {"idle", "reading"} : pc' = [pc EXCEPT ![t] = l]
           \/ /\ wait_lock' = t
              /\ \E l \in {"up_wake_one", "up_grant", "dg_grant"} :
                   pc' = [pc EXCEPT ![t] = l]
        /\ UNCHANGED <<wait_list, waiter_task, waiter_flags, usage, tsk>>
    BY <1>4 DEF up_read, up_write, downgrade_write
  <2>2. WaiterInv' /\ TskInv' /\ WaitersLive'
    BY <2>1, QueueUntouched DEF PCs, Waiting, InHand, UpWake, DowngrWake
  <2>3. WakerInv'
    BY <2>1 DEF Shape, WakerInv, UpWake, DowngrWake
  <2> QED
    BY <2>2, <2>3 DEF Shape
<1>5. CASE HandStep(t)
  <2> DEFINE u == list_first_entry(wait_list)
  <2>1. /\ ~list_empty(wait_list) /\ tsk = NULL
        /\ pc[t] \in {"up_wake_one", "up_grant", "dg_grant"}
        /\ \E l \in InHand : hand_over(t, u, l)
    BY <1>5, HandOver DEF InHand
  <2>2. /\ u \in Tasks /\ u \in Entries(wait_list)
        /\ pc[u] \in Waiting /\ waiter_task[u] = u
    BY <2>1, HeadWaits
  <2> HIDE DEF u
  <2>3. /\ wait_list' = list_del(wait_list, u) /\ tsk' = u
        /\ waiter_task' = [waiter_task EXCEPT ![u] = NULL]
        /\ \E l \in InHand : pc' = [pc EXCEPT ![t] = l]
        /\ UNCHANGED <<waiter_flags, usage, wait_lock>>
    BY <2>1 DEF hand_over
  <2>4. IsList(wait_list') /\ Entries(wait_list') = Entries(wait_list) \ {u}
    BY <2>2, <2>3, DelEntries DEF Shape, WaitersLive
  <2>5. WakerInv'
    BY <2>1, <2>3 DEF Shape, WakerInv, UpWake, DowngrWake, InHand
  <2>6. WaiterInv'
    BY <2>1, <2>3 DEF Shape, WaiterInv, Waiting, InHand
  <2>7. TskInv'
    BY <2>2, <2>3, <2>4 DEF TskInv
  <2>8. WaitersLive'
    BY <2>1, <2>2, <2>3, <2>4 DEF Shape, WaitersLive, Waiting, InHand
  <2> QED
    BY <2>5, <2>6, <2>7, <2>8 DEF Shape
<1>6. CASE wake_writer(t) \/ wake_reader(t)
  <2>1. /\ pc[t] \in InHand /\ wake_tsk
        /\ \/ /\ wait_lock' = NULL
              /\ \E l \in {"idle", "reading"} : pc' = [pc EXCEPT ![t] = l]
           \/ /\ wait_lock' = wait_lock
              /\ \E l \in {"up_grant", "dg_grant"} : pc' = [pc EXCEPT ![t] = l]
        /\ UNCHANGED <<wait_list, waiter_task, waiter_flags>>
    BY <1>6 DEF wake_writer, wake_reader, finish_wake, InHand
  <2>2. wait_lock = t
    BY <2>1 DEF Shape, WakerInv, InHand, UpWake, DowngrWake
  <2>3. tsk \in Tasks /\ tsk \notin Entries(wait_list) /\ usage[tsk] = 1
    <3>1. tsk \in Tasks
      BY <2>1, <2>2, WakerAlone
    <3> QED
      BY <3>1 DEF Shape, WaitersLive, TskInv
  <2>4. usage' = [usage EXCEPT ![tsk] = 0] /\ tsk' = NULL
    BY <2>1, <2>3 DEF wake_tsk
  <2>5. WakerInv'
    BY <2>1, <2>2 DEF Shape, WakerInv, UpWake, DowngrWake, InHand
  <2>6. WaiterInv'
    BY <2>1 DEF Shape, WaiterInv, Waiting, InHand
  <2>7. TskInv'
    <3>1. NULL \notin Entries(wait_list)
      BY DEF Entries
    <3> QED
      BY <2>1, <2>2, <2>4, <3>1, WakerAlone DEF TskInv, InHand, UpWake, DowngrWake
  <2>8. WaitersLive'
    BY <2>1, <2>3, <2>4 DEF Shape, WaitersLive, Waiting, InHand
  <2> QED
    BY <2>5, <2>6, <2>7, <2>8 DEF Shape
<1> QED
  BY <1>1, <1>2, <1>3, <1>4, <1>5, <1>6, StepCases

-----------------------------------------------------------------------------
(* What each step does to the holders: it is a step of the abstract lock   *)
(* or leaves them alone.                                                   *)

(* A task that enters at once acquires the lock. *)
LEMMA LockGrant ==
  ASSUME TypeOK, Shape, ActivityAccurate, NEW t \in Tasks, GrantStep(t)
  PROVE  /\ list_empty(wait_list) /\ wait_list' = wait_list
         /\ \/ activity >= 0 /\ activity' = activity + 1 /\ Lock!AcquireRead(t)
            \/ activity = 0 /\ activity' = -1 /\ Lock!AcquireWrite(t)
<1> USE DEF TypeOK, goto, Waiting
<1>1. /\ list_empty(wait_list) /\ wait_list' = wait_list
      /\ pc[t] = "idle" /\ wait_lock = NULL /\ activity >= 0
      /\ UNCHANGED <<waiter_task, waiter_flags>>
  BY DEF GrantStep, ReadGrantable, WriteGrantable, grant
<1>2. Writers = {} /\ activity = Cardinality(Readers)
  BY <1>1 DEF ActivityAccurate
<1>3. t \notin Readers /\ t \notin Writers
  BY <1>1 DEF Readers, Writers, Granted, DowngrWake
<1>4. CASE activity' = activity + 1 /\ pc' = [pc EXCEPT ![t] = "reading"]
  <2>1. Readers' = Readers \cup {t} /\ Writers' = Writers
    BY <1>1, <1>4 DEF Readers, Writers, Granted, DowngrWake
  <2> QED
    BY <1>1, <1>2, <1>3, <1>4, <2>1 DEF Lock!AcquireRead
<1>5. CASE activity = 0 /\ activity' = -1 /\ pc' = [pc EXCEPT ![t] = "writing"]
  <2>1. Readers' = Readers /\ Writers' = Writers \cup {t}
    BY <1>1, <1>5 DEF Readers, Writers, Granted, DowngrWake
  <2>2. Readers = {}
    BY <1>2, <1>5, ReadersFinite
  <2> QED
    BY <1>1, <1>2, <1>5, <2>1, <2>2 DEF Lock!AcquireWrite
<1> QED
  BY <1>1, <1>4, <1>5 DEF GrantStep, ReadGrantable, WriteGrantable, grant

(* Releasing and downgrading, as far as the holders are concerned. *)
LEMMA LockRelease ==
  ASSUME TypeOK, Shape, ActivityAccurate, NEW t \in Tasks
  PROVE  /\ up_read(t) => Lock!ReleaseRead(t)
         /\ up_write(t) => Lock!ReleaseWrite(t)
         /\ downgrade_write(t) => Lock!Downgrade(t)
<1> USE DEF TypeOK, goto, Waiting, DowngrWake
<1>1. ASSUME up_read(t) PROVE Lock!ReleaseRead(t)
  <2>1. /\ pc[t] = "reading"
        /\ \E l \in {"idle", "up_wake_one"} : pc' = [pc EXCEPT ![t] = l]
        /\ UNCHANGED <<waiter_task, waiter_flags>>
    BY <1>1 DEF up_read
  <2>2. t \in Readers /\ Readers' = Readers \ {t} /\ Writers' = Writers
    BY <2>1 DEF Readers, Writers, Granted
  <2> QED
    BY <2>2 DEF Lock!ReleaseRead
<1>2. ASSUME up_write(t) PROVE Lock!ReleaseWrite(t)
  <2>1. /\ pc[t] = "writing"
        /\ \E l \in {"idle", "up_grant"} : pc' = [pc EXCEPT ![t] = l]
        /\ UNCHANGED <<waiter_task, waiter_flags>>
    BY <1>2 DEF up_write
  <2>2. Writers = {t}
    BY <1>2, WriterAlone DEF up_write
  <2>3. Readers' = Readers /\ Writers' = Writers \ {t}
    BY <2>1 DEF Readers, Writers, Granted
  <2> QED
    BY <2>2, <2>3 DEF Lock!ReleaseWrite
<1>3. ASSUME downgrade_write(t) PROVE Lock!Downgrade(t)
  <2>1. /\ pc[t] = "writing"
        /\ \E l \in {"reading", "dg_grant"} : pc' = [pc EXCEPT ![t] = l]
        /\ UNCHANGED <<waiter_task, waiter_flags>>
    BY <1>3 DEF downgrade_write
  <2>2. Writers = {t}
    BY <1>3, WriterAlone DEF downgrade_write
  <2>3. Readers' = Readers \cup {t} /\ Writers' = Writers \ {t}
    BY <2>1 DEF Readers, Writers, Granted
  <2> QED
    BY <2>2, <2>3 DEF Lock!Downgrade
<1> QED
  BY <1>1, <1>2, <1>3

(* A handover acquires the lock for the head of the queue. *)
LEMMA LockHand ==
  ASSUME TypeOK, Shape, WakeInv, NEW t \in Tasks, HandStep(t),
         NEW u, u = list_first_entry(wait_list)
  PROVE  IF waiter_flags[u] = READ THEN Lock!AcquireRead(u) ELSE Lock!AcquireWrite(u)
<1> USE DEF TypeOK, goto
<1>1. /\ u \in Tasks /\ pc[u] \in Waiting /\ waiter_task[u] = u
      /\ waiter_flags[u] \in {READ, WRITE}
  BY HandOver, HeadWaits
<1>2. u \notin Readers /\ u \notin Writers
  BY <1>1, TasksAssumption DEF Readers, Writers, Granted, Waiting, DowngrWake
<1>3. /\ waiter_task' = [waiter_task EXCEPT ![u] = NULL]
      /\ waiter_flags' = waiter_flags
      /\ \/ /\ pc[t] \in {"up_wake_one", "up_grant"}
            /\ \E l \in {"up_wake_writer", "up_wake_reader"} : pc' = [pc EXCEPT ![t] = l]
         \/ pc[t] = "dg_grant" /\ pc' = [pc EXCEPT ![t] = "dg_wake_reader"]
  BY HandOver DEF hand_over
<1>4. pc'[u] = pc[u]
  BY <1>1, <1>3 DEF Waiting
<1>5. CASE waiter_flags[u] = READ
  <2>1. Writers = {}
    BY <1>5, HandOver DEF ReadHeld
  <2>2. Readers' = Readers \cup {u} /\ Writers' = Writers
    BY <1>1, <1>3, <1>4, <1>5 DEF Readers, Writers, Granted, Waiting, DowngrWake, READ, WRITE
  <2> QED
    BY <1>2, <1>5, <2>1, <2>2 DEF Lock!AcquireRead
<1>6. CASE waiter_flags[u] = WRITE
  <2>1. Readers = {} /\ Writers = {}
    BY <1>6, HandOver, ReadersFinite DEF ReadHeld, READ, WRITE
  <2>2. Readers' = Readers /\ Writers' = Writers \cup {u}
    BY <1>1, <1>3, <1>4, <1>6 DEF Readers, Writers, Granted, Waiting, DowngrWake, READ, WRITE
  <2> QED
    BY <1>6, <2>1, <2>2 DEF Lock!AcquireWrite, READ, WRITE
<1> QED
  BY <1>1, <1>5, <1>6

(* The other steps leave the holders alone. *)
LEMMA LockSame ==
  ASSUME TypeOK, Shape, NEW t \in Tasks,
         \/ QueueStep(t) \/ wait_check(t) \/ wait_schedule(t) \/ spurious_wakeup(t)
         \/ wake_writer(t) \/ wake_reader(t)
  PROVE  Readers' = Readers /\ Writers' = Writers
<1> USE DEF TypeOK, goto
<1>1. CASE QueueStep(t)
  <2>1. PICK f \in {READ, WRITE} : enqueue(t, f)
    BY <1>1 DEF QueueStep
  <2>2. /\ pc[t] = "idle" /\ pc' = [pc EXCEPT ![t] = "wait_check"]
        /\ waiter_task' = [waiter_task EXCEPT ![t] = t]
        /\ waiter_flags' = [waiter_flags EXCEPT ![t] = f]
    BY <1>1, <2>1 DEF QueueStep, enqueue
  <2> QED
    BY <2>2, TasksAssumption DEF Readers, Writers, Granted, Waiting, DowngrWake
<1>2. CASE wait_check(t)
  <2>1. pc[t] = "wait_check" /\ waiter_task' = waiter_task
    BY <1>2 DEF wait_check, semVars
  <2>2. CASE waiter_task[t] = NULL /\ wait_return(t)
    <3>1. waiter_flags[t] \in {READ, WRITE}
      BY <2>1 DEF Shape, WaiterInv, Waiting
    <3>2. /\ pc' = [pc EXCEPT ![t] = IF waiter_flags[t] = READ THEN "reading" ELSE "writing"]
          /\ waiter_flags' = [waiter_flags EXCEPT ![t] = DEAD]
      BY <2>2 DEF wait_return
    <3> QED
      BY <2>1, <2>2, <3>1, <3>2 DEF Readers, Writers, Granted, Waiting, DowngrWake, READ, WRITE
  <2>3. CASE pc' = [pc EXCEPT ![t] = "wait_schedule"] /\ waiter_flags' = waiter_flags
    BY <2>1, <2>3 DEF Readers, Writers, Granted, Waiting, DowngrWake
  <2> QED
    BY <1>2, <2>2, <2>3 DEF wait_check
<1>3. CASE wait_schedule(t) \/ spurious_wakeup(t)
  <2>1. /\ pc[t] = "wait_schedule" /\ UNCHANGED <<waiter_task, waiter_flags>>
        /\ \E l \in Waiting : pc' = [pc EXCEPT ![t] = l]
    BY <1>3 DEF wait_schedule, spurious_wakeup, Waiting, semVars
  <2> QED
    BY <2>1 DEF Readers, Writers, Granted, Waiting, DowngrWake
<1>4. CASE wake_writer(t) \/ wake_reader(t)
  <2>1. /\ UNCHANGED <<waiter_task, waiter_flags>>
        /\ \/ /\ pc[t] \in {"up_wake_writer", "up_wake_reader"}
              /\ \E l \in {"idle", "up_grant"} : pc' = [pc EXCEPT ![t] = l]
           \/ /\ pc[t] = "dg_wake_reader"
              /\ \E l \in {"reading", "dg_grant"} : pc' = [pc EXCEPT ![t] = l]
    BY <1>4 DEF wake_writer, wake_reader, finish_wake
  <2> QED
    BY <2>1 DEF Readers, Writers, Granted, Waiting, DowngrWake
<1> QED
  BY <1>1, <1>2, <1>3, <1>4

-----------------------------------------------------------------------------
(* Counting the holders. *)

Accounts == ActivityAccurate /\ QueueHeadBlocked /\ WakeInv

(* The readers after one has come or gone. *)
LEMMA ReadersCount ==
  ASSUME NEW t
  PROVE  /\ t \notin Readers /\ Readers' = Readers \cup {t}
              => Cardinality(Readers') = Cardinality(Readers) + 1
         /\ t \in Readers /\ Readers' = Readers \ {t}
              => Cardinality(Readers') = Cardinality(Readers) - 1
         /\ Readers = {} /\ Readers' = Readers \cup {t} => Cardinality(Readers') = 1
<1>1. /\ t \notin Readers /\ Readers' = Readers \cup {t}
           => Cardinality(Readers') = Cardinality(Readers) + 1
      /\ t \in Readers /\ Readers' = Readers \ {t}
           => Cardinality(Readers') = Cardinality(Readers) - 1
  BY ReadersFinite, FS_AddElement, FS_RemoveElement
<1>2. Readers = {} => Cardinality(Readers) = 0
  BY ReadersFinite
<1> QED
  BY <1>1, <1>2, ReadersFinite

(* With wait_lock free after a step there is no waker, and nothing to say about one. *)
LEMMA NoWakerNext ==
  ASSUME WakerInv', wait_lock' = NULL
  PROVE  WakeInv'
BY TasksAssumption DEF WakerInv, WakeInv, UpWake, DowngrWake

(* While the waker t has wait_lock, only its own place matters. *)
LEMMA OneWaker ==
  ASSUME TypeOK', WakerInv', NEW t \in Tasks, wait_lock' = t,
         pc'[t] = "up_wake_one" => ReadHeld(0, 0)' /\ HeadWants(WRITE)',
         pc'[t] = "up_grant" => /\ ReadHeld(0, woken)' /\ ~list_empty(wait_list)'
                                /\ woken' > 0 => HeadWants(READ)',
         pc'[t] = "up_wake_writer" => WriteHeld',
         pc'[t] = "up_wake_reader" => ReadHeld(0, woken + 1)',
         pc'[t] = "dg_grant" => ReadHeld(1, woken + 1)' /\ HeadWants(READ)',
         pc'[t] = "dg_wake_reader" => ReadHeld(1, woken + 2)'
  PROVE  Accounts'
<1>1. wait_lock' # NULL
  BY TasksAssumption
<1>2. ActivityAccurate' /\ QueueHeadBlocked'
  BY <1>1 DEF ActivityAccurate, QueueHeadBlocked
<1>3. \A u \in Tasks : u # t => pc'[u] \notin UpWake \cup DowngrWake
  BY DEF WakerInv
<1>4. WakeInv'
  BY <1>3 DEF WakeInv, UpWake, DowngrWake
<1> QED
  BY <1>2, <1>4 DEF Accounts

(* Somebody is at the head of a queue that is not empty. *)
LEMMA HeadKind ==
  ASSUME TypeOK, Shape, ~list_empty(wait_list)
  PROVE  HeadWants(READ) \/ HeadWants(WRITE)
BY HeadWaits DEF HeadWants

(* A step inside the wait loop changes none of what is counted: the waiter *)
(* that goes away is not queued any more.                                  *)
LEMMA WaitAccounts ==
  ASSUME TypeOK, Shape, Accounts, NEW t \in Tasks,
         wait_check(t) \/ wait_schedule(t) \/ spurious_wakeup(t)
  PROVE  Accounts'
<1> USE DEF TypeOK, goto
<1>1. Readers' = Readers /\ Writers' = Writers
  BY LockSame
<1>2. /\ UNCHANGED <<activity, wait_list, wait_lock, woken>>
      /\ pc[t] \in Waiting
      /\ \E l \in Waiting \cup {"reading", "writing"} : pc' = [pc EXCEPT ![t] = l]
      /\ \/ waiter_flags' = waiter_flags
         \/ waiter_task[t] = NULL /\ waiter_flags' = [waiter_flags EXCEPT ![t] = DEAD]
  <2>1. CASE wait_check(t)
    BY <2>1 DEF wait_check, wait_return, semVars, Waiting
  <2>2. CASE wait_schedule(t) \/ spurious_wakeup(t)
    BY <2>2 DEF wait_schedule, spurious_wakeup, semVars, Waiting
  <2> QED
    BY <2>1, <2>2
<1>3. ASSUME NEW f PROVE HeadWants(f)' = HeadWants(f)
  <2>1. CASE list_empty(wait_list)
    BY <1>2, <2>1 DEF HeadWants
  <2>2. CASE ~list_empty(wait_list)
    <3> DEFINE u == list_first_entry(wait_list)
    <3>1. u \in Tasks /\ waiter_task[u] = u
      BY <2>2, HeadWaits
    <3>2. waiter_flags'[u] = waiter_flags[u]
      BY <1>2, <3>1, TasksAssumption
    <3> QED
      BY <1>2, <3>2 DEF HeadWants
  <2> QED
    BY <2>1, <2>2
<1>4. HeadWants(READ)' = HeadWants(READ) /\ HeadWants(WRITE)' = HeadWants(WRITE)
  BY <1>3
<1>5. ActivityAccurate' /\ QueueHeadBlocked'
  BY <1>1, <1>2, <1>4 DEF Accounts, ActivityAccurate, QueueHeadBlocked
<1>6. \A u \in Tasks : pc'[u] \in UpWake \cup DowngrWake => pc'[u] = pc[u]
  BY <1>2 DEF UpWake, DowngrWake, Waiting
<1>7. WakeInv'
  BY <1>1, <1>2, <1>4, <1>6 DEF Accounts, WakeInv, ReadHeld, WriteHeld, UpWake, DowngrWake
<1> QED
  BY <1>5, <1>7 DEF Accounts

(* A task that enters or queues, with wait_lock free. *)
LEMMA EnterAccounts ==
  ASSUME TypeOK, Shape, Accounts, TypeOK', Shape', NEW t \in Tasks,
         GrantStep(t) \/ QueueStep(t)
  PROVE  Accounts'
<1>1. wait_lock = NULL /\ wait_lock' = NULL
  BY DEF GrantStep, QueueStep
<1>2. WakeInv'
  BY <1>1, NoWakerNext DEF Shape
<1>3. CASE GrantStep(t)
  <2>1. list_empty(wait_list) /\ wait_list' = wait_list
    BY <1>3, LockGrant DEF Accounts
  <2>2. QueueHeadBlocked'
    BY <2>1 DEF QueueHeadBlocked
  <2>3. CASE activity >= 0 /\ activity' = activity + 1 /\ Lock!AcquireRead(t)
    <3>1. activity = Cardinality(Readers)
      BY <1>1, <2>3 DEF Accounts, ActivityAccurate
    <3>2. Writers' = {} /\ activity' = Cardinality(Readers')
      BY <2>3, <3>1, ReadersCount DEF Lock!AcquireRead
    <3> QED
      BY <1>2, <2>2, <2>3, <3>2 DEF Accounts, ActivityAccurate, TypeOK
  <2>4. CASE activity = 0 /\ activity' = -1 /\ Lock!AcquireWrite(t)
    <3>1. Readers' = {} /\ Writers' = {t}
      BY <2>4 DEF Lock!AcquireWrite
    <3> QED
      BY <1>2, <2>2, <2>4, <3>1 DEF Accounts, ActivityAccurate
  <2> QED
    BY <1>3, <2>3, <2>4, LockGrant DEF Accounts
<1>4. CASE QueueStep(t)
  <2>1. PICK f \in {READ, WRITE} : enqueue(t, f) /\ (f = READ => ~ReadGrantable)
                                   /\ (f = WRITE => ~WriteGrantable)
    BY <1>4 DEF QueueStep, READ, WRITE
  <2>2. /\ activity' = activity /\ wait_list' = list_add_tail(wait_list, t)
        /\ waiter_flags' = [waiter_flags EXCEPT ![t] = f] /\ pc[t] = "idle"
    BY <1>4, <2>1 DEF QueueStep, enqueue
  <2>3. ActivityAccurate'
    BY <1>1, <1>4, <2>2, LockSame DEF Accounts, ActivityAccurate
  <2>4. /\ ~list_empty(wait_list)'
        /\ list_first_entry(wait_list)'
             = IF list_empty(wait_list) THEN t ELSE list_first_entry(wait_list)
    BY <2>2, AddTail DEF TypeOK
  <2>5. CASE list_empty(wait_list)
    <3>1. activity # 0 /\ (activity > 0 => f = WRITE)
      BY <2>1, <2>5 DEF ReadGrantable, WriteGrantable, TypeOK
    <3>2. waiter_flags'[t] = f
      BY <2>2 DEF TypeOK
    <3> QED
      BY <1>2, <2>2, <2>3, <2>4, <2>5, <3>1, <3>2 DEF Accounts, QueueHeadBlocked, HeadWants
  <2>6. CASE ~list_empty(wait_list)
    <3> DEFINE u == list_first_entry(wait_list)
    <3>1. u \in Tasks /\ pc[u] \in Waiting
      BY <2>6, HeadWaits
    <3>2. waiter_flags'[u] = waiter_flags[u]
      BY <2>2, <3>1 DEF Waiting, TypeOK
    <3>3. activity # 0 /\ (activity > 0 => HeadWants(WRITE))
      BY <1>1, <2>6 DEF Accounts, QueueHeadBlocked
    <3> QED
      BY <1>2, <2>2, <2>3, <2>4, <2>6, <3>2, <3>3 DEF Accounts, QueueHeadBlocked, HeadWants
  <2> QED
    BY <2>5, <2>6
<1> QED
  BY <1>3, <1>4

(* The last reader finds a writer at the head of the queue. *)
LEMMA UpReadAccounts ==
  ASSUME TypeOK, Shape, Accounts, TypeOK', Shape', NEW t \in Tasks, up_read(t)
  PROVE  Accounts'
<1> USE DEF up_read
<1>1. Writers = {} /\ activity = Cardinality(Readers) /\ activity > 0
  BY ReaderCounted DEF Accounts
<1>2. Writers' = {} /\ Cardinality(Readers') = activity - 1 /\ activity' = activity - 1
  BY <1>1, LockRelease, ReadersCount DEF Accounts, Lock!ReleaseRead
<1>3. /\ HeadWants(WRITE)' = HeadWants(WRITE) /\ wait_list' = wait_list
      /\ ~list_empty(wait_list) => HeadWants(WRITE)
  BY <1>1 DEF HeadWants, Accounts, QueueHeadBlocked
<1>4. CASE UpReadMustWake(activity - 1) /\ wait_lock' = t /\ goto(t, "up_wake_one")
  <2>1. pc'[t] = "up_wake_one" /\ activity' = 0 /\ HeadWants(WRITE)'
    BY <1>2, <1>3, <1>4 DEF UpReadMustWake, goto, TypeOK
  <2> QED
    BY <1>2, <1>4, <2>1, OneWaker DEF ReadHeld, Shape
<1>5. CASE ~UpReadMustWake(activity - 1) /\ wait_lock' = NULL
  <2>1. activity' # -1
    BY <1>1, <1>2
  <2>2. ActivityAccurate' /\ QueueHeadBlocked'
    BY <1>2, <1>3, <1>5, <2>1 DEF ActivityAccurate, QueueHeadBlocked, UpReadMustWake
  <2> QED
    BY <1>5, <2>2, NoWakerNext DEF Accounts, Shape
<1> QED
  BY <1>4, <1>5

(* A writer leaves or becomes a reader. *)
LEMMA WriterAccounts ==
  ASSUME TypeOK, Shape, Accounts, TypeOK', Shape', NEW t \in Tasks,
         up_write(t) \/ downgrade_write(t)
  PROVE  Accounts'
<1>1. HeadWants(READ)' = HeadWants(READ) /\ HeadWants(WRITE)' = HeadWants(WRITE)
      /\ wait_list' = wait_list
  BY DEF up_write, downgrade_write, HeadWants
<1>2. Readers = {} /\ Writers = {t}
  BY WriterAlone DEF up_write, downgrade_write, Accounts
<1>3. CASE up_write(t)
  <2>1. Readers' = {} /\ Writers' = {} /\ activity' = 0 /\ Cardinality(Readers') = 0
    BY <1>2, <1>3, LockRelease, ReadersFinite DEF Lock!ReleaseWrite, up_write, Accounts
  <2>2. CASE list_empty(wait_list) /\ wait_lock' = NULL
    <3>1. ActivityAccurate' /\ QueueHeadBlocked'
      BY <1>1, <2>1, <2>2 DEF ActivityAccurate, QueueHeadBlocked
    <3> QED
      BY <2>2, <3>1, NoWakerNext DEF Accounts, Shape
  <2>3. CASE ~list_empty(wait_list) /\ wait_lock' = t /\ woken' = 0 /\ goto(t, "up_grant")
    <3>1. pc'[t] = "up_grant"
      BY <2>3 DEF goto, TypeOK
    <3> QED
      BY <1>1, <2>1, <2>3, <3>1, OneWaker DEF ReadHeld, Shape
  <2> QED
    BY <1>3, <2>2, <2>3 DEF up_write
<1>4. CASE downgrade_write(t)
  <2>1. Readers' = {t} /\ Writers' = {} /\ activity' = 1
    BY <1>2, <1>4, LockRelease DEF Lock!Downgrade, downgrade_write, Accounts
  <2>2. Cardinality(Readers') = 1
    BY <2>1, FS_Singleton
  <2>3. CASE ~HeadWants(READ) /\ wait_lock' = NULL
    <3>1. ActivityAccurate'
      BY <2>1, <2>2 DEF ActivityAccurate
    <3>2. QueueHeadBlocked'
      BY <1>1, <2>1, <2>3, HeadKind DEF QueueHeadBlocked
    <3> QED
      BY <2>3, <3>1, <3>2, NoWakerNext DEF Accounts, Shape
  <2>4. CASE HeadWants(READ) /\ wait_lock' = t /\ woken' = 0 /\ goto(t, "dg_grant")
    <3>1. pc'[t] = "dg_grant"
      BY <2>4 DEF goto, TypeOK
    <3> QED
      BY <1>1, <2>1, <2>2, <2>4, <3>1, OneWaker DEF ReadHeld, Shape
  <2> QED
    BY <1>4, <2>3, <2>4 DEF downgrade_write
<1> QED
  BY <1>3, <1>4

(* A handover makes one more holder, who is not counted in activity yet if *)
(* it is a reader.                                                         *)
LEMMA HandAccounts ==
  ASSUME TypeOK, Shape, Accounts, TypeOK', Shape', NEW t \in Tasks, HandStep(t)
  PROVE  Accounts'
<1> DEFINE u == list_first_entry(wait_list)
<1>1. WakeInv /\ woken' = woken /\ wait_lock = t
  BY HandOver DEF Accounts, Shape, WakerInv, UpWake, DowngrWake
<1>2. u \in Tasks
  BY <1>1, HandOver, HeadWaits
<1>3. CASE /\ waiter_flags[u] = WRITE /\ activity' = -1
           /\ hand_over(t, u, "up_wake_writer")
  <2>1. Readers' = {} /\ Writers' = {u}
    BY <1>1, <1>3, LockHand DEF Lock!AcquireWrite, READ, WRITE
  <2>2. pc'[t] = "up_wake_writer" /\ wait_lock' = t
    BY <1>1, <1>3 DEF hand_over, goto, TypeOK
  <2> QED
    BY <1>2, <1>3, <2>1, <2>2, OneWaker DEF WriteHeld, Shape
<1>4. CASE /\ waiter_flags[u] = READ /\ UNCHANGED activity /\ ReadHeld(0, woken)
           /\ hand_over(t, u, "up_wake_reader")
  <2>1. Writers' = {} /\ Cardinality(Readers') = Cardinality(Readers) + 1
    BY <1>1, <1>4, LockHand, ReadersCount DEF Lock!AcquireRead
  <2>2. pc'[t] = "up_wake_reader" /\ wait_lock' = t
    BY <1>1, <1>4 DEF hand_over, goto, TypeOK
  <2> QED
    BY <1>1, <1>4, <2>1, <2>2, OneWaker DEF ReadHeld, Shape
<1>5. CASE /\ waiter_flags[u] = READ /\ UNCHANGED activity /\ ReadHeld(1, woken + 1)
           /\ hand_over(t, u, "dg_wake_reader")
  <2>1. Writers' = {} /\ Cardinality(Readers') = Cardinality(Readers) + 1
    BY <1>1, <1>5, LockHand, ReadersCount DEF Lock!AcquireRead
  <2>2. pc'[t] = "dg_wake_reader" /\ wait_lock' = t
    BY <1>1, <1>5 DEF hand_over, goto, TypeOK
  <2>3. ReadHeld(1, woken + 2)'
    BY <1>1, <1>5, <2>1 DEF ReadHeld, TypeOK
  <2> QED
    BY <2>2, <2>3, OneWaker DEF Shape
<1> QED
  BY <1>1, <1>3, <1>4, <1>5, HandOver

(* When the last reader of the batch is woken, activity catches up. *)
LEMMA WakeAccounts ==
  ASSUME TypeOK, Shape, Accounts, TypeOK', Shape', NEW t \in Tasks,
         wake_writer(t) \/ wake_reader(t)
  PROVE  Accounts'
<1>1. Readers' = Readers /\ Writers' = Writers
  BY LockSame
<1>2. wait_lock = t
  BY DEF wake_writer, wake_reader, Shape, WakerInv, UpWake, DowngrWake
<1>3. /\ HeadWants(READ)' = HeadWants(READ) /\ HeadWants(WRITE)' = HeadWants(WRITE)
      /\ wait_list' = wait_list
  BY DEF wake_writer, wake_reader, HeadWants
<1>4. CASE wake_writer(t)
  <2>1. WriteHeld /\ activity' = activity /\ wait_lock' = NULL
    BY <1>4 DEF wake_writer, Accounts, WakeInv
  <2>2. ActivityAccurate' /\ QueueHeadBlocked'
    BY <1>1, <2>1 DEF WriteHeld, ActivityAccurate, QueueHeadBlocked
  <2> QED
    BY <2>1, <2>2, NoWakerNext DEF Accounts, Shape
<1>5. CASE wake_reader(t) /\ LoopEnds
  <2>1. /\ activity' = activity + woken + 1 /\ wait_lock' = NULL
        /\ ReadHeld(0, woken + 1) \/ ReadHeld(1, woken + 2)
    BY <1>5 DEF wake_reader, finish_wake, Accounts, WakeInv
  <2>2. activity' = Cardinality(Readers') /\ activity' > 0 /\ Writers' = {}
    BY <1>1, <2>1 DEF ReadHeld, TypeOK
  <2>3. ActivityAccurate'
    BY <2>2 DEF ActivityAccurate
  <2>4. QueueHeadBlocked'
    BY <1>3, <1>5, <2>2, HeadKind DEF QueueHeadBlocked, LoopEnds
  <2> QED
    BY <2>1, <2>3, <2>4, NoWakerNext DEF Accounts, Shape
<1>6. CASE wake_reader(t) /\ ~LoopEnds
  <2>1. /\ woken' = woken + 1 /\ activity' = activity /\ wait_lock' = t
        /\ HeadWants(READ)' /\ ~list_empty(wait_list)'
    BY <1>2, <1>3, <1>6 DEF wake_reader, LoopEnds, HeadWants
  <2>2. CASE pc[t] = "up_wake_reader"
    <3>1. pc'[t] = "up_grant" /\ ReadHeld(0, woken + 1)
      BY <1>6, <2>2 DEF wake_reader, goto, TypeOK, Accounts, WakeInv
    <3>2. ReadHeld(0, woken)'
      BY <1>1, <2>1, <3>1 DEF ReadHeld
    <3> QED
      BY <2>1, <3>1, <3>2, OneWaker DEF Shape
  <2>3. CASE pc[t] = "dg_wake_reader"
    <3>1. pc'[t] = "dg_grant" /\ ReadHeld(1, woken + 2)
      BY <1>6, <2>3 DEF wake_reader, goto, TypeOK, Accounts, WakeInv
    <3>2. ReadHeld(1, woken + 1)'
      BY <1>1, <2>1, <3>1 DEF ReadHeld, TypeOK
    <3> QED
      BY <2>1, <3>1, <3>2, OneWaker DEF Shape
  <2> QED
    BY <1>6, <2>2, <2>3 DEF wake_reader
<1> QED
  BY <1>4, <1>5, <1>6

-----------------------------------------------------------------------------
(* __init_rwsem() establishes the invariant ... *)
LEMMA InitIInv == Init => IInv
<1> SUFFICES ASSUME Init PROVE IInv
  OBVIOUS
<1> USE TasksAssumption DEF Init
<1>1. TypeOK
  BY DEF TypeOK, EmptyList, TaskStates, PCs
<1>2. Entries(wait_list) = {} /\ IsList(wait_list) /\ list_empty(wait_list)
  BY DEF Entries, IsList, EmptyList, list_empty
<1>3. WakerInv /\ WaiterInv /\ TskInv /\ WaitersLive
  BY <1>2 DEF WakerInv, WaiterInv, TskInv, WaitersLive, Waiting, UpWake, DowngrWake, InHand
<1>4. Readers = {} /\ Writers = {}
  BY DEF Readers, Writers, Granted, Waiting, DowngrWake
<1>5. ActivityAccurate /\ QueueHeadBlocked
  BY <1>2, <1>4, FS_EmptySet DEF ActivityAccurate, QueueHeadBlocked
<1>6. WakeInv
  BY DEF WakeInv
<1> QED
  BY <1>1, <1>3, <1>5, <1>6 DEF IInv

(* ... and every step keeps it. *)
LEMMA StepIInv ==
  ASSUME IInv, NEW t \in Tasks, Step(t)
  PROVE  IInv'
<1>1. TypeOK /\ Shape /\ Accounts /\ ActivityAccurate /\ WakeInv
  BY DEF IInv, Shape, Accounts
<1>2. TypeOK' /\ Shape'
  BY <1>1, TypeStep, ShapeStep
<1>3. Accounts'
  BY <1>1, <1>2, StepCases, WaitAccounts, EnterAccounts, UpReadAccounts, WriterAccounts,
     HandAccounts, WakeAccounts
<1> QED
  BY <1>2, <1>3 DEF IInv, Shape, Accounts

(* Stuttering does as well. *)
LEMMA StutterIInv ==
  ASSUME IInv, UNCHANGED vars
  PROVE  IInv'
<1> USE DEF vars
<1>1. TypeOK' /\ WakerInv' /\ WaiterInv' /\ TskInv' /\ WaitersLive'
  BY DEF IInv, TypeOK, WakerInv, WaiterInv, TskInv, WaitersLive
<1>2. Readers' = Readers /\ Writers' = Writers
  BY DEF Readers, Writers, Granted
<1>3. ActivityAccurate' /\ QueueHeadBlocked' /\ WakeInv'
  BY <1>2 DEF IInv, ActivityAccurate, QueueHeadBlocked, WakeInv, ReadHeld, WriteHeld, HeadWants
<1> QED
  BY <1>1, <1>3 DEF IInv

(* So it always holds. *)
LEMMA Invariant == Spec => []IInv
<1>1. IInv /\ [Next]_vars => IInv'
  BY NextIsStep, StepIInv, StutterIInv
<1> QED
  BY <1>1, InitIInv, PTL DEF Spec

(* The variables of the semaphore keep their types, for any set of tasks;  *)
(* activity never falls below -1.                                          *)
THEOREM TypeCorrect == Spec => []TypeOK
<1>1. IInv => TypeOK
  BY DEF IInv
<1> QED
  BY <1>1, Invariant, PTL

(* Whenever wait_lock is free, sem->activity is the number of readers or   *)
(* -1 for one writer who is alone.                                         *)
THEOREM ActivityCorrect == Spec => []ActivityAccurate
<1>1. IInv => ActivityAccurate
  BY DEF IInv
<1> QED
  BY <1>1, Invariant, PTL

(* The wake-up code only touches waiters whose tasks are still in the wait *)
(* loop, and the task it wakes is pinned by the one reference left.        *)
THEOREM WaitersSafe == Spec => []WaitersLive
<1>1. IInv => WaitersLive
  BY DEF IInv
<1> QED
  BY <1>1, Invariant, PTL

(* Behind readers the queue starts with a writer, and nobody queues on a   *)
(* free semaphore: what __up_read() takes for granted.                     *)
THEOREM HeadIsBlocked == Spec => []QueueHeadBlocked
<1>1. IInv => QueueHeadBlocked
  BY DEF IInv
<1> QED
  BY <1>1, Invariant, PTL

(* rwsem_is_locked() never calls a held semaphore free. *)
THEOREM IsLockedCorrect == Spec => []IsLockedSound
<1>1. IInv => IsLockedSound
  <2> SUFFICES ASSUME IInv, wait_lock = NULL, activity = 0
               PROVE  Readers \cup Writers = {}
    BY DEF IsLockedSound, rwsem_is_locked
  <2> QED
    BY ReadersFinite DEF IInv, ActivityAccurate
<1> QED
  BY <1>1, Invariant, PTL

-----------------------------------------------------------------------------
(* A task that becomes a holder found the queue empty or was its head.     *)
LEMMA StepInOrder ==
  ASSUME IInv, NEW t \in Tasks, Step(t),
         NEW v \in (Readers' \cup Writers') \ (Readers \cup Writers)
  PROVE  list_empty(wait_list) \/ v = list_first_entry(wait_list)
<1>1. TypeOK /\ Shape /\ ActivityAccurate /\ WakeInv
  BY DEF IInv, Shape
<1>2. CASE GrantStep(t)
  BY <1>1, <1>2, LockGrant
<1>3. CASE up_read(t) \/ up_write(t) \/ downgrade_write(t)
  BY <1>1, <1>3, LockRelease DEF Lock!ReleaseRead, Lock!ReleaseWrite, Lock!Downgrade
<1>4. CASE HandStep(t)
  BY <1>1, <1>4, LockHand DEF Lock!AcquireRead, Lock!AcquireWrite
<1>5. CASE Readers' = Readers /\ Writers' = Writers
  BY <1>5
<1> QED
  BY <1>1, <1>2, <1>3, <1>4, <1>5, StepCases, LockSame

(* Nobody overtakes: readers do not slip past a writer that is queued, and *)
(* the waker takes waiters from the head only.                             *)
THEOREM InOrder == Spec => NoOvertaking
<1>1. IInv /\ [Next]_vars =>
        [\A t \in (Readers' \cup Writers') \ (Readers \cup Writers) :
            list_empty(wait_list) \/ t = list_first_entry(wait_list)]_vars
  BY NextIsStep, StepInOrder
<1> QED
  BY <1>1, Invariant, PTL DEF Spec, NoOvertaking

(* Every step of the semaphore is a step of the abstract lock or leaves    *)
(* its holders alone.                                                      *)
LEMMA StepRefines ==
  ASSUME IInv, NEW t \in Tasks, Step(t)
  PROVE  [Lock!LockNext]_<<Readers, Writers>>
<1>1. TypeOK /\ Shape /\ ActivityAccurate /\ WakeInv
  BY DEF IInv, Shape
<1>2. CASE GrantStep(t)
  BY <1>1, <1>2, LockGrant DEF Lock!LockNext
<1>3. CASE up_read(t) \/ up_write(t) \/ downgrade_write(t)
  BY <1>1, <1>3, LockRelease DEF Lock!LockNext
<1>4. CASE HandStep(t)
  <2>1. list_first_entry(wait_list) \in Tasks
    BY <1>1, <1>4, HandOver, HeadWaits
  <2> QED
    BY <1>1, <1>4, <2>1, LockHand DEF Lock!LockNext
<1>5. CASE Readers' = Readers /\ Writers' = Writers
  BY <1>5
<1> QED
  BY <1>1, <1>2, <1>3, <1>4, <1>5, StepCases, LockSame

(* The semaphore implements the abstract read/write lock, for any number   *)
(* of tasks: a waiter becomes a holder when its waiter.task is cleared,    *)
(* however long it takes to notice.                                        *)
THEOREM Refinement == Spec => RefinesRWLock
<1>1. Init => Lock!LockInit
  BY DEF Init, Lock!LockInit, Readers, Writers, Granted, Waiting, DowngrWake
<1>2. IInv /\ [Next]_vars => [Lock!LockNext]_(Lock!lockVars)
  <2>1. UNCHANGED vars => UNCHANGED <<Readers, Writers>>
    BY DEF vars, Readers, Writers, Granted
  <2> QED
    BY <2>1, NextIsStep, StepRefines DEF Lock!lockVars
<1> QED
  BY <1>1, <1>2, Invariant, PTL DEF Spec, RefinesRWLock, Lock!LockSpec

=============================================================================
