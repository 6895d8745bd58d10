-------------------------------- MODULE Srcu --------------------------------
(***************************************************************************)
(* Sleepable RCU: kernel/srcu.c.                                           *)
(*                                                                         *)
(* Readers count themselves in one of two ranks of per-CPU counters and    *)
(* may sleep and change CPU before they count themselves out.  An updater  *)
(* makes new readers use the other rank and waits until the old one adds   *)
(* up to zero, reading one CPU after the other.                            *)
(*                                                                         *)
(* srcu_read_lock() is two steps with preemption off; synchronize_sched()  *)
(* ends no sooner than the sections with preemption off that it met.       *)
(* Memory is sequentially consistent, so that only this part of what the   *)
(* calls of synchronize_sched() are for is modelled, and not the memory    *)
(* barriers on all CPUs.                                                   *)
(*                                                                         *)
(* A reader that always locks on one CPU and unlocks on another drives     *)
(* their counters apart without end: they and their sum wrap.              *)
(***************************************************************************)
EXTENDS Integers, FiniteSets, Cpus

CONSTANTS Readers, Updaters,
          Width,     \* the counters are integers of that many values
          MaxFlips   \* bound: no call once sp->completed is that high

ASSUME SrcuAssumption ==
  /\ IsFiniteSet(Readers) /\ IsFiniteSet(Updaters) /\ NULL \notin Updaters
  /\ MaxFlips \in Nat
  /\ Width \in Nat /\ Width > Cardinality(Readers)

VARIABLES
  completed,  \* sp->completed
  per_cpu_ref, \* per_cpu_ptr(sp->per_cpu_ref, cpu)->c[idx]
  mutex,      \* holder of sp->mutex, NULL when it is free
  rpc,        \* where each reader is
  rcpu,       \* the CPU of a reader whose preemption is off
  ridx,       \* the reader's idx
  upc,        \* where each updater is
  uidx,       \* the updater's idx
  sched,      \* the sections its synchronize_sched() still waits for
  left,       \* the CPUs whose counters it still has to add
  sum,        \* its sum
  before      \* history: the readers inside when synchronize_srcu() began

readerVars == <<rpc, rcpu, ridx>>
updaterVars == <<mutex, upc, uidx, sched, left, sum>>
srcuVars == <<completed, per_cpu_ref, readerVars, updaterVars, before>>

(* Readers: "out", "lock" (idx was read, preemption is off), "in".         *)
(* Updaters: "idle", "mutex" (waiting for it), "check", "sync1" .. "sync3" *)
(* (in one of the three calls of sync_func()), "flip", "sum", "unlock".    *)
RPCs == {"out", "lock", "in"}
UPCs == {"idle", "mutex", "check", "sync1", "flip", "sync2", "sum", "sync3",
         "unlock"}

Rank(n) == n % 2

(* Integer arithmetic of the counters. *)
wrap(n) == n % Width

SrcuInit ==
  /\ completed = 0
  /\ per_cpu_ref = [p \in CPUs |-> [i \in {0, 1} |-> 0]]
  /\ mutex = NULL
  /\ rpc = [r \in Readers |-> "out"]
  /\ rcpu = [r \in Readers |-> NULL]
  /\ ridx = [r \in Readers |-> 0]
  /\ upc = [u \in Updaters |-> "idle"]
  /\ uidx = [u \in Updaters |-> 0]
  /\ sched = [u \in Updaters |-> {}]
  /\ left = [u \in Updaters |-> {}]
  /\ sum = [u \in Updaters |-> 0]
  /\ before = [u \in Updaters |-> {}]

(* The CPUs that run with preemption off. *)
Busy == {rcpu[r] : r \in Readers} \ {NULL}

ugoto(u, l) == upc' = [upc EXCEPT ![u] = l]

-----------------------------------------------------------------------------
(* Mutated forms of the definitions below, one plausible slip each. *)

(* Nobody waits for readers that have read idx and not counted themselves. *)
MutSyncStart(u, l) ==
  /\ sched' = [sched EXCEPT ![u] = {}]
  /\ ugoto(u, l)

(* The updater does not flip and waits for all readers there are. *)
MutFlip(u) ==
  /\ upc[u] = "flip"
  /\ uidx' = [uidx EXCEPT ![u] = Rank(completed)]
  /\ sched' = [sched EXCEPT ![u] = {r \in Readers : rpc[r] = "lock"}]
  /\ ugoto(u, "sync2")
  /\ UNCHANGED <<completed, per_cpu_ref, readerVars, mutex, left, sum, before>>

-----------------------------------------------------------------------------
(* __srcu_read_lock(): on some CPU, idx is read ... *)
srcu_read_lock(r, p) ==
  /\ rpc[r] = "out" /\ p \notin Busy
  /\ rpc' = [rpc EXCEPT ![r] = "lock"]
  /\ rcpu' = [rcpu EXCEPT ![r] = p]
  /\ ridx' = [ridx EXCEPT ![r] = Rank(completed)]
  /\ UNCHANGED <<completed, per_cpu_ref, updaterVars, before>>

(* ... and then the counter of this CPU incremented. *)
count_reader(r) ==
  /\ rpc[r] = "lock"
  /\ per_cpu_ref' = [per_cpu_ref EXCEPT ![rcpu[r]][ridx[r]] = wrap(@ + 1)]
  /\ rpc' = [rpc EXCEPT ![r] = "in"]
  /\ rcpu' = [rcpu EXCEPT ![r] = NULL]
  /\ sched' = [u \in Updaters |-> sched[u] \ {r}]
  /\ UNCHANGED <<completed, ridx, mutex, upc, uidx, left, sum, before>>

(* __srcu_read_unlock(): on whatever CPU the reader is now. *)
srcu_read_unlock(r, p) ==
  /\ rpc[r] = "in" /\ p \notin Busy
  /\ per_cpu_ref' = [per_cpu_ref EXCEPT ![p][ridx[r]] = wrap(@ - 1)]
  /\ rpc' = [rpc EXCEPT ![r] = "out"]
  /\ ridx' = [ridx EXCEPT ![r] = 0]
  /\ before' = [u \in Updaters |-> before[u] \ {r}]
  /\ UNCHANGED <<completed, rcpu, updaterVars>>

-----------------------------------------------------------------------------
(* __synchronize_srcu(): sp->completed is read before the mutex is taken. *)
synchronize_srcu(u) ==
  /\ upc[u] = "idle" /\ completed < MaxFlips
  /\ uidx' = [uidx EXCEPT ![u] = completed]
  /\ before' = [before EXCEPT ![u] = {r \in Readers : rpc[r] = "in"}]
  /\ ugoto(u, "mutex")
  /\ UNCHANGED <<completed, per_cpu_ref, readerVars, mutex, sched, left, sum>>

mutex_lock(u) ==
  /\ upc[u] = "mutex" /\ mutex = NULL
  /\ mutex' = u
  /\ ugoto(u, "check")
  /\ UNCHANGED <<completed, per_cpu_ref, readerVars, uidx, sched, left, sum, before>>

(* sync_func(), which is synchronize_sched(), waits for the readers that   *)
(* have preemption off now.  How rcutree.c finds out is left out.          *)
sync_start(u, l) ==
  /\ sched' = [sched EXCEPT ![u] = {r \in Readers : rpc[r] = "lock"}]
  /\ ugoto(u, l)

(* Did somebody else do the work meanwhile? *)
check(u) ==
  /\ upc[u] = "check"
  /\ \/ completed - uidx[u] >= 2 /\ ugoto(u, "unlock") /\ UNCHANGED sched
     \/ completed - uidx[u] < 2 /\ sync_start(u, "sync1")
  /\ UNCHANGED <<completed, per_cpu_ref, readerVars, mutex, uidx, left, sum, before>>

sync1_done(u) ==
  /\ upc[u] = "sync1" /\ sched[u] = {}
  /\ ugoto(u, "flip")
  /\ UNCHANGED <<completed, per_cpu_ref, readerVars, mutex, uidx, sched, left, sum, before>>

flip(u) ==
  /\ upc[u] = "flip"
  /\ uidx' = [uidx EXCEPT ![u] = Rank(completed)]
  /\ completed' = completed + 1
  /\ sync_start(u, "sync2")
  /\ UNCHANGED <<per_cpu_ref, readerVars, mutex, left, sum, before>>

(* srcu_readers_active_idx() starts with sum = 0 ... *)
sum_start(u) ==
  /\ sum' = [sum EXCEPT ![u] = 0]
  /\ left' = [left EXCEPT ![u] = CPUs]
  /\ ugoto(u, "sum")

sync2_done(u) ==
  /\ upc[u] = "sync2" /\ sched[u] = {}
  /\ sum_start(u)
  /\ UNCHANGED <<completed, per_cpu_ref, readerVars, mutex, uidx, sched, before>>

(* ... and adds the counters of one CPU after the other. *)
add(u, p) ==
  /\ upc[u] = "sum" /\ p \in left[u]
  /\ sum' = [sum EXCEPT ![u] = wrap(@ + per_cpu_ref[p][uidx[u]])]
  /\ left' = [left EXCEPT ![u] = @ \ {p}]
  /\ UNCHANGED <<completed, per_cpu_ref, readerVars, mutex, upc, uidx, sched, before>>

(* The loop goes round until the sum is 0.  The sum before the loop only   *)
(* chooses a short delay, the sleep of 1/HZ ends by itself: neither is a   *)
(* step here.                                                              *)
summed(u) ==
  /\ upc[u] = "sum" /\ left[u] = {}
  /\ \/ sum[u] # 0 /\ sum_start(u) /\ UNCHANGED sched
     \/ sum[u] = 0 /\ sync_start(u, "sync3") /\ UNCHANGED <<left, sum>>
  /\ UNCHANGED <<completed, per_cpu_ref, readerVars, mutex, uidx, before>>

sync3_done(u) ==
  /\ upc[u] = "sync3" /\ sched[u] = {}
  /\ ugoto(u, "unlock")
  /\ UNCHANGED <<completed, per_cpu_ref, readerVars, mutex, uidx, sched, left, sum, before>>

(* mutex_unlock(), and synchronize_srcu() returns. *)
mutex_unlock(u) ==
  /\ upc[u] = "unlock"
  /\ mutex' = NULL
  /\ uidx' = [uidx EXCEPT ![u] = 0]
  /\ before' = [before EXCEPT ![u] = {}]
  /\ ugoto(u, "idle")
  /\ UNCHANGED <<completed, per_cpu_ref, readerVars, sched, left, sum>>

-----------------------------------------------------------------------------
Reader(r) == count_reader(r) \/ \E p \in CPUs : srcu_read_unlock(r, p)

Updater(u) ==
  \/ mutex_lock(u) \/ check(u) \/ sync1_done(u) \/ flip(u) \/ sync2_done(u)
  \/ summed(u) \/ sync3_done(u) \/ mutex_unlock(u)
  \/ \E p \in CPUs : add(u, p)

SrcuNext ==
  \/ \E r \in Readers : Reader(r) \/ \E p \in CPUs : srcu_read_lock(r, p)
  \/ \E u \in Updaters : Updater(u) \/ synchronize_srcu(u)

SrcuSpec == SrcuInit /\ [][SrcuNext]_srcuVars

(* Readers get a CPU, count themselves and leave, updaters run. *)
SrcuFairness ==
  /\ \A r \in Readers : WF_srcuVars(Reader(r))
  /\ \A u \in Updaters : WF_srcuVars(Updater(u))

SrcuFairSpec == SrcuSpec /\ SrcuFairness

-----------------------------------------------------------------------------
SrcuTypeOK ==
  /\ completed \in Nat
  /\ per_cpu_ref \in [CPUs -> [{0, 1} -> 0 .. (Width - 1)]]
  /\ mutex \in Updaters \cup {NULL}
  /\ rpc \in [Readers -> RPCs]
  /\ rcpu \in [Readers -> CPUs \cup {NULL}]
  /\ ridx \in [Readers -> {0, 1}]
  /\ upc \in [Updaters -> UPCs]
  /\ uidx \in [Updaters -> Nat]
  /\ sched \in [Updaters -> SUBSET Readers]
  /\ left \in [Updaters -> SUBSET CPUs]
  /\ sum \in [Updaters -> 0 .. (Width - 1)]
  /\ before \in [Updaters -> SUBSET Readers]

(* synchronize_srcu() returns only when every reader that was inside its   *)
(* critical section at the call has left it, whether the updater waited    *)
(* itself or took the early exit, and although readers change CPU while    *)
(* their counters are added up.                                            *)
GracePeriod == \A u \in Updaters : upc[u] = "unlock" => before[u] = {}

(* When an updater has flipped and waited, no reader can join the rank it  *)
(* is adding up: the sum only goes down and zero means that it is empty.   *)
OldRankDrains ==
  \A u \in Updaters : upc[u] = "sum" =>
    \A r \in Readers : rpc[r] = "lock" => ridx[r] # uidx[u]

(* synchronize_srcu() returns as long as readers leave, however many new   *)
(* ones come.                                                              *)
SyncCompletes == \A u \in Updaters : upc[u] # "idle" ~> upc[u] = "idle"

-----------------------------------------------------------------------------
(***************************************************************************)
(* The inductive invariant behind the safety properties.                   *)
(***************************************************************************)

(* sp->mutex is held exactly in its critical section. *)
MutexInv == \A u \in Updaters : upc[u] \notin {"idle", "mutex"} <=> mutex = u

(* A reader whose preemption is off is on a CPU. *)
CpuInv == \A r \in Readers : rpc[r] = "lock" => rcpu[r] \in CPUs

(* An updater that has flipped waits for the rank that is not in use, and  *)
(* its synchronize_sched() for all who are about to join it.               *)
Flipped == {"sync2", "sum"}
FlipInv ==
  \A u \in Updaters :
    /\ upc[u] \in Flipped => uidx[u] = Rank(completed + 1)
    /\ upc[u] = "sync2" =>
         \A r \in Readers : rpc[r] = "lock" /\ ridx[r] = uidx[u] => r \in sched[u]

(* While nobody waits for the old rank, there are no readers in it. *)
ActiveInv ==
  (\A u \in Updaters : upc[u] \notin Flipped) =>
    \A r \in Readers : rpc[r] # "out" => ridx[r] = Rank(completed)

(* What sp->completed tells of the readers that an updater waits for: one  *)
(* flip after the call they are all in the same rank, two flips after it   *)
(* they are gone.  From its own flip on they are in the rank it adds up.   *)
BeforeInv ==
  \A u \in Updaters :
    /\ \A r \in before[u] : rpc[r] = "in"
    /\ upc[u] \in {"mutex", "check", "sync1", "flip"} =>
         /\ uidx[u] <= completed
         /\ completed >= uidx[u] + 1 => \A r \in before[u] : ridx[r] = Rank(uidx[u])
         /\ completed >= uidx[u] + 2 => before[u] = {}
    /\ upc[u] \in Flipped => \A r \in before[u] : ridx[r] = uidx[u]
    /\ upc[u] \in {"idle", "sync3", "unlock"} => before[u] = {}

(* The readers counted in rank i. *)
InRank(i) == {r \in Readers : rpc[r] = "in" /\ ridx[r] = i}

(* S gives the sum of the counters f over any set of CPUs. *)
IsSum(S, f) ==
  /\ S[{}] = 0
  /\ \A T \in SUBSET CPUs : \A p \in CPUs \ T : S[T \cup {p}] = wrap(S[T] + f[p])

(***************************************************************************)
(* Over all CPUs the counters of a rank add up to the number of readers,   *)
(* although no counter is the number of readers anywhere.  What an updater *)
(* has added up so far, with what is left to add, is the number n of       *)
(* readers when it started, less those that have left through a CPU that   *)
(* it had not come to: never less than the readers still there.            *)
(***************************************************************************)
Tally(i, S) ==
  /\ IsSum(S, [p \in CPUs |-> per_cpu_ref[p][i]])
  /\ S[CPUs] = Cardinality(InRank(i))
  /\ \A u \in Updaters : upc[u] = "sum" /\ uidx[u] = i =>
       \E n \in Cardinality(InRank(i)) .. Cardinality(Readers) :
         wrap(sum[u] + S[left[u]]) = n

SumInv == \A i \in {0, 1} : \E S \in [SUBSET CPUs -> 0 .. (Width - 1)] : Tally(i, S)

SrcuInv ==
  /\ SrcuTypeOK /\ MutexInv /\ CpuInv /\ FlipInv /\ OldRankDrains /\ ActiveInv
  /\ BeforeInv /\ SumInv

=============================================================================
