------------------------------- MODULE Async -------------------------------
(***************************************************************************)
(* Asynchronous function calls: kernel/async.c.                            *)
(*                                                                         *)
(* An entry is known by its cookie.  Its worker takes it from              *)
(* async_pending to the running list of its domain, calls the function and *)
(* frees it; workers of the unbound workqueue start in any order.  The     *)
(* function may call async_synchronize_cookie_domain() with its own        *)
(* cookie, as the comment at the head of the file asks it to, so that both *)
(* the callers and the workers are contexts that can wait.                 *)
(*                                                                         *)
(* A critical section of async_lock is one step.                           *)
(***************************************************************************)
EXTENDS Integers, FiniteSets, Sequences, LinuxList

CONSTANTS Callers,    \* the tasks that schedule functions
          Syncers,    \* bound: those of them that also synchronize
          Domains,    \* the running lists
          async_running,  \* the default one
          MAX_WORK,   \* entries after which calls are made synchronously
          MaxCookie   \* bound: cookies given out

ASSUME AsyncAssumption ==
  /\ IsFiniteSet(Callers) /\ Callers \cap Nat = {}
  /\ Syncers \subseteq Callers
  /\ async_running \in Domains
  /\ MAX_WORK \in Nat /\ MaxCookie \in Nat

Cookies  == 1 .. MaxCookie
AsyncContexts == Callers \cup Cookies

VARIABLES
  next_cookie,
  async_pending,  \* list of entries, in the order of their cookies
  running,        \* the running list of each domain
  entry_count,
  async_done,     \* the contexts linked on the wait queue async_done
  dom,            \* entry->running of an entry; the list a caller passed
  cookie,         \* the cookie a caller synchronizes on, or is queueing
  asked,          \* history: next_cookie when async_synchronize_full() began
  overtaken,      \* history: domains whose entries did not start in order
  pc

asyncVars ==
  <<next_cookie, async_pending, running, entry_count, async_done, dom,
    cookie, asked, overtaken, pc>>

lists == <<next_cookie, async_pending, running, entry_count>>

(***************************************************************************)
(* Program counter.  Both: "test", "prepare", "schedule" are wait_event()  *)
(* and "synced" its end.  Entries: "none" until submitted, "pending" until *)
(* queue_work(), "queued", "func", "remove", "wake", "freed".  Callers:    *)
(* "idle", "insert" (the entry is allocated), "queue_work", "sync_func"    *)
(* (calling the function itself), "full_running" and "full_pending" (the   *)
(* two tests of async_synchronize_full()), "full_done".                    *)
(***************************************************************************)
Waiting    == {"test", "prepare", "schedule"}
InFunc     == {"func", "remove", "synced"} \cup Waiting
CallerPCs  == {"idle", "insert", "queue_work", "sync_func", "synced",
               "full_running", "full_pending", "full_done"} \cup Waiting
EntryPCs   == {"none", "pending", "queued", "wake", "freed"} \cup InFunc

goto(x, l) == pc' = [pc EXCEPT ![x] = l]

(* A function called on behalf of t returns: its locals are gone. *)
return(t) ==
  /\ goto(t, "idle")
  /\ dom' = [dom EXCEPT ![t] = async_running]
  /\ cookie' = [cookie EXCEPT ![t] = 0]
  /\ asked' = [asked EXCEPT ![t] = 0]

(* The cookie that context x synchronizes on: a function passes its own. *)
SyncCookie(x) == IF x \in Cookies THEN x ELSE cookie[x]

AsyncInit ==
  /\ next_cookie = 1 /\ async_pending = EmptyList
  /\ running = [d \in Domains |-> EmptyList]
  /\ entry_count = 0 /\ async_done = {}
  /\ dom = [x \in AsyncContexts |-> async_running]
  /\ cookie = [t \in Callers |-> 0]
  /\ asked = [t \in Callers |-> 0]
  /\ overtaken = {}
  /\ pc = [x \in AsyncContexts |-> IF x \in Callers THEN "idle" ELSE "none"]

-----------------------------------------------------------------------------
(* Mutated forms of the definitions below, one plausible slip each. *)

(* The list of pending entries is forgotten ... *)
MutLowestRunning(d) ==
  IF ~list_empty(running[d]) THEN list_first_entry(running[d]) ELSE next_cookie

(* ... or looked at first. *)
MutLowestPending(d) ==
  IF \E i \in DOMAIN async_pending : dom[async_pending[i]] = d
    THEN async_pending[CHOOSE i \in DOMAIN async_pending :
           /\ dom[async_pending[i]] = d
           /\ \A j \in 1 .. (i - 1) : dom[async_pending[j]] # d]
    ELSE IF ~list_empty(running[d]) THEN list_first_entry(running[d])
                                    ELSE next_cookie

(* The entry is linked on the running list and not unlinked before. *)
MutMoveTail(c) ==
  /\ running' = [running EXCEPT ![dom[c]] = list_add_tail(@, c)]
  /\ UNCHANGED async_pending

(* No limit on the number of entries. *)
MutTooMuchWork == FALSE

(* The waiters are not woken. *)
MutWakeUp(c) ==
  /\ pc[c] = "wake"
  /\ goto(c, "freed")
  /\ UNCHANGED <<lists, async_done, dom, cookie, asked, overtaken>>

-----------------------------------------------------------------------------
(* __lowest_in_progress(running) *)
lowest_in_progress(d) ==
  LET ofDomain == {i \in DOMAIN async_pending : dom[async_pending[i]] = d}
  IN  IF ~list_empty(running[d])
        THEN list_first_entry(running[d])
        ELSE IF ofDomain # {}
               THEN async_pending[CHOOSE i \in ofDomain :
                                    \A j \in ofDomain : i <= j]
               ELSE next_cookie

(* The limit is tested without async_lock. *)
TooMuchWork == entry_count > MAX_WORK

(* The bound: a cookie is left for every call under way and for one more. *)
CookiesLeft ==
  next_cookie + Cardinality({t \in Callers : pc[t] = "insert"}) <= MaxCookie

(* __async_schedule(): kzalloc() succeeds or fails. *)
async_schedule(t, d) ==
  /\ pc[t] = "idle" /\ CookiesLeft
  /\ \/ ~TooMuchWork /\ goto(t, "insert") /\ UNCHANGED next_cookie
     \/ goto(t, "sync_func") /\ next_cookie' = next_cookie + 1
  /\ dom' = [dom EXCEPT ![t] = d]
  /\ UNCHANGED <<async_pending, running, entry_count, async_done, cookie,
                 asked, overtaken>>

(* The function was called synchronously and returns. *)
sync_func(t) ==
  /\ pc[t] = "sync_func"
  /\ return(t)
  /\ UNCHANGED <<lists, async_done, overtaken>>

link(c) ==
  /\ async_pending' = list_add_tail(async_pending, c)
  /\ entry_count' = entry_count + 1

(* The entry gets its cookie and goes on the list of pending entries. *)
insert(t) ==
  /\ pc[t] = "insert"
  /\ next_cookie' = next_cookie + 1
  /\ link(next_cookie)
  /\ dom' = [dom EXCEPT ![next_cookie] = dom[t]]
  /\ cookie' = [cookie EXCEPT ![t] = next_cookie]
  /\ pc' = [pc EXCEPT ![t] = "queue_work", ![next_cookie] = "pending"]
  /\ UNCHANGED <<running, async_done, asked, overtaken>>

queue_work(t) ==
  /\ pc[t] = "queue_work"
  /\ pc' = [pc EXCEPT ![t] = "idle", ![cookie[t]] = "queued"]
  /\ dom' = [dom EXCEPT ![t] = async_running]
  /\ cookie' = [cookie EXCEPT ![t] = 0]
  /\ UNCHANGED <<lists, async_done, asked, overtaken>>

-----------------------------------------------------------------------------
(* async_run_entry_fn() *)

move_tail(c) ==
  /\ async_pending' = list_del(async_pending, c)
  /\ running' = [running EXCEPT ![dom[c]] = list_add_tail(@, c)]

start(c) ==
  /\ pc[c] = "queued"
  /\ move_tail(c)
  /\ overtaken' = IF \E e \in Entries(async_pending) : dom[e] = dom[c] /\ e < c
                    THEN overtaken \cup {dom[c]} ELSE overtaken
  /\ goto(c, "func")
  /\ UNCHANGED <<next_cookie, entry_count, async_done, dom, cookie, asked>>

(* The function synchronizes on its own cookie before it goes on ... *)
func_synchronizes(c) ==
  /\ pc[c] = "func"
  /\ goto(c, "test")
  /\ UNCHANGED <<lists, async_done, dom, cookie, asked, overtaken>>

(* ... or does without, and returns. *)
func_returns(c) ==
  /\ pc[c] \in {"func", "synced"}
  /\ goto(c, "remove")
  /\ UNCHANGED <<lists, async_done, dom, cookie, asked, overtaken>>

(* list_del(), kfree() and the count. *)
remove(c) ==
  /\ pc[c] = "remove"
  /\ running' = [running EXCEPT ![dom[c]] = list_del(@, c)]
  /\ entry_count' = entry_count - 1
  /\ dom' = [dom EXCEPT ![c] = async_running]
  /\ goto(c, "wake")
  /\ UNCHANGED <<next_cookie, async_pending, async_done, cookie, asked, overtaken>>

(* wake_up(&async_done): every waiter is woken and unlinked. *)
wake_up(c) ==
  /\ pc[c] = "wake"
  /\ async_done' = {}
  /\ goto(c, "freed")
  /\ UNCHANGED <<lists, dom, cookie, asked, overtaken>>

-----------------------------------------------------------------------------
(* async_synchronize_cookie_domain() *)

async_synchronize_cookie_domain(t, c, d) ==
  /\ pc[t] = "idle"
  /\ cookie' = [cookie EXCEPT ![t] = c]
  /\ dom' = [dom EXCEPT ![t] = d]
  /\ goto(t, "test")
  /\ UNCHANGED <<lists, async_done, asked, overtaken>>

(* async_synchronize_full() reads next_cookie without async_lock. *)
async_synchronize_full(t) ==
  /\ pc[t] = "idle"
  /\ cookie' = [cookie EXCEPT ![t] = next_cookie]
  /\ dom' = [dom EXCEPT ![t] = async_running]
  /\ asked' = [asked EXCEPT ![t] = next_cookie]
  /\ goto(t, "test")
  /\ UNCHANGED <<lists, async_done, overtaken>>

(* wait_event(): test, and if that fails link, test again and sleep. *)
test(x) ==
  /\ pc[x] = "test"
  /\ \/ /\ lowest_in_progress(dom[x]) >= SyncCookie(x)
        /\ async_done' = async_done \ {x}
        /\ goto(x, "synced")
     \/ /\ lowest_in_progress(dom[x]) < SyncCookie(x)
        /\ goto(x, IF x \in async_done THEN "schedule" ELSE "prepare")
        /\ UNCHANGED async_done
  /\ UNCHANGED <<lists, dom, cookie, asked, overtaken>>

prepare_to_wait(x) ==
  /\ pc[x] = "prepare"
  /\ async_done' = async_done \cup {x}
  /\ goto(x, "test")
  /\ UNCHANGED <<lists, dom, cookie, asked, overtaken>>

schedule(x) ==
  /\ pc[x] = "schedule" /\ x \notin async_done
  /\ goto(x, "prepare")
  /\ UNCHANGED <<lists, async_done, dom, cookie, asked, overtaken>>

(* A wake-up meant for something else. *)
spurious_wakeup(x) ==
  /\ pc[x] = "schedule" /\ x \in async_done
  /\ goto(x, "prepare")
  /\ UNCHANGED <<lists, async_done, dom, cookie, asked, overtaken>>

sync_return(t) ==
  /\ pc[t] = "synced"
  /\ \/ asked[t] = 0 /\ return(t)
     \/ asked[t] # 0 /\ goto(t, "full_running") /\ UNCHANGED <<dom, cookie, asked>>
  /\ UNCHANGED <<lists, async_done, overtaken>>

(* The loop of async_synchronize_full() goes round again. *)
again(t) ==
  /\ cookie' = [cookie EXCEPT ![t] = next_cookie]
  /\ goto(t, "test")

full_running(t) ==
  /\ pc[t] = "full_running"
  /\ \/ ~list_empty(running[async_running]) /\ again(t)
     \/ /\ list_empty(running[async_running])
        /\ goto(t, "full_pending")
        /\ UNCHANGED cookie
  /\ UNCHANGED <<lists, async_done, dom, asked, overtaken>>

full_pending(t) ==
  /\ pc[t] = "full_pending"
  /\ \/ ~list_empty(async_pending) /\ again(t)
     \/ list_empty(async_pending) /\ goto(t, "full_done") /\ UNCHANGED cookie
  /\ UNCHANGED <<lists, async_done, dom, asked, overtaken>>

full_return(t) ==
  /\ pc[t] = "full_done"
  /\ return(t)
  /\ UNCHANGED <<lists, async_done, overtaken>>

-----------------------------------------------------------------------------
WaitEvent(x) == test(x) \/ prepare_to_wait(x) \/ schedule(x)

Worker(c) ==
  \/ start(c) \/ func_synchronizes(c) \/ func_returns(c)
  \/ remove(c) \/ wake_up(c) \/ WaitEvent(c)

Proceed(t) ==
  \/ sync_func(t) \/ insert(t) \/ queue_work(t) \/ WaitEvent(t)
  \/ sync_return(t) \/ full_running(t) \/ full_pending(t) \/ full_return(t)

AsyncNext ==
  \/ \E c \in Cookies : Worker(c)
  \/ \E x \in AsyncContexts : spurious_wakeup(x)
  \/ \E t \in Callers :
       \/ Proceed(t)
       \/ \E d \in Domains : async_schedule(t, d)
  \/ \E t \in Syncers :
       \/ \E d \in Domains, c \in 1 .. next_cookie :
            async_synchronize_cookie_domain(t, c, d)
       \/ async_synchronize_full(t)

AsyncSpec == AsyncInit /\ [][AsyncNext]_asyncVars

(* The workqueue runs every work item, functions return, tasks run. *)
AsyncFairness ==
  /\ \A c \in Cookies : WF_asyncVars(Worker(c))
  /\ \A t \in Callers : WF_asyncVars(Proceed(t))

AsyncFairSpec == AsyncSpec /\ AsyncFairness

-----------------------------------------------------------------------------
AsyncTypeOK ==
  /\ next_cookie \in 1 .. (MaxCookie + 1)
  /\ async_pending \in Seq(Cookies)
  /\ running \in [Domains -> Seq(Cookies)]
  /\ entry_count \in Nat
  /\ async_done \subseteq AsyncContexts
  /\ dom \in [AsyncContexts -> Domains]
  /\ cookie \in [Callers -> 0 .. (MaxCookie + 1)]
  /\ asked \in [Callers -> 0 .. (MaxCookie + 1)]
  /\ overtaken \subseteq Domains
  /\ pc \in [AsyncContexts -> CallerPCs \cup EntryPCs]
  /\ \A t \in Callers : pc[t] \in CallerPCs
  /\ \A c \in Cookies : pc[c] \in EntryPCs

(* An entry is on exactly one list, that of its stage and domain, until it *)
(* is freed and then on none (a freed entry that stays linked would be     *)
(* used again), and entry_count is their number.                           *)
ListsExact ==
  /\ IsList(async_pending) /\ \A d \in Domains : IsList(running[d])
  /\ \A c \in Cookies :
       /\ c \in Entries(async_pending) <=> pc[c] \in {"pending", "queued"}
       /\ \A d \in Domains :
            c \in Entries(running[d]) <=> pc[c] \in InFunc /\ dom[c] = d
  /\ entry_count =
       Cardinality({c \in Cookies : pc[c] \in {"pending", "queued"} \cup InFunc})

(* The limit, which every caller tests before it takes async_lock, is      *)
(* overrun by no more than one entry for each caller.                      *)
EntryCountBound == entry_count <= MAX_WORK + Cardinality(Callers)

(* Entry c was submitted for execution and its function has not returned. *)
Unfinished(c) == pc[c] \in {"pending", "queued"} \cup InFunc

(* Where async_synchronize_cookie_domain() returns to x. *)
Synced(x) == pc[x] = "synced"

(* As long as the entries of a domain were started in the order in which   *)
(* they were submitted, synchronizing on a cookie waits for all entries of *)
(* the domain before it, even if they finish in any order.                 *)
SyncInOrder ==
  \A x \in AsyncContexts :
    Synced(x) /\ dom[x] \notin overtaken =>
      \A c \in Cookies : dom[c] = dom[x] /\ c < SyncCookie(x) => ~Unfinished(c)

(* In whatever order entries start: if a task synchronizes on the next     *)
(* cookie and nothing was submitted until that returns, its domain is idle.*)
SyncQuiescent ==
  \A x \in AsyncContexts :
    Synced(x) /\ SyncCookie(x) = next_cookie =>
      \A c \in Cookies : dom[c] = dom[x] => ~Unfinished(c)

(* Every synchronization comes to an end, also those that functions call   *)
(* on their own cookie: nobody waits in a circle and no wake-up is lost.   *)
SyncReturns ==
  \A x \in AsyncContexts : pc[x] \in Waiting ~> pc[x] \notin Waiting

-----------------------------------------------------------------------------
(* What the comment of async_synchronize_full() promises without any       *)
(* condition: it "waits until all asynchronous function calls have been    *)
(* done", at least those submitted before it was called.  For this to fail *)
(* its wait has to end before an earlier entry of the domain has run, the  *)
(* case that SyncInOrder excludes, and its two tests to miss that entry.   *)
FullWaitsForAll ==
  \A t \in Callers :
    pc[t] = "full_done" => \A c \in Cookies : c < asked[t] => ~Unfinished(c)

-----------------------------------------------------------------------------
(***************************************************************************)
(* The inductive invariant behind the safety properties.                   *)
(***************************************************************************)

(* The callers that have passed the test of the limit and have no cookie.  *)
Inserting == {t \in Callers : pc[t] = "insert"}

(* A cookie is left for each of them; none was given out twice and nobody  *)
(* synchronizes on one that will be given out after the next.              *)
CookieInv ==
  /\ next_cookie + Cardinality(Inserting) <= MaxCookie + 1
  /\ \A c \in Cookies : c >= next_cookie => pc[c] = "none"
  /\ \A t \in Callers : cookie[t] <= next_cookie

(* Each entry that waits for queue_work() has one caller that will call it.*)
QueueWorkInv ==
  \A t \in Callers : pc[t] = "queue_work" =>
    /\ cookie[t] \in Cookies /\ pc[cookie[t]] = "pending"
    /\ \A u \in Callers : pc[u] = "queue_work" /\ cookie[u] = cookie[t] => u = t

(* EntryCountBound, with the entries that are about to be linked. *)
LimitInv == entry_count + Cardinality(Inserting) <= MAX_WORK + Cardinality(Callers)

Sorted(q) == \A i, j \in DOMAIN q : i < j => q[i] < q[j]

(* Entries are pending in the order of their cookies; in a domain that was *)
(* not overtaken so are those that run, and they are before the pending.   *)
OrderInv ==
  /\ Sorted(async_pending)
  /\ \A d \in Domains \ overtaken :
       /\ Sorted(running[d])
       /\ \A e \in Entries(running[d]), p \in Entries(async_pending) :
            dom[p] = d => e < p

AsyncInv ==
  /\ AsyncTypeOK /\ CookieInv /\ QueueWorkInv /\ ListsExact /\ LimitInv /\ OrderInv
  /\ SyncInOrder /\ SyncQuiescent

=============================================================================
