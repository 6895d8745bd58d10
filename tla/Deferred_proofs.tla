-------------------------- MODULE Deferred_proofs --------------------------
(***************************************************************************)
(* Safety of asynchronous calls, sleepable RCU and irq_work, for any       *)
(* number of tasks, CPUs, entries and cookies.  Each of the three hands    *)
(* something over to a context that takes it later: the proofs are in one  *)
(* module because they share the facts about lists, least numbers and      *)
(* per-CPU data, and each part below is about one component alone.         *)
(*                                                                         *)
(* AsyncInv, SrcuInv (in their modules) and IrqInv (here) are inductive.   *)
(***************************************************************************)
EXTENDS Async, Srcu, IrqWork, LinuxList_proofs, FiniteSetTheorems,
        WellFoundedInduction, TLAPS

(* CHOOSE finds the least of some numbers. *)
LEMMA LeastOf ==
  ASSUME NEW P \in SUBSET Nat, P # {}
  PROVE  LET i == CHOOSE i \in P : \A j \in P : i <= j
         IN  i \in P /\ \A j \in P : i <= j
<1> DEFINE R == {p \in Nat \X Nat : p[1] < p[2]}
<1>1. IsWellFoundedOn(R, Nat)
  BY NatLessThanWellFounded DEF OpToRel
<1>2. PICK i \in P : \A j \in P : ~(<<j, i>> \in R)
  BY <1>1, WFMin
<1>3. ASSUME NEW j \in P PROVE i <= j
  <2>1. i \in Nat /\ j \in Nat /\ <<j, i>> \in Nat \X Nat
    OBVIOUS
  <2>2. ~(<<j, i>>[1] < <<j, i>>[2])
    BY <1>2, <2>1
  <2> QED
    BY <2>1, <2>2
<1> QED
  BY <1>3

-----------------------------------------------------------------------------
(***************************************************************************)
(* Asynchronous calls, for any number of callers, domains and cookies and  *)
(* any limit.  Five steps touch the lists or next_cookie.  All the others  *)
(* are "quiet": one context goes on, and only the step from "test" to      *)
(* "synced" has anything to show.                                          *)
(***************************************************************************)

(* Lists in the order of their cookies. *)

(* An entry that is later than all others goes to the end. *)
LEMMA SortedAddTail ==
  ASSUME NEW q \in Seq(Nat), NEW e \in Nat, Sorted(q), \A f \in Entries(q) : f < e
  PROVE  Sorted(list_add_tail(q, e))
<1> DEFINE r == list_add_tail(q, e)
<1>1. /\ DOMAIN q = 1 .. Len(q) /\ DOMAIN r = 1 .. (Len(q) + 1) /\ Len(q) \in Nat
      /\ \A i \in 1 .. Len(q) : r[i] = q[i]
      /\ r[Len(q) + 1] = e
  BY DEF list_add_tail
<1>2. \A i \in 1 .. Len(q) : q[i] < e
  BY <1>1 DEF Entries
<1> SUFFICES ASSUME NEW i \in DOMAIN r, NEW j \in DOMAIN r, i < j
             PROVE  r[i] < r[j]
  BY DEF Sorted
<1>3. CASE j = Len(q) + 1
  BY <1>1, <1>2, <1>3
<1>4. CASE j # Len(q) + 1
  BY <1>1, <1>4 DEF Sorted
<1> QED
  BY <1>3, <1>4

(* To take an entry out does not disturb the order of the others. *)
LEMMA SortedDel ==
  ASSUME NEW q \in Seq(Nat), NEW e \in Entries(q), Sorted(q)
  PROVE  Sorted(list_del(q, e))
<1> DEFINE k == CHOOSE m \in DOMAIN q : q[m] = e
           r == list_del(q, e)
<1>1. k \in DOMAIN q
  BY DEF Entries
<1>2. /\ DOMAIN q = 1 .. Len(q) /\ DOMAIN r = 1 .. (Len(q) - 1) /\ Len(q) \in Nat
      /\ \A j \in DOMAIN r : r[j] = IF j < k THEN q[j] ELSE q[j + 1]
  BY DEF list_del
<1> HIDE DEF k, r
<1> SUFFICES ASSUME NEW i \in DOMAIN r, NEW j \in DOMAIN r, i < j
             PROVE  r[i] < r[j]
  BY DEF Sorted, r
<1>3. /\ i \in Nat /\ j \in Nat /\ k \in Nat
      /\ i \in DOMAIN q /\ j \in DOMAIN q /\ i + 1 \in DOMAIN q /\ j + 1 \in DOMAIN q
  BY <1>1, <1>2
<1>4. q[i] \in Nat /\ q[j] \in Nat /\ q[i + 1] \in Nat /\ q[j + 1] \in Nat
  BY <1>2, <1>3
<1>5. CASE j < k
  BY <1>2, <1>3, <1>5 DEF Sorted
<1>6. CASE ~(j < k) /\ i < k
  BY <1>2, <1>3, <1>6 DEF Sorted
<1>7. CASE ~(j < k) /\ ~(i < k)
  BY <1>2, <1>3, <1>7 DEF Sorted
<1> QED
  BY <1>5, <1>6, <1>7

(* The first of the entries in order is the least. *)
LEMMA SortedFirst ==
  ASSUME NEW q \in Seq(Nat), Sorted(q), NEW e \in Entries(q)
  PROVE  list_first_entry(q) <= e
<1>1. PICK i \in DOMAIN q : q[i] = e
  BY DEF Entries
<1>2. 1 \in DOMAIN q /\ q[1] \in Nat /\ q[i] \in Nat /\ i \in Nat /\ i >= 1
  <2>1. DOMAIN q = 1 .. Len(q) /\ Len(q) \in Nat
    OBVIOUS
  <2> QED
    BY <1>1, <2>1
<1>3. CASE i = 1
  BY <1>1, <1>2, <1>3 DEF list_first_entry
<1>4. CASE 1 < i
  BY <1>1, <1>2, <1>4 DEF list_first_entry, Sorted
<1> QED
  BY <1>2, <1>3, <1>4

-----------------------------------------------------------------------------
(* A step of one context that leaves the lists and the cookies alone. *)
Quiet(x, l) ==
  /\ UNCHANGED <<next_cookie, async_pending, running, entry_count, overtaken>>
  /\ pc' = [pc EXCEPT ![x] = l]
  /\ async_done' \subseteq AsyncContexts
  /\ \/ /\ x \in Callers
        /\ pc[x] \notin {"insert", "queue_work"}
        /\ l \in CallerPCs \ {"insert", "queue_work"}
        /\ dom' \in [AsyncContexts -> Domains] /\ \A y \in AsyncContexts \ {x} : dom'[y] = dom[y]
        /\ cookie' \in [Callers -> 0 .. (MaxCookie + 1)]
        /\ \A t \in Callers \ {x} : cookie'[t] = cookie[t]
        /\ cookie'[x] <= next_cookie
        /\ asked' \in [Callers -> 0 .. (MaxCookie + 1)]
     \/ /\ x \in Cookies
        /\ \/ pc[x] \in InFunc /\ l \in InFunc
           \/ pc[x] = "wake" /\ l = "freed"
        /\ UNCHANGED <<dom, cookie, asked>>
  /\ l = "synced" =>
       UNCHANGED <<dom, cookie>> /\ lowest_in_progress(dom[x]) >= SyncCookie(x)

(* A context is a caller or an entry. *)
LEMMA Kinds == AsyncContexts = Callers \cup Cookies /\ Callers \cap Cookies = {}
BY AsyncAssumption DEF AsyncContexts, Cookies

(* Lists of cookies are lists of numbers. *)
LEMMA CookieLists ==
  ASSUME NEW q \in Seq(Cookies)
  PROVE  q \in Seq(Nat)
<1>1. Cookies \subseteq Nat
  BY AsyncAssumption DEF Cookies
<1>2. q \in [1 .. Len(q) -> Cookies] /\ Len(q) \in Nat
  OBVIOUS
<1>3. q \in [1 .. Len(q) -> Nat]
  BY <1>1, <1>2
<1> QED
  BY <1>2, <1>3

(* The ranges of the cookies, as arithmetic facts. *)
LEMMA Numbers ==
  ASSUME AsyncTypeOK
  PROVE  /\ next_cookie \in Nat /\ next_cookie >= 1 /\ next_cookie \in 0 .. (MaxCookie + 1)
         /\ MaxCookie \in Nat /\ 0 \in 0 .. (MaxCookie + 1) /\ async_running \in Domains
         /\ \A c \in 1 .. next_cookie : c \in 0 .. (MaxCookie + 1) /\ c <= next_cookie
BY AsyncAssumption DEF AsyncTypeOK

(* What functions, worker and synchronization do outside async_lock. *)
LEMMA QuietWorker ==
  ASSUME AsyncTypeOK, CookieInv, NEW c \in Cookies,
         func_synchronizes(c) \/ func_returns(c) \/ wake_up(c)
  PROVE  \E l : Quiet(c, l)
<1>1. c \in AsyncContexts /\ c \notin Callers /\ async_done \subseteq AsyncContexts
  BY Kinds DEF AsyncTypeOK
<1>2. CASE func_synchronizes(c)
  <2>1. Quiet(c, "test")
    BY <1>1, <1>2 DEF Quiet, func_synchronizes, goto, lists, InFunc, Waiting
  <2> QED
    BY <2>1
<1>3. CASE func_returns(c)
  <2>1. Quiet(c, "remove")
    BY <1>1, <1>3 DEF Quiet, func_returns, goto, lists, InFunc, Waiting
  <2> QED
    BY <2>1
<1>4. CASE wake_up(c)
  <2>1. Quiet(c, "freed")
    BY <1>1, <1>4 DEF Quiet, wake_up, goto, lists, InFunc, Waiting
  <2> QED
    BY <2>1
<1> QED
  BY <1>2, <1>3, <1>4

(* A look at the wait condition and a spurious wake-up move one place only. *)
LEMMA QuietWait ==
  ASSUME AsyncTypeOK, CookieInv, NEW x \in AsyncContexts, WaitEvent(x) \/ spurious_wakeup(x)
  PROVE  \E l : Quiet(x, l)
<1>1. async_done \subseteq AsyncContexts /\ dom \in [AsyncContexts -> Domains]
      /\ cookie \in [Callers -> 0 .. (MaxCookie + 1)]
      /\ asked \in [Callers -> 0 .. (MaxCookie + 1)]
  BY DEF AsyncTypeOK
<1>2. x \in Callers => cookie[x] <= next_cookie
  BY DEF CookieInv
<1>3. ASSUME NEW l \in Waiting \cup {"synced"}, pc[x] \in Waiting,
             pc' = [pc EXCEPT ![x] = l],
             UNCHANGED <<lists, dom, cookie, asked, overtaken>>,
             async_done' \subseteq AsyncContexts,
             l = "synced" => lowest_in_progress(dom[x]) >= SyncCookie(x)
      PROVE  Quiet(x, l)
  <2>1. CASE x \in Callers
    BY <1>1, <1>2, <1>3, <2>1 DEF Quiet, CallerPCs, lists, Waiting
  <2>2. CASE x \in Cookies
    BY <1>1, <1>3, <2>2 DEF Quiet, lists, InFunc, Waiting
  <2> QED
    BY <2>1, <2>2, Kinds
<1>4. CASE prepare_to_wait(x)
  <2>1. Quiet(x, "test")
    BY <1>1, <1>3, <1>4 DEF prepare_to_wait, goto, Waiting
  <2> QED
    BY <2>1
<1>5. CASE schedule(x) \/ spurious_wakeup(x)
  <2>1. Quiet(x, "prepare")
    BY <1>1, <1>3, <1>5 DEF schedule, spurious_wakeup, goto, Waiting
  <2> QED
    BY <2>1
<1>6. CASE test(x)
  <2>1. CASE lowest_in_progress(dom[x]) >= SyncCookie(x) /\ async_done' = async_done \ {x}
             /\ goto(x, "synced")
    <3>1. Quiet(x, "synced")
      BY <1>1, <1>3, <1>6, <2>1 DEF test, goto, Waiting
    <3> QED
      BY <3>1
  <2>2. CASE UNCHANGED async_done
             /\ goto(x, IF x \in async_done THEN "schedule" ELSE "prepare")
    <3>1. PICK l \in {"schedule", "prepare"} : goto(x, l)
      BY <2>2
    <3>2. Quiet(x, l)
      BY <1>1, <1>3, <1>6, <2>2, <3>1 DEF test, goto, Waiting
    <3> QED
      BY <3>2
  <2> QED
    BY <1>6, <2>1, <2>2 DEF test
<1> QED
  BY <1>4, <1>5, <1>6 DEF WaitEvent

(* What a caller does between two calls of the functions above. *)
LEMMA QuietCaller ==
  ASSUME AsyncTypeOK, CookieInv, NEW t \in Callers,
         \/ sync_func(t) \/ sync_return(t)
         \/ full_running(t) \/ full_pending(t) \/ full_return(t)
         \/ async_synchronize_full(t)
         \/ \E d \in Domains, c \in 1 .. next_cookie :
              async_synchronize_cookie_domain(t, c, d)
  PROVE  \E l : Quiet(t, l)
<1>1. /\ async_done \subseteq AsyncContexts /\ dom \in [AsyncContexts -> Domains]
      /\ cookie \in [Callers -> 0 .. (MaxCookie + 1)]
      /\ asked \in [Callers -> 0 .. (MaxCookie + 1)]
  BY DEF AsyncTypeOK
<1>2. t \in AsyncContexts /\ t \notin Cookies /\ cookie[t] <= next_cookie
  BY Kinds DEF CookieInv
<1>3. ASSUME NEW l \in {"idle", "test", "full_running", "full_pending", "full_done"},
             pc[t] \notin {"insert", "queue_work"},
             pc' = [pc EXCEPT ![t] = l],
             UNCHANGED <<lists, async_done, overtaken>>,
             NEW d \in Domains, dom' = [dom EXCEPT ![t] = d],
             NEW c \in 0 .. (MaxCookie + 1), c <= next_cookie,
             cookie' = [cookie EXCEPT ![t] = c],
             NEW a \in 0 .. (MaxCookie + 1), asked' = [asked EXCEPT ![t] = a]
      PROVE  Quiet(t, l)
  BY <1>1, <1>2, <1>3 DEF Quiet, CallerPCs, lists, Waiting
<1>4. /\ dom = [dom EXCEPT ![t] = dom[t]] /\ dom[t] \in Domains
      /\ cookie = [cookie EXCEPT ![t] = cookie[t]] /\ cookie[t] \in 0 .. (MaxCookie + 1)
      /\ asked = [asked EXCEPT ![t] = asked[t]] /\ asked[t] \in 0 .. (MaxCookie + 1)
  BY <1>1, <1>2
<1>5. ASSUME pc[t] \notin {"insert", "queue_work"}, return(t),
             UNCHANGED <<lists, async_done, overtaken>>
      PROVE  Quiet(t, "idle")
  <2>1. /\ async_running \in Domains /\ 0 \in 0 .. (MaxCookie + 1)
        /\ 0 <= next_cookie
    BY Numbers
  <2>2. /\ pc' = [pc EXCEPT ![t] = "idle"]
        /\ dom' = [dom EXCEPT ![t] = async_running]
        /\ cookie' = [cookie EXCEPT ![t] = 0] /\ asked' = [asked EXCEPT ![t] = 0]
    BY <1>5 DEF return, goto
  <2> QED
    BY <1>3, <1>5, <2>1, <2>2
<1>6. ASSUME pc[t] \notin {"insert", "queue_work"}, again(t),
             UNCHANGED <<lists, async_done, dom, asked, overtaken>>
      PROVE  Quiet(t, "test")
  <2>1. next_cookie \in 0 .. (MaxCookie + 1) /\ next_cookie <= next_cookie
    BY Numbers
  <2>2. /\ pc' = [pc EXCEPT ![t] = "test"] /\ cookie' = [cookie EXCEPT ![t] = next_cookie]
        /\ dom' = [dom EXCEPT ![t] = dom[t]] /\ asked' = [asked EXCEPT ![t] = asked[t]]
    BY <1>4, <1>6 DEF again, goto
  <2> QED
    BY <1>3, <1>4, <1>6, <2>1, <2>2
<1>7. ASSUME NEW l \in {"full_running", "full_pending", "full_done"},
             pc[t] \notin {"insert", "queue_work"}, goto(t, l),
             UNCHANGED <<lists, async_done, dom, cookie, asked, overtaken>>
      PROVE  Quiet(t, l)
  BY <1>2, <1>3, <1>4, <1>7 DEF goto
<1>8. CASE sync_func(t) \/ full_return(t)
  BY <1>5, <1>8 DEF sync_func, full_return
<1>9. CASE sync_return(t)
  <2>1. CASE return(t)
    BY <1>5, <1>9, <2>1 DEF sync_return
  <2>2. CASE goto(t, "full_running") /\ UNCHANGED <<dom, cookie, asked>>
    BY <1>7, <1>9, <2>2 DEF sync_return
  <2> QED
    BY <1>9, <2>1, <2>2 DEF sync_return
<1>10. CASE full_running(t)
  <2>1. CASE again(t)
    BY <1>6, <1>10, <2>1 DEF full_running
  <2>2. CASE goto(t, "full_pending") /\ UNCHANGED cookie
    BY <1>7, <1>10, <2>2 DEF full_running
  <2> QED
    BY <1>10, <2>1, <2>2 DEF full_running
<1>11. CASE full_pending(t)
  <2>1. CASE again(t)
    BY <1>6, <1>11, <2>1 DEF full_pending
  <2>2. CASE goto(t, "full_done") /\ UNCHANGED cookie
    BY <1>7, <1>11, <2>2 DEF full_pending
  <2> QED
    BY <1>11, <2>1, <2>2 DEF full_pending
<1>12. CASE async_synchronize_full(t)
  <2>1. /\ next_cookie \in 0 .. (MaxCookie + 1) /\ next_cookie <= next_cookie
        /\ async_running \in Domains
    BY Numbers
  <2>2. /\ pc[t] = "idle" /\ pc' = [pc EXCEPT ![t] = "test"]
        /\ dom' = [dom EXCEPT ![t] = async_running]
        /\ cookie' = [cookie EXCEPT ![t] = next_cookie]
        /\ asked' = [asked EXCEPT ![t] = next_cookie]
        /\ UNCHANGED <<lists, async_done, overtaken>>
    BY <1>12 DEF async_synchronize_full, goto
  <2>3. Quiet(t, "test")
    BY <1>3, <2>1, <2>2
  <2> QED
    BY <2>3
<1>13. CASE \E d \in Domains, c \in 1 .. next_cookie : async_synchronize_cookie_domain(t, c, d)
  <2>1. PICK d \in Domains, c \in 1 .. next_cookie : async_synchronize_cookie_domain(t, c, d)
    BY <1>13
  <2>2. c \in 0 .. (MaxCookie + 1) /\ c <= next_cookie
    BY Numbers
  <2>3. /\ pc[t] = "idle" /\ pc' = [pc EXCEPT ![t] = "test"]
        /\ dom' = [dom EXCEPT ![t] = d] /\ cookie' = [cookie EXCEPT ![t] = c]
        /\ asked' = [asked EXCEPT ![t] = asked[t]]
        /\ UNCHANGED <<lists, async_done, overtaken>>
    BY <1>4, <2>1 DEF async_synchronize_cookie_domain, goto
  <2>4. Quiet(t, "test")
    BY <1>3, <1>4, <2>2, <2>3
  <2> QED
    BY <2>4
<1> QED
  BY <1>8, <1>9, <1>10, <1>11, <1>12, <1>13

(* Every other step has one of five names. *)
LEMMA StepCases ==
  ASSUME AsyncTypeOK, CookieInv, AsyncNext
  PROVE  \/ \E x \in AsyncContexts : \E l : Quiet(x, l)
         \/ \E c \in Cookies : start(c) \/ remove(c)
         \/ \E t \in Callers : \/ insert(t) \/ queue_work(t)
                               \/ \E d \in Domains : async_schedule(t, d)
<1> Syncers \subseteq Callers
  BY AsyncAssumption
<1>1. CASE \E c \in Cookies : Worker(c)
  BY <1>1, QuietWorker, QuietWait, Kinds DEF Worker
<1>2. CASE \E x \in AsyncContexts : spurious_wakeup(x)
  BY <1>2, QuietWait
<1>3. CASE \E t \in Callers : Proceed(t) \/ \E d \in Domains : async_schedule(t, d)
  BY <1>3, QuietCaller, QuietWait, Kinds DEF Proceed
<1>4. CASE \E t \in Syncers :
             \/ \E d \in Domains, c \in 1 .. next_cookie :
                  async_synchronize_cookie_domain(t, c, d)
             \/ async_synchronize_full(t)
  BY <1>4, QuietCaller, Kinds
<1> QED
  BY <1>1, <1>2, <1>3, <1>4 DEF AsyncNext

-----------------------------------------------------------------------------
(* The cookie that lowest_in_progress() returns. *)

(* It is below next_cookie unless the domain is idle. *)
LEMMA LowestIdle ==
  ASSUME AsyncTypeOK, CookieInv, ListsExact, NEW d \in Domains,
         lowest_in_progress(d) >= next_cookie
  PROVE  \A c \in Cookies : dom[c] = d => ~Unfinished(c)
<1> DEFINE P == {i \in DOMAIN async_pending : dom[async_pending[i]] = d}
<1>1. /\ next_cookie \in Nat /\ async_pending \in Seq(Cookies) /\ running[d] \in Seq(Cookies)
      /\ Cookies \subseteq Nat
  BY Numbers DEF AsyncTypeOK, Cookies
<1>2. ASSUME NEW c \in Cookies, Unfinished(c) PROVE ~(c >= next_cookie)
  BY <1>1, <1>2 DEF CookieInv, Unfinished, InFunc, Waiting
<1>3. list_empty(running[d])
  <2> SUFFICES ASSUME ~list_empty(running[d]) PROVE FALSE
    OBVIOUS
  <2>1. list_first_entry(running[d]) \in Entries(running[d])
        /\ list_first_entry(running[d]) \in Cookies
    BY <1>1, HeadIsEntry
  <2>2. Unfinished(list_first_entry(running[d]))
    BY <2>1 DEF ListsExact, Unfinished
  <2>3. lowest_in_progress(d) = list_first_entry(running[d])
    BY DEF lowest_in_progress
  <2> QED
    BY <1>1, <1>2, <2>1, <2>2, <2>3
<1>4. P = {}
  <2> SUFFICES ASSUME P # {} PROVE FALSE
    OBVIOUS
  <2> DEFINE i == CHOOSE i \in P : \A j \in P : i <= j
  <2>1. lowest_in_progress(d) = async_pending[i]
    BY <1>3 DEF lowest_in_progress
  <2>2. i \in P
    <3>1. P \subseteq Nat
      BY <1>1
    <3> QED
      BY <3>1, LeastOf
  <2> HIDE DEF i
  <2>3. async_pending[i] \in Cookies /\ async_pending[i] \in Entries(async_pending)
    BY <1>1, <2>2 DEF Entries
  <2>4. Unfinished(async_pending[i])
    BY <2>3 DEF ListsExact, Unfinished
  <2> QED
    BY <1>1, <1>2, <2>1, <2>3, <2>4
<1> SUFFICES ASSUME NEW c \in Cookies, dom[c] = d, Unfinished(c) PROVE FALSE
  OBVIOUS
<1>5. c \in Entries(async_pending) \/ c \in Entries(running[d])
  BY DEF ListsExact, Unfinished
<1>6. c \notin Entries(running[d])
  BY <1>1, <1>3, EmptyEntries
<1>7. c \notin Entries(async_pending)
  BY <1>4 DEF Entries
<1> QED
  BY <1>5, <1>6, <1>7

(* In a domain that was not overtaken no entry is before it. *)
LEMMA LowestFirst ==
  ASSUME AsyncTypeOK, ListsExact, OrderInv, NEW d \in Domains \ overtaken,
         NEW c \in Cookies, dom[c] = d, Unfinished(c)
  PROVE  lowest_in_progress(d) <= c /\ lowest_in_progress(d) \in Nat
<1> DEFINE P == {i \in DOMAIN async_pending : dom[async_pending[i]] = d}
<1>1. /\ async_pending \in Seq(Cookies) /\ running[d] \in Seq(Cookies)
      /\ Cookies \subseteq Nat /\ async_pending \in Seq(Nat) /\ running[d] \in Seq(Nat)
  BY Numbers DEF AsyncTypeOK, Cookies
<1>2. c \in Entries(async_pending) \/ c \in Entries(running[d])
  BY DEF ListsExact, Unfinished
<1>3. CASE ~list_empty(running[d])
  <2>1. PICK e \in Cookies : e = list_first_entry(running[d]) /\ e \in Entries(running[d])
    BY <1>1, <1>3, HeadIsEntry
  <2>2. lowest_in_progress(d) = e
    BY <1>3, <2>1 DEF lowest_in_progress
  <2>3. CASE c \in Entries(running[d])
    <3>1. Sorted(running[d])
      BY DEF OrderInv
    <3>2. e <= c
      BY <1>1, <2>1, <2>3, <3>1, SortedFirst
    <3> QED
      BY <1>1, <2>2, <3>2
  <2>4. CASE c \in Entries(async_pending)
    <3>1. e < c
      BY <2>1, <2>4 DEF OrderInv
    <3> QED
      BY <1>1, <2>2, <3>1
  <2> QED
    BY <1>2, <2>3, <2>4
<1>4. CASE list_empty(running[d])
  <2>1. c \in Entries(async_pending)
    BY <1>1, <1>2, <1>4, EmptyEntries
  <2>2. PICK k \in P : async_pending[k] = c
    BY <2>1 DEF Entries
  <2> DEFINE i == CHOOSE i \in P : \A j \in P : i <= j
  <2>3. lowest_in_progress(d) = async_pending[i]
    BY <1>4, <2>2 DEF lowest_in_progress
  <2>4. i \in P /\ i <= k
    <3>1. P \subseteq Nat
      BY <1>1
    <3> QED
      BY <2>2, <3>1, LeastOf
  <2> HIDE DEF i
  <2>5. async_pending[i] \in Nat /\ i \in Nat /\ k \in Nat
    BY <1>1, <2>2, <2>4
  <2>6. i < k => async_pending[i] < async_pending[k]
    BY <2>2, <2>4 DEF OrderInv, Sorted
  <2> QED
    BY <1>1, <2>2, <2>3, <2>4, <2>5, <2>6
<1> QED
  BY <1>3, <1>4

-----------------------------------------------------------------------------
(* Quiet steps. *)

(* The parts of TypeOK ... *)
PcType ==
  /\ pc \in [AsyncContexts -> CallerPCs \cup EntryPCs]
  /\ \A t \in Callers : pc[t] \in CallerPCs
  /\ \A c \in Cookies : pc[c] \in EntryPCs

(* ... of which this one is kept if the right label is set. *)
LEMMA GotoType ==
  ASSUME PcType, NEW x \in AsyncContexts, NEW l,
         x \in Callers => l \in CallerPCs, x \in Cookies => l \in EntryPCs,
         pc' = [pc EXCEPT ![x] = l]
  PROVE  /\ PcType' /\ pc'[x] = l
         /\ \A y \in AsyncContexts \ {x} : pc'[y] = pc[y]
<1>1. l \in CallerPCs \cup EntryPCs
  BY Kinds
<1>2. pc' \in [AsyncContexts -> CallerPCs \cup EntryPCs]
  BY <1>1 DEF PcType
<1>3. pc'[x] = l /\ \A y \in AsyncContexts \ {x} : pc'[y] = pc[y]
  BY DEF PcType
<1>4. \A t \in Callers : pc'[t] \in CallerPCs
  BY <1>3, Kinds DEF PcType
<1>5. \A c \in Cookies : pc'[c] \in EntryPCs
  BY <1>3, Kinds DEF PcType
<1> QED
  BY <1>2, <1>3, <1>4, <1>5 DEF PcType

(* A quiet step keeps the types and moves one place. *)
LEMMA QuietType ==
  ASSUME AsyncTypeOK, NEW x \in AsyncContexts, NEW l, Quiet(x, l)
  PROVE  /\ AsyncTypeOK' /\ pc'[x] = l
         /\ \A y \in AsyncContexts \ {x} : pc'[y] = pc[y]
<1>1. PcType
  BY DEF AsyncTypeOK, PcType
<1>2. /\ x \in Callers => l \in CallerPCs
      /\ x \in Cookies => l \in EntryPCs
      /\ pc' = [pc EXCEPT ![x] = l]
  BY Kinds DEF Quiet, EntryPCs
<1>3. /\ PcType' /\ pc'[x] = l
      /\ \A y \in AsyncContexts \ {x} : pc'[y] = pc[y]
  BY <1>1, <1>2, GotoType
<1>4. /\ dom' \in [AsyncContexts -> Domains]
      /\ cookie' \in [Callers -> 0 .. (MaxCookie + 1)]
      /\ asked' \in [Callers -> 0 .. (MaxCookie + 1)]
      /\ async_done' \subseteq AsyncContexts
  BY DEF Quiet, AsyncTypeOK
<1>5. UNCHANGED <<next_cookie, async_pending, running, entry_count, overtaken>>
  BY DEF Quiet
<1> QED
  BY <1>3, <1>4, <1>5 DEF AsyncTypeOK, PcType

(* Nobody becomes or ceases to be unfinished, or changes his entry. *)
LEMMA QuietFacts ==
  ASSUME AsyncTypeOK, NEW x \in AsyncContexts, NEW l, Quiet(x, l)
  PROVE  /\ UNCHANGED <<next_cookie, async_pending, running, entry_count, overtaken>>
         /\ Inserting' = Inserting
         /\ \A t \in Callers : pc'[t] = "queue_work" =>
              pc[t] = "queue_work" /\ cookie'[t] = cookie[t]
         /\ \A c \in Cookies :
              /\ dom'[c] = dom[c]
              /\ pc'[c] \in {"pending", "queued"} <=> pc[c] \in {"pending", "queued"}
              /\ pc'[c] = "pending" <=> pc[c] = "pending"
              /\ pc'[c] = "none" <=> pc[c] = "none"
              /\ pc'[c] \in InFunc <=> pc[c] \in InFunc
<1>1. /\ pc'[x] = l /\ \A y \in AsyncContexts \ {x} : pc'[y] = pc[y]
  BY QuietType
<1>2. UNCHANGED <<next_cookie, async_pending, running, entry_count, overtaken>>
  BY DEF Quiet
<1>3. x \in Callers => l \notin {"insert", "queue_work"} /\ pc[x] \notin {"insert", "queue_work"}
  BY Kinds DEF Quiet
<1>4. Inserting' = Inserting
  BY <1>1, <1>3, Kinds DEF Inserting
<1>5. \A t \in Callers \ {x} : cookie'[t] = cookie[t]
  BY DEF Quiet
<1>6. \A t \in Callers : pc'[t] = "queue_work" => pc[t] = "queue_work" /\ cookie'[t] = cookie[t]
  BY <1>1, <1>3, <1>5, Kinds
<1>7. ASSUME NEW c \in Cookies
      PROVE  /\ dom'[c] = dom[c]
             /\ pc'[c] \in {"pending", "queued"} <=> pc[c] \in {"pending", "queued"}
             /\ pc'[c] = "pending" <=> pc[c] = "pending"
             /\ pc'[c] = "none" <=> pc[c] = "none"
             /\ pc'[c] \in InFunc <=> pc[c] \in InFunc
  <2>1. CASE c # x
    BY <1>1, <2>1, Kinds DEF Quiet
  <2>2. CASE c = x
    <3>1. /\ UNCHANGED dom
          /\ \/ pc[x] \in InFunc /\ l \in InFunc
             \/ pc[x] = "wake" /\ l = "freed"
      BY <2>2, Kinds DEF Quiet
    <3> QED
      BY <1>1, <2>2, <3>1 DEF InFunc, Waiting
  <2> QED
    BY <2>1, <2>2
<1> QED
  BY <1>2, <1>4, <1>6, <1>7

(* Steps that change neither the lists nor the stage of an entry. *)
LEMMA ListsSame ==
  ASSUME AsyncTypeOK, ListsExact, OrderInv,
         UNCHANGED <<async_pending, running, entry_count, overtaken>>,
         \A c \in Cookies :
           /\ dom'[c] = dom[c]
           /\ pc'[c] \in {"pending", "queued"} <=> pc[c] \in {"pending", "queued"}
           /\ pc'[c] \in InFunc <=> pc[c] \in InFunc
  PROVE  ListsExact' /\ OrderInv'
<1>1. {c \in Cookies : pc'[c] \in {"pending", "queued"} \cup InFunc}
        = {c \in Cookies : pc[c] \in {"pending", "queued"} \cup InFunc}
  OBVIOUS
<1>2. (IsList(async_pending) /\ \A d \in Domains : IsList(running[d]))'
  BY DEF ListsExact
<1>3. \A c \in Cookies :
        /\ c \in Entries(async_pending') <=> pc'[c] \in {"pending", "queued"}
        /\ \A d \in Domains : c \in Entries(running'[d]) <=> pc'[c] \in InFunc /\ dom'[c] = d
  BY DEF ListsExact
<1>4. entry_count' = Cardinality({c \in Cookies : pc'[c] \in {"pending", "queued"} \cup InFunc})
  BY <1>1 DEF ListsExact
<1>5. \A p \in Entries(async_pending) : dom'[p] = dom[p]
  <2>1. async_pending \in Seq(Cookies)
    BY DEF AsyncTypeOK
  <2> QED
    BY <2>1 DEF Entries
<1>6. OrderInv'
  BY <1>5 DEF OrderInv
<1> QED
  BY <1>2, <1>3, <1>4, <1>6 DEF ListsExact

(* A quiet step keeps what is said of the cookies, the works and the lists. *)
LEMMA QuietShape ==
  ASSUME AsyncTypeOK, CookieInv, QueueWorkInv, ListsExact, LimitInv, OrderInv,
         NEW x \in AsyncContexts, NEW l, Quiet(x, l)
  PROVE  CookieInv' /\ QueueWorkInv' /\ ListsExact' /\ LimitInv' /\ OrderInv'
<1>1. /\ UNCHANGED <<next_cookie, async_pending, running, entry_count, overtaken>>
      /\ Inserting' = Inserting
      /\ \A t \in Callers : pc'[t] = "queue_work" =>
           pc[t] = "queue_work" /\ cookie'[t] = cookie[t]
      /\ \A c \in Cookies :
           /\ dom'[c] = dom[c]
           /\ pc'[c] \in {"pending", "queued"} <=> pc[c] \in {"pending", "queued"}
           /\ pc'[c] = "pending" <=> pc[c] = "pending"
           /\ pc'[c] = "none" <=> pc[c] = "none"
           /\ pc'[c] \in InFunc <=> pc[c] \in InFunc
  BY QuietFacts
<1>2. CookieInv'
  <2>1. \A t \in Callers : cookie'[t] <= next_cookie
    BY DEF Quiet, CookieInv
  <2> QED
    BY <1>1, <2>1 DEF CookieInv
<1>3. QueueWorkInv'
  BY <1>1 DEF QueueWorkInv
<1>4. ListsExact' /\ OrderInv'
  BY <1>1, ListsSame
<1>5. LimitInv'
  BY <1>1 DEF LimitInv
<1> QED
  BY <1>2, <1>3, <1>4, <1>5

(* Whoever leaves the wait has just found no earlier entry. *)
LEMMA QuietSync ==
  ASSUME AsyncInv, NEW x \in AsyncContexts, NEW l, Quiet(x, l)
  PROVE  SyncInOrder' /\ SyncQuiescent'
<1>1. AsyncTypeOK /\ CookieInv /\ ListsExact /\ OrderInv /\ SyncInOrder /\ SyncQuiescent
  BY DEF AsyncInv
<1>2. /\ pc'[x] = l /\ \A y \in AsyncContexts \ {x} : pc'[y] = pc[y]
  BY <1>1, QuietType
<1>3. /\ UNCHANGED <<next_cookie, overtaken>>
      /\ \A c \in Cookies : dom'[c] = dom[c] /\ (Unfinished(c)' <=> Unfinished(c))
  BY <1>1, QuietFacts DEF Unfinished
<1>4. ASSUME NEW y \in AsyncContexts \ {x}
      PROVE  /\ dom'[y] = dom[y] /\ SyncCookie(y)' = SyncCookie(y)
             /\ Synced(y)' <=> Synced(y)
  <2>1. dom'[y] = dom[y]
    BY DEF Quiet
  <2>2. y \in Callers => cookie'[y] = cookie[y]
    BY DEF Quiet
  <2> QED
    BY <1>2, <2>1, <2>2, Kinds DEF Synced, SyncCookie
<1>5. ASSUME Synced(x)'
      PROVE  /\ dom'[x] = dom[x] /\ SyncCookie(x)' = SyncCookie(x)
             /\ lowest_in_progress(dom[x]) >= SyncCookie(x)
  BY <1>2, <1>5 DEF Quiet, Synced, SyncCookie
<1>6. /\ dom[x] \in Domains /\ SyncCookie(x) \in Nat
      /\ next_cookie \in Nat /\ Cookies \subseteq Nat
  <2>1. Cookies \subseteq Nat
    BY DEF Cookies
  <2>2. x \in Callers => cookie[x] \in Nat
    BY <1>1 DEF AsyncTypeOK
  <2> QED
    BY <1>1, <2>1, <2>2, Numbers, Kinds DEF AsyncTypeOK, SyncCookie
<1>7. SyncInOrder'
  <2> SUFFICES ASSUME NEW y \in AsyncContexts, Synced(y)', dom'[y] \notin overtaken',
                      NEW c \in Cookies, dom'[c] = dom'[y], c < SyncCookie(y)',
                      Unfinished(c)'
               PROVE  FALSE
    BY DEF SyncInOrder
  <2>1. CASE y # x
    BY <1>1, <1>3, <1>4, <2>1 DEF SyncInOrder
  <2>2. CASE y = x
    <3>1. dom[c] = dom[x] /\ c < SyncCookie(x) /\ Unfinished(c) /\ dom[x] \in Domains \ overtaken
      BY <1>3, <1>5, <1>6, <2>2
    <3>2. lowest_in_progress(dom[x]) <= c /\ lowest_in_progress(dom[x]) \in Nat
      BY <1>1, <3>1, LowestFirst
    <3>3. lowest_in_progress(dom[x]) >= SyncCookie(x)
      BY <1>5, <2>2
    <3> QED
      BY <1>6, <3>1, <3>2, <3>3
  <2> QED
    BY <2>1, <2>2
<1>8. SyncQuiescent'
  <2> SUFFICES ASSUME NEW y \in AsyncContexts, Synced(y)', SyncCookie(y)' = next_cookie',
                      NEW c \in Cookies, dom'[c] = dom'[y], Unfinished(c)'
               PROVE  FALSE
    BY DEF SyncQuiescent
  <2>1. CASE y # x
    BY <1>1, <1>3, <1>4, <2>1 DEF SyncQuiescent
  <2>2. CASE y = x
    <3>1. dom[c] = dom[x] /\ SyncCookie(x) = next_cookie /\ Unfinished(c)
      BY <1>3, <1>5, <2>2
    <3>2. lowest_in_progress(dom[x]) >= next_cookie
      BY <1>5, <2>2, <3>1
    <3> QED
      BY <1>1, <1>6, <3>1, <3>2, LowestIdle
  <2> QED
    BY <2>1, <2>2
<1> QED
  BY <1>7, <1>8

-----------------------------------------------------------------------------
(* Steps that keep the promise of a synchronization that has returned: the *)
(* callers and workers that have returned stay or go on, next_cookie may   *)
(* move, and an entry that becomes unfinished has the next cookie.         *)
LEMMA SyncKept ==
  ASSUME AsyncInv,
         next_cookie' = next_cookie \/ next_cookie' = next_cookie + 1,
         overtaken \subseteq overtaken',
         \A x \in AsyncContexts : Synced(x)' =>
           Synced(x) /\ dom'[x] = dom[x] /\ SyncCookie(x)' = SyncCookie(x),
         \A c \in Cookies : Unfinished(c)' =>
           \/ Unfinished(c) /\ dom'[c] = dom[c]
           \/ c = next_cookie /\ next_cookie' = next_cookie + 1
  PROVE  SyncInOrder' /\ SyncQuiescent'
<1>1. AsyncTypeOK /\ CookieInv /\ ListsExact /\ SyncInOrder /\ SyncQuiescent
  BY DEF AsyncInv
<1>2. next_cookie \in Nat /\ Cookies \subseteq Nat
  BY <1>1, Numbers DEF Cookies
<1>3. ASSUME NEW x \in AsyncContexts, Synced(x)
      PROVE  SyncCookie(x) \in Nat /\ SyncCookie(x) <= next_cookie
  <2>1. CASE x \in Callers
    <3>1. cookie[x] \in Nat /\ cookie[x] <= next_cookie
      BY <1>1, <2>1 DEF AsyncTypeOK, CookieInv
    <3> QED
      BY <2>1, <3>1, Kinds DEF SyncCookie
  <2>2. CASE x \in Cookies
    <3>1. pc[x] # "none"
      BY <1>3 DEF Synced
    <3> QED
      BY <1>1, <1>2, <2>2, <3>1 DEF SyncCookie, CookieInv
  <2> QED
    BY <2>1, <2>2, Kinds
<1>4. SyncInOrder'
  <2> SUFFICES ASSUME NEW x \in AsyncContexts, Synced(x)', dom'[x] \notin overtaken',
                      NEW c \in Cookies, dom'[c] = dom'[x], c < SyncCookie(x)',
                      Unfinished(c)'
               PROVE  FALSE
    BY DEF SyncInOrder
  <2>1. Synced(x) /\ dom'[x] = dom[x] /\ SyncCookie(x)' = SyncCookie(x)
    OBVIOUS
  <2>2. c \in Nat /\ SyncCookie(x) \in Nat /\ SyncCookie(x) <= next_cookie /\ c < SyncCookie(x)
    BY <1>2, <1>3, <2>1
  <2>3. Unfinished(c) /\ dom'[c] = dom[c]
    BY <1>2, <2>2
  <2> QED
    BY <1>1, <2>1, <2>2, <2>3 DEF SyncInOrder
<1>5. SyncQuiescent'
  <2> SUFFICES ASSUME NEW x \in AsyncContexts, Synced(x)', SyncCookie(x)' = next_cookie',
                      NEW c \in Cookies, dom'[c] = dom'[x], Unfinished(c)'
               PROVE  FALSE
    BY DEF SyncQuiescent
  <2>1. Synced(x) /\ dom'[x] = dom[x] /\ SyncCookie(x)' = SyncCookie(x)
    OBVIOUS
  <2>2. SyncCookie(x) \in Nat /\ SyncCookie(x) <= next_cookie /\ SyncCookie(x) = next_cookie'
    BY <1>3, <2>1
  <2>3. next_cookie' = next_cookie
    BY <1>2, <2>2
  <2>4. Unfinished(c) /\ dom'[c] = dom[c]
    BY <1>2, <2>3
  <2> QED
    BY <1>1, <2>1, <2>2, <2>3, <2>4 DEF SyncQuiescent
<1> QED
  BY <1>4, <1>5

-----------------------------------------------------------------------------
(* The sizes of sets of callers and of entries. *)
LEMMA Sizes ==
  /\ IsFiniteSet(Callers) /\ Cardinality(Callers) \in Nat
  /\ \A S \in SUBSET Callers :
       IsFiniteSet(S) /\ Cardinality(S) \in Nat /\ Cardinality(S) <= Cardinality(Callers)
  /\ \A S \in SUBSET Cookies : IsFiniteSet(S) /\ Cardinality(S) \in Nat
<1>1. IsFiniteSet(Callers) /\ Cardinality(Callers) \in Nat
  BY AsyncAssumption, FS_CardinalityType
<1>2. IsFiniteSet(Cookies)
  BY AsyncAssumption, FS_Interval DEF Cookies
<1>3. ASSUME NEW S \in SUBSET Callers
      PROVE  IsFiniteSet(S) /\ Cardinality(S) \in Nat /\ Cardinality(S) <= Cardinality(Callers)
  BY <1>1, FS_Subset, FS_CardinalityType
<1>4. ASSUME NEW S \in SUBSET Cookies PROVE IsFiniteSet(S) /\ Cardinality(S) \in Nat
  BY <1>2, FS_Subset, FS_CardinalityType
<1> QED
  BY <1>1, <1>3, <1>4

(* A call gets its entry or is made at once. *)
LEMMA ScheduleStep ==
  ASSUME AsyncInv, NEW t \in Callers, NEW d \in Domains, async_schedule(t, d)
  PROVE  AsyncInv'
<1>1. /\ AsyncTypeOK /\ CookieInv /\ QueueWorkInv /\ ListsExact /\ LimitInv /\ OrderInv
      /\ PcType /\ MaxCookie \in Nat /\ MAX_WORK \in Nat /\ next_cookie \in Nat
      /\ next_cookie >= 1 /\ entry_count \in Nat
  BY Numbers, AsyncAssumption DEF AsyncInv, AsyncTypeOK, PcType
<1>2. t \in AsyncContexts /\ t \notin Cookies /\ pc[t] = "idle"
  BY Kinds DEF async_schedule
<1>3. PICK l \in {"insert", "sync_func"} :
        /\ pc' = [pc EXCEPT ![t] = l]
        /\ l = "insert" => ~TooMuchWork /\ next_cookie' = next_cookie
        /\ l = "sync_func" => next_cookie' = next_cookie + 1
  BY DEF async_schedule, goto
<1>4. /\ PcType' /\ pc'[t] = l /\ \A y \in AsyncContexts \ {t} : pc'[y] = pc[y]
  <2>1. l \in CallerPCs
    BY DEF CallerPCs
  <2> QED
    BY <1>1, <1>2, <1>3, <2>1, GotoType
<1>5. /\ UNCHANGED <<async_pending, running, entry_count, async_done, cookie, asked, overtaken>>
      /\ dom' \in [AsyncContexts -> Domains]
      /\ \A y \in AsyncContexts \ {t} : dom'[y] = dom[y]
      /\ next_cookie + Cardinality(Inserting) <= MaxCookie
  BY <1>1, <1>2 DEF async_schedule, AsyncTypeOK, CookiesLeft, Inserting
<1>6. Inserting \subseteq Callers /\ Inserting' \subseteq Callers /\ t \notin Inserting
  BY <1>2 DEF Inserting
<1>7. /\ Cardinality(Inserting) \in Nat /\ Cardinality(Inserting') \in Nat
      /\ Cardinality(Inserting') <= Cardinality(Callers) /\ Cardinality(Callers) \in Nat
  BY <1>6, Sizes
<1>8. /\ l = "insert" => Cardinality(Inserting') = Cardinality(Inserting) + 1
      /\ l = "sync_func" => Inserting' = Inserting
  <2>1. l = "insert" => Inserting' = Inserting \cup {t}
    BY <1>4, Kinds DEF Inserting
  <2>2. l = "sync_func" => Inserting' = Inserting
    BY <1>2, <1>4, Kinds DEF Inserting
  <2>3. Cardinality(Inserting \cup {t}) = Cardinality(Inserting) + 1
    BY <1>6, Sizes, FS_AddElement
  <2> QED
    BY <2>1, <2>2, <2>3
<1>9. next_cookie' \in 1 .. (MaxCookie + 1)
      /\ (next_cookie' = next_cookie \/ next_cookie' = next_cookie + 1)
  BY <1>1, <1>3, <1>5, <1>7
<1>10. AsyncTypeOK'
  BY <1>1, <1>4, <1>5, <1>9 DEF AsyncTypeOK, PcType
<1>11. CookieInv'
  <2>1. next_cookie' + Cardinality(Inserting') <= MaxCookie + 1
    BY <1>1, <1>3, <1>5, <1>7, <1>8
  <2>2. \A c \in Cookies : c \in Nat /\ (c >= next_cookie' => pc'[c] = "none")
    BY <1>1, <1>2, <1>4, <1>9, Kinds DEF CookieInv, Cookies
  <2>3. \A u \in Callers : cookie'[u] <= next_cookie'
    BY <1>1, <1>5, <1>9 DEF CookieInv, AsyncTypeOK
  <2> QED
    BY <2>1, <2>2, <2>3 DEF CookieInv
<1>12. QueueWorkInv'
  BY <1>1, <1>2, <1>4, <1>5, Kinds DEF QueueWorkInv
<1>13. ListsExact' /\ OrderInv'
  BY <1>1, <1>2, <1>4, <1>5, Kinds, ListsSame
<1>14. LimitInv'
  <2>1. CASE l = "insert"
    <3>1. entry_count <= MAX_WORK
      BY <1>1, <1>3, <2>1 DEF TooMuchWork
    <3> QED
      BY <1>1, <1>5, <1>7, <3>1 DEF LimitInv
  <2>2. CASE l = "sync_func"
    BY <1>1, <1>5, <1>8, <2>2 DEF LimitInv
  <2> QED
    BY <2>1, <2>2
<1>15. SyncInOrder' /\ SyncQuiescent'
  <2>1. \A x \in AsyncContexts : Synced(x)' =>
          Synced(x) /\ dom'[x] = dom[x] /\ SyncCookie(x)' = SyncCookie(x)
    BY <1>4, <1>5 DEF Synced, SyncCookie
  <2>2. \A c \in Cookies : Unfinished(c)' => Unfinished(c) /\ dom'[c] = dom[c]
    BY <1>2, <1>4, <1>5, Kinds DEF Unfinished
  <2> QED
    BY <1>5, <1>9, <2>1, <2>2, SyncKept
<1> QED
  BY <1>10, <1>11, <1>12, <1>13, <1>14, <1>15 DEF AsyncInv

(* queue_work(): the entry may start from now on. *)
LEMMA QueueWorkStep ==
  ASSUME AsyncInv, NEW t \in Callers, queue_work(t)
  PROVE  AsyncInv'
<1>1. /\ AsyncTypeOK /\ CookieInv /\ QueueWorkInv /\ ListsExact /\ LimitInv /\ OrderInv
      /\ PcType /\ next_cookie \in Nat /\ 0 \in 0 .. (MaxCookie + 1)
      /\ async_running \in Domains
  BY Numbers DEF AsyncInv, AsyncTypeOK, PcType
<1>2. /\ t \in AsyncContexts /\ t \notin Cookies /\ pc[t] = "queue_work"
      /\ UNCHANGED <<next_cookie, async_pending, running, entry_count, async_done,
                     asked, overtaken>>
  BY Kinds DEF queue_work, lists
<1>3. PICK c \in Cookies : c = cookie[t] /\ pc[c] = "pending"
  BY <1>1, <1>2 DEF QueueWorkInv
<1>4. c \in AsyncContexts /\ c \notin Callers /\ c # t
  BY Kinds
<1>5. pc' = [pc EXCEPT ![t] = "idle", ![c] = "queued"]
  BY <1>3 DEF queue_work
<1>6. /\ pc'[t] = "idle" /\ pc'[c] = "queued"
      /\ \A y \in AsyncContexts \ {t, c} : pc'[y] = pc[y]
      /\ pc' \in [AsyncContexts -> CallerPCs \cup EntryPCs]
  <2>1. "idle" \in CallerPCs \cup EntryPCs /\ "queued" \in CallerPCs \cup EntryPCs
    BY DEF CallerPCs, EntryPCs
  <2> QED
    BY <1>1, <1>2, <1>4, <1>5, <2>1 DEF PcType
<1>7. PcType'
  <2>1. \A u \in Callers : pc'[u] \in CallerPCs
    BY <1>1, <1>4, <1>6, Kinds DEF PcType, CallerPCs
  <2>2. \A e \in Cookies : pc'[e] \in EntryPCs
    BY <1>1, <1>2, <1>6, Kinds DEF PcType, EntryPCs
  <2> QED
    BY <1>6, <2>1, <2>2 DEF PcType
<1>8. /\ dom' \in [AsyncContexts -> Domains] /\ \A y \in AsyncContexts \ {t} : dom'[y] = dom[y]
      /\ cookie' \in [Callers -> 0 .. (MaxCookie + 1)]
      /\ cookie'[t] = 0 /\ \A u \in Callers \ {t} : cookie'[u] = cookie[u]
  BY <1>1, <1>2 DEF queue_work, AsyncTypeOK
<1>9. AsyncTypeOK'
  BY <1>1, <1>2, <1>7, <1>8 DEF AsyncTypeOK, PcType
<1>10. Inserting' = Inserting
  BY <1>2, <1>4, <1>6, Kinds DEF Inserting
<1>11. CookieInv'
  <2>1. \A e \in Cookies : e >= next_cookie => pc'[e] = "none"
    BY <1>1, <1>2, <1>3, <1>6, Kinds DEF CookieInv
  <2>2. \A u \in Callers : cookie'[u] <= next_cookie
    BY <1>1, <1>8 DEF CookieInv
  <2> QED
    BY <1>1, <1>2, <1>10, <2>1, <2>2 DEF CookieInv
<1>12. QueueWorkInv'
  <2>1. ASSUME NEW u \in Callers, pc'[u] = "queue_work"
        PROVE  /\ u # t /\ pc[u] = "queue_work" /\ cookie'[u] = cookie[u]
               /\ cookie[u] \in Cookies /\ cookie[u] # c
               /\ pc'[cookie[u]] = "pending"
    <3>1. u # t /\ pc[u] = "queue_work" /\ cookie'[u] = cookie[u]
      BY <1>4, <1>6, <1>8, <2>1, Kinds
    <3>2. cookie[u] \in Cookies /\ pc[cookie[u]] = "pending" /\ cookie[u] # c
      BY <1>1, <1>2, <1>3, <3>1 DEF QueueWorkInv
    <3> QED
      BY <1>2, <1>6, <3>1, <3>2, Kinds
  <2>2. ASSUME NEW u \in Callers, NEW v \in Callers, pc'[u] = "queue_work",
               pc'[v] = "queue_work", cookie'[u] = cookie'[v]
        PROVE  u = v
    BY <1>1, <2>1, <2>2 DEF QueueWorkInv
  <2> QED
    BY <2>1, <2>2 DEF QueueWorkInv
<1>13. ListsExact' /\ OrderInv'
  <2>1. \A e \in Cookies :
           /\ dom'[e] = dom[e]
           /\ pc'[e] \in {"pending", "queued"} <=> pc[e] \in {"pending", "queued"}
           /\ pc'[e] \in InFunc <=> pc[e] \in InFunc
    BY <1>2, <1>3, <1>6, <1>8, Kinds DEF InFunc, Waiting
  <2> QED
    BY <1>1, <1>2, <2>1, ListsSame
<1>14. LimitInv'
  BY <1>1, <1>2, <1>10 DEF LimitInv
<1>15. SyncInOrder' /\ SyncQuiescent'
  <2>1. \A x \in AsyncContexts : Synced(x)' =>
          Synced(x) /\ dom'[x] = dom[x] /\ SyncCookie(x)' = SyncCookie(x)
    BY <1>6, <1>8, Kinds DEF Synced, SyncCookie
  <2>2. \A e \in Cookies : Unfinished(e)' => Unfinished(e) /\ dom'[e] = dom[e]
    BY <1>2, <1>3, <1>6, <1>8, Kinds DEF Unfinished
  <2> QED
    BY <1>2, <2>1, <2>2, SyncKept
<1> QED
  BY <1>9, <1>11, <1>12, <1>13, <1>14, <1>15 DEF AsyncInv

(* The entry gets its cookie: it is the last one, of all that are pending  *)
(* and of all that run.                                                    *)
LEMMA InsertStep ==
  ASSUME AsyncInv, NEW t \in Callers, insert(t)
  PROVE  AsyncInv'
<1>1. /\ AsyncTypeOK /\ CookieInv /\ QueueWorkInv /\ ListsExact /\ LimitInv /\ OrderInv
      /\ PcType /\ next_cookie \in Nat /\ next_cookie >= 1 /\ MaxCookie \in Nat
      /\ MAX_WORK \in Nat /\ entry_count \in Nat /\ Cookies \subseteq Nat
      /\ async_pending \in Seq(Cookies) /\ async_pending \in Seq(Nat)
  BY Numbers, AsyncAssumption DEF AsyncInv, AsyncTypeOK, PcType, Cookies
<1>2. /\ t \in AsyncContexts /\ t \notin Cookies /\ pc[t] = "insert" /\ t \in Inserting
      /\ UNCHANGED <<running, async_done, asked, overtaken>>
      /\ entry_count' = entry_count + 1
  BY Kinds DEF insert, link, Inserting
<1>3. /\ Inserting \subseteq Callers /\ IsFiniteSet(Inserting)
      /\ Cardinality(Inserting) \in Nat /\ Cardinality(Callers) \in Nat
      /\ Cardinality(Inserting) >= 1
      /\ Cardinality(Inserting \ {t}) = Cardinality(Inserting) - 1
  <2>1. Inserting \subseteq Callers
    BY DEF Inserting
  <2>2. /\ IsFiniteSet(Inserting) /\ Cardinality(Inserting) \in Nat
        /\ Cardinality(Callers) \in Nat /\ Cardinality(Inserting \ {t}) \in Nat
    BY <2>1, Sizes
  <2>3. Cardinality(Inserting \ {t}) = Cardinality(Inserting) - 1
    BY <1>2, <2>2, FS_RemoveElement
  <2> QED
    BY <2>1, <2>2, <2>3
<1>4. PICK n \in Cookies : n = next_cookie /\ pc[n] = "none"
  <2>1. next_cookie \in Cookies
    BY <1>1, <1>3 DEF CookieInv, Cookies
  <2> QED
    BY <1>1, <2>1 DEF CookieInv
<1>5. n \in AsyncContexts /\ n \notin Callers /\ n # t /\ n \in Nat
  BY <1>1, Kinds
<1>6. /\ pc' = [pc EXCEPT ![t] = "queue_work", ![n] = "pending"]
      /\ next_cookie' = n + 1
      /\ async_pending' = list_add_tail(async_pending, n)
      /\ dom' = [dom EXCEPT ![n] = dom[t]]
      /\ cookie' = [cookie EXCEPT ![t] = n]
  BY <1>4 DEF insert, link
<1>7. /\ pc'[t] = "queue_work" /\ pc'[n] = "pending"
      /\ \A y \in AsyncContexts \ {t, n} : pc'[y] = pc[y]
      /\ pc' \in [AsyncContexts -> CallerPCs \cup EntryPCs]
  <2>1. "queue_work" \in CallerPCs \cup EntryPCs /\ "pending" \in CallerPCs \cup EntryPCs
    BY DEF CallerPCs, EntryPCs
  <2> QED
    BY <1>1, <1>2, <1>5, <1>6, <2>1 DEF PcType
<1>8. PcType'
  <2>1. \A u \in Callers : pc'[u] \in CallerPCs
    BY <1>1, <1>5, <1>7, Kinds DEF PcType, CallerPCs
  <2>2. \A e \in Cookies : pc'[e] \in EntryPCs
    BY <1>1, <1>2, <1>7, Kinds DEF PcType, EntryPCs
  <2> QED
    BY <1>7, <2>1, <2>2 DEF PcType
<1>9. /\ dom' \in [AsyncContexts -> Domains] /\ \A y \in AsyncContexts \ {n} : dom'[y] = dom[y]
      /\ cookie' \in [Callers -> 0 .. (MaxCookie + 1)]
      /\ cookie'[t] = n /\ \A u \in Callers \ {t} : cookie'[u] = cookie[u]
  <2>1. n \in 0 .. (MaxCookie + 1) /\ dom[t] \in Domains
    BY <1>1, <1>2, <1>4 DEF AsyncTypeOK
  <2> QED
    BY <1>1, <1>2, <1>5, <1>6, <2>1 DEF AsyncTypeOK
<1>10. /\ async_pending' \in Seq(Cookies)
       /\ Entries(async_pending') = Entries(async_pending) \cup {n}
       /\ n \notin Entries(async_pending) /\ IsList(async_pending')
       /\ \A d \in Domains : n \notin Entries(running[d])
       /\ \A e \in Entries(async_pending) : e \in Cookies /\ e < n
  <2>1. n \notin Entries(async_pending) /\ \A d \in Domains : n \notin Entries(running[d])
    BY <1>1, <1>4 DEF ListsExact, InFunc, Waiting
  <2>2. IsList(async_pending)
    BY <1>1 DEF ListsExact
  <2>3. ASSUME NEW e \in Entries(async_pending) PROVE e \in Cookies /\ e < n
    <3>1. e \in Cookies
      BY <1>1 DEF Entries
    <3>2. pc[e] # "none"
      BY <1>1, <3>1 DEF ListsExact
    <3> QED
      BY <1>1, <1>4, <3>1, <3>2 DEF CookieInv
  <2> QED
    BY <1>1, <1>6, <2>1, <2>2, <2>3, AddTail
<1>11. AsyncTypeOK'
  <2>1. next_cookie' \in 1 .. (MaxCookie + 1) /\ entry_count' \in Nat
    BY <1>1, <1>2, <1>4, <1>6 DEF Cookies
  <2> QED
    BY <1>1, <1>2, <1>8, <1>9, <1>10, <2>1 DEF AsyncTypeOK, PcType
<1>12. Inserting' = Inserting \ {t}
  BY <1>2, <1>5, <1>7, Kinds DEF Inserting
<1>13. CookieInv'
  <2>1. next_cookie' + Cardinality(Inserting') <= MaxCookie + 1
    BY <1>1, <1>3, <1>4, <1>6, <1>12 DEF CookieInv
  <2>2. ASSUME NEW e \in Cookies, e >= next_cookie' PROVE pc'[e] = "none"
    <3>1. e \in Nat /\ e > n
      BY <1>1, <1>5, <1>6, <2>2
    <3> QED
      BY <1>1, <1>2, <1>4, <1>5, <1>7, <3>1, Kinds DEF CookieInv
  <2>3. ASSUME NEW u \in Callers PROVE cookie'[u] <= next_cookie'
    <3>1. cookie[u] \in Nat /\ cookie[u] <= n
      BY <1>1, <1>4 DEF CookieInv, AsyncTypeOK
    <3> QED
      BY <1>5, <1>6, <1>9, <3>1
  <2> QED
    BY <2>1, <2>2, <2>3 DEF CookieInv
<1>14. QueueWorkInv'
  <2>1. ASSUME NEW u \in Callers, pc'[u] = "queue_work", u # t
        PROVE  /\ pc[u] = "queue_work" /\ cookie'[u] = cookie[u]
               /\ cookie[u] \in Cookies /\ cookie[u] # n
               /\ pc'[cookie[u]] = "pending"
    <3>1. pc[u] = "queue_work" /\ cookie'[u] = cookie[u]
      BY <1>5, <1>7, <1>9, <2>1, Kinds
    <3>2. cookie[u] \in Cookies /\ pc[cookie[u]] = "pending" /\ cookie[u] # n
      BY <1>1, <1>4, <3>1 DEF QueueWorkInv
    <3> QED
      BY <1>2, <1>7, <3>1, <3>2, Kinds
  <2>2. ASSUME NEW u \in Callers, NEW v \in Callers, pc'[u] = "queue_work",
               pc'[v] = "queue_work", cookie'[u] = cookie'[v]
        PROVE  u = v
    <3>1. CASE u # t /\ v # t
      BY <1>1, <2>1, <2>2, <3>1 DEF QueueWorkInv
    <3>2. CASE u = t \/ v = t
      BY <1>9, <2>1, <2>2, <3>2
    <3> QED
      BY <3>1, <3>2
  <2>3. cookie'[t] \in Cookies /\ pc'[cookie'[t]] = "pending"
    BY <1>7, <1>9
  <2> QED
    BY <2>1, <2>2, <2>3 DEF QueueWorkInv
<1>15. ListsExact'
  <2> DEFINE U == {c \in Cookies : pc[c] \in {"pending", "queued"} \cup InFunc}
             V == {c \in Cookies : pc'[c] \in {"pending", "queued"} \cup InFunc}
  <2>1. V = U \cup {n} /\ n \notin U
    BY <1>2, <1>4, <1>7, Kinds DEF InFunc, Waiting
  <2>2. IsFiniteSet(U)
    BY Sizes
  <2>3. Cardinality(V) = Cardinality(U) + 1
    BY <2>1, <2>2, FS_AddElement
  <2>4. entry_count' = Cardinality(V)
    BY <1>1, <1>2, <2>3 DEF ListsExact
  <2>5. ASSUME NEW c \in Cookies
        PROVE  /\ c \in Entries(async_pending') <=> pc'[c] \in {"pending", "queued"}
               /\ \A d \in Domains :
                    c \in Entries(running'[d]) <=> pc'[c] \in InFunc /\ dom'[c] = d
    <3>1. CASE c = n
      BY <1>2, <1>7, <1>10, <3>1 DEF InFunc, Waiting
    <3>2. CASE c # n
      <4>1. pc'[c] = pc[c] /\ dom'[c] = dom[c]
        BY <1>2, <1>7, <1>9, <3>2, Kinds
      <4> QED
        BY <1>1, <1>2, <1>10, <3>2, <4>1 DEF ListsExact
    <3> QED
      BY <3>1, <3>2
  <2>6. IsList(async_pending') /\ \A d \in Domains : IsList(running'[d])
    BY <1>1, <1>2, <1>10 DEF ListsExact
  <2> QED
    BY <2>4, <2>5, <2>6 DEF ListsExact
<1>16. LimitInv'
  BY <1>1, <1>2, <1>3, <1>12 DEF LimitInv
<1>17. OrderInv'
  <2>1. Sorted(async_pending')
    BY <1>1, <1>5, <1>6, <1>10, SortedAddTail DEF OrderInv
  <2>2. ASSUME NEW d \in Domains \ overtaken
        PROVE  /\ Sorted(running'[d])
               /\ \A e \in Entries(running'[d]), p \in Entries(async_pending') :
                    dom'[p] = d => e < p
    <3>1. Sorted(running'[d])
      BY <1>1, <1>2 DEF OrderInv
    <3>2. ASSUME NEW e \in Entries(running[d]), NEW p \in Entries(async_pending'),
                 dom'[p] = d
          PROVE  e < p
      <4>1. e \in Cookies /\ pc[e] # "none"
        <5>1. running[d] \in Seq(Cookies)
          BY <1>1 DEF AsyncTypeOK
        <5>2. e \in Cookies
          BY <5>1 DEF Entries
        <5> QED
          BY <1>1, <5>2 DEF ListsExact, InFunc, Waiting
      <4>2. CASE p = n
        BY <1>1, <1>4, <4>1, <4>2 DEF CookieInv
      <4>3. CASE p # n
        <5>1. p \in Entries(async_pending) /\ dom[p] = d
          BY <1>9, <1>10, <3>2, <4>3, Kinds
        <5> QED
          BY <1>1, <5>1 DEF OrderInv
      <4> QED
        BY <4>2, <4>3
    <3> QED
      BY <1>2, <3>1, <3>2
  <2> QED
    BY <1>2, <2>1, <2>2 DEF OrderInv
<1>18. SyncInOrder' /\ SyncQuiescent'
  <2>1. \A x \in AsyncContexts : Synced(x)' =>
          Synced(x) /\ dom'[x] = dom[x] /\ SyncCookie(x)' = SyncCookie(x)
    BY <1>7, <1>9, Kinds DEF Synced, SyncCookie
  <2>2. \A e \in Cookies : Unfinished(e)' =>
          \/ Unfinished(e) /\ dom'[e] = dom[e]
          \/ e = next_cookie /\ next_cookie' = next_cookie + 1
    BY <1>2, <1>4, <1>6, <1>7, <1>9, Kinds DEF Unfinished
  <2>3. next_cookie' = next_cookie + 1
    BY <1>4, <1>6
  <2> QED
    BY <1>2, <2>1, <2>2, <2>3, SyncKept
<1> QED
  BY <1>11, <1>13, <1>14, <1>15, <1>16, <1>17, <1>18 DEF AsyncInv

-----------------------------------------------------------------------------
(* Steps of a worker leave the callers alone. *)
LEMMA WorkerKeeps ==
  ASSUME AsyncTypeOK, CookieInv, QueueWorkInv, NEW c \in Cookies, NEW l \in EntryPCs,
         pc[c] \notin {"none", "pending"}, pc' = [pc EXCEPT ![c] = l],
         UNCHANGED <<next_cookie, cookie>>
  PROVE  /\ PcType' /\ pc'[c] = l /\ \A y \in AsyncContexts \ {c} : pc'[y] = pc[y]
         /\ Inserting' = Inserting /\ CookieInv' /\ QueueWorkInv'
<1>1. c \in AsyncContexts /\ c \notin Callers /\ PcType
  BY Kinds DEF AsyncTypeOK, PcType
<1>2. PcType' /\ pc'[c] = l /\ \A y \in AsyncContexts \ {c} : pc'[y] = pc[y]
  BY <1>1, GotoType
<1>3. \A t \in Callers : pc'[t] = pc[t]
  BY <1>1, <1>2, Kinds
<1>4. Inserting' = Inserting
  BY <1>3 DEF Inserting
<1>5. CookieInv'
  <2>1. \A e \in Cookies : e >= next_cookie => pc'[e] = "none"
    BY <1>2, Kinds DEF CookieInv
  <2> QED
    BY <1>4, <2>1 DEF CookieInv
<1>6. QueueWorkInv'
  <2>1. \A e \in Cookies : pc[e] = "pending" => pc'[e] = "pending"
    BY <1>2, Kinds
  <2> QED
    BY <1>3, <2>1 DEF QueueWorkInv
<1> QED
  BY <1>2, <1>4, <1>5, <1>6

(* The worker moves its entry to the end of the running list.  Unless that *)
(* overtakes an earlier one, it is the first of its domain to go.          *)
LEMMA StartStep ==
  ASSUME AsyncInv, NEW c \in Cookies, start(c)
  PROVE  AsyncInv'
<1>1. /\ AsyncTypeOK /\ CookieInv /\ QueueWorkInv /\ ListsExact /\ LimitInv /\ OrderInv
      /\ async_pending \in Seq(Cookies) /\ running \in [Domains -> Seq(Cookies)]
      /\ Cookies \subseteq Nat /\ async_pending \in Seq(Nat)
      /\ \A d \in Domains : running[d] \in Seq(Cookies) /\ running[d] \in Seq(Nat)
  <2>1. Cookies \subseteq Nat
    BY DEF Cookies
  <2>2. async_pending \in Seq(Cookies) /\ running \in [Domains -> Seq(Cookies)]
    BY DEF AsyncInv, AsyncTypeOK
  <2>3. \A d \in Domains : running[d] \in Seq(Cookies)
    BY <2>2
  <2>4. async_pending \in Seq(Nat) /\ \A d \in Domains : running[d] \in Seq(Nat)
    BY <2>2, <2>3, CookieLists
  <2> QED
    BY <2>1, <2>2, <2>3, <2>4 DEF AsyncInv
<1>2. /\ pc[c] = "queued" /\ c \in AsyncContexts /\ pc' = [pc EXCEPT ![c] = "func"]
      /\ UNCHANGED <<next_cookie, entry_count, async_done, dom, cookie, asked>>
  BY Kinds DEF start, goto
<1>3. /\ PcType' /\ pc'[c] = "func" /\ \A y \in AsyncContexts \ {c} : pc'[y] = pc[y]
      /\ Inserting' = Inserting /\ CookieInv' /\ QueueWorkInv'
  <2>1. "func" \in EntryPCs
    BY DEF EntryPCs, InFunc
  <2> QED
    BY <1>1, <1>2, <2>1, WorkerKeeps
<1>4. PICK d \in Domains : d = dom[c]
  BY <1>1, <1>2 DEF AsyncTypeOK
<1>5. /\ async_pending' = list_del(async_pending, c)
      /\ running' = [running EXCEPT ![d] = list_add_tail(@, c)]
      /\ overtaken' = IF \E e \in Entries(async_pending) : dom[e] = d /\ e < c
                        THEN overtaken \cup {d} ELSE overtaken
  BY <1>4 DEF start, move_tail
<1>6. /\ c \in Entries(async_pending) /\ IsList(async_pending)
      /\ \A f \in Domains : c \notin Entries(running[f]) /\ IsList(running[f])
  BY <1>1, <1>2 DEF ListsExact, InFunc, Waiting
<1>7. /\ async_pending' \in Seq(Cookies) /\ IsList(async_pending')
      /\ Entries(async_pending') = Entries(async_pending) \ {c}
  BY <1>1, <1>5, <1>6, DelType, DelEntries
<1>8. PICK q \in Seq(Cookies) :
        /\ q = list_add_tail(running[d], c)
        /\ IsList(q) /\ Entries(q) = Entries(running[d]) \cup {c}
  BY <1>1, <1>6, AddTail
<1>9. /\ running' \in [Domains -> Seq(Cookies)] /\ running'[d] = q
      /\ \A f \in Domains \ {d} : running'[f] = running[f]
  BY <1>1, <1>5, <1>8
<1>10. overtaken' \subseteq Domains /\ overtaken \subseteq overtaken'
  BY <1>1, <1>5 DEF AsyncTypeOK
<1>11. AsyncTypeOK'
  BY <1>1, <1>2, <1>3, <1>7, <1>9, <1>10 DEF AsyncTypeOK, PcType
<1>12. ListsExact'
  <2>1. {e \in Cookies : pc'[e] \in {"pending", "queued"} \cup InFunc}
          = {e \in Cookies : pc[e] \in {"pending", "queued"} \cup InFunc}
    BY <1>2, <1>3, Kinds DEF InFunc
  <2>2. entry_count' = Cardinality({e \in Cookies : pc'[e] \in {"pending", "queued"} \cup InFunc})
    BY <1>1, <1>2, <2>1 DEF ListsExact
  <2>3. ASSUME NEW e \in Cookies
        PROVE  /\ e \in Entries(async_pending') <=> pc'[e] \in {"pending", "queued"}
               /\ \A f \in Domains :
                    e \in Entries(running'[f]) <=> pc'[e] \in InFunc /\ dom'[e] = f
    <3>1. CASE e = c
      <4>1. e \notin Entries(async_pending') /\ pc'[e] = "func" /\ dom'[e] = d
        BY <1>2, <1>3, <1>4, <1>7, <3>1
      <4>2. \A f \in Domains : e \in Entries(running'[f]) <=> f = d
        BY <1>6, <1>8, <1>9, <3>1
      <4> QED
        BY <4>1, <4>2 DEF InFunc
    <3>2. CASE e # c
      <4>1. pc'[e] = pc[e] /\ dom'[e] = dom[e]
        BY <1>2, <1>3, <3>2, Kinds
      <4>2. e \in Entries(async_pending') <=> e \in Entries(async_pending)
        BY <1>7, <3>2
      <4>3. \A f \in Domains : e \in Entries(running'[f]) <=> e \in Entries(running[f])
        BY <1>8, <1>9, <3>2
      <4> QED
        BY <1>1, <4>1, <4>2, <4>3 DEF ListsExact
    <3> QED
      BY <3>1, <3>2
  <2>4. \A f \in Domains : IsList(running'[f])
    BY <1>6, <1>8, <1>9
  <2> QED
    BY <1>7, <2>2, <2>3, <2>4 DEF ListsExact
<1>13. LimitInv'
  BY <1>1, <1>2, <1>3 DEF LimitInv
<1>14. OrderInv'
  <2>1. Sorted(async_pending')
    BY <1>1, <1>5, <1>6, SortedDel DEF OrderInv
  <2>2. ASSUME NEW f \in Domains \ overtaken'
        PROVE  /\ Sorted(running'[f])
               /\ \A e \in Entries(running'[f]), p \in Entries(async_pending') :
                    dom'[p] = f => e < p
    <3>1. f \in Domains \ overtaken
      BY <1>10
    <3>2. /\ Sorted(running[f])
          /\ \A e \in Entries(running[f]), p \in Entries(async_pending) : dom[p] = f => e < p
      BY <1>1, <3>1 DEF OrderInv
    <3>3. CASE f # d
      BY <1>2, <1>7, <1>9, <3>2, <3>3
    <3>4. CASE f = d
      <4>1. \A e \in Entries(running[d]) : e < c
        BY <1>4, <1>6, <3>2, <3>4
      <4>2. Sorted(q)
        BY <1>1, <1>8, <3>2, <3>4, <4>1, SortedAddTail
      <4>3. ASSUME NEW e \in Entries(q), NEW p \in Entries(async_pending'), dom'[p] = d
            PROVE  e < p
        <5>1. p \in Entries(async_pending) /\ p # c /\ dom[p] = d
          BY <1>2, <1>7, <4>3
        <5>2. p \in Nat /\ c \in Nat
          BY <1>1, <5>1 DEF Entries
        <5>3. ~(p < c)
          BY <1>5, <2>2, <3>4, <5>1
        <5>4. CASE e = c
          BY <5>1, <5>2, <5>3, <5>4
        <5>5. CASE e \in Entries(running[d])
          BY <3>2, <3>4, <5>1, <5>5
        <5> QED
          BY <1>8, <5>4, <5>5
      <4> QED
        BY <1>9, <3>4, <4>2, <4>3
    <3> QED
      BY <3>3, <3>4
  <2> QED
    BY <2>1, <2>2 DEF OrderInv
<1>15. SyncInOrder' /\ SyncQuiescent'
  <2>1. \A x \in AsyncContexts : Synced(x)' =>
          Synced(x) /\ dom'[x] = dom[x] /\ SyncCookie(x)' = SyncCookie(x)
    BY <1>2, <1>3 DEF Synced, SyncCookie
  <2>2. \A e \in Cookies : Unfinished(e)' => Unfinished(e) /\ dom'[e] = dom[e]
    BY <1>2, <1>3, Kinds DEF Unfinished
  <2> QED
    BY <1>2, <1>10, <2>1, <2>2, SyncKept
<1> QED
  BY <1>3, <1>11, <1>12, <1>13, <1>14, <1>15 DEF AsyncInv

(* The entry is unlinked and counted no more. *)
LEMMA RemoveStep ==
  ASSUME AsyncInv, NEW c \in Cookies, remove(c)
  PROVE  AsyncInv'
<1>1. /\ AsyncTypeOK /\ CookieInv /\ QueueWorkInv /\ ListsExact /\ LimitInv /\ OrderInv
      /\ running \in [Domains -> Seq(Cookies)] /\ async_running \in Domains
      /\ \A f \in Domains : running[f] \in Seq(Cookies) /\ running[f] \in Seq(Nat)
      /\ entry_count \in Nat /\ MAX_WORK \in Nat
  BY AsyncAssumption DEF AsyncInv, AsyncTypeOK, Cookies
<1>2. /\ pc[c] = "remove" /\ c \in AsyncContexts /\ pc' = [pc EXCEPT ![c] = "wake"]
      /\ UNCHANGED <<next_cookie, async_pending, async_done, cookie, asked, overtaken>>
      /\ entry_count' = entry_count - 1
  BY Kinds DEF remove, goto
<1>3. /\ PcType' /\ pc'[c] = "wake" /\ \A y \in AsyncContexts \ {c} : pc'[y] = pc[y]
      /\ Inserting' = Inserting /\ CookieInv' /\ QueueWorkInv'
  <2>1. "wake" \in EntryPCs
    BY DEF EntryPCs
  <2> QED
    BY <1>1, <1>2, <2>1, WorkerKeeps
<1>4. PICK d \in Domains : d = dom[c]
  BY <1>1, <1>2 DEF AsyncTypeOK
<1>5. running' = [running EXCEPT ![d] = list_del(@, c)]
  BY <1>4 DEF remove
<1>6. /\ c \in Entries(running[d]) /\ c \notin Entries(async_pending)
      /\ \A f \in Domains : IsList(running[f]) /\ (c \in Entries(running[f]) => f = d)
  BY <1>1, <1>2, <1>4 DEF ListsExact, InFunc
<1>7. PICK q \in Seq(Cookies) :
        q = list_del(running[d], c) /\ IsList(q) /\ Entries(q) = Entries(running[d]) \ {c}
  BY <1>1, <1>6, DelType, DelEntries
<1>8. /\ running' \in [Domains -> Seq(Cookies)] /\ running'[d] = q
      /\ \A f \in Domains \ {d} : running'[f] = running[f]
  BY <1>1, <1>5, <1>7
<1>9. dom' \in [AsyncContexts -> Domains] /\ \A y \in AsyncContexts \ {c} : dom'[y] = dom[y]
  BY <1>1, <1>2 DEF remove, AsyncTypeOK
<1>10. /\ entry_count' \in Nat
       /\ entry_count' = Cardinality({e \in Cookies : pc'[e] \in {"pending", "queued"} \cup InFunc})
  <2> DEFINE U == {e \in Cookies : pc[e] \in {"pending", "queued"} \cup InFunc}
             V == {e \in Cookies : pc'[e] \in {"pending", "queued"} \cup InFunc}
  <2>1. V = U \ {c} /\ c \in U
    BY <1>2, <1>3, Kinds DEF InFunc, Waiting
  <2>2. IsFiniteSet(U) /\ Cardinality(V) \in Nat
    BY Sizes
  <2>3. entry_count = Cardinality(U)
    BY <1>1 DEF ListsExact
  <2> HIDE DEF U, V
  <2>4. Cardinality(U \ {c}) = Cardinality(U) - 1
    BY <2>1, <2>2, FS_RemoveElement
  <2>5. Cardinality(V) = entry_count - 1
    BY <2>1, <2>3, <2>4
  <2> QED
    BY <1>2, <2>2, <2>5 DEF V
<1>11. AsyncTypeOK'
  BY <1>1, <1>2, <1>3, <1>8, <1>9, <1>10 DEF AsyncTypeOK, PcType
<1>12. ListsExact'
  <2>1. ASSUME NEW e \in Cookies
        PROVE  /\ e \in Entries(async_pending') <=> pc'[e] \in {"pending", "queued"}
               /\ \A f \in Domains :
                    e \in Entries(running'[f]) <=> pc'[e] \in InFunc /\ dom'[e] = f
    <3>1. CASE e = c
      <4>1. \A f \in Domains : e \notin Entries(running'[f])
        BY <1>6, <1>7, <1>8, <3>1
      <4> QED
        BY <1>2, <1>3, <1>6, <3>1, <4>1 DEF InFunc, Waiting
    <3>2. CASE e # c
      <4>1. pc'[e] = pc[e] /\ dom'[e] = dom[e]
        BY <1>3, <1>9, <3>2, Kinds
      <4>2. \A f \in Domains : e \in Entries(running'[f]) <=> e \in Entries(running[f])
        BY <1>7, <1>8, <3>2
      <4> QED
        BY <1>1, <1>2, <4>1, <4>2 DEF ListsExact
    <3> QED
      BY <3>1, <3>2
  <2>2. IsList(async_pending') /\ \A f \in Domains : IsList(running'[f])
    BY <1>1, <1>2, <1>6, <1>7, <1>8 DEF ListsExact
  <2> QED
    BY <1>10, <2>1, <2>2 DEF ListsExact
<1>13. LimitInv'
  <2>1. /\ Cardinality(Inserting) \in Nat /\ Cardinality(Callers) \in Nat
    BY Sizes DEF Inserting
  <2> QED
    BY <1>1, <1>2, <1>3, <2>1 DEF LimitInv
<1>14. OrderInv'
  <2>1. ASSUME NEW f \in Domains \ overtaken
        PROVE  /\ Sorted(running'[f])
               /\ \A e \in Entries(running'[f]), p \in Entries(async_pending) :
                    dom'[p] = f => e < p
    <3>1. /\ Sorted(running[f])
          /\ \A e \in Entries(running[f]), p \in Entries(async_pending) : dom[p] = f => e < p
      BY <1>1 DEF OrderInv
    <3>2. Sorted(running'[f]) /\ Entries(running'[f]) \subseteq Entries(running[f])
      <4>1. CASE f = d
        BY <1>1, <1>6, <1>7, <1>8, <3>1, <4>1, SortedDel
      <4>2. CASE f # d
        BY <1>8, <3>1, <4>2
      <4> QED
        BY <4>1, <4>2
    <3>3. \A p \in Entries(async_pending) : dom'[p] = dom[p]
      <4>1. \A p \in Entries(async_pending) : p \in Cookies /\ p # c
        BY <1>1, <1>6 DEF AsyncTypeOK, Entries
      <4> QED
        BY <1>9, <4>1, Kinds
    <3> QED
      BY <3>1, <3>2, <3>3
  <2> QED
    BY <1>1, <1>2, <2>1 DEF OrderInv
<1>15. SyncInOrder' /\ SyncQuiescent'
  <2>1. \A x \in AsyncContexts : Synced(x)' =>
          Synced(x) /\ dom'[x] = dom[x] /\ SyncCookie(x)' = SyncCookie(x)
    BY <1>2, <1>3, <1>9 DEF Synced, SyncCookie
  <2>2. \A e \in Cookies : Unfinished(e)' => Unfinished(e) /\ dom'[e] = dom[e]
    BY <1>3, <1>9, Kinds DEF Unfinished, InFunc, Waiting
  <2> QED
    BY <1>2, <2>1, <2>2, SyncKept
<1> QED
  BY <1>3, <1>11, <1>12, <1>13, <1>14, <1>15 DEF AsyncInv

-----------------------------------------------------------------------------
(* The invariant of the asynchronous calls holds at the start. *)
LEMMA AsyncInitInv == AsyncInit => AsyncInv
<1> SUFFICES ASSUME AsyncInit PROVE AsyncInv
  OBVIOUS
<1>1. /\ next_cookie = 1 /\ async_pending = << >> /\ entry_count = 0 /\ overtaken = {}
      /\ running = [d \in Domains |-> << >>] /\ async_done = {}
      /\ MaxCookie \in Nat /\ MAX_WORK \in Nat /\ async_running \in Domains
      /\ dom = [x \in AsyncContexts |-> async_running]
      /\ cookie = [t \in Callers |-> 0] /\ asked = [t \in Callers |-> 0]
  BY AsyncAssumption DEF AsyncInit, EmptyList
<1>2. /\ PcType
      /\ \A t \in Callers : pc[t] = "idle"
      /\ \A c \in Cookies : pc[c] = "none"
  <2>1. /\ \A t \in Callers : pc[t] = "idle"
        /\ \A c \in Cookies : pc[c] = "none"
    BY Kinds DEF AsyncInit
  <2>2. "idle" \in CallerPCs /\ "none" \in EntryPCs
    BY DEF CallerPCs, EntryPCs
  <2>3. pc \in [AsyncContexts -> CallerPCs \cup EntryPCs]
    BY <2>2 DEF AsyncInit
  <2> QED
    BY <2>1, <2>2, <2>3 DEF PcType
<1>3. AsyncTypeOK
  <2>1. /\ next_cookie \in 1 .. (MaxCookie + 1) /\ async_pending \in Seq(Cookies)
        /\ running \in [Domains -> Seq(Cookies)] /\ entry_count \in Nat
        /\ async_done \subseteq AsyncContexts /\ overtaken \subseteq Domains
    BY <1>1
  <2>2. /\ dom \in [AsyncContexts -> Domains]
        /\ cookie \in [Callers -> 0 .. (MaxCookie + 1)]
        /\ asked \in [Callers -> 0 .. (MaxCookie + 1)]
    BY <1>1
  <2> QED
    BY <1>2, <2>1, <2>2 DEF AsyncTypeOK, PcType
<1>4. Cardinality(Inserting) = 0
  <2>1. Inserting = {}
    BY <1>2 DEF Inserting
  <2> QED
    BY <2>1, FS_EmptySet
<1>5. CookieInv /\ QueueWorkInv
  BY <1>1, <1>2, <1>4 DEF CookieInv, QueueWorkInv
<1>6. LimitInv
  BY <1>1, <1>4, Sizes DEF LimitInv
<1>7. /\ Entries(async_pending) = {} /\ IsList(async_pending) /\ Sorted(async_pending)
      /\ \A d \in Domains : /\ Entries(running[d]) = {} /\ IsList(running[d])
                            /\ Sorted(running[d])
  BY <1>1 DEF Entries, IsList, Sorted
<1>8. ListsExact
  <2>1. {c \in Cookies : pc[c] \in {"pending", "queued"} \cup InFunc} = {}
    BY <1>2 DEF InFunc, Waiting
  <2> QED
    BY <1>1, <1>2, <1>7, <2>1, FS_EmptySet DEF ListsExact, InFunc, Waiting
<1>9. OrderInv
  BY <1>7 DEF OrderInv
<1>10. SyncInOrder /\ SyncQuiescent
  BY <1>2, Kinds DEF SyncInOrder, SyncQuiescent, Synced
<1> QED
  BY <1>3, <1>5, <1>6, <1>8, <1>9, <1>10 DEF AsyncInv

(* Every step keeps AsyncInv. *)
LEMMA AsyncStepInv == AsyncInv /\ [AsyncNext]_asyncVars => AsyncInv'
<1> SUFFICES ASSUME AsyncInv, [AsyncNext]_asyncVars PROVE AsyncInv'
  OBVIOUS
<1>1. CASE UNCHANGED asyncVars
  <2>1. Inserting' = Inserting
    BY <1>1 DEF asyncVars, Inserting
  <2>2. \A x \in AsyncContexts : SyncCookie(x)' = SyncCookie(x) /\ (Synced(x)' <=> Synced(x))
    BY <1>1 DEF asyncVars, SyncCookie, Synced
  <2>3. \A c \in Cookies : Unfinished(c)' <=> Unfinished(c)
    BY <1>1 DEF asyncVars, Unfinished
  <2>4. AsyncTypeOK' /\ ListsExact' /\ OrderInv'
    BY <1>1 DEF asyncVars, AsyncInv, AsyncTypeOK, ListsExact, OrderInv
  <2>5. CookieInv' /\ QueueWorkInv' /\ LimitInv'
    BY <1>1, <2>1 DEF asyncVars, AsyncInv, CookieInv, QueueWorkInv, LimitInv
  <2>6. SyncInOrder' /\ SyncQuiescent'
    BY <1>1, <2>2, <2>3 DEF asyncVars, AsyncInv, SyncInOrder, SyncQuiescent
  <2> QED
    BY <2>4, <2>5, <2>6 DEF AsyncInv
<1>2. ASSUME NEW x \in AsyncContexts, NEW l, Quiet(x, l) PROVE AsyncInv'
  <2>1. AsyncTypeOK'
    BY <1>2, QuietType DEF AsyncInv
  <2>2. CookieInv' /\ QueueWorkInv' /\ ListsExact' /\ LimitInv' /\ OrderInv'
    BY <1>2, QuietShape DEF AsyncInv
  <2>3. SyncInOrder' /\ SyncQuiescent'
    BY <1>2, QuietSync
  <2> QED
    BY <2>1, <2>2, <2>3 DEF AsyncInv
<1>3. CASE AsyncNext
  <2>1. AsyncTypeOK /\ CookieInv
    BY DEF AsyncInv
  <2> QED
    BY <1>2, <1>3, <2>1, StepCases, StartStep, RemoveStep, InsertStep, QueueWorkStep,
       ScheduleStep
<1> QED
  BY <1>1, <1>3

(* AsyncInv holds throughout. *)
LEMMA AsyncInvariant == AsyncSpec => []AsyncInv
BY AsyncInitInv, AsyncStepInv, PTL DEF AsyncSpec

(* The variables of async.c keep their types; in particular no entry is    *)
(* counted out that was not counted in.                                    *)
THEOREM AsyncTypeCorrect == AsyncSpec => []AsyncTypeOK
<1>1. AsyncInv => AsyncTypeOK
  BY DEF AsyncInv
<1> QED
  BY <1>1, AsyncInvariant, PTL

(* For any number of callers, domains and entries an entry is on exactly   *)
(* one list from __async_schedule() until async_run_entry_fn() unlinks it, *)
(* on none when it is freed, and entry_count counts them.                  *)
THEOREM ListsCorrect == AsyncSpec => []ListsExact
<1>1. AsyncInv => ListsExact
  BY DEF AsyncInv
<1> QED
  BY <1>1, AsyncInvariant, PTL

(* The limit that __async_schedule() tests without async_lock is overrun   *)
(* by at most one entry for each caller, whatever MAX_WORK is.             *)
THEOREM LimitKept == AsyncSpec => []EntryCountBound
<1>1. AsyncInv => EntryCountBound
  <2> SUFFICES ASSUME AsyncInv PROVE EntryCountBound
    OBVIOUS
  <2>1. Inserting \subseteq Callers
    BY DEF Inserting
  <2>2. /\ Cardinality(Inserting) \in Nat /\ Cardinality(Callers) \in Nat
        /\ entry_count \in Nat /\ MAX_WORK \in Nat
    BY <2>1, Sizes, AsyncAssumption DEF AsyncInv, AsyncTypeOK
  <2> QED
    BY <2>2 DEF AsyncInv, LimitInv, EntryCountBound
<1> QED
  BY <1>1, AsyncInvariant, PTL

(* async_synchronize_cookie_domain() keeps its promise in every domain     *)
(* whose entries were started in the order of their cookies.               *)
THEOREM SyncOrdered == AsyncSpec => []SyncInOrder
<1>1. AsyncInv => SyncInOrder
  BY DEF AsyncInv
<1> QED
  BY <1>1, AsyncInvariant, PTL

(* It also keeps it, in whatever order entries start, for a caller that    *)
(* passes the next cookie if no cookie is given out until it returns.      *)
THEOREM SyncIdle == AsyncSpec => []SyncQuiescent
<1>1. AsyncInv => SyncQuiescent
  BY DEF AsyncInv
<1> QED
  BY <1>1, AsyncInvariant, PTL

-----------------------------------------------------------------------------
(***************************************************************************)
(* The grace period of sleepable RCU, for any number of CPUs, readers and  *)
(* updaters and any number of flips.  The sums over CPUs are dealt with by *)
(* a function S on sets of CPUs that every step is shown to keep up to     *)
(* date (Tally).                                                           *)
(***************************************************************************)

Counter == 0 .. (Width - 1)

(* The two ranks. *)
LEMMA RankFlips ==
  ASSUME NEW n \in Nat
  PROVE  /\ Rank(n) \in {0, 1} /\ Rank(n + 1) \in {0, 1}
         /\ Rank(n) # Rank(n + 1) /\ Rank(n + 2) = Rank(n)
BY DEF Rank

(* What sp->completed can be, compared with an earlier value. *)
LEMMA ZeroOneMore ==
  ASSUME NEW a \in Nat, NEW b \in Nat, b <= a
  PROVE  a = b \/ a = b + 1 \/ a >= b + 2
OBVIOUS

(* The width of the counters is more than the number of readers. *)
LEMMA WidthType == Width \in Nat /\ Width > 0 /\ Cardinality(Readers) \in Nat
                   /\ Cardinality(Readers) < Width
BY SrcuAssumption, FS_CardinalityType

(* Counter arithmetic without the modulo. *)
LEMMA WrapAdd ==
  ASSUME NEW x \in Counter, NEW y \in Counter
  PROVE  /\ wrap(x + y) = IF x + y < Width THEN x + y ELSE x + y - Width
         /\ wrap(x + y) \in Counter
BY WidthType DEF wrap, Counter

(* Counting a reader in. *)
LEMMA WrapInc ==
  ASSUME NEW x \in Counter
  PROVE  /\ wrap(x + 1) = IF x + 1 < Width THEN x + 1 ELSE 0
         /\ wrap(x + 1) \in Counter
BY WidthType DEF wrap, Counter

(* Counting a reader out. *)
LEMMA WrapDec ==
  ASSUME NEW x \in Counter
  PROVE  /\ wrap(x - 1) = IF x = 0 THEN Width - 1 ELSE x - 1
         /\ wrap(x - 1) \in Counter
BY WidthType DEF wrap, Counter

(* Sums can be taken in any order, and a reader be counted in any summand. *)
LEMMA WrapAssoc ==
  ASSUME NEW x \in Counter, NEW y \in Counter, NEW z \in Counter
  PROVE  /\ wrap(wrap(x + y) + z) = wrap(x + wrap(y + z))
         /\ wrap(wrap(x + y) + z) = wrap(wrap(x + z) + y)
<1>1. wrap(x + y) \in Counter /\ wrap(y + z) \in Counter /\ wrap(x + z) \in Counter
  BY WrapAdd
<1>2. /\ wrap(x + y) = IF x + y < Width THEN x + y ELSE x + y - Width
      /\ wrap(y + z) = IF y + z < Width THEN y + z ELSE y + z - Width
      /\ wrap(x + z) = IF x + z < Width THEN x + z ELSE x + z - Width
  BY WrapAdd
<1> DEFINE a == wrap(x + y)
           b == wrap(y + z)
           d == wrap(x + z)
<1>3. /\ wrap(a + z) = IF a + z < Width THEN a + z ELSE a + z - Width
      /\ wrap(x + b) = IF x + b < Width THEN x + b ELSE x + b - Width
      /\ wrap(d + y) = IF d + y < Width THEN d + y ELSE d + y - Width
  BY <1>1, WrapAdd
<1> QED
  BY <1>1, <1>2, <1>3, WidthType DEF Counter

(* Counting out is adding Width - 1. *)
LEMMA DecIsAdd ==
  ASSUME NEW x \in Counter
  PROVE  wrap(x - 1) = wrap(x + (Width - 1)) /\ Width - 1 \in Counter
<1>1. Width - 1 \in Counter
  BY WidthType DEF Counter
<1>2. wrap(x + (Width - 1)) = IF x + (Width - 1) < Width THEN x + (Width - 1)
                              ELSE x + (Width - 1) - Width
  BY <1>1, WrapAdd
<1> QED
  BY <1>1, <1>2, WrapDec, WidthType DEF Counter

-----------------------------------------------------------------------------
(* Sums over sets of CPUs. *)

(* The sums after d was added to the counter of CPU q. *)
Shift(S, q, d) ==
  [T \in SUBSET CPUs |-> IF q \in T THEN wrap(S[T] + d) ELSE S[T]]

(* They are the sums of the new counters. *)
LEMMA ShiftIsSum ==
  ASSUME NEW f \in [CPUs -> Counter], NEW S \in [SUBSET CPUs -> Counter],
         IsSum(S, f), NEW q \in CPUs, NEW d \in Counter,
         NEW g \in [CPUs -> Counter], g = [f EXCEPT ![q] = wrap(f[q] + d)]
  PROVE  /\ Shift(S, q, d) \in [SUBSET CPUs -> Counter]
         /\ IsSum(Shift(S, q, d), g)
<1> DEFINE Z == Shift(S, q, d)
<1>1. Z \in [SUBSET CPUs -> Counter]
  BY WrapAdd DEF Shift
<1>2. Z[{}] = 0
  BY DEF Shift, IsSum
<1>3. ASSUME NEW T \in SUBSET CPUs, NEW p \in CPUs \ T
      PROVE  Z[T \cup {p}] = wrap(Z[T] + g[p])
  <2>1. T \cup {p} \in SUBSET CPUs /\ S[T] \in Counter /\ f[p] \in Counter
    OBVIOUS
  <2>2. S[T \cup {p}] = wrap(S[T] + f[p])
    BY DEF IsSum
  <2>3. CASE p = q
    <3>1. Z[T \cup {p}] = wrap(wrap(S[T] + f[p]) + d)
      BY <2>1, <2>2, <2>3 DEF Shift
    <3>2. Z[T] = S[T] /\ g[p] = wrap(f[p] + d)
      BY <2>3 DEF Shift
    <3> QED
      BY <2>1, <3>1, <3>2, WrapAssoc
  <2>4. CASE p # q /\ q \in T
    <3>1. Z[T \cup {p}] = wrap(wrap(S[T] + f[p]) + d)
      BY <2>1, <2>2, <2>4 DEF Shift
    <3>2. Z[T] = wrap(S[T] + d) /\ g[p] = f[p]
      BY <2>4 DEF Shift
    <3> QED
      BY <2>1, <3>1, <3>2, WrapAssoc
  <2>5. CASE p # q /\ q \notin T
    BY <2>1, <2>2, <2>5 DEF Shift
  <2> QED
    BY <2>3, <2>4, <2>5
<1> QED
  BY <1>1, <1>2, <1>3 DEF IsSum

(* Moving a counter y from what is left, z + y, to what is added, x, does  *)
(* not change the total.                                                   *)
LEMMA AddOne ==
  ASSUME NEW x \in Counter, NEW y \in Counter, NEW z \in Counter
  PROVE  wrap(wrap(x + y) + z) = wrap(x + wrap(z + y))
<1>1. y + z = z + y
  BY DEF Counter
<1> QED
  BY <1>1, WrapAssoc

-----------------------------------------------------------------------------
(* The steps of a reader ... *)
ReaderStep(r) ==
  \/ \E p \in CPUs : srcu_read_lock(r, p)
  \/ count_reader(r)
  \/ \E p \in CPUs : srcu_read_unlock(r, p)

(* ... and of an updater. *)
UpdaterStep(u) ==
  \/ synchronize_srcu(u) \/ mutex_lock(u) \/ check(u) \/ sync1_done(u) \/ flip(u)
  \/ sync2_done(u) \/ (\E p \in CPUs : add(u, p)) \/ summed(u)
  \/ sync3_done(u) \/ mutex_unlock(u)

(* Every step is one of them. *)
LEMMA NextIsStep ==
  SrcuNext => (\E r \in Readers : ReaderStep(r)) \/ \E u \in Updaters : UpdaterStep(u)
BY DEF SrcuNext, Reader, Updater, ReaderStep, UpdaterStep

(* A counter of one CPU and rank changes. *)
LEMMA CounterType ==
  ASSUME SrcuTypeOK, NEW p \in CPUs, NEW i \in {0, 1}, NEW x \in Counter,
         per_cpu_ref' = [per_cpu_ref EXCEPT ![p][i] = x]
  PROVE  /\ per_cpu_ref' \in [CPUs -> [{0, 1} -> Counter]]
         /\ \A q \in CPUs, j \in {0, 1} :
              per_cpu_ref'[q][j] = IF q = p /\ j = i THEN x ELSE per_cpu_ref[q][j]
BY DEF SrcuTypeOK, Counter

(* Readers keep the types. *)
LEMMA TypeReader ==
  ASSUME SrcuTypeOK, CpuInv, NEW r \in Readers, ReaderStep(r)
  PROVE  SrcuTypeOK'
<1> USE DEF SrcuTypeOK, updaterVars
<1>1. ASSUME NEW p \in CPUs, srcu_read_lock(r, p) PROVE SrcuTypeOK'
  <2>1. Rank(completed) \in {0, 1}
    BY RankFlips
  <2> QED
    BY <1>1, <2>1 DEF srcu_read_lock, RPCs
<1>2. ASSUME count_reader(r) PROVE SrcuTypeOK'
  <2>1. rcpu[r] \in CPUs /\ ridx[r] \in {0, 1}
    BY <1>2 DEF count_reader, CpuInv
  <2>2. per_cpu_ref[rcpu[r]][ridx[r]] \in Counter
    BY <2>1 DEF Counter
  <2>3. per_cpu_ref' =
          [per_cpu_ref EXCEPT ![rcpu[r]][ridx[r]] = wrap(per_cpu_ref[rcpu[r]][ridx[r]] + 1)]
    BY <1>2 DEF count_reader
  <2>4. per_cpu_ref' \in [CPUs -> [{0, 1} -> 0 .. (Width - 1)]]
    BY <2>1, <2>2, <2>3, WrapInc, CounterType DEF Counter
  <2> QED
    BY <1>2, <2>4 DEF count_reader, RPCs
<1>3. ASSUME NEW p \in CPUs, srcu_read_unlock(r, p) PROVE SrcuTypeOK'
  <2>1. ridx[r] \in {0, 1} /\ per_cpu_ref[p][ridx[r]] \in Counter
    BY DEF Counter
  <2>2. per_cpu_ref' = [per_cpu_ref EXCEPT ![p][ridx[r]] = wrap(per_cpu_ref[p][ridx[r]] - 1)]
    BY <1>3 DEF srcu_read_unlock
  <2>3. per_cpu_ref' \in [CPUs -> [{0, 1} -> 0 .. (Width - 1)]]
    BY <2>1, <2>2, WrapDec, CounterType DEF Counter
  <2> QED
    BY <1>3, <2>3 DEF srcu_read_unlock, RPCs
<1> QED
  BY <1>1, <1>2, <1>3 DEF ReaderStep

(* So do updaters. *)
LEMMA TypeUpdater ==
  ASSUME SrcuTypeOK, FlipInv, NEW u \in Updaters, UpdaterStep(u)
  PROVE  SrcuTypeOK'
<1> USE DEF SrcuTypeOK, readerVars, ugoto
<1>1. CASE synchronize_srcu(u)
  BY <1>1 DEF synchronize_srcu, UPCs
<1>2. CASE mutex_lock(u) \/ sync1_done(u) \/ sync3_done(u) \/ mutex_unlock(u)
  BY <1>2 DEF mutex_lock, sync1_done, sync3_done, mutex_unlock, UPCs
<1>3. CASE check(u)
  BY <1>3 DEF check, sync_start, UPCs
<1>4. CASE flip(u)
  <2>1. Rank(completed) \in Nat /\ completed + 1 \in Nat
    BY RankFlips
  <2> QED
    BY <1>4, <2>1 DEF flip, sync_start, UPCs
<1>5. CASE sync2_done(u) \/ summed(u)
  <2>1. 0 \in 0 .. (Width - 1)
    BY WidthType
  <2> QED
    BY <1>5, <2>1 DEF sync2_done, summed, sum_start, sync_start, UPCs
<1>6. ASSUME NEW p \in CPUs, add(u, p) PROVE SrcuTypeOK'
  <2>1. uidx[u] \in {0, 1}
    BY <1>6, RankFlips DEF add, FlipInv, Flipped
  <2>2. per_cpu_ref[p][uidx[u]] \in Counter /\ sum[u] \in Counter
    BY <2>1 DEF Counter
  <2>3. wrap(sum[u] + per_cpu_ref[p][uidx[u]]) \in 0 .. (Width - 1)
    BY <2>2, WrapAdd DEF Counter
  <2> QED
    BY <1>6, <2>3 DEF add
<1> QED
  BY <1>1, <1>2, <1>3, <1>4, <1>5, <1>6 DEF UpdaterStep

-----------------------------------------------------------------------------
(* Control: who flips when, and which rank readers are in. *)

Ranks == MutexInv /\ CpuInv /\ FlipInv /\ OldRankDrains /\ ActiveInv /\ BeforeInv

(* Readers keep it: a new one reads sp->completed and so joins the rank    *)
(* that nobody waits for.                                                  *)
LEMMA RanksReader ==
  ASSUME SrcuTypeOK, Ranks, NEW r \in Readers, ReaderStep(r)
  PROVE  Ranks'
<1> USE DEF SrcuTypeOK, Ranks, updaterVars
<1>1. ASSUME NEW p \in CPUs, srcu_read_lock(r, p) PROVE Ranks'
  <2>1. /\ rpc[r] = "out" /\ rpc' = [rpc EXCEPT ![r] = "lock"]
        /\ rcpu' = [rcpu EXCEPT ![r] = p]
        /\ ridx' = [ridx EXCEPT ![r] = Rank(completed)]
        /\ UNCHANGED <<completed, mutex, upc, uidx, sched, before>>
    BY <1>1 DEF srcu_read_lock
  <2>2. \A u \in Updaters : upc[u] \in Flipped => uidx[u] # Rank(completed)
    BY RankFlips DEF FlipInv
  <2>3. MutexInv' /\ CpuInv'
    BY <2>1 DEF MutexInv, CpuInv
  <2>4. FlipInv'
    BY <2>1, <2>2 DEF FlipInv, Flipped
  <2>5. OldRankDrains'
    BY <2>1, <2>2 DEF OldRankDrains, Flipped
  <2>6. ActiveInv'
    BY <2>1 DEF ActiveInv
  <2>7. BeforeInv'
    <3>1. \A u \in Updaters : r \notin before[u]
      BY <2>1 DEF BeforeInv
    <3>2. \A u \in Updaters : \A q \in before[u] :
            q \in Readers /\ rpc'[q] = rpc[q] /\ ridx'[q] = ridx[q]
      BY <2>1, <3>1
    <3> QED
      BY <2>1, <3>2 DEF BeforeInv
  <2> QED
    BY <2>3, <2>4, <2>5, <2>6, <2>7
<1>2. ASSUME count_reader(r) PROVE Ranks'
  <2>1. /\ rpc[r] = "lock" /\ rpc' = [rpc EXCEPT ![r] = "in"]
        /\ rcpu' = [rcpu EXCEPT ![r] = NULL]
        /\ sched' = [u \in Updaters |-> sched[u] \ {r}]
        /\ UNCHANGED <<completed, ridx, mutex, upc, uidx, before>>
    BY <1>2 DEF count_reader
  <2>2. MutexInv' /\ CpuInv'
    BY <2>1 DEF MutexInv, CpuInv
  <2>3. FlipInv' /\ OldRankDrains'
    BY <2>1 DEF FlipInv, OldRankDrains
  <2>4. ActiveInv' /\ BeforeInv'
    BY <2>1 DEF ActiveInv, BeforeInv
  <2> QED
    BY <2>2, <2>3, <2>4
<1>3. ASSUME NEW p \in CPUs, srcu_read_unlock(r, p) PROVE Ranks'
  <2>1. /\ rpc[r] = "in" /\ rpc' = [rpc EXCEPT ![r] = "out"]
        /\ ridx' = [ridx EXCEPT ![r] = 0]
        /\ before' = [u \in Updaters |-> before[u] \ {r}]
        /\ UNCHANGED <<completed, rcpu, mutex, upc, uidx, sched>>
    BY <1>3 DEF srcu_read_unlock
  <2>2. MutexInv' /\ CpuInv'
    BY <2>1 DEF MutexInv, CpuInv
  <2>3. FlipInv' /\ OldRankDrains'
    BY <2>1 DEF FlipInv, OldRankDrains
  <2>4. ActiveInv'
    BY <2>1 DEF ActiveInv
  <2>5. BeforeInv'
    <3>1. \A u \in Updaters : before'[u] \subseteq before[u] /\ \A q \in before'[u] :
            q \in Readers /\ rpc'[q] = rpc[q] /\ ridx'[q] = ridx[q]
      BY <2>1
    <3> QED
      BY <2>1, <3>1 DEF BeforeInv
  <2> QED
    BY <2>2, <2>3, <2>4, <2>5
<1> QED
  BY <1>1, <1>2, <1>3 DEF ReaderStep

(* The holder of sp->mutex is alone past it. *)
LEMMA Alone ==
  ASSUME SrcuTypeOK, MutexInv, NEW u \in Updaters, upc[u] \notin {"idle", "mutex"}
  PROVE  mutex = u /\ \A v \in Updaters \ {u} : upc[v] \in {"idle", "mutex"}
BY DEF MutexInv

(* Before a flip, all readers are in the rank in use. *)
LEMMA BeforeFlip ==
  ASSUME SrcuTypeOK, Ranks, NEW u \in Updaters, upc[u] = "flip"
  PROVE  /\ \A v \in Updaters : upc[v] \notin Flipped
         /\ \A r \in Readers : rpc[r] # "out" => ridx[r] = Rank(completed)
BY Alone DEF Ranks, ActiveInv, Flipped

(* When the sum is zero, the rank is empty. *)
LEMMA Drained ==
  ASSUME SrcuTypeOK, Ranks, SumInv, NEW u \in Updaters,
         upc[u] = "sum", left[u] = {}, sum[u] = 0
  PROVE  \A r \in Readers : rpc[r] # "out" => ridx[r] # uidx[u]
<1>1. uidx[u] \in {0, 1}
  BY RankFlips DEF Ranks, FlipInv, Flipped, SrcuTypeOK
<1>2. PICK S \in [SUBSET CPUs -> Counter] : Tally(uidx[u], S)
  BY <1>1 DEF SumInv, Counter
<1>3. PICK n \in Cardinality(InRank(uidx[u])) .. Cardinality(Readers) :
        wrap(sum[u] + S[left[u]]) = n
  BY <1>2 DEF Tally
<1>4. S[left[u]] = 0
  BY <1>2 DEF Tally, IsSum
<1>5. n = 0
  BY <1>3, <1>4, WidthType DEF wrap
<1>6. IsFiniteSet(InRank(uidx[u]))
  BY FS_Subset, SrcuAssumption DEF InRank
<1>7. InRank(uidx[u]) = {}
  <2>1. Cardinality(InRank(uidx[u])) \in Nat
    BY <1>6, FS_CardinalityType
  <2>2. Cardinality(InRank(uidx[u])) = 0
    BY <1>3, <1>5, <2>1, WidthType
  <2> QED
    BY <1>6, <2>2, FS_EmptySet
<1> QED
  BY <1>7 DEF InRank, Ranks, OldRankDrains, SrcuTypeOK, RPCs

(* Updaters keep it. *)
LEMMA RanksUpdater ==
  ASSUME SrcuTypeOK, Ranks, SumInv, NEW u \in Updaters, UpdaterStep(u)
  PROVE  Ranks'
<1> USE DEF SrcuTypeOK, Ranks, readerVars, ugoto
<1>1. CASE synchronize_srcu(u)
  <2>1. /\ upc[u] = "idle" /\ upc' = [upc EXCEPT ![u] = "mutex"]
        /\ uidx' = [uidx EXCEPT ![u] = completed]
        /\ before' = [before EXCEPT ![u] = {r \in Readers : rpc[r] = "in"}]
        /\ UNCHANGED <<completed, rpc, rcpu, ridx, mutex, sched>>
    BY <1>1 DEF synchronize_srcu
  <2>2. MutexInv' /\ CpuInv' /\ FlipInv' /\ OldRankDrains' /\ ActiveInv'
    BY <2>1 DEF MutexInv, CpuInv, FlipInv, OldRankDrains, ActiveInv, Flipped
  <2>3. BeforeInv'
    BY <2>1 DEF BeforeInv, Flipped
  <2> QED
    BY <2>2, <2>3
<1>2. CASE mutex_lock(u)
  <2>1. /\ upc[u] = "mutex" /\ mutex = NULL /\ mutex' = u
        /\ upc' = [upc EXCEPT ![u] = "check"]
        /\ UNCHANGED <<completed, rpc, rcpu, ridx, uidx, sched, before>>
    BY <1>2 DEF mutex_lock
  <2>2. MutexInv'
    BY <2>1, SrcuAssumption DEF MutexInv
  <2>3. CpuInv' /\ FlipInv' /\ OldRankDrains' /\ ActiveInv'
    BY <2>1 DEF CpuInv, FlipInv, OldRankDrains, ActiveInv, Flipped
  <2>4. BeforeInv'
    BY <2>1 DEF BeforeInv, Flipped
  <2> QED
    BY <2>2, <2>3, <2>4
<1>3. CASE check(u)
  <2>1. /\ upc[u] = "check"
        /\ \/ upc' = [upc EXCEPT ![u] = "unlock"] /\ completed - uidx[u] >= 2
           \/ upc' = [upc EXCEPT ![u] = "sync1"]
        /\ \A v \in Updaters \ {u} : sched'[v] = sched[v]
        /\ UNCHANGED <<completed, rpc, rcpu, ridx, mutex, uidx, before>>
    BY <1>3 DEF check, sync_start
  <2>2. MutexInv' /\ CpuInv'
    BY <2>1 DEF MutexInv, CpuInv
  <2>3. FlipInv' /\ OldRankDrains' /\ ActiveInv'
    BY <2>1 DEF FlipInv, OldRankDrains, ActiveInv, Flipped
  <2>4. completed - uidx[u] >= 2 => before[u] = {}
    BY <2>1 DEF BeforeInv
  <2>5. BeforeInv'
    BY <2>1, <2>4 DEF BeforeInv, Flipped
  <2> QED
    BY <2>2, <2>3, <2>5
<1>4. CASE sync1_done(u) \/ sync3_done(u)
  <2>1. /\ \/ upc[u] = "sync1" /\ upc' = [upc EXCEPT ![u] = "flip"]
           \/ upc[u] = "sync3" /\ upc' = [upc EXCEPT ![u] = "unlock"]
        /\ UNCHANGED <<completed, rpc, rcpu, ridx, mutex, uidx, sched, before>>
    BY <1>4 DEF sync1_done, sync3_done
  <2>2. MutexInv' /\ CpuInv' /\ FlipInv' /\ OldRankDrains' /\ ActiveInv'
    BY <2>1 DEF MutexInv, CpuInv, FlipInv, OldRankDrains, ActiveInv, Flipped
  <2>3. BeforeInv'
    BY <2>1 DEF BeforeInv, Flipped
  <2> QED
    BY <2>2, <2>3
<1>5. CASE flip(u)
  <2>1. /\ upc[u] = "flip" /\ upc' = [upc EXCEPT ![u] = "sync2"]
        /\ uidx' = [uidx EXCEPT ![u] = Rank(completed)]
        /\ completed' = completed + 1
        /\ sched' = [sched EXCEPT ![u] = {r \in Readers : rpc[r] = "lock"}]
        /\ UNCHANGED <<rpc, rcpu, ridx, mutex, before>>
    BY <1>5 DEF flip, sync_start
  <2>2. \A v \in Updaters \ {u} : upc[v] \in {"idle", "mutex"}
    BY <2>1, Alone
  <2>3. \A r \in Readers : rpc[r] # "out" => ridx[r] = Rank(completed)
    BY <2>1, BeforeFlip
  <2>4. /\ completed + 1 \in Nat /\ Rank(completed + 1) # Rank(completed)
        /\ Rank((completed + 1) + 1) = Rank(completed)
    BY RankFlips
  <2>5. MutexInv' /\ CpuInv'
    BY <2>1 DEF MutexInv, CpuInv
  <2>6. FlipInv' /\ OldRankDrains' /\ ActiveInv'
    BY <2>1, <2>2, <2>4 DEF FlipInv, OldRankDrains, ActiveInv, Flipped
  <2>7. BeforeInv'
    <3>1. ASSUME NEW v \in Updaters, NEW r \in before[v]
          PROVE  r \in Readers /\ rpc[r] = "in" /\ ridx[r] = Rank(completed)
      BY <2>3 DEF BeforeInv
    <3>2. ASSUME NEW v \in Updaters \ {u}, upc[v] = "mutex"
          PROVE  /\ uidx[v] <= completed + 1
                 /\ completed + 1 >= uidx[v] + 1 => \A r \in before[v] : ridx[r] = Rank(uidx[v])
                 /\ completed + 1 >= uidx[v] + 2 => before[v] = {}
      <4>1. completed \in Nat /\ uidx[v] \in Nat /\ uidx[v] <= completed
        BY <3>2 DEF BeforeInv
      <4>2. CASE completed = uidx[v]
        <5>1. \A r \in before[v] : ridx[r] = Rank(uidx[v])
          BY <3>1, <4>2
        <5> QED
          BY <4>2, <5>1
      <4>3. CASE completed = uidx[v] + 1
        <5>1. Rank(completed) # Rank(uidx[v])
          BY <4>1, <4>3, RankFlips
        <5>2. \A r \in before[v] : ridx[r] = Rank(uidx[v])
          BY <3>2, <4>1, <4>3 DEF BeforeInv
        <5>3. before[v] = {}
          BY <3>1, <5>1, <5>2
        <5> QED
          BY <4>1, <4>3, <5>3
      <4>4. CASE completed >= uidx[v] + 2
        BY <3>2, <4>1, <4>4 DEF BeforeInv
      <4>5. completed = uidx[v] \/ completed = uidx[v] + 1 \/ completed >= uidx[v] + 2
        BY <4>1, ZeroOneMore
      <4> QED
        BY <4>2, <4>3, <4>4, <4>5
    <3>3. ASSUME NEW v \in Updaters PROVE (BeforeInv!(v))'
      <4>1. CASE v = u
        BY <2>1, <3>1, <4>1 DEF BeforeInv, Flipped
      <4>2. CASE v # u
        BY <2>1, <2>2, <3>1, <3>2, <4>2 DEF BeforeInv, Flipped
      <4> QED
        BY <4>1, <4>2
    <3> QED
      BY <3>3 DEF BeforeInv
  <2> QED
    BY <2>5, <2>6, <2>7
<1>6. CASE sync2_done(u)
  <2>1. /\ upc[u] = "sync2" /\ sched[u] = {} /\ upc' = [upc EXCEPT ![u] = "sum"]
        /\ UNCHANGED <<completed, rpc, rcpu, ridx, mutex, uidx, sched, before>>
    BY <1>6 DEF sync2_done, sum_start
  <2>2. MutexInv' /\ CpuInv' /\ FlipInv' /\ ActiveInv'
    BY <2>1 DEF MutexInv, CpuInv, FlipInv, ActiveInv, Flipped
  <2>3. OldRankDrains'
    BY <2>1 DEF OldRankDrains, FlipInv
  <2>4. BeforeInv'
    BY <2>1 DEF BeforeInv, Flipped
  <2> QED
    BY <2>2, <2>3, <2>4
<1>7. CASE \E p \in CPUs : add(u, p)
  BY <1>7 DEF add, MutexInv, CpuInv, FlipInv, OldRankDrains, ActiveInv, BeforeInv
<1>8. CASE summed(u) /\ sum[u] # 0
  <2>1. upc' = upc /\ UNCHANGED <<completed, rpc, rcpu, ridx, mutex, uidx, sched, before>>
    BY <1>8 DEF summed, sum_start
  <2> QED
    BY <2>1 DEF MutexInv, CpuInv, FlipInv, OldRankDrains, ActiveInv, BeforeInv
<1>9. CASE summed(u) /\ sum[u] = 0
  <2>1. /\ upc[u] = "sum" /\ left[u] = {} /\ upc' = [upc EXCEPT ![u] = "sync3"]
        /\ \A v \in Updaters \ {u} : sched'[v] = sched[v]
        /\ UNCHANGED <<completed, rpc, rcpu, ridx, mutex, uidx, before>>
    BY <1>9 DEF summed, sync_start
  <2>2. \A r \in Readers : rpc[r] # "out" => ridx[r] # uidx[u]
    BY <1>9, <2>1, Drained
  <2>3. uidx[u] = Rank(completed + 1)
    BY <2>1 DEF FlipInv, Flipped
  <2>4. \A r \in Readers : rpc[r] # "out" => ridx[r] = Rank(completed)
    BY <2>2, <2>3, RankFlips
  <2>5. before[u] = {}
    <3>1. \A r \in before[u] : r \in Readers /\ rpc[r] = "in" /\ ridx[r] = uidx[u]
      BY <2>1 DEF BeforeInv, Flipped
    <3> QED
      BY <2>2, <3>1
  <2>6. MutexInv' /\ CpuInv' /\ FlipInv' /\ OldRankDrains'
    BY <2>1 DEF MutexInv, CpuInv, FlipInv, OldRankDrains, Flipped
  <2>7. ActiveInv'
    BY <2>1, <2>4 DEF ActiveInv
  <2>8. BeforeInv'
    BY <2>1, <2>5 DEF BeforeInv, Flipped
  <2> QED
    BY <2>6, <2>7, <2>8
<1>10. CASE mutex_unlock(u)
  <2>1. /\ upc[u] = "unlock" /\ upc' = [upc EXCEPT ![u] = "idle"] /\ mutex' = NULL
        /\ uidx' = [uidx EXCEPT ![u] = 0] /\ before' = [before EXCEPT ![u] = {}]
        /\ UNCHANGED <<completed, rpc, rcpu, ridx, sched>>
    BY <1>10 DEF mutex_unlock
  <2>2. MutexInv'
    BY <2>1, Alone, SrcuAssumption DEF MutexInv
  <2>3. CpuInv' /\ FlipInv' /\ OldRankDrains' /\ ActiveInv'
    BY <2>1 DEF CpuInv, FlipInv, OldRankDrains, ActiveInv, Flipped
  <2>4. BeforeInv'
    BY <2>1 DEF BeforeInv, Flipped
  <2> QED
    BY <2>2, <2>3, <2>4
<1> QED
  BY <1>1, <1>2, <1>3, <1>4, <1>5, <1>6, <1>7, <1>8, <1>9, <1>10 DEF UpdaterStep

-----------------------------------------------------------------------------
(* The sums: what the counters of a rank add up to. *)

(* Fewer readers than counter values. *)
LEMMA InRankType ==
  ASSUME NEW i \in {0, 1}
  PROVE  /\ IsFiniteSet(InRank(i)) /\ Cardinality(InRank(i)) \in Nat
         /\ Cardinality(InRank(i)) <= Cardinality(Readers)
BY FS_Subset, FS_CardinalityType, SrcuAssumption DEF InRank

(* The counters of rank i. *)
CountersOf(i) == [p \in CPUs |-> per_cpu_ref[p][i]]

(* What an updater that adds up rank i has and expects. *)
Pending(i, S) ==
  \A u \in Updaters : upc[u] = "sum" /\ uidx[u] = i =>
    \E n \in Cardinality(InRank(i)) .. Cardinality(Readers) :
      wrap(sum[u] + S[left[u]]) = n

(* A rank that a step leaves alone keeps its sums. *)
LEMMA TallySame ==
  ASSUME NEW i \in {0, 1}, NEW S, Tally(i, S), CountersOf(i)' = CountersOf(i),
         InRank(i)' = InRank(i),
         \A v \in Updaters : (upc[v] = "sum" /\ uidx[v] = i)' =>
           (upc[v] = "sum" /\ uidx[v] = i) /\ UNCHANGED <<sum[v], left[v]>>
  PROVE  Tally(i, S)'
<1>1. IsSum(S, CountersOf(i)')
  BY DEF Tally, CountersOf
<1>2. S[CPUs] = Cardinality(InRank(i)')
  BY DEF Tally
<1>3. Pending(i, S)'
  BY DEF Tally, Pending
<1> QED
  BY <1>1, <1>2, <1>3 DEF Tally, CountersOf, Pending, IsSum

(* A new reader is counted, on any CPU: in the rank that nobody adds up.   *)
LEMMA TallyCount ==
  ASSUME SrcuTypeOK, CpuInv, OldRankDrains, NEW r \in Readers, count_reader(r),
         NEW i \in {0, 1}, i = ridx[r], NEW q, q = rcpu[r],
         NEW S \in [SUBSET CPUs -> Counter], Tally(i, S)
  PROVE  \E Z \in [SUBSET CPUs -> Counter] : Tally(i, Z)'
<1> DEFINE f == CountersOf(i)
           g == CountersOf(i)'
           Z == Shift(S, q, 1)
<1>1. /\ rpc[r] = "lock" /\ rpc' = [rpc EXCEPT ![r] = "in"] /\ ridx' = ridx
      /\ UNCHANGED <<upc, uidx>>
      /\ per_cpu_ref' = [per_cpu_ref EXCEPT ![q][i] = wrap(per_cpu_ref[q][i] + 1)]
  BY DEF count_reader
<1>2. q \in CPUs /\ i \in {0, 1} /\ per_cpu_ref[q][i] \in Counter
  BY <1>1 DEF SrcuTypeOK, CpuInv, Counter
<1>3. f \in [CPUs -> Counter] /\ f[q] = per_cpu_ref[q][i]
  BY <1>2 DEF SrcuTypeOK, CountersOf, Counter
<1>4. g = [f EXCEPT ![q] = wrap(f[q] + 1)]
  <2>1. \A p \in CPUs :
          per_cpu_ref'[p][i] = IF p = q THEN wrap(per_cpu_ref[q][i] + 1) ELSE per_cpu_ref[p][i]
    <3>1. PICK x \in Counter : x = wrap(per_cpu_ref[q][i] + 1)
      BY <1>2, WrapInc
    <3>2. per_cpu_ref' = [per_cpu_ref EXCEPT ![q][i] = x]
      BY <1>1, <3>1
    <3>3. \A p \in CPUs, j \in {0, 1} :
            per_cpu_ref'[p][j] = IF p = q /\ j = i THEN x ELSE per_cpu_ref[p][j]
      BY <1>2, <3>2 DEF SrcuTypeOK
    <3> QED
      BY <1>2, <3>1, <3>3
  <2> QED
    BY <1>2, <1>3, <2>1, <1>1 DEF CountersOf
<1>5. /\ r \notin InRank(i) /\ InRank(i)' = InRank(i) \cup {r}
      /\ Cardinality(InRank(i)') = Cardinality(InRank(i)) + 1
  <2>1. r \notin InRank(i) /\ InRank(i)' = InRank(i) \cup {r}
    BY <1>1 DEF InRank, SrcuTypeOK
  <2> QED
    BY <1>2, <2>1, InRankType, FS_AddElement
<1>6. Cardinality(InRank(i)) + 1 <= Cardinality(Readers)
  <2>1. IsFiniteSet(Readers) /\ InRank(i) \cup {r} \subseteq Readers
    BY SrcuAssumption DEF InRank
  <2>2. Cardinality(InRank(i) \cup {r}) <= Cardinality(Readers)
    BY <2>1, FS_Subset
  <2> QED
    BY <1>5, <2>2
<1>7. 1 \in Counter
  BY <1>2, <1>6, InRankType, WidthType DEF Counter
<1>8. g \in [CPUs -> Counter]
  BY <1>3, <1>4, <1>7, <1>2, WrapAdd
<1>9. IsSum(S, f)
  BY DEF Tally, CountersOf
<1>10. Z \in [SUBSET CPUs -> Counter] /\ IsSum(Z, g)
  BY <1>2, <1>3, <1>4, <1>7, <1>8, <1>9, ShiftIsSum
<1>11. Z[CPUs] = Cardinality(InRank(i)')
  <2>1. Z[CPUs] = wrap(S[CPUs] + 1)
    BY <1>2 DEF Shift
  <2>2. S[CPUs] = Cardinality(InRank(i)) /\ S[CPUs] \in Counter
    BY DEF Tally
  <2> QED
    BY <1>2, <1>5, <1>6, <2>1, <2>2, WrapInc, WidthType, InRankType
<1>12. \A u \in Updaters : ~(upc'[u] = "sum" /\ uidx'[u] = i)
  BY <1>1 DEF OldRankDrains
<1>13. Tally(i, Z)'
  BY <1>1, <1>10, <1>11, <1>12 DEF Tally, CountersOf, IsSum
<1> QED
  BY <1>10, <1>13

(* A reader leaves, through any CPU: an updater that has added up this     *)
(* CPU misses it, the others see one less.                                 *)
LEMMA TallyLeave ==
  ASSUME SrcuTypeOK, NEW r \in Readers, NEW q \in CPUs, srcu_read_unlock(r, q),
         NEW i \in {0, 1}, i = ridx[r],
         NEW S \in [SUBSET CPUs -> Counter], Tally(i, S)
  PROVE  \E Z \in [SUBSET CPUs -> Counter] : Tally(i, Z)'
<1> DEFINE f == CountersOf(i)
           g == CountersOf(i)'
           d == Width - 1
           Z == Shift(S, q, d)
<1>1. /\ rpc[r] = "in" /\ rpc' = [rpc EXCEPT ![r] = "out"]
      /\ ridx' = [ridx EXCEPT ![r] = 0]
      /\ UNCHANGED <<upc, uidx, sum, left>>
      /\ per_cpu_ref' = [per_cpu_ref EXCEPT ![q][i] = wrap(per_cpu_ref[q][i] - 1)]
  BY DEF srcu_read_unlock, updaterVars
<1>2. i \in {0, 1} /\ per_cpu_ref[q][i] \in Counter
  BY DEF SrcuTypeOK, Counter
<1>3. f \in [CPUs -> Counter] /\ f[q] = per_cpu_ref[q][i] /\ d \in Counter
  BY <1>2, WidthType DEF SrcuTypeOK, CountersOf, Counter
<1>4. g = [f EXCEPT ![q] = wrap(f[q] + d)]
  <2>1. wrap(per_cpu_ref[q][i] - 1) = wrap(f[q] + d)
    BY <1>2, <1>3, DecIsAdd
  <2>2. \A p \in CPUs : per_cpu_ref'[p][i] = IF p = q THEN wrap(f[q] + d) ELSE per_cpu_ref[p][i]
    <3>1. PICK x \in Counter : x = wrap(per_cpu_ref[q][i] - 1)
      BY <1>2, WrapDec
    <3>2. per_cpu_ref' = [per_cpu_ref EXCEPT ![q][i] = x]
      BY <1>1, <3>1
    <3>3. \A p \in CPUs, j \in {0, 1} :
            per_cpu_ref'[p][j] = IF p = q /\ j = i THEN x ELSE per_cpu_ref[p][j]
      BY <1>2, <3>2 DEF SrcuTypeOK
    <3> QED
      BY <1>2, <2>1, <3>1, <3>3
  <2>3. g = [p \in CPUs |-> per_cpu_ref'[p][i]]
    BY DEF CountersOf
  <2> QED
    BY <1>2, <1>3, <2>2, <2>3 DEF CountersOf
<1>5. g \in [CPUs -> Counter]
  BY <1>3, <1>4, WrapAdd
<1>6. IsSum(S, f)
  BY DEF Tally, CountersOf
<1>7. Z \in [SUBSET CPUs -> Counter] /\ IsSum(Z, g)
  BY <1>2, <1>3, <1>4, <1>5, <1>6, ShiftIsSum
<1> DEFINE InNow == {s \in Readers : rpc'[s] = "in" /\ ridx'[s] = i}
           m == Cardinality(InRank(i))
<1>8. /\ m \in Nat /\ m >= 1 /\ m <= Cardinality(Readers)
      /\ Cardinality(InNow) = m - 1
  <2>1. r \in InRank(i) /\ InNow = InRank(i) \ {r}
    BY <1>1 DEF InRank, SrcuTypeOK
  <2>2. IsFiniteSet(InRank(i)) /\ m \in Nat /\ m <= Cardinality(Readers)
    BY <1>2, InRankType
  <2>3. Cardinality(InNow) = m - 1
    BY <2>1, <2>2, FS_RemoveElement
  <2>4. IsFiniteSet(InNow)
    BY <2>1, <2>2, FS_RemoveElement
  <2>5. Cardinality(InNow) \in Nat
    BY <2>4, FS_CardinalityType
  <2> QED
    BY <2>2, <2>3, <2>5
<1>9. Z[CPUs] = m - 1
  <2>1. Z[CPUs] = wrap(S[CPUs] + d)
    BY DEF Shift
  <2>2. S[CPUs] = m /\ S[CPUs] \in Counter
    BY DEF Tally
  <2>3. wrap(S[CPUs] + d) = wrap(S[CPUs] - 1)
    BY <2>2, DecIsAdd
  <2> QED
    BY <1>8, <2>1, <2>2, <2>3, WrapDec
<1>10. ASSUME NEW u \in Updaters, upc[u] = "sum", uidx[u] = i
       PROVE  \E n \in (m - 1) .. Cardinality(Readers) : wrap(sum[u] + Z[left[u]]) = n
  <2>1. PICK n \in m .. Cardinality(Readers) : wrap(sum[u] + S[left[u]]) = n
    BY <1>10 DEF Tally
  <2>2. left[u] \in SUBSET CPUs /\ sum[u] \in Counter /\ S[left[u]] \in Counter
    BY DEF SrcuTypeOK, Counter
  <2>3. CASE q \notin left[u]
    <3>1. Z[left[u]] = S[left[u]]
      BY <2>2, <2>3 DEF Shift
    <3>2. n \in (m - 1) .. Cardinality(Readers)
      BY <1>8, WidthType
    <3> QED
      BY <2>1, <3>1, <3>2
  <2>4. CASE q \in left[u]
    <3>1. Z[left[u]] = wrap(S[left[u]] + d)
      BY <2>2, <2>4 DEF Shift
    <3>2. wrap(sum[u] + wrap(S[left[u]] + d)) = wrap(wrap(sum[u] + S[left[u]]) + d)
      BY <1>3, <2>2, WrapAssoc
    <3>3. n \in Counter /\ n >= 1
      BY <1>8, WidthType DEF Counter
    <3>4. wrap(n + d) = n - 1
      BY <3>3, DecIsAdd, WrapDec
    <3>5. n - 1 \in (m - 1) .. Cardinality(Readers)
      BY <1>8, <3>3, WidthType
    <3> QED
      BY <2>1, <3>1, <3>2, <3>4, <3>5
  <2> QED
    BY <2>3, <2>4
<1>11. Tally(i, Z)'
  <2>1. InRank(i)' = InNow
    BY DEF InRank
  <2>2. \A u \in Updaters : upc'[u] = "sum" /\ uidx'[u] = i =>
          \E n \in Cardinality(InNow) .. Cardinality(Readers) :
            wrap(sum'[u] + Z[left'[u]]) = n
    BY <1>1, <1>8, <1>10
  <2> QED
    BY <1>7, <1>8, <1>9, <2>1, <2>2 DEF Tally, CountersOf, IsSum
<1> QED
  BY <1>7, <1>11

(* Readers keep the sums. *)
LEMMA SumReader ==
  ASSUME SrcuTypeOK, Ranks, SumInv, NEW r \in Readers, ReaderStep(r)
  PROVE  SumInv'
<1> SUFFICES ASSUME NEW i \in {0, 1}, NEW S \in [SUBSET CPUs -> Counter], Tally(i, S)
             PROVE  \E Z \in [SUBSET CPUs -> Counter] : Tally(i, Z)'
  BY DEF SumInv, Counter
<1>1. ASSUME NEW p \in CPUs, srcu_read_lock(r, p)
      PROVE  Tally(i, S)'
  <2>1. /\ rpc[r] = "out" /\ rpc' = [rpc EXCEPT ![r] = "lock"]
        /\ ridx' = [ridx EXCEPT ![r] = Rank(completed)]
        /\ UNCHANGED <<per_cpu_ref, upc, uidx, sum, left>>
    BY <1>1 DEF srcu_read_lock, updaterVars
  <2>2. InRank(i)' = InRank(i)
    BY <2>1 DEF InRank, SrcuTypeOK
  <2>3. CountersOf(i)' = CountersOf(i)
    BY <2>1 DEF CountersOf
  <2> QED
    BY <2>1, <2>2, <2>3, TallySame
<1>2. CASE count_reader(r)
  <2>1. /\ rpc[r] = "lock" /\ rpc' = [rpc EXCEPT ![r] = "in"] /\ ridx' = ridx
        /\ per_cpu_ref' =
             [per_cpu_ref EXCEPT ![rcpu[r]][ridx[r]] = wrap(per_cpu_ref[rcpu[r]][ridx[r]] + 1)]
        /\ UNCHANGED <<upc, uidx, sum, left>>
    BY <1>2 DEF count_reader
  <2>2. CASE i = ridx[r]
    BY <1>2, <2>2, TallyCount DEF Ranks
  <2>3. CASE i # ridx[r]
    <3>1. InRank(i)' = InRank(i)
      BY <2>1, <2>3 DEF InRank, SrcuTypeOK
    <3>2. /\ rcpu[r] \in CPUs /\ ridx[r] \in {0, 1}
          /\ per_cpu_ref[rcpu[r]][ridx[r]] \in Counter
      BY <2>1 DEF SrcuTypeOK, Ranks, CpuInv, Counter
    <3>3. \A p \in CPUs : per_cpu_ref'[p][i] = per_cpu_ref[p][i]
      BY <2>1, <2>3, <3>2, WrapInc, CounterType
    <3>4. CountersOf(i)' = CountersOf(i)
      BY <3>3 DEF CountersOf
    <3>5. Tally(i, S)'
      BY <2>1, <3>1, <3>4, TallySame
    <3> QED
      BY <3>5
  <2> QED
    BY <2>2, <2>3
<1>3. ASSUME NEW p \in CPUs, srcu_read_unlock(r, p)
      PROVE  \E Z \in [SUBSET CPUs -> Counter] : Tally(i, Z)'
  <2>1. /\ rpc[r] = "in" /\ rpc' = [rpc EXCEPT ![r] = "out"]
        /\ ridx' = [ridx EXCEPT ![r] = 0]
        /\ per_cpu_ref' = [per_cpu_ref EXCEPT ![p][ridx[r]] = wrap(per_cpu_ref[p][ridx[r]] - 1)]
        /\ UNCHANGED <<upc, uidx, sum, left>>
    BY <1>3 DEF srcu_read_unlock, updaterVars
  <2>2. CASE i = ridx[r]
    BY <1>3, <2>2, TallyLeave
  <2>3. CASE i # ridx[r]
    <3>1. InRank(i)' = InRank(i)
      BY <2>1, <2>3 DEF InRank, SrcuTypeOK
    <3>2. ridx[r] \in {0, 1} /\ per_cpu_ref[p][ridx[r]] \in Counter
      BY DEF SrcuTypeOK, Counter
    <3>3. \A q \in CPUs : per_cpu_ref'[q][i] = per_cpu_ref[q][i]
      BY <2>1, <2>3, <3>2, WrapDec, CounterType
    <3>4. CountersOf(i)' = CountersOf(i)
      BY <3>3 DEF CountersOf
    <3>5. Tally(i, S)'
      BY <2>1, <3>1, <3>4, TallySame
    <3> QED
      BY <3>5
  <2> QED
    BY <2>2, <2>3
<1> QED
  BY <1>1, <1>2, <1>3 DEF ReaderStep

(* So do updaters: a pass over the CPUs starts with the number of readers, *)
(* and adding one more CPU does not change what will come out.             *)
LEMMA SumUpdater ==
  ASSUME SrcuTypeOK, Ranks, SumInv, NEW u \in Updaters, UpdaterStep(u)
  PROVE  SumInv'
<1> SUFFICES ASSUME NEW i \in {0, 1}, NEW S \in [SUBSET CPUs -> Counter], Tally(i, S)
             PROVE  Tally(i, S)'
  BY DEF SumInv, Counter
<1> USE DEF readerVars, ugoto
<1>1. UNCHANGED <<per_cpu_ref, rpc, ridx>>
  BY DEF UpdaterStep, synchronize_srcu, mutex_lock, check, sync1_done, flip,
         sync2_done, add, summed, sync3_done, mutex_unlock
<1>2. InRank(i)' = InRank(i) /\ CountersOf(i)' = CountersOf(i)
  BY <1>1 DEF InRank, CountersOf
<1>3. \A v \in Updaters \ {u} : UNCHANGED <<upc[v], uidx[v], sum[v], left[v]>>
  BY DEF UpdaterStep, synchronize_srcu, mutex_lock, check, sync1_done, flip,
         sync2_done, add, summed, sync3_done, mutex_unlock, sum_start, sync_start,
         SrcuTypeOK
<1>4. CASE upc'[u] # "sum"
  BY <1>2, <1>3, <1>4, TallySame
<1>5. CASE sync2_done(u) \/ (summed(u) /\ sum[u] # 0)
  <2>1. sum'[u] = 0 /\ left'[u] = CPUs
    BY <1>5 DEF sync2_done, summed, sum_start, SrcuTypeOK
  <2>2. S[CPUs] = Cardinality(InRank(i)) /\ S[CPUs] \in Counter
    BY DEF Tally
  <2>3. wrap(0 + S[CPUs]) = Cardinality(InRank(i))
    BY <2>2, WidthType, WrapAdd DEF Counter
  <2>4. Cardinality(InRank(i)) \in Cardinality(InRank(i)) .. Cardinality(Readers)
    BY InRankType, WidthType
  <2>5. \E n \in Cardinality(InRank(i)) .. Cardinality(Readers) :
          wrap(sum'[u] + S[left'[u]]) = n
    BY <2>1, <2>3, <2>4
  <2> QED
    BY <1>2, <1>3, <2>5 DEF Tally, CountersOf
<1>6. ASSUME NEW p \in CPUs, add(u, p)
      PROVE  Tally(i, S)'
  <2>1. /\ upc[u] = "sum" /\ p \in left[u] /\ uidx' = uidx /\ upc' = upc
        /\ sum'[u] = wrap(sum[u] + per_cpu_ref[p][uidx[u]]) /\ left'[u] = left[u] \ {p}
    BY <1>6 DEF add, SrcuTypeOK
  <2>2. CASE uidx[u] # i
    BY <1>2, <1>3, <2>1, <2>2, TallySame
  <2>3. CASE uidx[u] = i
    <3>1. PICK n \in Cardinality(InRank(i)) .. Cardinality(Readers) :
            wrap(sum[u] + S[left[u]]) = n
      BY <2>1, <2>3 DEF Tally
    <3> DEFINE T == left[u] \ {p}
    <3>2. /\ T \in SUBSET CPUs /\ p \in CPUs \ T /\ left[u] = T \cup {p}
          /\ sum[u] \in Counter /\ per_cpu_ref[p][i] \in Counter /\ S[T] \in Counter
      BY <2>1 DEF SrcuTypeOK, Counter
    <3>3. S[left[u]] = wrap(S[T] + per_cpu_ref[p][i])
      <4>1. IsSum(S, CountersOf(i)) /\ CountersOf(i)[p] = per_cpu_ref[p][i]
        BY DEF Tally, CountersOf
      <4>2. S[T \cup {p}] = wrap(S[T] + CountersOf(i)[p])
        <5> HIDE DEF T
        <5> QED
          BY <3>2, <4>1 DEF IsSum
      <4> QED
        BY <3>2, <4>1, <4>2
    <3>4. wrap(wrap(sum[u] + per_cpu_ref[p][i]) + S[T]) = wrap(sum[u] + S[left[u]])
      BY <3>2, <3>3, AddOne
    <3>5. wrap(sum'[u] + S[left'[u]]) = n
      BY <2>1, <2>3, <3>1, <3>4
    <3> QED
      BY <1>2, <1>3, <3>5 DEF Tally, CountersOf
  <2> QED
    BY <2>2, <2>3
<1>7. \/ upc'[u] # "sum" \/ sync2_done(u) \/ (summed(u) /\ sum[u] # 0)
      \/ \E p \in CPUs : add(u, p)
  BY DEF UpdaterStep, synchronize_srcu, mutex_lock, check, sync1_done, flip,
         summed, sync3_done, mutex_unlock, sync_start, SrcuTypeOK
<1> QED
  BY <1>4, <1>5, <1>6, <1>7

-----------------------------------------------------------------------------
(* At first nobody is inside and all counters are zero. *)
LEMMA SrcuInitInv == SrcuInit => SrcuInv
<1> SUFFICES ASSUME SrcuInit PROVE SrcuInv
  OBVIOUS
<1>1. SrcuTypeOK
  BY WidthType DEF SrcuInit, SrcuTypeOK, RPCs, UPCs
<1>2. MutexInv /\ CpuInv /\ FlipInv /\ OldRankDrains /\ ActiveInv
  BY SrcuAssumption DEF SrcuInit, MutexInv, CpuInv, FlipInv, OldRankDrains, ActiveInv,
                        Flipped
<1>3. BeforeInv
  BY DEF SrcuInit, BeforeInv, Flipped
<1>4. SumInv
  <2> SUFFICES ASSUME NEW i \in {0, 1}
               PROVE  \E S \in [SUBSET CPUs -> 0 .. (Width - 1)] : Tally(i, S)
    BY DEF SumInv
  <2> DEFINE S == [T \in SUBSET CPUs |-> 0]
  <2>1. S \in [SUBSET CPUs -> 0 .. (Width - 1)]
    BY WidthType
  <2>2. wrap(0 + 0) = 0
    BY WidthType DEF wrap
  <2>3. IsSum(S, [p \in CPUs |-> per_cpu_ref[p][i]])
    BY <2>2 DEF IsSum, SrcuInit
  <2>4. InRank(i) = {}
    BY DEF InRank, SrcuInit
  <2>5. S[CPUs] = Cardinality(InRank(i))
    BY <2>4, FS_EmptySet
  <2> QED
    BY <2>1, <2>3, <2>5 DEF Tally, SrcuInit
<1> QED
  BY <1>1, <1>2, <1>3, <1>4 DEF SrcuInv

(* Every step keeps the invariant. *)
LEMMA SrcuStepInv == SrcuInv /\ [SrcuNext]_srcuVars => SrcuInv'
<1> SUFFICES ASSUME SrcuInv, [SrcuNext]_srcuVars PROVE SrcuInv'
  OBVIOUS
<1>1. SrcuTypeOK /\ Ranks /\ SumInv /\ CpuInv /\ FlipInv
  BY DEF SrcuInv, Ranks
<1>2. ASSUME NEW r \in Readers, ReaderStep(r) PROVE SrcuInv'
  BY <1>1, <1>2, TypeReader, RanksReader, SumReader DEF SrcuInv, Ranks
<1>3. ASSUME NEW u \in Updaters, UpdaterStep(u) PROVE SrcuInv'
  BY <1>1, <1>3, TypeUpdater, RanksUpdater, SumUpdater DEF SrcuInv, Ranks
<1>4. CASE UNCHANGED srcuVars
  <2>1. UNCHANGED <<completed, per_cpu_ref, mutex, rpc, rcpu, ridx, upc, uidx,
                      sched, left, sum, before>>
    BY <1>4 DEF srcuVars, readerVars, updaterVars
  <2>2. SrcuTypeOK'
    BY <1>1, <2>1 DEF SrcuTypeOK
  <2>3. Ranks'
    BY <1>1, <2>1 DEF Ranks, MutexInv, CpuInv, FlipInv, OldRankDrains, ActiveInv, BeforeInv
  <2>4. SumInv'
    <3>1. ASSUME NEW i \in {0, 1}
          PROVE  InRank(i)' = InRank(i) /\ CountersOf(i)' = CountersOf(i)
      BY <2>1 DEF InRank, CountersOf
    <3>2. ASSUME NEW i \in {0, 1}, NEW S, Tally(i, S)
          PROVE  Tally(i, S)'
      BY <2>1, <3>1, <3>2, TallySame
    <3> QED
      BY <1>1, <3>2 DEF SumInv
  <2> QED
    BY <2>2, <2>3, <2>4 DEF SrcuInv, Ranks
<1> QED
  BY <1>2, <1>3, <1>4, NextIsStep

(* SrcuInv holds throughout. *)
LEMMA SrcuInvariant == SrcuSpec => []SrcuInv
BY SrcuInitInv, SrcuStepInv, PTL DEF SrcuSpec

(* All variables keep their types: the counters and sums of kernel/srcu.c  *)
(* stay in their range although they wrap.                                 *)
THEOREM SrcuTypeCorrect == SrcuSpec => []SrcuTypeOK
BY SrcuInvariant, PTL DEF SrcuInv

(* The rank that synchronize_srcu() adds up gets no new readers from the   *)
(* end of its synchronize_sched() on, for any number of CPUs, readers and  *)
(* updaters: what __srcu_read_lock() counts late was waited for.           *)
THEOREM OldRankCorrect == SrcuSpec => []OldRankDrains
BY SrcuInvariant, PTL DEF SrcuInv

(* synchronize_srcu() returns only after every reader that was inside at   *)
(* the call has left, whether __synchronize_srcu() waited itself or found  *)
(* sp->completed two ahead and returned at once.                           *)
THEOREM GracePeriodCorrect == SrcuSpec => []GracePeriod
<1>1. SrcuInv => GracePeriod
  BY DEF SrcuInv, BeforeInv, GracePeriod
<1> QED
  BY <1>1, SrcuInvariant, PTL

-----------------------------------------------------------------------------
(***************************************************************************)
(* irq_work, for any number of CPUs, contexts and entries.  The lists are  *)
(* chains of words, and Walk() follows them; the invariant says that there *)
(* are sequences that are the contents of the lists and a function that    *)
(* says where each entry is, and every step is shown to have new ones.     *)
(***************************************************************************)

(* q holds the entries that are linked in the words w from p on. *)
Linked(w, p, q) ==
  /\ p = IF Len(q) = 0 THEN NULL ELSE q[1]
  /\ \A i \in 1 .. Len(q) : w[q[i]].next = IF i < Len(q) THEN q[i + 1] ELSE NULL

(* S is the set of the entries of a list that starts at p. *)
ListFrom(w, p, S) ==
  \E q \in Seq(Works) : IsList(q) /\ Linked(w, p, q) /\ Entries(q) = S

(* Where an entry can be. *)
Nowhere == <<"none", NULL>>
Spots == {Nowhere} \cup ({"ctx"} \X Contexts) \cup ({"list", "run"} \X CPUs)

Holds(x, e) == ctx[x].pc \in {"queue", "push"} /\ ctx[x].entry = e

(* Entry e is at p and nowhere else; it is PENDING if that is anywhere. *)
AtSpot(e, p, ls, td) ==
  /\ word[e].pending <=> p # Nowhere
  /\ \A b \in CPUs : /\ e \in Entries(ls[b]) <=> p = <<"list", b>>
                     /\ e \in Entries(td[b]) <=> p = <<"run", b>>
  /\ \A x \in Contexts : Holds(x, e) <=> p = <<"ctx", x>>

(* ls and td are the contents of the lists, at is where each entry is. *)
PlacedBy(ls, td, at) ==
  /\ \A b \in CPUs : /\ IsList(ls[b]) /\ Linked(word, irq_work_list[b], ls[b])
                     /\ IsList(td[b]) /\ Linked(word, run[b].list, td[b])
  /\ \A e \in Works : AtSpot(e, at[e], ls, td)

CtxOK(x) ==
  /\ ctx[x].pc # "idle" => ctx[x].entry \in Works
  /\ ctx[x].pc = "claim" => ~ctx[x].seen.pending
  /\ ctx[x].pc = "push" => ctx[x].cpu \in CPUs /\ word[ctx[x].entry].next = ctx[x].head

RunOK(b) ==
  /\ run[b].pc \in {"func", "clear"} <=> run[b].entry # NULL
  /\ run[b].pc = "idle" => run[b].list = NULL

BusyOK(e) ==
  /\ word[e].pending => word[e].busy
  /\ e \notin overlapped => /\ \A b, d \in InUse(e) : b = d
                            /\ InUse(e) # {} => word[e].busy

IrqInv ==
  /\ IrqTypeOK
  /\ \A x \in Contexts : CtxOK(x)
  /\ \A b \in CPUs : RunOK(b)
  /\ \A e \in Works : BusyOK(e)
  /\ \E ls \in [CPUs -> Seq(Works)], td \in [CPUs -> Seq(Works)], at \in [Works -> Spots] :
       PlacedBy(ls, td, at)

-----------------------------------------------------------------------------
(* Lists of entries that are linked by their words. *)

(* A list does not change as long as the links of its entries do not. *)
LEMMA LinkedFrame ==
  ASSUME NEW q \in Seq(Works), NEW p, NEW w, NEW v, Linked(w, p, q),
         \A e \in Entries(q) : v[e].next = w[e].next
  PROVE  Linked(v, p, q)
<1>1. \A i \in 1 .. Len(q) : q[i] \in Entries(q)
  BY DEF Entries
<1> QED
  BY <1>1 DEF Linked

(* The null pointer is the list without entries. *)
LEMMA LinkedNone ==
  ASSUME NEW w
  PROVE  /\ Linked(w, NULL, <<>>) /\ IsList(<<>>) /\ Entries(<<>>) = {}
         /\ \A q \in Seq(Works) : Linked(w, NULL, q) => q = <<>>
<1>1. \A q \in Seq(Works) : Len(q) # 0 => q[1] \in Works
  OBVIOUS
<1>2. Linked(w, NULL, <<>>) /\ IsList(<<>>) /\ Entries(<<>>) = {}
  BY DEF Linked, IsList, Entries
<1> QED
  BY <1>1, <1>2, IrqWorkAssumption DEF Linked

(* An entry that is linked to a list is the head of a list. *)
LEMMA LinkedCons ==
  ASSUME NEW q \in Seq(Works), NEW p, NEW w, Linked(w, p, q), IsList(q),
         NEW e \in Works, e \notin Entries(q), w[e].next = p
  PROVE  ListFrom(w, e, {e} \cup Entries(q))
<1> DEFINE r == <<e>> \o q
           n == Len(q)
<1>1. /\ r \in Seq(Works) /\ Len(r) = n + 1 /\ r[1] = e /\ n \in Nat
      /\ \A i \in 1 .. n : r[i + 1] = q[i]
      /\ \A i \in 2 .. (n + 1) : r[i] = q[i - 1]
  OBVIOUS
<1>2. IsList(<<e>>) /\ Entries(<<e>>) = {e} /\ <<e>> \in Seq(Works)
  BY DEF IsList, Entries
<1>3. IsList(r) /\ Entries(r) = {e} \cup Entries(q)
  <2>1. PICK s \in Seq(Works) : s = <<e>>
    BY <1>2
  <2>2. IsList(s) /\ Entries(s) = {e} /\ Entries(s) \cap Entries(q) = {}
    BY <1>2, <2>1
  <2>3. IsList(s \o q) /\ Entries(s \o q) = Entries(s) \cup Entries(q)
    BY <2>2, Spliced
  <2> QED
    BY <2>1, <2>2, <2>3
<1> HIDE DEF r, n
<1>4. ASSUME NEW i \in 1 .. (n + 1)
      PROVE  w[r[i]].next = IF i < n + 1 THEN r[i + 1] ELSE NULL
  <2>1. CASE i = 1
    <3>1. p = IF n = 0 THEN NULL ELSE q[1]
      BY DEF Linked, n
    <3> QED
      BY <1>1, <2>1, <3>1
  <2>2. CASE i > 1
    <3>1. i - 1 \in 1 .. n /\ r[i] = q[i - 1]
      BY <1>1, <2>2
    <3>2. w[q[i - 1]].next = IF i - 1 < n THEN q[(i - 1) + 1] ELSE NULL
      BY <3>1 DEF Linked, n
    <3>3. CASE i - 1 < n
      <4>1. i < n + 1 /\ i \in 1 .. n /\ (i - 1) + 1 = i
        BY <1>1, <3>1, <3>3
      <4> QED
        BY <1>1, <3>1, <3>2, <3>3, <4>1
    <3>4. CASE ~(i - 1 < n)
      BY <1>1, <3>1, <3>2, <3>4
    <3> QED
      BY <3>3, <3>4
  <2> QED
    BY <2>1, <2>2
<1>5. Linked(w, e, r)
  BY <1>1, <1>4 DEF Linked
<1> QED
  BY <1>1, <1>3, <1>5 DEF ListFrom

(* The head of a list is linked to the rest of it. *)
LEMMA LinkedTail ==
  ASSUME NEW q \in Seq(Works), NEW p, NEW w, Linked(w, p, q), IsList(q), p # NULL
  PROVE  /\ p \in Works /\ p \in Entries(q)
         /\ ListFrom(w, w[p].next, Entries(q) \ {p})
<1>1. Len(q) # 0 /\ p = q[1] /\ ~list_empty(q)
  BY DEF Linked, list_empty
<1>2. p \in Works /\ p \in Entries(q)
  BY <1>1 DEF Entries
<1>3. Tail(q) \in Seq(Works) /\ IsList(Tail(q)) /\ Entries(Tail(q)) = Entries(q) \ {p}
  BY <1>1, TailList DEF list_first_entry
<1> DEFINE r == Tail(q)
           n == Len(q)
<1>4. /\ n \in Nat /\ n >= 1 /\ Len(r) = n - 1
      /\ \A i \in 1 .. (n - 1) : r[i] = q[i + 1]
  BY <1>1
<1> HIDE DEF r, n
<1>5. ASSUME NEW i \in 1 .. n PROVE w[q[i]].next = IF i < n THEN q[i + 1] ELSE NULL
  BY DEF Linked, n
<1>6. w[p].next = IF n - 1 = 0 THEN NULL ELSE r[1]
  <2>1. w[q[1]].next = IF 1 < n THEN q[2] ELSE NULL
    BY <1>4, <1>5
  <2> QED
    BY <1>1, <1>4, <2>1
<1>7. ASSUME NEW i \in 1 .. (n - 1)
      PROVE  w[r[i]].next = IF i < n - 1 THEN r[i + 1] ELSE NULL
  <2>1. i + 1 \in 1 .. n /\ r[i] = q[i + 1]
    BY <1>4
  <2>2. w[q[i + 1]].next = IF i + 1 < n THEN q[(i + 1) + 1] ELSE NULL
    BY <1>5, <2>1
  <2>3. CASE i < n - 1
    <3>1. i + 1 < n /\ i + 1 \in 1 .. (n - 1)
      BY <1>4, <2>3
    <3> QED
      BY <1>4, <2>1, <2>2, <2>3, <3>1
  <2>4. CASE ~(i < n - 1)
    BY <1>4, <2>1, <2>2, <2>4
  <2> QED
    BY <2>3, <2>4
<1>8. Linked(w, w[p].next, r)
  BY <1>4, <1>6, <1>7 DEF Linked
<1>9. r \in Seq(Works) /\ IsList(r) /\ Entries(r) = Entries(q) \ {p}
  BY <1>3 DEF r
<1> QED
  BY <1>2, <1>8, <1>9 DEF ListFrom

-----------------------------------------------------------------------------
(* What Walk() finds: the entries of the list one by one, and then NULL. *)
LEMMA WalkIs ==
  ASSUME IrqTypeOK, NEW q \in Seq(Works), NEW p, Linked(word, p, q)
  PROVE  \A n \in Nat : Walk(p)[n] = IF n < Len(q) THEN q[n + 1] ELSE NULL
<1> DEFINE F(g) == [n \in Nat |-> IF n = 0 THEN p
                                 ELSE IF g[n - 1] = NULL THEN NULL ELSE word[g[n - 1]].next]
           f == [n \in Nat |-> IF n < Len(q) THEN q[n + 1] ELSE NULL]
           h == CHOOSE g : g = F(g)
<1>0. Len(q) \in Nat /\ \A i \in 1 .. Len(q) : q[i] \in Works /\ q[i] # NULL
  BY IrqWorkAssumption
<1>1. f = F(f)
  <2> SUFFICES ASSUME NEW n \in Nat PROVE f[n] = F(f)[n]
    OBVIOUS
  <2>1. CASE n = 0
    BY <1>0, <2>1 DEF Linked
  <2>2. CASE n # 0
    <3>1. n - 1 \in Nat
      BY <2>2
    <3>2. CASE n - 1 < Len(q)
      <4>1. /\ n \in 1 .. Len(q) /\ f[n - 1] = q[n] /\ f[n - 1] # NULL
        BY <1>0, <2>2, <3>1, <3>2
      <4>2. word[q[n]].next = IF n < Len(q) THEN q[n + 1] ELSE NULL
        BY <4>1 DEF Linked
      <4> QED
        BY <2>2, <4>1, <4>2
    <3>3. CASE ~(n - 1 < Len(q))
      <4>1. f[n - 1] = NULL /\ f[n] = NULL
        BY <1>0, <3>1, <3>3
      <4> QED
        BY <2>2, <4>1
    <3> QED
      BY <3>2, <3>3
  <2> QED
    BY <2>1, <2>2
<1>2. Walk(p) = h
  BY Zenon DEF Walk
<1>3. h = F(h)
  BY <1>1, Zenon
<1> HIDE DEF h
<1>4. \A n \in Nat : h[n] = IF n = 0 THEN p
                           ELSE IF h[n - 1] = NULL THEN NULL ELSE word[h[n - 1]].next
  BY <1>3
<1>5. \A n \in Nat : f[n] = IF n = 0 THEN p
                           ELSE IF f[n - 1] = NULL THEN NULL ELSE word[f[n - 1]].next
  BY <1>1
<1>6. \A n \in Nat : f[n] = IF n < Len(q) THEN q[n + 1] ELSE NULL
  OBVIOUS
<1> HIDE DEF f
<1>7. \A n \in Nat : h[n] = f[n]
  <2> DEFINE P == {n \in Nat : h[n] # f[n]}
  <2> SUFFICES ASSUME P # {} PROVE FALSE
    OBVIOUS
  <2>1. PICK m \in Nat : h[m] # f[m] /\ \A n \in Nat : h[n] # f[n] => m <= n
    BY LeastOf
  <2>2. m # 0
    BY <1>4, <1>5, <2>1
  <2>3. m - 1 \in Nat /\ ~(m <= m - 1)
    BY <2>2
  <2>4. h[m - 1] = f[m - 1]
    BY <2>1, <2>3
  <2> QED
    BY <1>4, <1>5, <2>1, <2>2, <2>4
<1> QED
  BY <1>2, <1>6, <1>7

(* A list without repetition is not longer than there are entries. *)
LEMMA ListBound ==
  ASSUME NEW q \in Seq(Works), IsList(q)
  PROVE  Len(q) <= Cardinality(Works) /\ Cardinality(Works) \in Nat
<1>1. q \in Injection(1 .. Len(q), Works)
  BY DEF IsList, Injection, IsInjective
<1>2. Cardinality(1 .. Len(q)) <= Cardinality(Works)
  BY <1>1, FS_Injection, IrqWorkAssumption
<1>3. Cardinality(1 .. Len(q)) = Len(q)
  <2>1. Len(q) \in Nat /\ 1 \in Int /\ Len(q) \in Int
    OBVIOUS
  <2>2. Cardinality(1 .. Len(q)) = IF 1 > Len(q) THEN 0 ELSE Len(q) - 1 + 1
    BY <2>1, FS_Interval
  <2> QED
    BY <2>1, <2>2
<1> QED
  BY <1>2, <1>3, FS_CardinalityType, IrqWorkAssumption

(* The set of the entries that Walk() finds, and its end. *)
LEMMA OnListIs ==
  ASSUME IrqTypeOK, NEW q \in Seq(Works), NEW p, Linked(word, p, q), IsList(q)
  PROVE  OnList(p) = Entries(q) /\ Ends(p)
<1> DEFINE k == Cardinality(Works)
<1>1. Len(q) \in Nat /\ k \in Nat /\ Len(q) <= k
  BY ListBound
<1> HIDE DEF k
<1>2. \A n \in Nat : Walk(p)[n] = IF n < Len(q) THEN q[n + 1] ELSE NULL
  BY WalkIs
<1>3. Ends(p)
  BY <1>1, <1>2 DEF Ends, k
<1>4. ASSUME NEW e \in OnList(p) PROVE e \in Entries(q)
  <2>1. PICK n \in 0 .. k : e = Walk(p)[n] /\ e # NULL
    BY DEF OnList, k
  <2>2. n \in Nat /\ n < Len(q) /\ e = q[n + 1]
    BY <1>1, <1>2, <2>1
  <2>3. n + 1 \in DOMAIN q
    BY <1>1, <2>2
  <2> QED
    BY <2>2, <2>3 DEF Entries
<1>5. ASSUME NEW e \in Entries(q) PROVE e \in OnList(p)
  <2>1. PICK i \in 1 .. Len(q) : e = q[i]
    BY DEF Entries
  <2>2. e \in Works /\ e # NULL
    BY <2>1, IrqWorkAssumption
  <2>3. i - 1 \in 0 .. k /\ i - 1 \in Nat /\ i - 1 < Len(q) /\ (i - 1) + 1 = i
    BY <1>1
  <2>4. Walk(p)[i - 1] = e
    BY <1>2, <2>1, <2>3
  <2> QED
    BY <2>2, <2>3, <2>4 DEF OnList, k
<1> QED
  BY <1>3, <1>4, <1>5

-----------------------------------------------------------------------------
(* What the invariant says about the places of an entry. *)
LEMMA PlacesAre ==
  ASSUME IrqInv
  PROVE  ListsIntact
<1>1. PICK ls \in [CPUs -> Seq(Works)], td \in [CPUs -> Seq(Works)], at \in [Works -> Spots] :
         PlacedBy(ls, td, at)
  BY DEF IrqInv
<1>2. ASSUME NEW b \in CPUs
      PROVE  /\ OnList(irq_work_list[b]) = Entries(ls[b]) /\ Ends(irq_work_list[b])
             /\ OnList(run[b].list) = Entries(td[b]) /\ Ends(run[b].list)
  <2>1. ls[b] \in Seq(Works) /\ td[b] \in Seq(Works) /\ IrqTypeOK
    BY DEF IrqInv
  <2>2. /\ Linked(word, irq_work_list[b], ls[b]) /\ IsList(ls[b])
        /\ Linked(word, run[b].list, td[b]) /\ IsList(td[b])
    BY <1>1 DEF PlacedBy, AtSpot
  <2> QED
    BY <2>1, <2>2, OnListIs
<1>3. ASSUME NEW e \in Works
      PROVE  Cardinality(Places(e)) = IF word[e].pending THEN 1 ELSE 0
  <2>1. \A p : p \in Places(e) <=> at[e] = p /\ p # Nowhere
    <3>1. /\ \A b \in CPUs : /\ e \in OnList(irq_work_list[b]) <=> at[e] = <<"list", b>>
                             /\ e \in OnList(run[b].list) <=> at[e] = <<"run", b>>
          /\ \A x \in Contexts : Holds(x, e) <=> at[e] = <<"ctx", x>>
      BY <1>1, <1>2 DEF PlacedBy, AtSpot
    <3>2. at[e] \in Spots
      OBVIOUS
    <3>3. ASSUME NEW p \in Places(e) PROVE at[e] = p /\ p # Nowhere
      <4>1. CASE p \in {<<"ctx", x>> : x \in {y \in Contexts : ctx[y].entry = e
                                               /\ ctx[y].pc \in {"queue", "push"}}}
        <5>1. PICK x \in Contexts : p = <<"ctx", x>> /\ Holds(x, e)
          BY <4>1 DEF Holds
        <5>2. p[1] = "ctx"
          BY <5>1
        <5> QED
          BY <3>1, <5>1, <5>2 DEF Nowhere
      <4>2. CASE p \in {<<"list", b>> : b \in {d \in CPUs : e \in OnList(irq_work_list[d])}}
        <5>1. PICK d \in CPUs : p = <<"list", d>> /\ e \in OnList(irq_work_list[d])
          BY <4>2
        <5>2. p[1] = "list"
          BY <5>1
        <5> QED
          BY <3>1, <5>1, <5>2 DEF Nowhere
      <4>3. CASE p \in {<<"run", b>> : b \in {d \in CPUs : e \in OnList(run[d].list)}}
        <5>1. PICK d \in CPUs : p = <<"run", d>> /\ e \in OnList(run[d].list)
          BY <4>3
        <5>2. p[1] = "run"
          BY <5>1
        <5> QED
          BY <3>1, <5>1, <5>2 DEF Nowhere
      <4> QED
        BY <4>1, <4>2, <4>3 DEF Places
    <3>4. ASSUME at[e] # Nowhere PROVE at[e] \in Places(e)
      <4>1. CASE \E x \in Contexts : at[e] = <<"ctx", x>>
        BY <3>1, <4>1 DEF Holds, Places
      <4>2. CASE \E b \in CPUs : at[e] = <<"list", b>>
        BY <3>1, <4>2 DEF Places
      <4>3. CASE \E b \in CPUs : at[e] = <<"run", b>>
        BY <3>1, <4>3 DEF Places
      <4> QED
        BY <3>2, <3>4, <4>1, <4>2, <4>3 DEF Spots
    <3> QED
      BY <3>3, <3>4
  <2>2. word[e].pending <=> at[e] # Nowhere
    BY <1>1 DEF PlacedBy, AtSpot
  <2>3. CASE at[e] = Nowhere
    <3>1. Places(e) = {}
      BY <2>1, <2>3
    <3> QED
      BY <2>2, <2>3, <3>1, FS_EmptySet
  <2>4. CASE at[e] # Nowhere
    <3>1. Places(e) = {at[e]}
      BY <2>1, <2>4
    <3> QED
      BY <2>2, <2>4, <3>1, FS_Singleton
  <2> QED
    BY <2>3, <2>4
<1> QED
  BY <1>2, <1>3 DEF ListsIntact

(* The invariant says that an entry whose callback runs is busy. *)
LEMMA BusyIs ==
  ASSUME IrqInv
  PROVE  BusyWhileRunning
<1> SUFFICES ASSUME NEW e \in Works, InCallback(e) # {}, e \notin overlapped
             PROVE  word[e].busy
  BY DEF BusyWhileRunning
<1>1. InUse(e) # {}
  BY DEF InUse, InCallback
<1> QED
  BY <1>1 DEF IrqInv, BusyOK

(* The invariant of irq_work holds at the start. *)
LEMMA IrqInitInv ==
  ASSUME IrqInit
  PROVE  IrqInv
<1>0. NULL \in Links /\ FreeWord \in Words
  BY DEF Links, Words, FreeWord
<1>1. IrqTypeOK
  BY <1>0 DEF IrqInit, IrqTypeOK, Ctxs, Runs, IdleCtx, NoRun
<1>2. \A x \in Contexts : CtxOK(x)
  BY DEF IrqInit, CtxOK, IdleCtx
<1>3. \A b \in CPUs : RunOK(b)
  BY DEF IrqInit, RunOK, NoRun
<1>4. \A e \in Works : BusyOK(e)
  <2>1. ASSUME NEW e \in Works PROVE InUse(e) = {} /\ ~word[e].pending
    BY IrqWorkAssumption DEF IrqInit, InUse, NoRun, FreeWord
  <2> QED
    BY <2>1 DEF BusyOK
<1>5. PICK ls \in [CPUs -> Seq(Works)] : \A b \in CPUs : ls[b] = <<>>
  <2>1. [b \in CPUs |-> <<>>] \in [CPUs -> Seq(Works)]
    OBVIOUS
  <2> QED
    BY <2>1
<1>6. PICK at \in [Works -> Spots] : \A e \in Works : at[e] = Nowhere
  <2>1. [e \in Works |-> Nowhere] \in [Works -> Spots]
    BY DEF Spots
  <2> QED
    BY <2>1
<1>7. PlacedBy(ls, ls, at)
  <2>1. ASSUME NEW b \in CPUs
        PROVE  /\ irq_work_list[b] = NULL /\ run[b].list = NULL
               /\ IsList(ls[b]) /\ Linked(word, NULL, ls[b]) /\ Entries(ls[b]) = {}
    BY <1>5, LinkedNone DEF IrqInit, NoRun
  <2>2. ASSUME NEW e \in Works, NEW x \in Contexts PROVE ~Holds(x, e)
    BY DEF Holds, IrqInit, IdleCtx
  <2>3. \A e \in Works : ~word[e].pending
    BY DEF IrqInit, FreeWord
  <2> QED
    BY <1>6, <2>1, <2>2, <2>3 DEF PlacedBy, AtSpot, Nowhere
<1> QED
  BY <1>1, <1>2, <1>3, <1>4, <1>7 DEF IrqInv

-----------------------------------------------------------------------------
(* Spots of different kinds are different. *)
LEMMA SpotsDiffer ==
  ASSUME NEW x, NEW y
  PROVE  /\ <<"ctx", x>> # Nowhere /\ <<"list", x>> # Nowhere /\ <<"run", x>> # Nowhere
         /\ <<"ctx", x>> # <<"list", y>> /\ <<"ctx", x>> # <<"run", y>>
         /\ <<"list", x>> # <<"run", y>>
         /\ <<"ctx", x>> = <<"ctx", y>> <=> x = y
         /\ <<"list", x>> = <<"list", y>> <=> x = y
         /\ <<"run", x>> = <<"run", y>> <=> x = y
BY DEF Nowhere

(* An entry that a step does not touch stays where it is. *)
LEMMA AtFrame ==
  ASSUME NEW e, NEW p, NEW ls, NEW td, NEW ls2, NEW td2, AtSpot(e, p, ls, td),
         word'[e].pending <=> word[e].pending,
         \A x \in Contexts : Holds(x, e)' <=> Holds(x, e),
         \A b \in CPUs : e \in Entries(ls2[b]) <=> e \in Entries(ls[b]),
         \A b \in CPUs : e \in Entries(td2[b]) <=> e \in Entries(td[b])
  PROVE  AtSpot(e, p, ls2, td2)'
BY DEF AtSpot, Nowhere

(* Steps of contexts. *)

(* The entries that contexts set BUSY stay so. *)
LEMMA BusyStep ==
  ASSUME IrqInv, UNCHANGED <<run, overlapped>>,
         \A e \in Works : word'[e] = word[e] \/ word'[e].busy
  PROVE  \A e \in Works : BusyOK(e)'
<1> SUFFICES ASSUME NEW e \in Works PROVE BusyOK(e)'
  OBVIOUS
<1>1. InUse(e)' = InUse(e)
  BY DEF InUse
<1>2. BusyOK(e)
  BY DEF IrqInv
<1>3. CASE word'[e] = word[e]
  BY <1>1, <1>2, <1>3 DEF BusyOK
<1>4. CASE word'[e].busy
  BY <1>1, <1>2, <1>4 DEF BusyOK
<1> QED
  BY <1>3, <1>4

(* The word of an entry that is on no list may change. *)
LEMMA LinksKept ==
  ASSUME IrqInv, NEW ls \in [CPUs -> Seq(Works)], NEW td \in [CPUs -> Seq(Works)],
         NEW at \in [Works -> Spots], PlacedBy(ls, td, at), NEW e \in Works,
         \A b \in CPUs : at[e] # <<"list", b>> /\ at[e] # <<"run", b>>,
         \A f \in Works \ {e} : word'[f] = word[f]
  PROVE  \A b \in CPUs : /\ Linked(word', irq_work_list[b], ls[b]) /\ IsList(ls[b])
                         /\ Linked(word', run[b].list, td[b]) /\ IsList(td[b])
<1> SUFFICES ASSUME NEW b \in CPUs
             PROVE  /\ Linked(word', irq_work_list[b], ls[b]) /\ IsList(ls[b])
                    /\ Linked(word', run[b].list, td[b]) /\ IsList(td[b])
  OBVIOUS
<1>1. /\ ls[b] \in Seq(Works) /\ Linked(word, irq_work_list[b], ls[b]) /\ IsList(ls[b])
      /\ td[b] \in Seq(Works) /\ Linked(word, run[b].list, td[b]) /\ IsList(td[b])
      /\ e \notin Entries(ls[b]) /\ e \notin Entries(td[b])
  BY DEF PlacedBy, AtSpot
<1>2. Entries(ls[b]) \subseteq Works /\ Entries(td[b]) \subseteq Works
  BY <1>1 DEF Entries
<1>3. /\ \A f \in Entries(ls[b]) : word'[f].next = word[f].next
      /\ \A f \in Entries(td[b]) : word'[f].next = word[f].next
  BY <1>1, <1>2
<1> QED
  BY <1>1, <1>3, LinkedFrame

(* A context that holds nothing before and after the step. *)
LEMMA CtxStep ==
  ASSUME IrqInv, NEW x \in Contexts, NEW k \in Ctxs, ctx' = [ctx EXCEPT ![x] = k],
         UNCHANGED <<word, irq_work_list, run, overlapped>>,
         ctx[x].pc \notin {"queue", "push"}, k.pc \notin {"queue", "push"},
         k.pc # "idle" => k.entry \in Works, k.pc = "claim" => ~k.seen.pending
  PROVE  IrqInv'
<1>1. IrqTypeOK'
  BY DEF IrqInv, IrqTypeOK
<1>2. ctx'[x] = k /\ \A y \in Contexts \ {x} : ctx'[y] = ctx[y]
  BY DEF IrqInv, IrqTypeOK
<1>3. \A y \in Contexts : CtxOK(y)'
  <2> SUFFICES ASSUME NEW y \in Contexts PROVE CtxOK(y)'
    OBVIOUS
  <2>1. CASE y = x
    BY <1>2, <2>1 DEF CtxOK
  <2>2. CASE y # x
    BY <1>2, <2>2 DEF IrqInv, CtxOK
  <2> QED
    BY <2>1, <2>2
<1>4. \A b \in CPUs : RunOK(b)'
  BY DEF IrqInv, RunOK
<1>5. \A e \in Works : BusyOK(e)'
  BY BusyStep
<1>6. PICK ls \in [CPUs -> Seq(Works)], td \in [CPUs -> Seq(Works)], at \in [Works -> Spots] :
         PlacedBy(ls, td, at)
  BY DEF IrqInv
<1>7. \A y \in Contexts, e \in Works : Holds(y, e)' <=> Holds(y, e)
  BY <1>2 DEF Holds
<1>8. PlacedBy(ls, td, at)'
  BY <1>6, <1>7 DEF PlacedBy, AtSpot
<1> QED
  BY <1>1, <1>3, <1>4, <1>5, <1>8 DEF IrqInv

(* The records that contexts are given. *)
LEMMA LinkTypes ==
  NULL \in Links /\ FreeWord \in Words /\ \A e \in Works : e \in Links
BY DEF Links, Words, FreeWord

(* The record of an idle context is of its type. *)
LEMMA IdleRecord == IdleCtx \in Ctxs /\ IdleCtx.pc = "idle"
BY LinkTypes DEF IdleCtx, Ctxs

(* The entry of irq_work_queue keeps the invariant. *)
LEMMA QueueStep ==
  ASSUME IrqInv, NEW x \in Contexts, NEW e \in Works, irq_work_queue(x, e)
  PROVE  IrqInv'
<1>1. PICK s \in Words : s = word[e]
  BY DEF IrqInv, IrqTypeOK
<1>2. PICK k : k = [IdleCtx EXCEPT !.pc = "claim", !.entry = e, !.seen = s]
  OBVIOUS
<1>3. k \in Ctxs /\ k.pc = "claim" /\ k.entry = e /\ k.seen = s
  BY <1>2, LinkTypes DEF IdleCtx, Ctxs
<1>4. /\ ctx[x].pc = "idle" /\ ~s.pending /\ ctx' = [ctx EXCEPT ![x] = k]
      /\ UNCHANGED <<word, irq_work_list, run, overlapped>>
  BY <1>1, <1>2 DEF irq_work_queue
<1> QED
  BY <1>3, <1>4, CtxStep

(* The entry of irq_work_sync keeps the invariant. *)
LEMMA SyncStep ==
  ASSUME IrqInv, NEW x \in Contexts, NEW e \in Works, irq_work_sync(x, e)
  PROVE  IrqInv'
<1>1. PICK k : k = [IdleCtx EXCEPT !.pc = "sync", !.entry = e]
  OBVIOUS
<1>2. k \in Ctxs /\ k.pc = "sync" /\ k.entry = e
  BY <1>1, LinkTypes DEF IdleCtx, Ctxs
<1>3. /\ ctx[x].pc = "idle" /\ ctx' = [ctx EXCEPT ![x] = k]
      /\ UNCHANGED <<word, irq_work_list, run, overlapped>>
  BY <1>1 DEF irq_work_sync
<1> QED
  BY <1>2, <1>3, CtxStep

(* The return of irq_work_sync keeps the invariant. *)
LEMMA SyncDoneStep ==
  ASSUME IrqInv, NEW x \in Contexts, sync_done(x)
  PROVE  IrqInv'
BY IdleRecord, CtxStep DEF sync_done, SyncDone

(* cmpxchg() finds the word as it was read: the entry is nowhere, and now  *)
(* it is the context's.                                                    *)
LEMMA ClaimedStep ==
  ASSUME IrqInv, NEW x \in Contexts, claim(x), word[ctx[x].entry] = ctx[x].seen
  PROVE  IrqInv'
<1> DEFINE v == Claimed(ctx[x].seen.next)
<1>1. PICK e \in Works : e = ctx[x].entry
  BY DEF IrqInv, CtxOK, claim
<1>2. word[e] \in Words /\ IrqTypeOK /\ ~word[e].pending /\ ctx[x].pc = "claim"
  BY <1>1 DEF IrqInv, IrqTypeOK, CtxOK, claim
<1>3. PICK k \in Ctxs : /\ k = [IdleCtx EXCEPT !.pc = "queue", !.entry = e]
                        /\ k.pc = "queue" /\ k.entry = e
  <2>1. PICK k : k = [IdleCtx EXCEPT !.pc = "queue", !.entry = e]
    OBVIOUS
  <2>2. k \in Ctxs /\ k.pc = "queue" /\ k.entry = e
    BY <2>1, LinkTypes DEF IdleCtx, Ctxs
  <2> QED
    BY <2>1, <2>2
<1>4. v \in Words /\ v.pending /\ v.busy
  BY <1>1, <1>2 DEF Claimed, Words
<1>5. /\ word' = [word EXCEPT ![e] = v] /\ ctx' = [ctx EXCEPT ![x] = k]
      /\ UNCHANGED <<irq_work_list, run, overlapped>>
  BY <1>1, <1>3 DEF claim
<1> HIDE DEF v
<1>6. IrqTypeOK'
  BY <1>2, <1>4, <1>5 DEF IrqTypeOK
<1>7. /\ ctx'[x] = k /\ \A y \in Contexts \ {x} : ctx'[y] = ctx[y]
      /\ word'[e] = v /\ \A f \in Works \ {e} : word'[f] = word[f]
  BY <1>2, <1>5 DEF IrqTypeOK
<1>8. PICK ls \in [CPUs -> Seq(Works)], td \in [CPUs -> Seq(Works)], at \in [Works -> Spots] :
         PlacedBy(ls, td, at)
  BY DEF IrqInv
<1>9. at[e] = Nowhere
  BY <1>2, <1>8 DEF PlacedBy, AtSpot
<1>10. /\ \A b \in CPUs : at[e] # <<"list", b>> /\ at[e] # <<"run", b>>
       /\ \A y \in Contexts : ~Holds(y, e)
  BY <1>8, <1>9 DEF PlacedBy, AtSpot, Nowhere
<1>11. \A y \in Contexts : CtxOK(y)'
  <2> SUFFICES ASSUME NEW y \in Contexts PROVE CtxOK(y)'
    OBVIOUS
  <2>1. CASE y = x
    BY <1>3, <1>7, <2>1 DEF CtxOK
  <2>2. CASE y # x
    <3>1. ctx'[y] = ctx[y] /\ CtxOK(y) /\ (ctx[y].pc = "push" => ctx[y].entry \in Works \ {e})
      BY <1>7, <1>10, <2>2 DEF IrqInv, CtxOK, Holds
    <3> QED
      BY <1>7, <3>1 DEF CtxOK
  <2> QED
    BY <2>1, <2>2
<1>12. \A b \in CPUs : RunOK(b)'
  BY <1>5 DEF IrqInv, RunOK
<1>13. \A f \in Works : BusyOK(f)'
  BY <1>4, <1>5, <1>7, BusyStep
<1>14. PICK at2 \in [Works -> Spots] : /\ at2[e] = <<"ctx", x>>
                                      /\ \A f \in Works \ {e} : at2[f] = at[f]
  <2>1. [at EXCEPT ![e] = <<"ctx", x>>] \in [Works -> Spots]
    BY DEF Spots
  <2> QED
    BY <2>1
<1>15. PlacedBy(ls, td, at2)'
  <2>1. \A b \in CPUs : /\ Linked(word', irq_work_list'[b], ls[b]) /\ IsList(ls[b])
                        /\ Linked(word', run'[b].list, td[b]) /\ IsList(td[b])
    <3>1. \A b \in CPUs : /\ Linked(word', irq_work_list[b], ls[b]) /\ IsList(ls[b])
                          /\ Linked(word', run[b].list, td[b]) /\ IsList(td[b])
      BY <1>7, <1>8, <1>10, LinksKept
    <3>2. irq_work_list' = irq_work_list /\ run' = run
      BY <1>5
    <3> QED
      BY <3>1, <3>2
  <2>2. AtSpot(e, <<"ctx", x>>, ls, td)'
    <3>1. \A b \in CPUs : e \notin Entries(ls[b]) /\ e \notin Entries(td[b])
      BY <1>8, <1>10 DEF PlacedBy, AtSpot
    <3>2. \A y \in Contexts : Holds(y, e)' <=> y = x
      BY <1>3, <1>7, <1>10 DEF Holds
    <3> QED
      BY <1>4, <1>7, <3>1, <3>2, SpotsDiffer DEF AtSpot, Nowhere
  <2>3. ASSUME NEW f \in Works \ {e} PROVE AtSpot(f, at2[f], ls, td)'
    <3>1. \A y \in Contexts : Holds(y, f)' <=> Holds(y, f)
      BY <1>1, <1>2, <1>3, <1>7 DEF Holds
    <3>2. word'[f] = word[f] /\ at2[f] = at[f] /\ AtSpot(f, at[f], ls, td)
      BY <1>7, <1>8, <1>14 DEF PlacedBy
    <3> QED
      BY <3>1, <3>2, AtFrame
  <2> QED
    BY <1>14, <2>1, <2>2, <2>3 DEF PlacedBy
<1> QED
  BY <1>6, <1>11, <1>12, <1>13, <1>15 DEF IrqInv

(* irq_work_claim keeps the invariant: at most one context gets the entry. *)
LEMMA ClaimStep ==
  ASSUME IrqInv, NEW x \in Contexts, claim(x)
  PROVE  IrqInv'
<1>1. CASE word[ctx[x].entry] = ctx[x].seen
  BY <1>1, ClaimedStep
<1>2. CASE word[ctx[x].entry] # ctx[x].seen /\ ctx' = [ctx EXCEPT ![x] = IdleCtx]
  BY <1>2, IdleRecord, CtxStep DEF claim
<1>3. CASE /\ word[ctx[x].entry] # ctx[x].seen /\ ~word[ctx[x].entry].pending
           /\ ctx' = [ctx EXCEPT ![x].seen = word[ctx[x].entry]]
  <2>1. PICK e \in Works : e = ctx[x].entry
    BY DEF IrqInv, CtxOK, claim
  <2>2. PICK k \in Ctxs : /\ k = [ctx[x] EXCEPT !.seen = word[e]]
                          /\ k.pc = ctx[x].pc /\ k.entry = e /\ k.seen = word[e]
    <3>1. PICK s \in Words, r \in Ctxs : s = word[e] /\ r = ctx[x]
      BY DEF IrqInv, IrqTypeOK
    <3> DEFINE k == [r EXCEPT !.seen = s]
    <3>2. k \in Ctxs /\ k.pc = r.pc /\ k.entry = r.entry /\ k.seen = s
      BY DEF Ctxs
    <3> HIDE DEF k
    <3>3. k = [ctx[x] EXCEPT !.seen = word[e]]
      BY <3>1 DEF k
    <3> QED
      BY <2>1, <3>1, <3>2, <3>3
  <2>3. ctx' = [ctx EXCEPT ![x] = k]
    BY <1>3, <2>1, <2>2
  <2>4. /\ ctx[x].pc = "claim" /\ k.pc = "claim" /\ ~k.seen.pending
        /\ UNCHANGED <<word, irq_work_list, run, overlapped>>
    BY <1>3, <2>1, <2>2 DEF claim
  <2> QED
    BY <2>1, <2>2, <2>3, <2>4, CtxStep
<1> QED
  BY <1>1, <1>2, <1>3 DEF claim

-----------------------------------------------------------------------------
(* An entry that context x holds is linked to what was the head of a list. *)
LEMMA RelinkStep ==
  ASSUME IrqInv, NEW x \in Contexts, NEW e \in Works, Holds(x, e),
         NEW k \in Ctxs, k.pc = "push", k.entry = e, k.cpu \in CPUs,
         word' = [word EXCEPT ![e] = Claimed(k.head)], ctx' = [ctx EXCEPT ![x] = k],
         UNCHANGED <<irq_work_list, run, overlapped>>
  PROVE  IrqInv'
<1> DEFINE v == Claimed(k.head)
<1>1. v \in Words /\ v.pending /\ v.busy /\ v.next = k.head
  BY DEF Claimed, Words, Ctxs
<1> HIDE DEF v
<1>2. word' = [word EXCEPT ![e] = v]
  BY DEF v
<1>3. IrqTypeOK'
  BY <1>1, <1>2 DEF IrqInv, IrqTypeOK
<1>4. /\ ctx'[x] = k /\ \A y \in Contexts \ {x} : ctx'[y] = ctx[y]
      /\ word'[e] = v /\ \A f \in Works \ {e} : word'[f] = word[f]
  BY <1>2 DEF IrqInv, IrqTypeOK
<1>5. PICK ls \in [CPUs -> Seq(Works)], td \in [CPUs -> Seq(Works)], at \in [Works -> Spots] :
         PlacedBy(ls, td, at)
  BY DEF IrqInv
<1>6. at[e] = <<"ctx", x>> /\ word[e].pending
  <2>1. at[e] = <<"ctx", x>> /\ (word[e].pending <=> at[e] # Nowhere)
    BY <1>5 DEF PlacedBy, AtSpot
  <2> QED
    BY <2>1, SpotsDiffer
<1>7. /\ \A b \in CPUs : at[e] # <<"list", b>> /\ at[e] # <<"run", b>>
      /\ \A y \in Contexts \ {x} : ~Holds(y, e)
  <2>1. \A y \in Contexts : Holds(y, e) <=> at[e] = <<"ctx", y>>
    BY <1>5 DEF PlacedBy, AtSpot
  <2> QED
    BY <1>6, <2>1, SpotsDiffer
<1>8. \A y \in Contexts : CtxOK(y)'
  <2> SUFFICES ASSUME NEW y \in Contexts PROVE CtxOK(y)'
    OBVIOUS
  <2>1. CASE y = x
    BY <1>1, <1>4, <2>1 DEF CtxOK
  <2>2. CASE y # x
    <3>1. ctx'[y] = ctx[y] /\ CtxOK(y) /\ (ctx[y].pc = "push" => ctx[y].entry \in Works \ {e})
      BY <1>4, <1>7, <2>2 DEF IrqInv, CtxOK, Holds
    <3> QED
      BY <1>4, <3>1 DEF CtxOK
  <2> QED
    BY <2>1, <2>2
<1>9. \A b \in CPUs : RunOK(b)'
  BY DEF IrqInv, RunOK
<1>10. \A f \in Works : BusyOK(f)'
  BY <1>1, <1>4, BusyStep
<1>11. PlacedBy(ls, td, at)'
  <2>1. \A b \in CPUs : /\ Linked(word', irq_work_list'[b], ls[b]) /\ IsList(ls[b])
                        /\ Linked(word', run'[b].list, td[b]) /\ IsList(td[b])
    <3>1. \A b \in CPUs : /\ Linked(word', irq_work_list[b], ls[b]) /\ IsList(ls[b])
                          /\ Linked(word', run[b].list, td[b]) /\ IsList(td[b])
      <4>1. /\ \A b \in CPUs : at[e] # <<"list", b>> /\ at[e] # <<"run", b>>
            /\ \A f \in Works \ {e} : word'[f] = word[f]
        BY <1>4, <1>7
      <4> QED
        BY <1>5, <4>1, LinksKept
    <3>2. irq_work_list' = irq_work_list /\ run' = run
      OBVIOUS
    <3> QED
      BY <3>1, <3>2
  <2>2. ASSUME NEW f \in Works PROVE AtSpot(f, at[f], ls, td)'
    <3>1. \A y \in Contexts : Holds(y, f)' <=> Holds(y, f)
      BY <1>4 DEF Holds
    <3>2. (word'[f].pending <=> word[f].pending) /\ AtSpot(f, at[f], ls, td)
      BY <1>1, <1>4, <1>5, <1>6 DEF PlacedBy
    <3> QED
      BY <3>1, <3>2, AtFrame
  <2> QED
    BY <2>1, <2>2 DEF PlacedBy
<1> QED
  BY <1>3, <1>8, <1>9, <1>10, <1>11 DEF IrqInv

(* Reading the head and linking the entry to it keeps the invariant. *)
LEMMA LinkStep ==
  ASSUME IrqInv, NEW x \in Contexts, NEW b \in CPUs, link_entry(x, b)
  PROVE  IrqInv'
<1>1. PICK e \in Works, r \in Ctxs, h \in Links :
        e = ctx[x].entry /\ r = ctx[x] /\ h = irq_work_list[b]
  BY DEF IrqInv, IrqTypeOK, CtxOK, link_entry
<1> DEFINE k == [r EXCEPT !.pc = "push", !.cpu = b, !.head = h]
<1>2. k \in Ctxs /\ k.pc = "push" /\ k.entry = r.entry /\ k.cpu = b /\ k.head = h
  BY DEF Ctxs
<1>3. ctx' = [ctx EXCEPT ![x] = k]
  BY <1>1 DEF link_entry
<1> HIDE DEF k
<1>4. /\ Holds(x, e) /\ word' = [word EXCEPT ![e] = Claimed(k.head)]
      /\ UNCHANGED <<irq_work_list, run, overlapped>>
  BY <1>1, <1>2 DEF Holds, link_entry
<1> QED
  BY <1>1, <1>2, <1>3, <1>4, RelinkStep

(* The head has changed. *)
LEMMA PushAgainStep ==
  ASSUME IrqInv, NEW x \in Contexts, push(x), irq_work_list[ctx[x].cpu] # ctx[x].head
  PROVE  IrqInv'
<1>1. PICK e \in Works, b \in CPUs, r \in Ctxs, h \in Links :
        e = ctx[x].entry /\ b = ctx[x].cpu /\ r = ctx[x] /\ h = irq_work_list[b]
  BY DEF IrqInv, IrqTypeOK, CtxOK, push
<1> DEFINE k == [r EXCEPT !.head = h]
<1>2. k \in Ctxs /\ k.pc = r.pc /\ k.entry = r.entry /\ k.cpu = r.cpu /\ k.head = h
  BY DEF Ctxs
<1>3. ctx' = [ctx EXCEPT ![x] = k]
  BY <1>1 DEF push
<1> HIDE DEF k
<1>4. /\ Holds(x, e) /\ word' = [word EXCEPT ![e] = Claimed(k.head)]
      /\ UNCHANGED <<irq_work_list, run, overlapped>> /\ ctx[x].pc = "push"
  BY <1>1, <1>2 DEF Holds, push
<1> QED
  BY <1>1, <1>2, <1>3, <1>4, RelinkStep

(* this_cpu_cmpxchg() makes the entry the head of the list. *)
LEMMA PushedStep ==
  ASSUME IrqInv, NEW x \in Contexts, push(x), irq_work_list[ctx[x].cpu] = ctx[x].head
  PROVE  IrqInv'
<1>1. PICK e \in Works, b \in CPUs : e = ctx[x].entry /\ b = ctx[x].cpu
  BY DEF IrqInv, IrqTypeOK, CtxOK, push
<1>2. /\ irq_work_list' = [irq_work_list EXCEPT ![b] = e]
      /\ ctx' = [ctx EXCEPT ![x] = IdleCtx]
      /\ UNCHANGED <<word, run, overlapped>>
      /\ ctx[x].pc = "push" /\ word[e].next = irq_work_list[b] /\ Holds(x, e)
  BY <1>1 DEF IrqInv, CtxOK, push, Holds
<1>3. IrqTypeOK'
  BY <1>2, IdleRecord, LinkTypes DEF IrqInv, IrqTypeOK
<1>4. /\ ctx'[x] = IdleCtx /\ \A y \in Contexts \ {x} : ctx'[y] = ctx[y]
      /\ irq_work_list'[b] = e /\ \A d \in CPUs \ {b} : irq_work_list'[d] = irq_work_list[d]
  BY <1>2 DEF IrqInv, IrqTypeOK
<1>5. PICK ls \in [CPUs -> Seq(Works)], td \in [CPUs -> Seq(Works)], at \in [Works -> Spots] :
         PlacedBy(ls, td, at)
  BY DEF IrqInv
<1>6. at[e] = <<"ctx", x>> /\ word[e].pending
  <2>1. at[e] = <<"ctx", x>> /\ (word[e].pending <=> at[e] # Nowhere)
    BY <1>2, <1>5 DEF PlacedBy, AtSpot
  <2> QED
    BY <2>1, SpotsDiffer
<1>7. /\ \A d \in CPUs : e \notin Entries(ls[d]) /\ e \notin Entries(td[d])
      /\ \A y \in Contexts \ {x} : ~Holds(y, e)
  <2>1. /\ \A d \in CPUs : e \in Entries(ls[d]) <=> at[e] = <<"list", d>>
        /\ \A d \in CPUs : e \in Entries(td[d]) <=> at[e] = <<"run", d>>
        /\ \A y \in Contexts : Holds(y, e) <=> at[e] = <<"ctx", y>>
    BY <1>5 DEF PlacedBy, AtSpot
  <2> QED
    BY <1>6, <2>1, SpotsDiffer
<1>8. \A y \in Contexts : CtxOK(y)'
  BY <1>2, <1>4, IdleRecord DEF IrqInv, CtxOK
<1>9. \A d \in CPUs : RunOK(d)'
  BY <1>2 DEF IrqInv, RunOK
<1>10. \A f \in Works : BusyOK(f)'
  BY <1>2, BusyStep
<1>11. PICK q \in Seq(Works) : /\ IsList(q) /\ Linked(word, e, q)
                               /\ Entries(q) = {e} \cup Entries(ls[b])
  <2>1. /\ ls[b] \in Seq(Works) /\ IsList(ls[b]) /\ Linked(word, irq_work_list[b], ls[b])
        /\ e \notin Entries(ls[b])
    BY <1>5, <1>7 DEF PlacedBy
  <2>2. PICK r \in Seq(Works) : r = ls[b]
    BY <2>1
  <2>3. PICK w, p : w = word /\ p = irq_work_list[b]
    OBVIOUS
  <2>4. Linked(w, p, r) /\ IsList(r) /\ e \notin Entries(r) /\ w[e].next = p
    BY <1>2, <2>1, <2>2, <2>3
  <2>5. ListFrom(w, e, {e} \cup Entries(r))
    BY <2>4, LinkedCons
  <2> QED
    BY <2>2, <2>3, <2>5 DEF ListFrom
<1>12. PICK ls2 \in [CPUs -> Seq(Works)] : /\ ls2[b] = q
                                           /\ \A d \in CPUs \ {b} : ls2[d] = ls[d]
  <2>1. [ls EXCEPT ![b] = q] \in [CPUs -> Seq(Works)]
    OBVIOUS
  <2> QED
    BY <2>1
<1>13. PICK at2 \in [Works -> Spots] : /\ at2[e] = <<"list", b>>
                                       /\ \A f \in Works \ {e} : at2[f] = at[f]
  <2>1. [at EXCEPT ![e] = <<"list", b>>] \in [Works -> Spots]
    BY DEF Spots
  <2> QED
    BY <2>1
<1>14. PlacedBy(ls2, td, at2)'
  <2>1. \A d \in CPUs : /\ IsList(ls[d]) /\ Linked(word, irq_work_list[d], ls[d])
                        /\ IsList(td[d]) /\ Linked(word, run[d].list, td[d])
    BY <1>5 DEF PlacedBy
  <2>2. \A d \in CPUs : /\ IsList(ls2[d]) /\ Linked(word', irq_work_list'[d], ls2[d])
                        /\ IsList(td[d]) /\ Linked(word', run'[d].list, td[d])
    BY <1>2, <1>4, <1>11, <1>12, <2>1
  <2>3. AtSpot(e, <<"list", b>>, ls2, td)'
    <3>1. \A d \in CPUs : (e \in Entries(ls2[d]) <=> d = b) /\ e \notin Entries(td[d])
      BY <1>7, <1>11, <1>12
    <3>2. \A y \in Contexts : ~Holds(y, e)'
      BY <1>4, <1>7, IdleRecord DEF Holds
    <3> QED
      BY <1>2, <1>6, <3>1, <3>2, SpotsDiffer DEF AtSpot, Nowhere
  <2>4. ASSUME NEW f \in Works \ {e} PROVE AtSpot(f, at2[f], ls2, td)'
    <3>1. \A y \in Contexts : Holds(y, f)' <=> Holds(y, f)
      BY <1>1, <1>4, IdleRecord DEF Holds
    <3>2. /\ word'[f].pending <=> word[f].pending
          /\ at2[f] = at[f] /\ AtSpot(f, at[f], ls, td)
      BY <1>2, <1>5, <1>13 DEF PlacedBy
    <3>3. \A d \in CPUs : f \in Entries(ls2[d]) <=> f \in Entries(ls[d])
      BY <1>11, <1>12
    <3> QED
      BY <3>1, <3>2, <3>3, AtFrame
  <2> QED
    BY <1>13, <2>2, <2>3, <2>4 DEF PlacedBy
<1> QED
  BY <1>3, <1>8, <1>9, <1>10, <1>14 DEF IrqInv

(* The cmpxchg on the head keeps the invariant, whether it succeeds or is retried. *)
LEMMA PushStep ==
  ASSUME IrqInv, NEW x \in Contexts, push(x)
  PROVE  IrqInv'
BY PushAgainStep, PushedStep

-----------------------------------------------------------------------------
-----------------------------------------------------------------------------
(* Steps of irq_work_run(). *)

(* A CPU that keeps what it has left to do, and leaves links and PENDING   *)
(* bits alone.                                                             *)
LEMMA RunStep ==
  ASSUME IrqInv, NEW b \in CPUs, NEW k \in Runs, run' = [run EXCEPT ![b] = k],
         k.list = run[b].list, k.pc \in {"func", "clear"} <=> k.entry # NULL,
         k.pc = "idle" => k.list = NULL,
         word' \in [Works -> Words], UNCHANGED <<irq_work_list, ctx, overlapped>>,
         \A e \in Works : /\ word'[e].next = word[e].next
                          /\ word'[e].pending <=> word[e].pending
                          /\ BusyOK(e)'
  PROVE  IrqInv'
<1>1. IrqTypeOK'
  BY DEF IrqInv, IrqTypeOK
<1>2. run'[b] = k /\ \A d \in CPUs \ {b} : run'[d] = run[d]
  BY DEF IrqInv, IrqTypeOK
<1>3. \A x \in Contexts : CtxOK(x)'
  <2> SUFFICES ASSUME NEW x \in Contexts PROVE CtxOK(x)'
    OBVIOUS
  <2>1. CtxOK(x) /\ ctx' = ctx
    BY DEF IrqInv
  <2> QED
    BY <2>1 DEF CtxOK
<1>4. \A d \in CPUs : RunOK(d)'
  <2> SUFFICES ASSUME NEW d \in CPUs PROVE RunOK(d)'
    OBVIOUS
  <2>1. CASE d = b
    BY <1>2, <2>1 DEF RunOK
  <2>2. CASE d # b
    BY <1>2, <2>2 DEF IrqInv, RunOK
  <2> QED
    BY <2>1, <2>2
<1>5. PICK ls \in [CPUs -> Seq(Works)], td \in [CPUs -> Seq(Works)], at \in [Works -> Spots] :
         PlacedBy(ls, td, at)
  BY DEF IrqInv
<1>6. ASSUME NEW d \in CPUs
      PROVE  /\ IsList(ls[d]) /\ Linked(word', irq_work_list'[d], ls[d])
             /\ IsList(td[d]) /\ Linked(word', run'[d].list, td[d])
  <2>1. /\ ls[d] \in Seq(Works) /\ Linked(word, irq_work_list[d], ls[d]) /\ IsList(ls[d])
        /\ td[d] \in Seq(Works) /\ Linked(word, run[d].list, td[d]) /\ IsList(td[d])
    BY <1>5 DEF PlacedBy
  <2>2. Entries(ls[d]) \subseteq Works /\ Entries(td[d]) \subseteq Works
    BY <2>1 DEF Entries
  <2>3. Linked(word', irq_work_list[d], ls[d]) /\ Linked(word', run[d].list, td[d])
    BY <2>1, <2>2, LinkedFrame
  <2>4. run'[d].list = run[d].list /\ irq_work_list' = irq_work_list
    BY <1>2
  <2> QED
    BY <2>1, <2>3, <2>4
<1>7. ASSUME NEW e \in Works PROVE AtSpot(e, at[e], ls, td)'
  <2>1. \A x \in Contexts : Holds(x, e)' <=> Holds(x, e)
    BY DEF Holds
  <2>2. AtSpot(e, at[e], ls, td)
    BY <1>5 DEF PlacedBy
  <2> QED
    BY <2>1, <2>2, AtFrame
<1>8. PlacedBy(ls, td, at)'
  BY <1>6, <1>7 DEF PlacedBy
<1> QED
  BY <1>1, <1>3, <1>4, <1>8 DEF IrqInv

(* BUSY stays right as long as the CPUs have the same entries in use. *)
LEMMA UseKept ==
  ASSUME IrqInv, NEW e \in Works, InUse(e)' = InUse(e), word'[e] = word[e],
         e \notin overlapped' => e \notin overlapped
  PROVE  BusyOK(e)'
<1>1. BusyOK(e)
  BY DEF IrqInv
<1> QED
  BY <1>1 DEF BusyOK

(* The return of a callback keeps the invariant: the entry is BUSY until the next cmpxchg. *)
LEMMA CallbackReturnsStep ==
  ASSUME IrqInv, NEW b \in CPUs, callback_returns(b)
  PROVE  IrqInv'
<1>1. PICK r \in Runs : r = run[b]
  BY DEF IrqInv, IrqTypeOK
<1> DEFINE k == [r EXCEPT !.pc = "clear"]
<1>2. k \in Runs /\ k.pc = "clear" /\ k.entry = r.entry /\ k.list = r.list
  BY DEF Runs
<1>3. run' = [run EXCEPT ![b] = k]
  BY <1>1 DEF callback_returns
<1> HIDE DEF k
<1>4. run[b].pc = "func" /\ UNCHANGED <<word, irq_work_list, ctx, overlapped>>
  BY DEF callback_returns
<1>5. r.entry # NULL
  BY <1>1, <1>4 DEF IrqInv, RunOK
<1>6. run'[b] = k /\ \A d \in CPUs \ {b} : run'[d] = run[d]
  BY <1>3 DEF IrqInv, IrqTypeOK
<1>7. ASSUME NEW e \in Works PROVE BusyOK(e)'
  <2>1. \A d \in CPUs : run'[d].entry = run[d].entry
    BY <1>1, <1>2, <1>6
  <2>2. InUse(e)' = InUse(e)
    BY <2>1 DEF InUse
  <2> QED
    BY <1>4, <2>2, UseKept
<1>8. word' \in [Works -> Words]
  BY <1>4 DEF IrqInv, IrqTypeOK
<1>9. \A e \in Works : /\ word'[e].next = word[e].next
                       /\ word'[e].pending <=> word[e].pending
  BY <1>4
<1> QED
  BY <1>1, <1>2, <1>3, <1>4, <1>5, <1>7, <1>8, <1>9, RunStep

(* The end of irq_work_run keeps the invariant. *)
LEMMA RunEndsStep ==
  ASSUME IrqInv, NEW b \in CPUs, run_ends(b)
  PROVE  IrqInv'
<1>1. PICK k \in Runs : k = NoRun /\ k.pc = "idle" /\ k.entry = NULL /\ k.list = NULL
  <2>1. /\ NoRun \in Runs
        /\ NoRun.pc = "idle" /\ NoRun.entry = NULL /\ NoRun.list = NULL
    BY LinkTypes DEF NoRun, Runs
  <2> QED
    BY <2>1
<1>2. /\ run' = [run EXCEPT ![b] = k] /\ run[b].pc = "next" /\ run[b].list = NULL
      /\ UNCHANGED <<word, irq_work_list, ctx, overlapped>>
  BY <1>1 DEF run_ends
<1>3. run'[b] = k /\ \A d \in CPUs \ {b} : run'[d] = run[d]
  BY <1>2 DEF IrqInv, IrqTypeOK
<1>4. run[b].entry = NULL
  BY <1>2 DEF IrqInv, RunOK
<1>5. ASSUME NEW e \in Works PROVE BusyOK(e)'
  <2>1. \A d \in CPUs : run'[d].entry = run[d].entry
    BY <1>1, <1>3, <1>4
  <2>2. InUse(e)' = InUse(e)
    BY <2>1 DEF InUse
  <2> QED
    BY <1>2, <2>2, UseKept
<1>6. word' \in [Works -> Words]
  BY <1>2 DEF IrqInv, IrqTypeOK
<1>7. \A e \in Works : /\ word'[e].next = word[e].next
                       /\ word'[e].pending <=> word[e].pending
  BY <1>2
<1> QED
  BY <1>1, <1>2, <1>5, <1>6, <1>7, RunStep

(* BUSY is cleared: nobody else has the entry in use, or CPUs overlapped. *)
LEMMA ClearBusyStep ==
  ASSUME IrqInv, NEW b \in CPUs, clear_busy(b)
  PROVE  IrqInv'
<1>1. PICK r \in Runs : r = run[b]
  BY DEF IrqInv, IrqTypeOK
<1>2. r.pc = "clear" /\ UNCHANGED <<irq_work_list, ctx, overlapped>>
  BY <1>1 DEF clear_busy
<1>3. PICK e \in Works : e = r.entry
  BY <1>1, <1>2 DEF IrqInv, RunOK, Runs, Links
<1> DEFINE k == [r EXCEPT !.pc = "next", !.entry = NULL]
           v == IF word[e] = BusyWord THEN FreeWord ELSE word[e]
<1>4. k \in Runs /\ k.pc = "next" /\ k.entry = NULL /\ k.list = r.list
  BY LinkTypes DEF Runs
<1>5. run' = [run EXCEPT ![b] = k] /\ word' = [word EXCEPT ![e] = v]
  BY <1>1, <1>3 DEF clear_busy
<1>6. word[e] \in Words /\ FreeWord \in Words
  BY LinkTypes DEF IrqInv, IrqTypeOK
<1>7. /\ v \in Words /\ v.next = word[e].next /\ (v.pending <=> word[e].pending)
      /\ v.pending => v = word[e]
  BY <1>6 DEF FreeWord, BusyWord
<1> HIDE DEF k, v
<1>8. /\ run'[b] = k /\ \A d \in CPUs \ {b} : run'[d] = run[d]
      /\ word'[e] = v /\ \A f \in Works \ {e} : word'[f] = word[f]
      /\ word' \in [Works -> Words]
  BY <1>5, <1>7 DEF IrqInv, IrqTypeOK
<1>9. ASSUME NEW f \in Works PROVE BusyOK(f)'
  <2>1. CASE f # e
    <3>1. \A d \in CPUs : run'[d].entry = f <=> run[d].entry = f
      BY <1>1, <1>3, <1>4, <1>8, <2>1, IrqWorkAssumption
    <3>2. InUse(f)' = InUse(f)
      BY <3>1 DEF InUse
    <3> QED
      BY <1>2, <1>8, <2>1, <3>2, UseKept
  <2>2. CASE f = e
    <3>1. BusyOK(e) /\ b \in InUse(e)
      BY <1>1, <1>3 DEF IrqInv, InUse
    <3>2. InUse(e)' = InUse(e) \ {b}
      BY <1>3, <1>4, <1>8, IrqWorkAssumption DEF InUse
    <3>3. word'[e].pending => word'[e].busy
      BY <1>7, <1>8, <3>1 DEF BusyOK
    <3>4. ASSUME e \notin overlapped PROVE InUse(e)' = {}
      BY <3>1, <3>2, <3>4 DEF BusyOK
    <3> QED
      BY <1>2, <2>2, <3>3, <3>4 DEF BusyOK
  <2> QED
    BY <2>1, <2>2
<1>10. \A f \in Works : /\ word'[f].next = word[f].next
                        /\ word'[f].pending <=> word[f].pending
  BY <1>7, <1>8
<1> QED
  BY <1>1, <1>2, <1>4, <1>5, <1>8, <1>9, <1>10, RunStep

-----------------------------------------------------------------------------
-----------------------------------------------------------------------------
(* xchg() empties the list: its entries are now the ones to be run. *)
LEMMA TakeStep ==
  ASSUME IrqInv, NEW b \in CPUs, irq_work_run(b)
  PROVE  IrqInv'
<1>1. PICK h \in Links : h = irq_work_list[b]
  BY DEF IrqInv, IrqTypeOK
<1> DEFINE k == [pc |-> "next", entry |-> NULL, list |-> h]
<1>2. k \in Runs /\ k.pc = "next" /\ k.entry = NULL /\ k.list = h
  BY LinkTypes DEF Runs
<1>3. /\ run' = [run EXCEPT ![b] = k] /\ irq_work_list' = [irq_work_list EXCEPT ![b] = NULL]
      /\ run[b].pc = "idle" /\ UNCHANGED <<word, ctx, overlapped>>
  BY <1>1 DEF irq_work_run
<1> HIDE DEF k
<1>4. IrqTypeOK'
  BY <1>2, <1>3, LinkTypes DEF IrqInv, IrqTypeOK
<1>5. /\ run'[b] = k /\ \A d \in CPUs \ {b} : run'[d] = run[d]
      /\ irq_work_list'[b] = NULL
      /\ \A d \in CPUs \ {b} : irq_work_list'[d] = irq_work_list[d]
  BY <1>3 DEF IrqInv, IrqTypeOK
<1>6. run[b].entry = NULL /\ run[b].list = NULL
  BY <1>3 DEF IrqInv, RunOK
<1>7. \A x \in Contexts : CtxOK(x)'
  BY <1>3 DEF IrqInv, CtxOK
<1>8. \A d \in CPUs : RunOK(d)'
  <2> SUFFICES ASSUME NEW d \in CPUs PROVE RunOK(d)'
    OBVIOUS
  <2>1. CASE d = b
    BY <1>2, <1>5, <2>1 DEF RunOK
  <2>2. CASE d # b
    BY <1>5, <2>2 DEF IrqInv, RunOK
  <2> QED
    BY <2>1, <2>2
<1>9. ASSUME NEW e \in Works PROVE BusyOK(e)'
  <2>1. \A d \in CPUs : run'[d].entry = run[d].entry
    BY <1>2, <1>5, <1>6
  <2>2. InUse(e)' = InUse(e)
    BY <2>1 DEF InUse
  <2> QED
    BY <1>3, <2>2, UseKept
<1>10. PICK ls \in [CPUs -> Seq(Works)], td \in [CPUs -> Seq(Works)], at \in [Works -> Spots] :
         PlacedBy(ls, td, at)
  BY DEF IrqInv
<1>11. \A d \in CPUs : /\ IsList(ls[d]) /\ Linked(word, irq_work_list[d], ls[d])
                       /\ IsList(td[d]) /\ Linked(word, run[d].list, td[d])
  BY <1>10 DEF PlacedBy
<1>12. /\ Linked(word, NULL, <<>>) /\ IsList(<<>>) /\ Entries(<<>>) = {}
       /\ Entries(td[b]) = {}
  <2>1. PICK q, w : q \in Seq(Works) /\ q = td[b] /\ w = word
    OBVIOUS
  <2>2. Linked(w, NULL, q) /\ q \in Seq(Works)
    BY <1>6, <1>11, <2>1
  <2>3. /\ Linked(w, NULL, <<>>) /\ IsList(<<>>) /\ Entries(<<>>) = {} /\ q = <<>>
    BY <2>2, LinkedNone
  <2> QED
    BY <2>1, <2>3
<1>13. PICK ls2 \in [CPUs -> Seq(Works)], td2 \in [CPUs -> Seq(Works)] :
         /\ ls2[b] = <<>> /\ td2[b] = ls[b]
         /\ \A d \in CPUs \ {b} : ls2[d] = ls[d] /\ td2[d] = td[d]
  <2>1. PICK q \in Seq(Works), r \in Seq(Works) : q = <<>> /\ r = ls[b]
    <3>1. <<>> \in Seq(Works) /\ ls[b] \in Seq(Works)
      OBVIOUS
    <3> QED
      BY <3>1
  <2>2. /\ [ls EXCEPT ![b] = q] \in [CPUs -> Seq(Works)]
        /\ [td EXCEPT ![b] = r] \in [CPUs -> Seq(Works)]
    OBVIOUS
  <2> QED
    BY <2>1, <2>2
<1>14. PICK at2 \in [Works -> Spots] :
         \A e \in Works : at2[e] = IF at[e] = <<"list", b>> THEN <<"run", b>> ELSE at[e]
  <2>1. <<"run", b>> \in Spots
    BY DEF Spots
  <2>2. [e \in Works |-> IF at[e] = <<"list", b>> THEN <<"run", b>> ELSE at[e]]
          \in [Works -> Spots]
    BY <2>1
  <2> QED
    BY <2>2
<1>15. \A d \in CPUs : /\ IsList(ls2[d]) /\ Linked(word', irq_work_list'[d], ls2[d])
                       /\ IsList(td2[d]) /\ Linked(word', run'[d].list, td2[d])
  <2> SUFFICES ASSUME NEW d \in CPUs
               PROVE  /\ IsList(ls2[d]) /\ Linked(word', irq_work_list'[d], ls2[d])
                      /\ IsList(td2[d]) /\ Linked(word', run'[d].list, td2[d])
    OBVIOUS
  <2>1. CASE d = b
    BY <1>1, <1>2, <1>3, <1>5, <1>11, <1>12, <1>13, <2>1
  <2>2. CASE d # b
    BY <1>3, <1>5, <1>11, <1>13, <2>2
  <2> QED
    BY <2>1, <2>2
<1>16. ASSUME NEW e \in Works PROVE AtSpot(e, at2[e], ls2, td2)'
  <2>1. /\ word[e].pending <=> at[e] # Nowhere
        /\ \A d \in CPUs : e \in Entries(ls[d]) <=> at[e] = <<"list", d>>
        /\ \A d \in CPUs : e \in Entries(td[d]) <=> at[e] = <<"run", d>>
        /\ \A x \in Contexts : Holds(x, e) <=> at[e] = <<"ctx", x>>
    BY <1>10 DEF PlacedBy, AtSpot
  <2>2. word'[e] = word[e] /\ \A x \in Contexts : Holds(x, e)' <=> Holds(x, e)
    BY <1>3 DEF Holds
  <2>3. CASE at[e] = <<"list", b>>
    <3>1. at2[e] = <<"run", b>> /\ at2[e] # Nowhere /\ at[e] # Nowhere
      BY <1>14, <2>3, SpotsDiffer
    <3>2. \A d \in CPUs : e \notin Entries(ls2[d]) /\ at2[e] # <<"list", d>>
      <4> SUFFICES ASSUME NEW d \in CPUs
                   PROVE  e \notin Entries(ls2[d]) /\ at2[e] # <<"list", d>>
        OBVIOUS
      <4>1. at2[e] # <<"list", d>> /\ (at[e] = <<"list", d>> => d = b)
        BY <2>3, <3>1, SpotsDiffer
      <4>2. CASE d = b
        BY <1>12, <1>13, <4>1, <4>2
      <4>3. CASE d # b
        BY <1>13, <2>1, <4>1, <4>3
      <4> QED
        BY <4>2, <4>3
    <3>3. \A d \in CPUs : (e \in Entries(td2[d]) <=> d = b) /\ (at2[e] = <<"run", d>> <=> d = b)
      BY <1>13, <2>1, <2>3, <3>1, SpotsDiffer
    <3>4. \A x \in Contexts : ~Holds(x, e) /\ at2[e] # <<"ctx", x>>
      BY <2>1, <2>3, <3>1, SpotsDiffer
    <3> QED
      BY <2>1, <2>2, <3>1, <3>2, <3>3, <3>4 DEF AtSpot, Nowhere
  <2>4. CASE at[e] # <<"list", b>>
    <3>1. at2[e] = at[e] /\ AtSpot(e, at[e], ls, td)
      BY <1>10, <1>14, <2>4 DEF PlacedBy
    <3>2. e \notin Entries(ls[b]) /\ e \notin Entries(td[b])
      BY <1>12, <2>1, <2>4
    <3>3. /\ \A d \in CPUs : e \in Entries(ls2[d]) <=> e \in Entries(ls[d])
          /\ \A d \in CPUs : e \in Entries(td2[d]) <=> e \in Entries(td[d])
      BY <1>12, <1>13, <3>2
    <3> QED
      BY <2>2, <3>1, <3>3, AtFrame
  <2> QED
    BY <2>3, <2>4
<1>17. PlacedBy(ls2, td2, at2)'
  BY <1>15, <1>16 DEF PlacedBy
<1> QED
  BY <1>4, <1>7, <1>8, <1>9, <1>17 DEF IrqInv

(* The head of what is left to do goes from there into its callback. *)
LEMMA StartCallbackStep ==
  ASSUME IrqInv, NEW b \in CPUs, start_callback(b)
  PROVE  IrqInv'
<1>1. PICK ls \in [CPUs -> Seq(Works)], td \in [CPUs -> Seq(Works)], at \in [Works -> Spots] :
         PlacedBy(ls, td, at)
  BY DEF IrqInv
<1>2. \A d \in CPUs : /\ IsList(ls[d]) /\ Linked(word, irq_work_list[d], ls[d])
                      /\ IsList(td[d]) /\ Linked(word, run[d].list, td[d])
  BY <1>1 DEF PlacedBy
<1>3. PICK e \in Works, q \in Seq(Works) :
        /\ e = run[b].list /\ e \in Entries(td[b])
        /\ IsList(q) /\ Linked(word, word[e].next, q) /\ Entries(q) = Entries(td[b]) \ {e}
  <2>1. PICK r, w, p : r \in Seq(Works) /\ r = td[b] /\ w = word /\ p = run[b].list
    OBVIOUS
  <2>2. Linked(w, p, r) /\ IsList(r) /\ p # NULL /\ r \in Seq(Works)
    BY <1>2, <2>1 DEF start_callback
  <2>3. p \in Works /\ p \in Entries(r) /\ ListFrom(w, w[p].next, Entries(r) \ {p})
    BY <2>2, LinkedTail
  <2> QED
    BY <2>1, <2>3 DEF ListFrom
<1>4. PICK n \in Links : n = word[e].next
  BY DEF IrqInv, IrqTypeOK, Words
<1> DEFINE k == [pc |-> "func", entry |-> e, list |-> n]
<1>5. k \in Runs /\ k.pc = "func" /\ k.entry = e /\ k.list = n
  BY LinkTypes DEF Runs
<1>6. /\ run' = [run EXCEPT ![b] = k] /\ word' = [word EXCEPT ![e] = BusyWord]
      /\ overlapped' = IF InUse(e) # {} THEN overlapped \cup {e} ELSE overlapped
      /\ run[b].pc = "next" /\ UNCHANGED <<irq_work_list, ctx>>
  BY <1>3, <1>4 DEF start_callback
<1> HIDE DEF k
<1>7. BusyWord \in Words /\ ~BusyWord.pending /\ BusyWord.busy
  BY LinkTypes DEF BusyWord, Words
<1>8. IrqTypeOK'
  BY <1>5, <1>6, <1>7 DEF IrqInv, IrqTypeOK
<1>9. /\ run'[b] = k /\ \A d \in CPUs \ {b} : run'[d] = run[d]
      /\ word'[e] = BusyWord /\ \A f \in Works \ {e} : word'[f] = word[f]
  BY <1>6 DEF IrqInv, IrqTypeOK
<1>10. run[b].entry = NULL
  BY <1>6 DEF IrqInv, RunOK
<1>11. at[e] = <<"run", b>>
  BY <1>1, <1>3 DEF PlacedBy, AtSpot
<1>12. /\ \A d \in CPUs : e \notin Entries(ls[d])
       /\ \A d \in CPUs \ {b} : e \notin Entries(td[d])
       /\ \A x \in Contexts : ~Holds(x, e)
  <2>1. /\ \A d \in CPUs : e \in Entries(ls[d]) <=> at[e] = <<"list", d>>
        /\ \A d \in CPUs : e \in Entries(td[d]) <=> at[e] = <<"run", d>>
        /\ \A x \in Contexts : Holds(x, e) <=> at[e] = <<"ctx", x>>
    BY <1>1 DEF PlacedBy, AtSpot
  <2> QED
    BY <1>11, <2>1, SpotsDiffer
<1>13. \A x \in Contexts : CtxOK(x)'
  <2> SUFFICES ASSUME NEW x \in Contexts PROVE CtxOK(x)'
    OBVIOUS
  <2>1. ctx'[x] = ctx[x] /\ CtxOK(x) /\ (ctx[x].pc = "push" => ctx[x].entry \in Works \ {e})
    BY <1>6, <1>12 DEF IrqInv, CtxOK, Holds
  <2> QED
    BY <1>9, <2>1 DEF CtxOK
<1>14. \A d \in CPUs : RunOK(d)'
  <2> SUFFICES ASSUME NEW d \in CPUs PROVE RunOK(d)'
    OBVIOUS
  <2>1. CASE d = b
    BY <1>5, <1>9, <2>1, IrqWorkAssumption DEF RunOK
  <2>2. CASE d # b
    BY <1>9, <2>2 DEF IrqInv, RunOK
  <2> QED
    BY <2>1, <2>2
<1>15. ASSUME NEW f \in Works PROVE BusyOK(f)'
  <2>1. CASE f # e
    <3>1. \A d \in CPUs : run'[d].entry = f <=> run[d].entry = f
      BY <1>5, <1>9, <1>10, <2>1, IrqWorkAssumption
    <3>2. InUse(f)' = InUse(f) /\ (f \in overlapped' <=> f \in overlapped)
      BY <1>6, <2>1, <3>1 DEF InUse
    <3> QED
      BY <1>9, <2>1, <3>2, UseKept
  <2>2. CASE f = e
    <3>1. ASSUME e \notin overlapped' PROVE \A d \in InUse(e)' : d = b
      <4>1. InUse(e) = {}
        BY <1>6, <3>1
      <4> QED
        BY <1>9, <4>1 DEF InUse
    <3> QED
      BY <1>7, <1>9, <2>2, <3>1 DEF BusyOK
  <2> QED
    BY <2>1, <2>2
<1>16. PICK td2 \in [CPUs -> Seq(Works)] : /\ td2[b] = q
                                           /\ \A d \in CPUs \ {b} : td2[d] = td[d]
  <2>1. [td EXCEPT ![b] = q] \in [CPUs -> Seq(Works)]
    OBVIOUS
  <2> QED
    BY <2>1
<1>17. PICK at2 \in [Works -> Spots] : /\ at2[e] = Nowhere
                                       /\ \A f \in Works \ {e} : at2[f] = at[f]
  <2>1. [at EXCEPT ![e] = Nowhere] \in [Works -> Spots]
    BY DEF Spots
  <2> QED
    BY <2>1
<1>18. ASSUME NEW d \in CPUs
       PROVE  /\ IsList(ls[d]) /\ Linked(word', irq_work_list'[d], ls[d])
              /\ IsList(td2[d]) /\ Linked(word', run'[d].list, td2[d])
  <2>1. PICK p \in Seq(Works), r \in Seq(Works) : p = ls[d] /\ r = td2[d]
    OBVIOUS
  <2>2. IsList(p) /\ Linked(word, irq_work_list'[d], p)
    BY <1>2, <1>6, <2>1
  <2>3. IsList(r) /\ Linked(word, run'[d].list, r)
    <3>1. CASE d = b
      BY <1>3, <1>4, <1>5, <1>9, <1>16, <2>1, <3>1
    <3>2. CASE d # b
      BY <1>2, <1>9, <1>16, <2>1, <3>2
    <3> QED
      BY <3>1, <3>2
  <2>4. e \notin Entries(p) /\ e \notin Entries(r)
    BY <1>3, <1>12, <1>16, <2>1
  <2>5. Entries(p) \subseteq Works /\ Entries(r) \subseteq Works
    BY DEF Entries
  <2>6. /\ \A f \in Entries(p) : word'[f].next = word[f].next
        /\ \A f \in Entries(r) : word'[f].next = word[f].next
    BY <1>9, <2>4, <2>5
  <2>7. Linked(word', irq_work_list'[d], p) /\ Linked(word', run'[d].list, r)
    BY <2>2, <2>3, <2>6, LinkedFrame
  <2> QED
    BY <2>1, <2>2, <2>3, <2>7
<1>19. ASSUME NEW f \in Works PROVE AtSpot(f, at2[f], ls, td2)'
  <2>1. \A x \in Contexts : Holds(x, f)' <=> Holds(x, f)
    BY <1>6 DEF Holds
  <2>2. CASE f = e
    <3>1. \A d \in CPUs : e \notin Entries(ls[d]) /\ e \notin Entries(td2[d])
      BY <1>3, <1>12, <1>16
    <3>2. ~word'[e].pending /\ \A x \in Contexts : ~Holds(x, e)'
      BY <1>7, <1>9, <1>12, <2>1, <2>2
    <3> QED
      BY <1>17, <2>2, <3>1, <3>2, SpotsDiffer DEF AtSpot, Nowhere
  <2>3. CASE f # e
    <3>1. word'[f] = word[f] /\ at2[f] = at[f] /\ AtSpot(f, at[f], ls, td)
      BY <1>1, <1>9, <1>17, <2>3 DEF PlacedBy
    <3>2. \A d \in CPUs : f \in Entries(td2[d]) <=> f \in Entries(td[d])
      BY <1>3, <1>16, <2>3
    <3> QED
      BY <2>1, <3>1, <3>2, AtFrame
  <2> QED
    BY <2>2, <2>3
<1>20. PlacedBy(ls, td2, at2)'
  BY <1>18, <1>19 DEF PlacedBy
<1> QED
  BY <1>8, <1>13, <1>14, <1>15, <1>20 DEF IrqInv

-----------------------------------------------------------------------------
-----------------------------------------------------------------------------
(* Every step keeps the invariant. *)
LEMMA IrqStepInv ==
  ASSUME IrqInv, [IrqNext]_irqVars
  PROVE  IrqInv'
<1>1. CASE UNCHANGED irqVars
  <2>1. /\ IrqTypeOK' <=> IrqTypeOK
        /\ \A x \in Contexts : CtxOK(x)' <=> CtxOK(x)
        /\ \A b \in CPUs : RunOK(b)' <=> RunOK(b)
    BY <1>1 DEF irqVars, IrqTypeOK, CtxOK, RunOK
  <2>2. \A e \in Works : BusyOK(e)' <=> BusyOK(e)
    BY <1>1 DEF irqVars, BusyOK, InUse
  <2>3. \A ls, td, at : PlacedBy(ls, td, at)' <=> PlacedBy(ls, td, at)
    BY <1>1 DEF irqVars, PlacedBy, AtSpot, Holds
  <2> QED
    BY <2>1, <2>2, <2>3 DEF IrqInv
<1>2. ASSUME NEW x \in Contexts, Queue(x)
      PROVE  IrqInv'
  BY <1>2, ClaimStep, PushStep, LinkStep DEF Queue
<1>3. ASSUME NEW x \in Contexts, NEW e \in Works, irq_work_queue(x, e) \/ irq_work_sync(x, e)
      PROVE  IrqInv'
  BY <1>3, QueueStep, SyncStep
<1>4. ASSUME NEW x \in Contexts, sync_done(x)
      PROVE  IrqInv'
  BY <1>4, SyncDoneStep
<1>5. ASSUME NEW b \in CPUs, Run(b)
      PROVE  IrqInv'
  BY <1>5, TakeStep, StartCallbackStep, CallbackReturnsStep, ClearBusyStep, RunEndsStep DEF Run
<1> QED
  BY <1>1, <1>2, <1>3, <1>4, <1>5 DEF IrqNext, cpu_relax

(* The invariant of irq_work holds in every reachable state. *)
LEMMA IrqInvariant == IrqSpec => []IrqInv
BY IrqInitInv, IrqStepInv, PTL DEF IrqSpec

(* Every variable of irq_work.c keeps its type: irq_work_run() never takes *)
(* anything but an entry off a list, and a context that has claimed an     *)
(* entry pushes that entry to a CPU.                                       *)
THEOREM IrqTypeCorrect == IrqSpec => []IrqTypeOK
<1>1. IrqInv => IrqTypeOK
  BY DEF IrqInv
<1> QED
  BY <1>1, IrqInvariant, PTL

(* cmpxchg() and xchg() alone keep the lists whole: for any number of      *)
(* CPUs, contexts and entries, no list has a cycle, an entry is PENDING    *)
(* exactly while it is in one place, and it is never in two.               *)
THEOREM ListsIntactCorrect == IrqSpec => []ListsIntact
BY PlacesAre, IrqInvariant, PTL

(* An entry is BUSY while a CPU is inside its callback, unless two CPUs    *)
(* have had it in use at the same time.                                    *)
THEOREM BusyWhileRunningCorrect == IrqSpec => []BusyWhileRunning
BY BusyIs, IrqInvariant, PTL

=============================================================================
