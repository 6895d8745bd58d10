------------------------------ MODULE IrqWork ------------------------------
(***************************************************************************)
(* Work that is run from interrupt context: kernel/irq_work.c.             *)
(*                                                                         *)
(* There is no lock: an entry's flags and its link share the word          *)
(* entry->next, which is claimed with cmpxchg(), and each CPU has a list   *)
(* that is pushed to with cmpxchg() and emptied with xchg().  Every atomic *)
(* operation is a step of its own, with the plain accesses to an entry     *)
(* that nobody else may change meanwhile.                                  *)
(*                                                                         *)
(* A context is a task or an interrupt handler that queues entries or      *)
(* synchronizes on them.  Contexts of one CPU interleave freely here; on   *)
(* the real one they nest, which is a special case.  The architecture has  *)
(* no arch_irq_work_raise(): the timer tick calls irq_work_run().          *)
(***************************************************************************)
EXTENDS Naturals, FiniteSets, Cpus

CONSTANTS Works, Contexts

ASSUME IrqWorkAssumption == IsFiniteSet(Works) /\ NULL \notin Works

VARIABLES
  word,           \* entry->next: the link and the two flag bits
  irq_work_list,  \* head of each CPU's list
  ctx,            \* what each context does, with its locals
  run,            \* what irq_work_run() does on each CPU, with its locals
  overlapped      \* history: entries that two CPUs have run at the same time

irqVars == <<word, irq_work_list, ctx, run, overlapped>>

Links == Works \cup {NULL}
Words == [next : Links, pending : BOOLEAN, busy : BOOLEAN]

FreeWord == [next |-> NULL, pending |-> FALSE, busy |-> FALSE]
BusyWord == [next |-> NULL, pending |-> FALSE, busy |-> TRUE]

(* next_flags(next, IRQ_WORK_FLAGS) *)
Claimed(next) == [next |-> next, pending |-> TRUE, busy |-> TRUE]

(***************************************************************************)
(* A context: pc is "idle", "claim" (entry->next was read), "queue" (the   *)
(* entry is claimed), "push" (the list head was read and linked) or        *)
(* "sync".  seen and head are the values it read.                          *)
(***************************************************************************)
IdleCtx == [pc |-> "idle", entry |-> NULL, seen |-> FreeWord, cpu |-> NULL, head |-> NULL]

(* irq_work_run(): "idle", "next" (list is what is left to do), "func"     *)
(* (the callback runs) or "clear" (it has returned).                       *)
NoRun == [pc |-> "idle", entry |-> NULL, list |-> NULL]

IrqInit ==
  /\ word = [e \in Works |-> FreeWord]
  /\ irq_work_list = [c \in CPUs |-> NULL]
  /\ ctx = [x \in Contexts |-> IdleCtx]
  /\ run = [c \in CPUs |-> NoRun]
  /\ overlapped = {}

InCallback(e) == {c \in CPUs : run[c].pc = "func" /\ run[c].entry = e}

(* irq_work_run() has not finished with e there. *)
InUse(e) == {c \in CPUs : run[c].entry = e}

-----------------------------------------------------------------------------
(* Mutated forms of the definitions below, one plausible slip each. *)

(* The list is emptied once more at the end of the run. *)
MutRunEnds(c) ==
  /\ run[c].pc = "next" /\ run[c].list = NULL
  /\ run' = [run EXCEPT ![c] = NoRun]
  /\ irq_work_list' = [irq_work_list EXCEPT ![c] = NULL]
  /\ UNCHANGED <<word, ctx, overlapped>>

(* The flags are cleared before the callback runs. *)
MutStartCallback(c) ==
  /\ run[c].pc = "next" /\ run[c].list # NULL
  /\ LET e == run[c].list
     IN  /\ run' = [run EXCEPT ![c] = [pc |-> "func", entry |-> e,
                                       list |-> word[e].next]]
         /\ word' = [word EXCEPT ![e] = FreeWord]
         /\ overlapped' = IF InUse(e) # {} THEN overlapped \cup {e} ELSE overlapped
  /\ UNCHANGED <<irq_work_list, ctx>>

(* The entry goes on the list without a look at what the list is now. *)
MutPush(x) ==
  /\ ctx[x].pc = "push"
  /\ irq_work_list' = [irq_work_list EXCEPT ![ctx[x].cpu] = ctx[x].entry]
  /\ ctx' = [ctx EXCEPT ![x] = IdleCtx]
  /\ UNCHANGED <<word, run, overlapped>>

-----------------------------------------------------------------------------
(* irq_work_claim(): an entry that is PENDING is left alone ... *)
irq_work_queue(x, e) ==
  /\ ctx[x].pc = "idle"
  /\ ~word[e].pending
  /\ ctx' = [ctx EXCEPT ![x] = [IdleCtx EXCEPT !.pc = "claim", !.entry = e,
                                            !.seen = word[e]]]
  /\ UNCHANGED <<word, irq_work_list, run, overlapped>>

(* ... and cmpxchg() claims it unless it has changed; then once more. *)
claim(x) ==
  LET e == ctx[x].entry
  IN  /\ ctx[x].pc = "claim"
      /\ \/ /\ word[e] = ctx[x].seen
            /\ word' = [word EXCEPT ![e] = Claimed(ctx[x].seen.next)]
            /\ ctx' = [ctx EXCEPT ![x] = [IdleCtx EXCEPT !.pc = "queue", !.entry = e]]
         \/ /\ word[e] # ctx[x].seen /\ ~word[e].pending
            /\ ctx' = [ctx EXCEPT ![x].seen = word[e]]
            /\ UNCHANGED word
         \/ /\ word[e] # ctx[x].seen /\ word[e].pending
            /\ ctx' = [ctx EXCEPT ![x] = IdleCtx]
            /\ UNCHANGED word
      /\ UNCHANGED <<irq_work_list, run, overlapped>>

(* __irq_work_queue(): from here on the context stays on its CPU. *)
link_entry(x, c) ==
  LET e == ctx[x].entry
  IN  /\ ctx[x].pc = "queue"
      /\ word' = [word EXCEPT ![e] = Claimed(irq_work_list[c])]
      /\ ctx' = [ctx EXCEPT ![x].pc = "push", ![x].cpu = c,
                            ![x].head = irq_work_list[c]]
      /\ UNCHANGED <<irq_work_list, run, overlapped>>

(* this_cpu_cmpxchg(); if the head has changed, it is read and linked again. *)
push(x) ==
  LET c == ctx[x].cpu
  IN  /\ ctx[x].pc = "push"
      /\ \/ /\ irq_work_list[c] = ctx[x].head
            /\ irq_work_list' = [irq_work_list EXCEPT ![c] = ctx[x].entry]
            /\ ctx' = [ctx EXCEPT ![x] = IdleCtx]
            /\ UNCHANGED word
         \/ /\ irq_work_list[c] # ctx[x].head
            /\ word' = [word EXCEPT ![ctx[x].entry] = Claimed(irq_work_list[c])]
            /\ ctx' = [ctx EXCEPT ![x].head = irq_work_list[c]]
            /\ UNCHANGED irq_work_list
      /\ UNCHANGED <<run, overlapped>>

-----------------------------------------------------------------------------
(* irq_work_run(): the whole list is taken ... *)
irq_work_run(c) ==
  /\ run[c].pc = "idle" /\ irq_work_list[c] # NULL
  /\ run' = [run EXCEPT ![c] = [pc |-> "next", entry |-> NULL,
                                list |-> irq_work_list[c]]]
  /\ irq_work_list' = [irq_work_list EXCEPT ![c] = NULL]
  /\ UNCHANGED <<word, ctx, overlapped>>

(* ... its first entry is unlinked and stops being PENDING, so that it can *)
(* be queued again, and its callback is called ...                         *)
start_callback(c) ==
  /\ run[c].pc = "next" /\ run[c].list # NULL
  /\ LET e == run[c].list
     IN  /\ run' = [run EXCEPT ![c] = [pc |-> "func", entry |-> e,
                                       list |-> word[e].next]]
         /\ word' = [word EXCEPT ![e] = BusyWord]
         /\ overlapped' = IF InUse(e) # {} THEN overlapped \cup {e} ELSE overlapped
  /\ UNCHANGED <<irq_work_list, ctx>>

callback_returns(c) ==
  /\ run[c].pc = "func"
  /\ run' = [run EXCEPT ![c].pc = "clear"]
  /\ UNCHANGED <<word, irq_work_list, ctx, overlapped>>

(* ... and BUSY is cleared, if nobody has claimed the entry meanwhile. *)
clear_busy(c) ==
  LET e == run[c].entry
  IN  /\ run[c].pc = "clear"
      /\ word' = [word EXCEPT ![e] = IF @ = BusyWord THEN FreeWord ELSE @]
      /\ run' = [run EXCEPT ![c].pc = "next", ![c].entry = NULL]
      /\ UNCHANGED <<irq_work_list, ctx, overlapped>>

run_ends(c) ==
  /\ run[c].pc = "next" /\ run[c].list = NULL
  /\ run' = [run EXCEPT ![c] = NoRun]
  /\ UNCHANGED <<word, irq_work_list, ctx, overlapped>>

-----------------------------------------------------------------------------
(* irq_work_sync() spins while BUSY is set. *)
irq_work_sync(x, e) ==
  /\ ctx[x].pc = "idle"
  /\ ctx' = [ctx EXCEPT ![x] = [IdleCtx EXCEPT !.pc = "sync", !.entry = e]]
  /\ UNCHANGED <<word, irq_work_list, run, overlapped>>

SyncDone(x) == ctx[x].pc = "sync" /\ ~word[ctx[x].entry].busy

cpu_relax(x) ==
  /\ ctx[x].pc = "sync" /\ word[ctx[x].entry].busy
  /\ UNCHANGED irqVars

sync_done(x) ==
  /\ SyncDone(x)
  /\ ctx' = [ctx EXCEPT ![x] = IdleCtx]
  /\ UNCHANGED <<word, irq_work_list, run, overlapped>>

-----------------------------------------------------------------------------
Queue(x) == claim(x) \/ push(x) \/ \E c \in CPUs : link_entry(x, c)

Run(c) ==
  irq_work_run(c) \/ start_callback(c) \/ callback_returns(c)
    \/ clear_busy(c) \/ run_ends(c)

IrqNext ==
  \/ \E x \in Contexts :
       \/ Queue(x) \/ cpu_relax(x) \/ sync_done(x)
       \/ \E e \in Works : irq_work_queue(x, e) \/ irq_work_sync(x, e)
  \/ \E c \in CPUs : Run(c)

IrqSpec == IrqInit /\ [][IrqNext]_irqVars

(* The tick comes, callbacks return, contexts run, and no context is       *)
(* interrupted in the window of its cmpxchg() loop every time round.       *)
IrqFairness ==
  /\ \A x \in Contexts :
       WF_irqVars(Queue(x)) /\ SF_irqVars(push(x) /\ ctx'[x] = IdleCtx)
  /\ \A c \in CPUs : WF_irqVars(Run(c))

IrqFairSpec == IrqSpec /\ IrqFairness

-----------------------------------------------------------------------------
Ctxs == [pc : {"idle", "claim", "queue", "push", "sync"}, entry : Links,
         seen : Words, cpu : CPUs \cup {NULL}, head : Links]
Runs == [pc : {"idle", "next", "func", "clear"}, entry : Links, list : Links]

IrqTypeOK ==
  /\ word \in [Works -> Words]
  /\ irq_work_list \in [CPUs -> Links]
  /\ ctx \in [Contexts -> Ctxs]
  /\ run \in [CPUs -> Runs]
  /\ overlapped \subseteq Works

(* The n-th entry of the list that starts at p. *)
Walk(p) ==
  LET at[n \in Nat] == IF n = 0 THEN p
                       ELSE IF at[n - 1] = NULL THEN NULL ELSE word[at[n - 1]].next
  IN  at

OnList(p) == {Walk(p)[n] : n \in 0 .. Cardinality(Works)} \ {NULL}

Ends(p) == Walk(p)[Cardinality(Works)] = NULL

(* Where entry e is waiting to be run: in the hands of a context that has  *)
(* claimed it, on a CPU's list, or in what irq_work_run() has left to do.  *)
Places(e) ==
  {<<"ctx", x>> : x \in {y \in Contexts : ctx[y].entry = e
                                          /\ ctx[y].pc \in {"queue", "push"}}}
  \cup {<<"list", c>> : c \in {d \in CPUs : e \in OnList(irq_work_list[d])}}
  \cup {<<"run", c>> : c \in {d \in CPUs : e \in OnList(run[d].list)}}

(* The lists stay lists (no cycle, no entry on two of them) although       *)
(* entries are claimed again while their callback runs on another CPU, and *)
(* an entry is PENDING exactly while one place holds it: none is lost.     *)
ListsIntact ==
  /\ \A c \in CPUs : Ends(irq_work_list[c]) /\ Ends(run[c].list)
  /\ \A e \in Works : Cardinality(Places(e)) = IF word[e].pending THEN 1 ELSE 0

(* As long as no CPU has started e while another had not finished with it, *)
(* e is BUSY while its callback runs, whoever claims it meanwhile, so that *)
(* irq_work_sync() waits for it.                                           *)
BusyWhileRunning ==
  \A e \in Works : InCallback(e) # {} /\ e \notin overlapped => word[e].busy

(* A claimed entry gets its callback called after the claim. *)
ClaimedRuns == \A e \in Works : word[e].pending ~> InCallback(e) # {}

-----------------------------------------------------------------------------
(* irq_work_sync() "ensures the entry is not currently in use": where it   *)
(* returns, no CPU is inside the callback of the entry.                    *)
SyncSound ==
  \A x \in Contexts : SyncDone(x) => InCallback(ctx[x].entry) = {}

=============================================================================
