----------------------------- MODULE TaskSched -----------------------------
(***************************************************************************)
(* What the blocking primitives use of the scheduler: task->state, the     *)
(* wake-up functions and the pending-signal test.                          *)
(*                                                                         *)
(* A task whose state is not TASK_RUNNING stays inside schedule() until    *)
(* somebody sets it back to TASK_RUNNING.  The C states are bit masks; the *)
(* combinations the primitives use are kept as distinct values and a mask  *)
(* is the set of the states that have one of its bits.                     *)
(***************************************************************************)

TASK_RUNNING         == "TASK_RUNNING"
TASK_INTERRUPTIBLE   == "TASK_INTERRUPTIBLE"
TASK_UNINTERRUPTIBLE == "TASK_UNINTERRUPTIBLE"
TASK_KILLABLE        == "TASK_KILLABLE"

TaskStates == {TASK_RUNNING, TASK_INTERRUPTIBLE, TASK_UNINTERRUPTIBLE,
               TASK_KILLABLE}

(* TASK_KILLABLE has the TASK_UNINTERRUPTIBLE bit, so TASK_ALL wakes it. *)
TASK_ALL == {TASK_INTERRUPTIBLE, TASK_UNINTERRUPTIBLE, TASK_KILLABLE}

(* No signal, an ordinary one, or SIGKILL. *)
Signals == {"none", "signal", "fatal"}

(* The map st of task states after try_to_wake_up(p, mask). *)
try_to_wake_up(st, p, mask) ==
  IF st[p] \in mask THEN [st EXCEPT ![p] = TASK_RUNNING] ELSE st

wake_up_process(st, p) == try_to_wake_up(st, p, TASK_ALL)

(* TIF_SIGPENDING is set by the caller; this is the wake-up that follows:  *)
(* an ordinary signal wakes TASK_INTERRUPTIBLE, a fatal one also the       *)
(* states with the TASK_WAKEKILL bit.                                      *)
signal_wake_up(st, p, sig) ==
  try_to_wake_up(st, p, {TASK_INTERRUPTIBLE}
                        \cup (IF sig = "fatal" THEN {TASK_KILLABLE} ELSE {}))

signal_pending_state(s, sig) ==
  \/ s = TASK_INTERRUPTIBLE /\ sig # "none"
  \/ s = TASK_KILLABLE /\ sig = "fatal"

=============================================================================
