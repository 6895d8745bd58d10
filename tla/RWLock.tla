------------------------------- MODULE RWLock -------------------------------
(***************************************************************************)
(* What a read/write semaphore promises its callers: any number of tasks   *)
(* may hold it for reading, or one task for writing, never both, and a     *)
(* writer may turn its hold into a read hold without letting go.           *)
(***************************************************************************)
CONSTANT Tasks

VARIABLES readers,  \* tasks that hold the lock for reading
          writers   \* tasks that hold it for writing

lockVars == <<readers, writers>>

LockInit == readers = {} /\ writers = {}

AcquireRead(t) ==
  /\ t \notin readers /\ writers = {}
  /\ readers' = readers \cup {t}
  /\ UNCHANGED writers

AcquireWrite(t) ==
  /\ readers = {} /\ writers = {}
  /\ writers' = {t}
  /\ UNCHANGED readers

ReleaseRead(t) ==
  /\ t \in readers
  /\ readers' = readers \ {t}
  /\ UNCHANGED writers

ReleaseWrite(t) ==
  /\ writers = {t}
  /\ writers' = {}
  /\ UNCHANGED readers

Downgrade(t) ==
  /\ writers = {t}
  /\ writers' = {}
  /\ readers' = readers \cup {t}

LockNext ==
  \E t \in Tasks : \/ AcquireRead(t) \/ AcquireWrite(t)
                   \/ ReleaseRead(t) \/ ReleaseWrite(t) \/ Downgrade(t)

LockSpec == LockInit /\ [][LockNext]_lockVars

=============================================================================
