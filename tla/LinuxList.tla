----------------------------- MODULE LinuxList -----------------------------
(***************************************************************************)
(* The intrusive doubly linked list of include/linux/list.h.               *)
(*                                                                         *)
(* A list is the sequence of its entries, from head->next to head->prev.   *)
(* An entry is on a list at most once: its two link fields can only be in  *)
(* one place.  The operators keep the names of the C functions and return  *)
(* the list that the C function leaves behind.                             *)
(*                                                                         *)
(* list_del is written as a function over the shortened index range, not   *)
(* with a filter, so that the provers can reason about it.                 *)
(***************************************************************************)
EXTENDS Naturals, Sequences

(* The entries linked on list q. *)
Entries(q) == {q[i] : i \in DOMAIN q}

(* No entry is linked twice. *)
IsList(q) == \A i, j \in DOMAIN q : q[i] = q[j] => i = j

(* INIT_LIST_HEAD: the head points at itself. *)
EmptyList == << >>

list_empty(q) == Len(q) = 0

list_add_tail(q, e) == Append(q, e)

list_first_entry(q) == q[1]

(* Unlinks e: its neighbours point at each other. *)
list_del(q, e) ==
  LET i == CHOOSE k \in DOMAIN q : q[k] = e
  IN  [j \in 1 .. (Len(q) - 1) |-> IF j < i THEN q[j] ELSE q[j + 1]]

=============================================================================
