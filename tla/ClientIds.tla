----------------------------- MODULE ClientIds ------------------------------
(***************************************************************************)
(* What RtlClientId promises to routines: from entering to leaving, the    *)
(* thread of a worker finds the handle of its client's process, and that   *)
(* one only.  Threads, locks and the walk along a vector are hidden.       *)
(***************************************************************************)
CONSTANTS Workers, Processes, None

VARIABLES
  ids,    (* the pairs (client process handle, thread id)                  *)
  found   (* what each thread has last found since it entered              *)

vars == <<ids, found>>

IdsOf(w) == {p \in Processes : <<p, w>> \in ids}

Init == ids = {} /\ found = [w \in Workers |-> None]

Enter(w, p) ==
  /\ IdsOf(w) = {}
  /\ ids' = ids \cup {<<p, w>>}
  /\ UNCHANGED found

Lookup(w) ==
  /\ \E p \in IdsOf(w) : IdsOf(w) = {p} /\ found' = [found EXCEPT ![w] = p]
  /\ UNCHANGED ids

Leave(w) ==
  /\ IdsOf(w) # {}
  /\ ids' = ids \ (Processes \X {w})
  /\ found' = [found EXCEPT ![w] = None]

Next == \E w \in Workers : Lookup(w) \/ Leave(w) \/ \E p \in Processes : Enter(w, p)

Spec == Init /\ [][Next]_vars
=============================================================================
