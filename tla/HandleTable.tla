---------------------------- MODULE HandleTable ----------------------------
(***************************************************************************)
(* The handle table of the service process, which the Windows kernel keeps. *)
(* A handle value names one kernel object from the call that opens it until *)
(* NtClose.  The library opens three kinds of object: connection ports      *)
(* (NtCreatePort), client processes (OpenProcess) and server communication  *)
(* ports (NtAcceptConnectPort); all of them share one space of values.      *)
(*                                                                         *)
(* The table is code outside the repository, modelled from how the library  *)
(* uses it: an operation on a value that is not open fails, and a closed    *)
(* value may be given out again (Recycle).                                  *)
(***************************************************************************)

CONSTANTS
  Handles,    (* the handle values the process can hold (a bound)           *)
  None,       (* no value: a zeroed field, a missing call or registration   *)
  Recycle,    (* whether a closed handle value can be given out again       *)
  Alloc(_)    (* the values the kernel may choose from, given the free ones *)

ASSUME HandleAssumption ==
  /\ None \notin Handles
  /\ Recycle \in BOOLEAN
  /\ \A S \in SUBSET Handles : Alloc(S) \subseteq S /\ (S # {} => Alloc(S) # {})

(***************************************************************************)
(* What a handle value can refer to.  The process opened by number for a   *)
(* client that has died is a stranger that got the number: Process(None).  *)
(***************************************************************************)
Unused     == [kind |-> "unused",  id |-> None]
Closed     == [kind |-> "closed",  id |-> None]
Port(r)    == [kind |-> "port",    id |-> r]
Process(c) == [kind |-> "process", id |-> c]
Comm(c)    == [kind |-> "comm",    id |-> c]

(* The values that are free in table ht, and those the kernel may pick.    *)
FreeHandles(ht) == {h \in Handles : ht[h] = Unused \/ (Recycle /\ ht[h] = Closed)}
Candidates(ht)  == Alloc(FreeHandles(ht))

IsOpen(ht, h) == h \in Handles /\ ht[h] \notin {Unused, Closed}

Opened(ht, h, object) == [ht EXCEPT ![h] = object]

(* NtClose of every value in hs; a value that is not open is left alone.   *)
Closing(ht, hs) == [h \in Handles |-> IF h \in hs /\ IsOpen(ht, h) THEN Closed ELSE ht[h]]
=============================================================================
