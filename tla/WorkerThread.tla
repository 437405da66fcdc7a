---------------------------- MODULE WorkerThread ----------------------------
(***************************************************************************)
(* WorkerThread, one per accepted call: it enters its client in            *)
(* client_id_list, copies the client's pointer parameters in, runs the     *)
(* routine, copies them back, replies and waits for the client's own       *)
(* reply, leaves the list, and closes what its SERVICE_ROUTINE holds.      *)
(* The critical section of the list makes each access to it one step.      *)
(***************************************************************************)
EXTENDS ServiceState

Moves(c, from, to) == worker[c] = from /\ worker' = [worker EXCEPT ![c] = to]

(* client_id_list->push_back under the critical section.                   *)
EnterClientId(c) ==
  /\ Moves(c, "start", "map")
  /\ client_id_list' = client_id_list \cup {<<hClientProcess[c], ThreadId(c)>>}
  /\ UNCHANGED <<handles, conn, dest, apiVars, waitVars, paramVars, reply, ran, clientVars>>

(* RtlMapPtrParameters reads the client's memory; when it cannot, the      *)
(* routine is not run and the service status says so.                      *)
MapParameters(c) ==
  /\ \/ /\ Moves(c, "map", "run")
        /\ UNCHANGED reply
     \/ /\ Moves(c, "map", "reply")
        /\ reply' = [reply EXCEPT ![c] = "STATUS_INVALID_PARAMETER"]
  /\ UNCHANGED <<handles, conn, dest, apiVars, waitVars, paramVars, client_id_list, ran,
                 clientVars>>

(* __ServiceCall jumps into the routine ...                                *)
EnterRoutine(c) ==
  /\ Moves(c, "run", "running")
  /\ ran' = [ran EXCEPT ![c] = routine[c]]
  /\ UNCHANGED <<handles, conn, dest, apiVars, waitVars, paramVars, reply, client_id_list,
                 clientVars>>

(* ... which returns a status of its own, named here by the routine.       *)
LeaveRoutine(c) ==
  /\ Moves(c, "running", "sync")
  /\ reply' = [reply EXCEPT ![c] = routine[c]]
  /\ UNCHANGED <<handles, conn, dest, apiVars, waitVars, paramVars, client_id_list, ran,
                 clientVars>>

(* The handles RtlClientId finds for the thread with the id t.             *)
RtlClientId(t) == {p[1] : p \in {q \in client_id_list : q[2] = t}}

(* RtlSyncMappedPtrParameters writes the client's memory; when it cannot,  *)
(* the routine's status is replaced.                                       *)
SyncParameters(c) ==
  /\ Moves(c, "sync", "reply")
  /\ \/ UNCHANGED reply
     \/ reply' = [reply EXCEPT ![c] = "STATUS_ACCESS_DENIED"]
  /\ UNCHANGED <<handles, conn, dest, apiVars, waitVars, paramVars, client_id_list, ran,
                 clientVars>>

(* NtReplyWaitReplyPort(hServerPort, lm): the reply goes to the client ... *)
SendReply(c) ==
  /\ Moves(c, "reply", "waitReply")
  /\ conn' = [conn EXCEPT ![c] = IF @ = "serving" THEN "replied" ELSE @]
  /\ UNCHANGED <<handles, dest, apiVars, waitVars, paramVars, reply, client_id_list, ran,
                 clientVars>>

(* Mutant: the worker sends its reply again when its client has died.      *)
ReplyReturnsRetrying(c) ==
  /\ Moves(c, "waitReply", IF conn[c] = "acked" THEN "erase" ELSE "reply")
  /\ conn[c] \in {"acked", "closed"}
  /\ UNCHANGED <<handles, conn, dest, apiVars, waitVars, paramVars, reply, client_id_list, ran,
                 clientVars>>

(* Mutant: the worker does not leave the list.                             *)
ReplyReturnsToClose(c) ==
  /\ Moves(c, "waitReply", "close")
  /\ conn[c] \in {"acked", "closed"}
  /\ UNCHANGED <<handles, conn, dest, apiVars, waitVars, paramVars, reply, client_id_list, ran,
                 clientVars>>

(* ... and the worker waits until the client answers or its end is closed. *)
ReplyReturns(c) ==
  /\ Moves(c, "waitReply", "erase")
  /\ conn[c] \in {"acked", "closed"}
  /\ UNCHANGED <<handles, conn, dest, apiVars, waitVars, paramVars, reply, client_id_list, ran,
                 clientVars>>

(* Mutant: an entry is erased without looking whose it is.                 *)
EraseAnyClientId(c) ==
  /\ Moves(c, "erase", "close")
  /\ \E p \in client_id_list : client_id_list' = client_id_list \ {p}
  /\ UNCHANGED <<handles, conn, dest, apiVars, waitVars, paramVars, reply, ran, clientVars>>

(* client_id_list->erase of the first entry of this thread.                *)
EraseClientId(c) ==
  /\ Moves(c, "erase", "close")
  /\ client_id_list' = {p \in client_id_list : p[2] # ThreadId(c)}
  /\ UNCHANGED <<handles, conn, dest, apiVars, waitVars, paramVars, reply, ran, clientVars>>

(* Mutant: every handle in the SERVICE_ROUTINE copy is closed, hPort too.  *)
ExitWorkerClosingAll(c) ==
  /\ Moves(c, "close", "exited")
  /\ CloseHandles({hClientProcess[c], hServerPort[c], hPort[routine[c]]})
  /\ hClientProcess' = [hClientProcess EXCEPT ![c] = None]
  /\ hServerPort' = [hServerPort EXCEPT ![c] = None]
  /\ UNCHANGED <<dest, apiVars, waitVars, routine, lpParameters, reply, client_id_list, ran,
                 clientVars>>

(* NtClose of both handles, delete lm and the SERVICE_ROUTINE.             *)
ExitWorker(c) ==
  /\ Moves(c, "close", "exited")
  /\ CloseHandles({hClientProcess[c], hServerPort[c]})
  /\ hClientProcess' = [hClientProcess EXCEPT ![c] = None]
  /\ hServerPort' = [hServerPort EXCEPT ![c] = None]
  /\ UNCHANGED <<dest, apiVars, waitVars, routine, lpParameters, reply, client_id_list, ran,
                 clientVars>>

WorkerStep(c) ==
  \/ EnterClientId(c) \/ MapParameters(c) \/ EnterRoutine(c) \/ LeaveRoutine(c)
  \/ SyncParameters(c) \/ SendReply(c) \/ ReplyReturns(c) \/ EraseClientId(c) \/ ExitWorker(c)
=============================================================================
