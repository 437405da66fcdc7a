----------------------------- MODULE ClientCall -----------------------------
(***************************************************************************)
(* ScServiceCallW in a client process: check the parameters, connect to    *)
(* the port of the service name, send the request and wait for the reply,  *)
(* answer it, close the port.  The client can die anywhere in between.     *)
(***************************************************************************)
EXTENDS ServiceState

ClientAt(c, pc) == call[c] = pc

Return(c, status) ==
  /\ call' = [call EXCEPT ![c] = "returned"]
  /\ result' = [result EXCEPT ![c] = status]

(* Check the parameters.  nullArg: a pointer that must not be null is.     *)
BeginCall(c, n, s, nullArg) ==
  /\ ClientAt(c, "idle")
  /\ args' = [args EXCEPT ![c] = [name |-> n, shape |-> s]]
  /\ IF nullArg \/ RtlCaptureParameters(s) = None
     THEN Return(c, "STATUS_INVALID_PARAMETER_2")
     ELSE call' = [call EXCEPT ![c] = "NtConnectPort"] /\ UNCHANGED result
  /\ UNCHANGED <<handles, conn, dest, apiVars, waitVars, paramVars, workerVars, serviceStatus>>

(* NtConnectPort queues a connection request with the parameter list at    *)
(* the port of that name, and fails if there is none.                      *)
Connect(c) ==
  /\ ClientAt(c, "NtConnectPort")
  /\ \/ \E r \in PortNamed(args[c].name) :
          /\ conn' = [conn EXCEPT ![c] = "pending"]
          /\ dest' = [dest EXCEPT ![c] = r]
          /\ call' = [call EXCEPT ![c] = "connecting"]
          /\ UNCHANGED result
     \/ /\ PortNamed(args[c].name) = {}
        /\ Return(c, "STATUS_INVALID_PARAMETER_1")
        /\ UNCHANGED <<conn, dest>>
  /\ UNCHANGED <<handles, apiVars, waitVars, paramVars, workerVars, args, serviceStatus>>

(* Mutant: any other failure is reported as a service that does not exist. *)
ConnectReturnsNotFound(c) ==
  /\ ClientAt(c, "connecting")
  /\ \/ /\ conn[c] = "connected"
        /\ call' = [call EXCEPT ![c] = "request"]
        /\ UNCHANGED result
     \/ conn[c] = "refused" /\ Return(c, "STATUS_INVALID_PARAMETER_2")
     \/ conn[c] = "closed" /\ Return(c, "STATUS_INVALID_PARAMETER_1")
  /\ UNCHANGED <<handles, conn, dest, apiVars, waitVars, paramVars, workerVars, args, serviceStatus>>

(* NtConnectPort returns: connected, refused, or failed with the port.     *)
ConnectReturns(c) ==
  /\ ClientAt(c, "connecting")
  /\ \/ /\ conn[c] = "connected"
        /\ call' = [call EXCEPT ![c] = "request"]
        /\ UNCHANGED result
     \/ conn[c] = "refused" /\ Return(c, "STATUS_INVALID_PARAMETER_2")
     \/ conn[c] = "closed" /\ Return(c, "STATUS_UNSUCCESSFUL")
  /\ UNCHANGED <<handles, conn, dest, apiVars, waitVars, paramVars, workerVars, args, serviceStatus>>

(* NtRequestWaitReplyPort sends the request ...                            *)
Request(c) ==
  /\ ClientAt(c, "request")
  /\ conn' = [conn EXCEPT ![c] = IF @ = "connected" THEN "requested" ELSE @]
  /\ call' = [call EXCEPT ![c] = "waiting"]
  /\ UNCHANGED <<handles, dest, apiVars, waitVars, paramVars, workerVars, args, result, serviceStatus>>

(* Mutant: the request does not wait for the worker's reply.               *)
RequestReturnsEarly(c) ==
  /\ ClientAt(c, "waiting")
  /\ \/ /\ conn[c] \in {"serving", "replied"}
        /\ result' = [result EXCEPT ![c] = "STATUS_SUCCESS"]
        /\ serviceStatus' = [serviceStatus EXCEPT ![c] = reply[c]]
     \/ /\ conn[c] = "closed"
        /\ result' = [result EXCEPT ![c] = "STATUS_UNSUCCESSFUL"]
        /\ UNCHANGED serviceStatus
  /\ call' = [call EXCEPT ![c] = "NtReplyPort"]
  /\ UNCHANGED <<handles, conn, dest, apiVars, waitVars, paramVars, workerVars, args>>

(* ... and returns with the reply, or fails if the server's end is closed. *)
RequestReturns(c) ==
  /\ ClientAt(c, "waiting")
  /\ \/ /\ conn[c] = "replied"
        /\ result' = [result EXCEPT ![c] = "STATUS_SUCCESS"]
        /\ serviceStatus' = [serviceStatus EXCEPT ![c] = reply[c]]
     \/ /\ conn[c] = "closed"
        /\ result' = [result EXCEPT ![c] = "STATUS_UNSUCCESSFUL"]
        /\ UNCHANGED serviceStatus
  /\ call' = [call EXCEPT ![c] = "NtReplyPort"]
  /\ UNCHANGED <<handles, conn, dest, apiVars, waitVars, paramVars, workerVars, args>>

(* NtReplyPort releases the worker, which waits for it.                    *)
Reply(c) ==
  /\ ClientAt(c, "NtReplyPort")
  /\ conn' = [conn EXCEPT ![c] = IF @ = "replied" THEN "acked" ELSE @]
  /\ call' = [call EXCEPT ![c] = "NtClose"]
  /\ UNCHANGED <<handles, dest, apiVars, waitVars, paramVars, workerVars, args, result, serviceStatus>>

(* NtClose(hPort) and return.                                              *)
CloseAndReturn(c) ==
  /\ ClientAt(c, "NtClose")
  /\ conn' = [conn EXCEPT ![c] = "closed"]
  /\ call' = [call EXCEPT ![c] = "returned"]
  /\ UNCHANGED <<handles, dest, apiVars, waitVars, paramVars, workerVars, args, result, serviceStatus>>

ClientStep(c) ==
  \/ Connect(c) \/ ConnectReturns(c) \/ Request(c) \/ RequestReturns(c)
  \/ Reply(c) \/ CloseAndReturn(c)

(* The client process ends inside the call.  The kernel closes its end of  *)
(* the connection; a request still queued at the port stays there.         *)
Die(c) ==
  /\ InCall(c)
  /\ call' = [call EXCEPT ![c] = "dead"]
  /\ conn' = [conn EXCEPT ![c] = IF @ \in {"none", "pending"} THEN @ ELSE "closed"]
  /\ UNCHANGED <<handles, dest, apiVars, waitVars, paramVars, workerVars, args, result, serviceStatus>>
=============================================================================
