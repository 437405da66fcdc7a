----------------------------- MODULE WaitThread -----------------------------
(***************************************************************************)
(* WaitThread, one per registration: a loop that takes a connection        *)
(* request, checks it, accepts the connection, waits for the request       *)
(* message and starts a worker.  It uses one message buffer, lm, for the   *)
(* connection request and for the request message, and callparam points    *)
(* into it.  wait[r] names the next kernel call of the loop.               *)
(***************************************************************************)
EXTENDS ServiceState

WaitAt(r, pc) == wait[r] = pc
Goto(r, pc) == wait' = [wait EXCEPT ![r] = pc]

(* Mutant: the loop tests CloseEvent before it listens.                    *)
ListenUntilClosing(r) ==
  LET object == handles[hPort[r]] IN
  /\ WaitAt(r, "NtListenPort")
  /\ \/ \E c \in Calls :
          /\ object.kind = "port" /\ conn[c] = "pending" /\ dest[c] = object.id
          /\ conn' = [conn EXCEPT ![c] = IF call[c] = "dead" THEN "closed" ELSE "received"]
          /\ current' = [current EXCEPT ![r] = c]
          /\ lmData' = [lmData EXCEPT ![r] = args[c].shape]
          /\ Goto(r, "OpenProcess")
     \/ /\ CloseEvent[r] \/ object.kind # "port" \/ SpuriousListen
        /\ Goto(r, "CloseEvent")
        /\ UNCHANGED <<conn, current, lmData>>
  /\ UNCHANGED <<handles, dest, apiVars, paramVars, workerVars, clientVars>>

(* NtListenPort(lpService->hPort, lm).  The value hPort is whatever that   *)
(* number names now.  The oldest request of the port is one of those       *)
(* queued; the model takes any.                                            *)
Listen(r) ==
  LET object == handles[hPort[r]] IN
  /\ WaitAt(r, "NtListenPort")
  /\ \/ \E c \in Calls :
          /\ object.kind = "port" /\ conn[c] = "pending" /\ dest[c] = object.id
          /\ conn' = [conn EXCEPT ![c] = IF call[c] = "dead" THEN "closed" ELSE "received"]
          /\ current' = [current EXCEPT ![r] = c]
          /\ lmData' = [lmData EXCEPT ![r] = args[c].shape]
          /\ Goto(r, "OpenProcess")
     \/ /\ object.kind # "port" \/ SpuriousListen
        /\ Goto(r, "CloseEvent")
        /\ UNCHANGED <<conn, current, lmData>>
  /\ UNCHANGED <<handles, dest, apiVars, paramVars, workerVars, clientVars>>

(* The listen failed: leave the loop, and delete lm and the                *)
(* SERVICE_ROUTINE, if CloseEvent is set, and listen again otherwise.      *)
CheckCloseEvent(r) ==
  /\ WaitAt(r, "CloseEvent")
  /\ Goto(r, IF CloseEvent[r] THEN "exited" ELSE "NtListenPort")
  /\ UNCHANGED <<handles, conn, dest, apiVars, current, lmData,
                 paramVars, workerVars, clientVars>>

(* What OpenProcess can open for the process number of c: the client, or   *)
(* a stranger if the client is gone and its number was given out again.    *)
ProcessByNumber(c) == IF call[c] = "dead" THEN Process(None) ELSE Process(c)

(* Mutant: any parameter list is accepted once the client is opened.       *)
OpenWithoutComparing(r) ==
  LET c == current[r] IN
  /\ WaitAt(r, "OpenProcess")
  /\ routine' = [routine EXCEPT ![c] = r]
  /\ \/ \E h \in Candidates(handles) :
          /\ handles' = Opened(handles, h, ProcessByNumber(c))
          /\ hClientProcess' = [hClientProcess EXCEPT ![c] = h]
          /\ Goto(r, "accept")
     \/ Goto(r, "refuse") /\ UNCHANGED <<handles, hClientProcess>>
  /\ UNCHANGED <<conn, dest, apiVars, current, lmData, hServerPort, lpParameters,
                 workerVars, clientVars>>

(* param = new SERVICE_ROUTINE(lpService); OpenProcess can fail; then the  *)
(* parameter list in lm is compared with the registered one.               *)
OpenClientProcess(r) ==
  LET c == current[r] IN
  /\ WaitAt(r, "OpenProcess")
  /\ routine' = [routine EXCEPT ![c] = r]
  /\ \/ \E h \in Candidates(handles) :
          /\ handles' = Opened(handles, h, ProcessByNumber(c))
          /\ hClientProcess' = [hClientProcess EXCEPT ![c] = h]
          /\ Goto(r, IF RtlEqualParameterType(shape[r], lmData[r]) THEN "accept" ELSE "refuse")
     \/ Goto(r, "refuse") /\ UNCHANGED <<handles, hClientProcess>>
  /\ UNCHANGED <<conn, dest, apiVars, current, lmData, hServerPort, lpParameters,
                 workerVars, clientVars>>

(* Mutant: the request is dropped without being refused.                   *)
RefuseSilently(r) ==
  LET c == current[r] IN
  /\ WaitAt(r, "refuse")
  /\ handles' = Closing(handles, {hClientProcess[c]})
  /\ hClientProcess' = [hClientProcess EXCEPT ![c] = None]
  /\ Goto(r, "NtListenPort")
  /\ UNCHANGED <<conn, dest, apiVars, current, lmData, routine, hServerPort, lpParameters,
                 workerVars, clientVars>>

(* NtAcceptConnectPort with AcceptConnection = FALSE.                      *)
Refuse(r) ==
  LET c == current[r] IN
  /\ WaitAt(r, "refuse")
  /\ handles' = Closing(handles, {hClientProcess[c]})
  /\ hClientProcess' = [hClientProcess EXCEPT ![c] = None]
  /\ conn' = [conn EXCEPT ![c] = IF @ = "received" THEN "refused" ELSE @]
  /\ Goto(r, "NtListenPort")
  /\ UNCHANGED <<dest, apiVars, current, lmData, routine, hServerPort, lpParameters,
                 workerVars, clientVars>>

(* NtAcceptConnectPort with AcceptConnection = TRUE.  It opens the server  *)
(* port handle, and fails if the client has gone.                          *)
Accept(r) ==
  LET c == current[r] IN
  /\ WaitAt(r, "accept")
  /\ \/ /\ conn[c] = "received"
        /\ \E h \in Candidates(handles) :
             /\ handles' = Opened(handles, h, Comm(c))
             /\ hServerPort' = [hServerPort EXCEPT ![c] = h]
        /\ conn' = [conn EXCEPT ![c] = "accepted"]
        /\ Goto(r, "complete")
     \/ /\ conn[c] # "received"
        /\ Goto(r, "drop")
        /\ UNCHANGED <<handles, conn, hServerPort>>
  /\ UNCHANGED <<dest, apiVars, current, lmData, routine, hClientProcess, lpParameters,
                 workerVars, clientVars>>

(* NtCompleteConnectPort, which lets the client's NtConnectPort return.    *)
Complete(r) ==
  LET c == current[r] IN
  /\ WaitAt(r, "complete")
  /\ conn' = [conn EXCEPT ![c] = IF @ = "accepted" THEN "connected" ELSE @]
  /\ Goto(r, IF conn[c] = "accepted" THEN "receive" ELSE "drop")
  /\ UNCHANGED <<handles, dest, apiVars, current, lmData, paramVars, workerVars, clientVars>>

(* Mutant: the client's request carries data of its own.                   *)
DataInRequest == 1

(* The data length of the client's request: its message is zeroed and only *)
(* TotalLength is set, so the kernel copies a header and no data.          *)
RequestDataLength == 0

(* NtReplyWaitReceivePort(hServerPort, lm) waits for the request message.  *)
(* The message overwrites the header of lm, and the data area callparam    *)
(* points into as far as the message has data.                             *)
Receive(r) ==
  LET c == current[r] IN
  /\ WaitAt(r, "receive")
  /\ \/ /\ conn[c] = "requested"
        /\ conn' = [conn EXCEPT ![c] = "serving"]
        /\ lmData' = [lmData EXCEPT ![r] = IF RequestDataLength = 0 THEN @ ELSE None]
        /\ Goto(r, "CreateThread")
     \/ /\ conn[c] = "closed"
        /\ Goto(r, "drop")
        /\ UNCHANGED <<conn, lmData>>
  /\ UNCHANGED <<handles, dest, apiVars, current, paramVars, workerVars, clientVars>>

(* Mutant: param is deleted without closing the process handle.            *)
DropParamOpen(r) ==
  LET c == current[r] IN
  /\ WaitAt(r, "drop")
  /\ hClientProcess' = [hClientProcess EXCEPT ![c] = None]
  /\ hServerPort' = [hServerPort EXCEPT ![c] = None]
  /\ Goto(r, "NtListenPort")
  /\ UNCHANGED <<handles, conn, dest, apiVars, current, lmData, routine, lpParameters,
                 workerVars, clientVars>>

(* One of the three kernel calls failed: the process handle is closed and  *)
(* param deleted, with the server port handle in it if there is one.       *)
DropParam(r) ==
  LET c == current[r] IN
  /\ WaitAt(r, "drop")
  /\ handles' = Closing(handles, {hClientProcess[c]})
  /\ hClientProcess' = [hClientProcess EXCEPT ![c] = None]
  /\ hServerPort' = [hServerPort EXCEPT ![c] = None]
  /\ Goto(r, "NtListenPort")
  /\ UNCHANGED <<conn, dest, apiVars, current, lmData, routine, lpParameters,
                 workerVars, clientVars>>

(* Mutant: the wait thread closes the process handle on this path too.     *)
CreateWorkerAndClose(r) ==
  LET c == current[r] IN
  /\ WaitAt(r, "CreateThread")
  /\ lpParameters' = [lpParameters EXCEPT ![c] = RtlCaptureParameters(lmData[r])]
  /\ worker' = [worker EXCEPT ![c] = "start"]
  /\ handles' = Closing(handles, {hClientProcess[c]})
  /\ Goto(r, "NtListenPort")
  /\ UNCHANGED <<conn, dest, apiVars, current, lmData, routine, hClientProcess, hServerPort,
                 reply, client_id_list, ran, clientVars>>

(* Copy lm, capture the parameter list callparam points at, and start the  *)
(* worker.  What CreateThread returns is not looked at: when it fails,     *)
(* param is forgotten with the handles and the memory it holds.            *)
CreateWorker(r) ==
  LET c == current[r] IN
  /\ WaitAt(r, "CreateThread")
  /\ \/ /\ lpParameters' = [lpParameters EXCEPT ![c] = RtlCaptureParameters(lmData[r])]
        /\ worker' = [worker EXCEPT ![c] = "start"]
        /\ UNCHANGED <<hClientProcess, hServerPort>>
     \/ /\ ThreadFailures
        /\ hClientProcess' = [hClientProcess EXCEPT ![c] = None]
        /\ hServerPort' = [hServerPort EXCEPT ![c] = None]
        /\ UNCHANGED <<lpParameters, worker>>
  /\ Goto(r, "NtListenPort")
  /\ UNCHANGED <<handles, conn, dest, apiVars, current, lmData, routine,
                 reply, client_id_list, ran, clientVars>>

WaitThreadStep(r) ==
  \/ Listen(r) \/ CheckCloseEvent(r) \/ OpenClientProcess(r) \/ Refuse(r) \/ Accept(r)
  \/ Complete(r) \/ Receive(r) \/ DropParam(r) \/ CreateWorker(r)
=============================================================================
