---------------------------- MODULE ServiceCall ----------------------------
(***************************************************************************)
(* The whole system: registrations, wait threads, workers and clients      *)
(* interleaved step by step, and the properties that make it correct.      *)
(***************************************************************************)
EXTENDS Registration, WaitThread, WorkerThread, ClientCall

(* A service process after ScInitializeService, and clients outside.       *)
Init ==
  /\ handles = [h \in Handles |-> Unused]
  /\ conn = [c \in Calls |-> "none"] /\ dest = [c \in Calls |-> None]
  /\ api = [r \in Regs |-> "new"]
  /\ name = [r \in Regs |-> None] /\ shape = [r \in Regs |-> None]
  /\ hPort = [r \in Regs |-> None] /\ CloseEvent = [r \in Regs |-> FALSE]
  /\ wait = [r \in Regs |-> "none"] /\ current = [r \in Regs |-> None]
  /\ lmData = [r \in Regs |-> None]
  /\ routine = [c \in Calls |-> None] /\ lpParameters = [c \in Calls |-> None]
  /\ hClientProcess = [c \in Calls |-> None] /\ hServerPort = [c \in Calls |-> None]
  /\ worker = [c \in Calls |-> "none"] /\ reply = [c \in Calls |-> None]
  /\ client_id_list = {} /\ ran = [c \in Calls |-> None]
  /\ call = [c \in Calls |-> "idle"]
  /\ args = [c \in Calls |-> [name |-> None, shape |-> None]]
  /\ result = [c \in Calls |-> None] /\ serviceStatus = [c \in Calls |-> None]

(* Every registration is closed and every call over: nothing more happens. *)
Finished ==
  /\ \A r \in Regs : \/ api[r] \in {"INVALID_PARAMETER_3", "OBJECT_NAME_EXISTS", "NO_MEMORY"}
                     \/ api[r] \in {"unregistered", "INVALID_PARAMETER"} /\ wait[r] = "exited"
  /\ \A c \in Calls : ~ InCall(c) /\ call[c] # "idle" /\ worker[c] \in {"none", "exited"}
  /\ UNCHANGED vars

Next ==
  \/ \E r \in Regs, n \in Names, s \in Shapes : CreatePort(r, n, s)
  \/ \E r \in Regs : StartWaitThread(r) \/ SetCloseEvent(r) \/ ClosePort(r)
  \/ \E r \in Regs : WaitThreadStep(r)
  \/ \E c \in Calls : WorkerStep(c)
  \/ \E c \in Calls, n \in Names, s \in Shapes, nullArg \in BOOLEAN : BeginCall(c, n, s, nullArg)
  \/ \E c \in Calls : ClientStep(c) \/ Die(c)
  \/ Finished

Spec == Init /\ [][Next]_vars

(***************************************************************************)
(* Every thread that can run does, the API calls return, and routines      *)
(* return.  Nobody has to register, unregister, call or die.               *)
(***************************************************************************)
Fairness ==
  /\ \A r \in Regs : WF_vars(StartWaitThread(r)) /\ WF_vars(ClosePort(r))
                     /\ WF_vars(WaitThreadStep(r))
  /\ \A c \in Calls : WF_vars(WorkerStep(c)) /\ WF_vars(ClientStep(c))

FairSpec == Spec /\ Fairness

-----------------------------------------------------------------------------
(***************************************************************************)
(* Safety.                                                                 *)
(***************************************************************************)

(* What a worker runs with is the parameter list that was compared with    *)
(* the registered one and that the client passed, although the buffer it   *)
(* points into receives another message between comparison and capture.    *)
CapturedAsChecked ==
  \A c \in Calls : worker[c] # "none" =>
    /\ lpParameters[c] = shape[routine[c]]
    /\ lpParameters[c] = args[c].shape

(* The handles a SERVICE_ROUTINE copy holds are open and are those of its  *)
(* own call; no two copies share one.  Closing them can hit nothing else.  *)
HeldHandlesValid ==
  /\ \A c \in Calls : hClientProcess[c] # None =>
       /\ handles[hClientProcess[c]] \in {Process(c), Process(None)}
       /\ \A d \in Calls \ {c} : hClientProcess[d] # hClientProcess[c]
  /\ \A c \in Calls : hServerPort[c] # None => handles[hServerPort[c]] = Comm(c)

(* Open handles are accounted for: a process handle is held by a copy, a   *)
(* port by a registration that is not closed, and a server port by the     *)
(* copy of its call, unless the client died before its request was served. *)
HandlesAccounted ==
  \A h \in Handles :
    /\ handles[h].kind = "process" => \E c \in Calls : hClientProcess[c] = h
    /\ handles[h].kind = "port" =>
         /\ hPort[handles[h].id] = h
         /\ api[handles[h].id] \in {"created", "registered", "closing"}
    /\ handles[h].kind = "comm" =>
         LET c == handles[h].id IN
         hServerPort[c] = h \/ (call[c] = "dead" /\ worker[c] = "none")

(* From entering the list to leaving it, RtlClientId in the worker's       *)
(* thread finds exactly one handle, and it is an open handle of the very   *)
(* process that made the call; no other thread finds anything.             *)
ClientIdsExact ==
  \A c \in Calls :
    IF worker[c] \in {"none", "start", "close", "exited"}
    THEN RtlClientId(ThreadId(c)) = {}
    ELSE /\ RtlClientId(ThreadId(c)) = {hClientProcess[c]}
         /\ hClientProcess[c] # None /\ handles[hClientProcess[c]] = Process(c)

(* The wait thread deletes the SERVICE_ROUTINE only when                   *)
(* ScUnregisterServiceRoutine has read it for the last time.               *)
NoUseAfterFree == \A r \in Regs : wait[r] = "exited" => api[r] = "unregistered"

(* From NtCreatePort until ScUnregisterServiceRoutine closes it, a         *)
(* registration holds its own open port: no other thread's NtClose hits it.*)
PortsHeld ==
  \A r \in Regs : api[r] \in {"created", "registered", "closing"} =>
    hPort[r] \in Handles /\ handles[hPort[r]] = Port(r)

(* Between two listens a wait thread serves a call.                        *)
Serving(r) == wait[r] \notin {"none", "NtListenPort", "CloseEvent", "exited"}
ServesCall == \A r \in Regs : Serving(r) => current[r] \in Calls

(* A wait thread runs only for a registration that succeeded, and a listen *)
(* fails only when the port is closed.                                     *)
ListensWhileOpen ==
  \A r \in Regs :
    /\ wait[r] # "none" => api[r] \in {"registered", "closing", "unregistered"}
    /\ wait[r] \in {"CloseEvent", "exited"} => api[r] = "unregistered"

(* What the steps preserve together: a handle that one thread closes is    *)
(* not one that another holds, so a port stays open, so listening on it    *)
(* does not fail, so the SERVICE_ROUTINE is not freed too early.           *)
IInv == TypeOK /\ ServesCall /\ HeldHandlesValid /\ PortsHeld /\ ListensWhileOpen

(* The number in hPort names a port or nothing, whosever it is, which holds*)
(* when closed values are not given out again.                             *)
PortNumbers ==
  \A r \in Regs : hPort[r] # None => handles[hPort[r]].kind \in {"port", "closed"}

(* What the steps preserve in its place when NtListenPort fails at will.   *)
(* The SERVICE_ROUTINE may then be freed while ScUnregisterServiceRoutine  *)
(* reads it, but what is read there and closed is nobody's but a port.     *)
HeldInv == TypeOK /\ ServesCall /\ HeldHandlesValid /\ PortNumbers

(* What the API calls are about to close is a port or nothing.             *)
ClosesPorts ==
  \A r \in Regs : api[r] \in {"created", "closing"} =>
    \A h \in PortRead(r) \cup {hPort[r]} : IsOpen(handles, h) => handles[h].kind = "port"

(* A call is taken by one wait thread, once, and then by one worker.       *)
ServedOnce ==
  /\ \A r \in Regs : Serving(r) =>
       conn[current[r]] \notin {"none", "pending"} /\ worker[current[r]] = "none"
  /\ \A r, q \in Regs : Serving(r) /\ Serving(q) /\ current[r] = current[q] => r = q

(* While it serves a call, the data area of lm holds the call's parameters,*)
(* which are the registered ones from the comparison on.                   *)
BufferChecked ==
  \A r \in Regs :
    /\ Serving(r) => lmData[r] = args[current[r]].shape
    /\ wait[r] \in {"accept", "complete", "receive", "CreateThread"} =>
         lmData[r] = shape[r] /\ routine[current[r]] = r

(* A registration that got a port has a valid parameter list, for good.    *)
ShapesFixed ==
  \A r \in Regs :
    /\ api[r] \notin {"new", "INVALID_PARAMETER_3", "OBJECT_NAME_EXISTS"} => shape[r] \in ValidShapes
    /\ wait[r] # "none" => api[r] \in {"registered", "closing", "unregistered", "INVALID_PARAMETER"}

(* A connection is made after the arguments of its call are settled.       *)
ConnectedOnce == \A c \in Calls : call[c] \in {"idle", "NtConnectPort"} => conn[c] = "none"

(* A worker serves a call that was taken, with its checked parameters.     *)
WorkerChecked ==
  \A c \in Calls : worker[c] # "none" =>
    /\ conn[c] \notin {"none", "pending"}
    /\ routine[c] \in Regs /\ api[routine[c]] # "new"
    /\ lpParameters[c] = shape[routine[c]] /\ lpParameters[c] = args[c].shape

(* What the steps preserve together, so that a parameter list stays the    *)
(* checked one on its way from the client through lm to the worker.        *)
CallInv == ServedOnce /\ BufferChecked /\ ShapesFixed /\ ConnectedOnce /\ WorkerChecked

(* A client that has died has no connection that can still be served.      *)
DeadClosed == \A c \in Calls : call[c] = "dead" => conn[c] \in {"none", "pending", "closed"}

(* The SERVICE_ROUTINE copy of a call has its client's process open ...    *)
Owns(c) == hClientProcess[c] # None /\ handles[hClientProcess[c]] = Process(c)

(* ... once the connection is accepted, which fails for a stranger's, and  *)
(* until the worker has closed it.                                         *)
WaitOwns ==
  \A r \in Regs :
    \/ wait[r] \in {"complete", "receive", "CreateThread"}
    \/ wait[r] = "accept" /\ conn[current[r]] = "received"
    => Owns(current[r])
WorkerOwns == \A c \in Calls : worker[c] \notin {"none", "exited"} => Owns(c)

(* A worker is in the list, once and with its handle, between its two      *)
(* accesses to it.                                                         *)
Listed(c) == worker[c] \notin {"none", "start", "close", "exited"}
EntriesExact ==
  /\ \A p \in client_id_list : Listed(p[2]) /\ p = <<hClientProcess[p[2]], p[2]>>
  /\ \A c \in Calls : Listed(c) => <<hClientProcess[c], c>> \in client_id_list

(* What the steps preserve together with IInv and CallInv, so that         *)
(* RtlClientId finds the caller's process.                                 *)
IdInv == DeadClosed /\ WaitOwns /\ WorkerOwns /\ EntriesExact

(* How far client and connection are together.                             *)
CallOrder ==
  \A c \in Calls :
    /\ conn[c] = "pending" => call[c] \in {"connecting", "dead"}
    /\ conn[c] \in {"received", "accepted"} => call[c] = "connecting"
    /\ conn[c] = "connected" => call[c] \in {"connecting", "request"}
    /\ conn[c] = "requested" => call[c] = "waiting"

(* While it is taken, a connection ends only with its client.              *)
TakenAlive ==
  \A r \in Regs :
    /\ wait[r] = "complete" => conn[current[r]] = "accepted" \/ call[current[r]] = "dead"
    /\ wait[r] = "receive" => conn[current[r]] \in {"connected", "requested"} \/ call[current[r]] = "dead"
    /\ wait[r] = "drop" /\ hServerPort[current[r]] # None => call[current[r]] = "dead"

(* The handles of a call are opened once, in turn.                         *)
HeldInTurn ==
  /\ \A c \in Calls : conn[c] \in {"none", "pending"} => hClientProcess[c] = None /\ hServerPort[c] = None
  /\ \A r \in Regs :
       /\ wait[r] = "OpenProcess" => hClientProcess[current[r]] = None
       /\ wait[r] \in {"OpenProcess", "refuse", "accept"} => hServerPort[current[r]] = None

(* A server port that no copy holds is that of a dead client who was given *)
(* up, and is not served again.                                            *)
ServerPortsHeld ==
  \A c \in Calls, h \in Handles : handles[h] = Comm(c) =>
    \/ hServerPort[c] = h
    \/ /\ call[c] = "dead" /\ worker[c] = "none" /\ conn[c] = "closed"
       /\ \A r \in Regs : Serving(r) => current[r] # c

(* A process handle is held by the copy of a call, and a port is that of a *)
(* registration that is not closed.                                        *)
ProcessesHeld ==
  \A h \in Handles : handles[h].kind = "process" => \E c \in Calls : hClientProcess[c] = h
PortsRegistered ==
  \A r \in Regs, h \in Handles : handles[h] = Port(r) =>
    hPort[r] = h /\ api[r] \in {"created", "registered", "closing"}

(* What the steps preserve together with the other three, where threads    *)
(* can be created, so that open handles are accounted for.                 *)
AccountInv ==
  CallOrder /\ TakenAlive /\ HeldInTurn /\ ServerPortsHeld /\ ProcessesHeld /\ PortsRegistered

(* How far client, connection and worker of a call are together, as long   *)
(* as the client lives.                                                    *)
InStep ==
  /\ \A c \in Calls :
       /\ call[c] \in {"idle", "NtConnectPort"} => conn[c] = "none" /\ worker[c] = "none"
       /\ call[c] = "connecting" =>
            /\ conn[c] \in {"pending", "received", "refused", "accepted", "connected", "closed"}
            /\ worker[c] = "none"
       /\ call[c] = "request" => conn[c] = "connected" /\ worker[c] = "none"
       /\ call[c] = "waiting" =>
            \/ conn[c] = "requested" /\ worker[c] = "none"
            \/ conn[c] = "serving"
               /\ worker[c] \in {"none", "start", "map", "run", "running", "sync", "reply"}
            \/ conn[c] = "replied" /\ worker[c] = "waitReply"
       /\ call[c] = "NtReplyPort" => conn[c] = "replied" /\ worker[c] = "waitReply"
       /\ call[c] = "NtClose" =>
            conn[c] \in {"acked", "closed"} /\ worker[c] \in {"waitReply", "erase", "close", "exited"}
       /\ call[c] = "returned" =>
            /\ conn[c] \in {"none", "refused", "closed"}
            /\ worker[c] \in {"none", "waitReply", "erase", "close", "exited"}
  /\ \A r \in Regs : wait[r] = "CreateThread" => conn[current[r]] = "serving" \/ call[current[r]] = "dead"

(* A port that was created can be closed by its owner, and where closed    *)
(* values are not given out again, its number names that port only.        *)
PortsOwn ==
  \A r \in Regs :
    /\ hPort[r] = None <=> api[r] \in {"new", "INVALID_PARAMETER_3", "OBJECT_NAME_EXISTS"}
    /\ api[r] # "INVALID_PARAMETER"
    /\ ~ Recycle /\ hPort[r] # None => handles[hPort[r]] \in {Port(r), Closed}

(* A registration serves the calls that asked for its name, until it is    *)
(* unregistered and its wait thread listens to a number given out again.   *)
RightName(r, c) ==
  name[r] = args[c].name \/ (Recycle /\ api[r] = "unregistered")

(* A call is queued at the registration whose name it asked for, and taken *)
(* and run by one that serves it; it fails in the queue when the one where *)
(* it waits is closed.                                                     *)
RoutedByName ==
  /\ \A c \in Calls :
       /\ conn[c] = "pending" \/ (conn[c] = "closed" /\ call[c] = "connecting") =>
            dest[c] \in Regs /\ hPort[dest[c]] # None /\ name[dest[c]] = args[c].name
       /\ conn[c] = "closed" /\ call[c] = "connecting" => api[dest[c]] \in {"unregistered", "NO_MEMORY"}
       /\ worker[c] # "none" => hPort[routine[c]] # None /\ RightName(routine[c], c)
  /\ \A r \in Regs : Serving(r) => hPort[r] # None /\ RightName(r, current[r])

(* The reply tells what ran, and the client what the reply told.           *)
ReplyTells(c) ==
  IF ran[c] = None THEN reply[c] = "STATUS_INVALID_PARAMETER"
                   ELSE reply[c] \in {ran[c], "STATUS_ACCESS_DENIED"}
AnswersTell ==
  \A c \in Calls :
    /\ worker[c] \in {"none", "start", "map", "run"} => ran[c] = None
    /\ worker[c] \in {"running", "sync"} => ran[c] = routine[c]
    /\ worker[c] = "sync" => reply[c] = routine[c]
    /\ worker[c] \in {"reply", "waitReply", "erase", "close", "exited"} =>
         ReplyTells(c) /\ ran[c] \in {None, routine[c]}
    /\ call[c] \in {"idle", "NtConnectPort", "connecting", "request", "waiting"} =>
         result[c] = None /\ serviceStatus[c] = None
    /\ call[c] \in {"NtReplyPort", "NtClose"} =>
         result[c] = "STATUS_SUCCESS" /\ serviceStatus[c] = reply[c]

(* What the steps preserve together with IInv and CallInv, so that every   *)
(* step is one of the contract.                                            *)
ContractInv == InStep /\ PortsOwn /\ PortsRegistered /\ RoutedByName /\ AnswersTell

(* A call that is queued, taken, served or answered has a thread with a    *)
(* step left to take for it: the port where it is queued is listened to,   *)
(* a taken call has the wait thread that took it, a served one its worker, *)
(* an answered one its worker and its client.  Only where threads cannot   *)
(* be created is a call forgotten while it waits for its answer.           *)
ListenedTo(r) == api[r] = "created" \/ wait[r] \notin {"none", "exited"}
TakenAt(c, places) == \E r \in Regs : current[r] = c /\ wait[r] \in places
Attended(c) ==
  /\ conn[c] = "pending" => dest[c] \in Regs /\ PortIsOpen(dest[c])
  /\ conn[c] = "received" => TakenAt(c, {"OpenProcess", "refuse", "accept"})
  /\ conn[c] = "accepted" => TakenAt(c, {"complete"})
  /\ conn[c] \in {"connected", "requested"} => TakenAt(c, {"receive"})
  /\ conn[c] = "serving" =>
       \/ worker[c] \in {"start", "map", "run", "running", "sync", "reply"}
       \/ TakenAt(c, {"CreateThread"}) \/ ThreadFailures
  /\ conn[c] = "replied" => worker[c] = "waitReply" /\ call[c] \in {"waiting", "NtReplyPort"}
  /\ worker[c] = "waitReply" => conn[c] \in {"replied", "acked", "closed"}
NoneForgotten ==
  /\ \A r \in Regs : PortIsOpen(r) => ListenedTo(r)
  /\ \A c \in Calls : Attended(c)

(* The routine that runs for a call was registered under its service name. *)
OnlyNamedServiceRuns ==
  \A c \in Calls : ran[c] # None => name[ran[c]] = args[c].name

(* A wait thread takes no call after ScUnregisterServiceRoutine succeeded, *)
(* though it listens once more: what its routine still runs for then, it   *)
(* had taken before.                                                       *)
NoneTakenLate ==
  [][\A r \in Regs :
       wait[r] = "NtListenPort" /\ wait'[r] = "OpenProcess" => api[r] # "unregistered"]_vars

(***************************************************************************)
(* Refinement.  A service is open while its port is, from NtCreatePort on; *)
(* a call returns when ScServiceCallW does.  A closed service serves calls *)
(* to another name when its port's number is given out again, to a port,   *)
(* before its wait thread listens for the last time.                       *)
(***************************************************************************)
Contract == INSTANCE ServiceContract WITH
  service <- [r \in Regs |-> CASE api[r] \in {"created", "registered", "closing"} -> "open"
                               [] api[r] \in {"unregistered", "NO_MEMORY"} -> "closed"
                               [] OTHER -> "none"],
  offer <- [r \in Regs |-> IF hPort[r] = None THEN [name |-> None, shape |-> None]
                                             ELSE [name |-> name[r], shape |-> shape[r]]],
  client <- [c \in Calls |-> IF InCall(c) THEN "calling" ELSE call[c]],
  asked <- args, StaleRuns <- Recycle,
  result <- [c \in Calls |-> IF call[c] = "returned" THEN result[c] ELSE None],
  serviceStatus <- [c \in Calls |-> IF call[c] = "returned" THEN serviceStatus[c] ELSE None]

(* Every behaviour of the threads, ports and handles is one the contract   *)
(* allows: at most one run per call, none after it returned, only of a     *)
(* routine that serves it, and a result that tells what happened.          *)
ImplementsContract == Contract!Spec

(***************************************************************************)
(* Liveness.                                                               *)
(***************************************************************************)

(* ScServiceCallW returns, unless its process dies.                        *)
CallReturns == \A c \in Calls : call[c] = "NtConnectPort" ~> ~ InCall(c)

(* The client's process handle is closed after the routine has returned.   *)
ClientHandleInvalidated == \A c \in Calls : worker[c] = "sync" ~> hClientProcess[c] = None

(* The number in hPort names a port of another registration: r's own was   *)
(* closed, and the kernel gave the value out again.                        *)
PortOfAnother(r) ==
  hPort[r] # None /\ \E q \in Regs \ {r} : handles[hPort[r]] = Port(q)

(* The wait thread of an unregistered service leaves its loop, unless its  *)
(* closed port's number is another service's port again and again, or for  *)
(* good: then NtListenPort need never fail (stale_port shows how).         *)
WaitThreadExits ==
  \A r \in Regs : api[r] = "unregistered" ~> wait[r] = "exited" \/ PortOfAnother(r)

(***************************************************************************)
(* What the documentation says of the program and the code does not do.    *)
(***************************************************************************)

(* "The service routine will stop immediately" when it is unregistered: no *)
(* routine is entered after ScUnregisterServiceRoutine succeeded.          *)
NoRunAfterUnregister ==
  [][\A c \in Calls, r \in Regs :
       ran[c] = None /\ ran'[c] = r => api[r] # "unregistered"]_vars
=============================================================================
