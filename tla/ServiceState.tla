---------------------------- MODULE ServiceState ----------------------------
(***************************************************************************)
(* The state shared by the threads of one service process, its clients and *)
(* the LPC ports between them.  The actions are in Registration (the API   *)
(* the service calls), WaitThread and WorkerThread (the library's threads  *)
(* in the service process) and ClientCall (ScServiceCallW in the client);  *)
(* ServiceCall composes them.                                              *)
(*                                                                         *)
(* A registration is one call of ScRegisterServiceRoutineW, with the       *)
(* SERVICE_ROUTINE it creates and the wait thread that serves it.  A call  *)
(* is one ScServiceCallW in a client process of its own, with the LPC      *)
(* connection it makes, the SERVICE_ROUTINE copy (`param' in the code) the *)
(* service makes for it, and the worker thread that runs it.               *)
(***************************************************************************)
EXTENDS HandleTable

CONSTANTS
  Regs,            (* the registrations (a bound)                          *)
  Calls,           (* the client calls (a bound)                           *)
  Names,           (* service routine names                                *)
  Shapes,          (* parameter lists, up to what their masks say          *)
  ValidShapes,     (* those whose masks RtlCaptureParameters accepts       *)
  SpuriousListen,  (* whether NtListenPort can fail on an open port        *)
  ThreadFailures   (* whether CreateThread can fail                        *)

ASSUME ServiceAssumption ==
  /\ None \notin Regs \cup Calls \cup Names \cup Shapes
  /\ ValidShapes \subseteq Shapes
  /\ {SpuriousListen, ThreadFailures} \subseteq BOOLEAN
  /\ Regs \cap {"STATUS_INVALID_PARAMETER", "STATUS_ACCESS_DENIED"} = {}

VARIABLES
  handles,        (* the handle table of the service process               *)
  conn,           (* state of each call's LPC connection                   *)
  dest,           (* the registration whose port each call connected to    *)
  api,            (* progress of each registration through the API calls   *)
  name, shape,    (* the name and parameter list each was registered with  *)
  hPort,          (* SERVICE_ROUTINE.hPort                                 *)
  CloseEvent,     (* SERVICE_ROUTINE.CloseEvent                            *)
  wait,           (* where each wait thread is in its loop                 *)
  current,        (* the call whose message is in the wait thread's lm     *)
  lmData,         (* the parameter list in the data area of lm             *)
  routine,        (* param->lpRoutine: the registration it was copied from *)
  hClientProcess, (* param->hClientProcess                                 *)
  hServerPort,    (* param->hServerPort                                    *)
  lpParameters,   (* param->lpParameters, captured for the worker          *)
  worker,         (* where each worker thread is                           *)
  reply,          (* the NTSTATUS in the worker's message                  *)
  client_id_list, (* the pairs (client process handle, thread id)          *)
  ran,            (* history: the routine that was run for each call       *)
  call,           (* where each client is in ScServiceCallW                *)
  args,           (* the name and parameter list the client passed         *)
  result,         (* what ScServiceCallW returns                           *)
  serviceStatus   (* what it stores in *lpServiceStatus                    *)

apiVars    == <<api, name, shape, hPort, CloseEvent>>
waitVars   == <<wait, current, lmData>>
paramVars  == <<routine, hClientProcess, hServerPort, lpParameters>>
workerVars == <<worker, reply, client_id_list, ran>>
clientVars == <<call, args, result, serviceStatus>>
vars == <<handles, conn, dest, apiVars, waitVars, paramVars, workerVars, clientVars>>

(* The thread id of a worker is the call it serves: one worker per call.   *)
ThreadId(c) == c

RtlCaptureParameters(s) == IF s \in ValidShapes THEN s ELSE None
(* Mutant: only the lengths of the lists are compared.                     *)
EqualLengthsOnly(s, t) == (s = None) = (t = None)

RtlEqualParameterType(s, t) == s = t

(* A name is in use while a port of that name is open.                     *)
PortIsOpen(r)    == \E h \in Handles : handles[h] = Port(r)

(* Mutant: names are cut off before they differ.                           *)
PortNamedAlike(n) == {r \in Regs : PortIsOpen(r)}

PortNamed(n)     == {r \in Regs : name[r] = n /\ PortIsOpen(r)}

(* A client that is inside ScServiceCallW.                                 *)
ClientStates == {"idle", "NtConnectPort", "connecting", "request", "waiting",
                 "NtReplyPort", "NtClose", "returned", "dead"}
InCall(c) == call[c] \notin {"idle", "returned", "dead"}

(* Closing the handles hs also ends what hangs on the objects they name:   *)
(* a connection request still queued at a connection port fails, and so    *)
(* does the connection of a server communication port.                     *)
CloseHandles(hs) ==
  /\ handles' = Closing(handles, hs)
  /\ conn' = [c \in Calls |->
       IF \/ conn[c] = "pending" /\ \E h \in hs : IsOpen(handles, h) /\ handles[h] = Port(dest[c])
          \/ conn[c] # "none" /\ \E h \in hs : IsOpen(handles, h) /\ handles[h] = Comm(c)
       THEN "closed" ELSE conn[c]]

-----------------------------------------------------------------------------

ObjectType == {Unused, Closed} \cup {Port(r) : r \in Regs}
              \cup {Process(c) : c \in Calls \cup {None}} \cup {Comm(c) : c \in Calls}
ConnStates == {"none", "pending", "received", "refused", "accepted", "connected",
               "requested", "serving", "replied", "acked", "closed"}
ApiStates == {"new", "INVALID_PARAMETER_3", "OBJECT_NAME_EXISTS", "NO_MEMORY",
              "created", "registered", "closing", "unregistered", "INVALID_PARAMETER"}
WaitStates == {"none", "NtListenPort", "CloseEvent", "OpenProcess", "refuse", "accept",
               "complete", "receive", "drop", "CreateThread", "exited"}
WorkerStates == {"none", "start", "map", "run", "running", "sync", "reply",
                 "waitReply", "erase", "close", "exited"}
ReplyValues == Regs \cup {None, "STATUS_INVALID_PARAMETER", "STATUS_ACCESS_DENIED"}
ResultValues == {None, "STATUS_SUCCESS", "STATUS_INVALID_PARAMETER_1",
                 "STATUS_INVALID_PARAMETER_2", "STATUS_UNSUCCESSFUL"}

TypeOK ==
  /\ handles \in [Handles -> ObjectType]
  /\ conn \in [Calls -> ConnStates] /\ dest \in [Calls -> Regs \cup {None}]
  /\ api \in [Regs -> ApiStates]
  /\ name \in [Regs -> Names \cup {None}] /\ shape \in [Regs -> Shapes \cup {None}]
  /\ hPort \in [Regs -> Handles \cup {None}] /\ CloseEvent \in [Regs -> BOOLEAN]
  /\ wait \in [Regs -> WaitStates] /\ current \in [Regs -> Calls \cup {None}]
  /\ lmData \in [Regs -> Shapes \cup {None}]
  /\ routine \in [Calls -> Regs \cup {None}]
  /\ hClientProcess \in [Calls -> Handles \cup {None}]
  /\ hServerPort \in [Calls -> Handles \cup {None}]
  /\ lpParameters \in [Calls -> Shapes \cup {None}]
  /\ worker \in [Calls -> WorkerStates] /\ reply \in [Calls -> ReplyValues]
  /\ client_id_list \subseteq (Handles \cup {None}) \X Calls
  /\ ran \in [Calls -> Regs \cup {None}]
  /\ call \in [Calls -> ClientStates]
  /\ args \in [Calls -> [name : Names \cup {None}, shape : Shapes \cup {None}]]
  /\ result \in [Calls -> ResultValues] /\ serviceStatus \in [Calls -> ReplyValues]
=============================================================================
