---------------------------- MODULE Registration ----------------------------
(***************************************************************************)
(* The API the service process calls: ScRegisterServiceRoutineW and        *)
(* ScUnregisterServiceRoutine.  One thread owns a registration and makes   *)
(* the two calls in turn; other threads run between the steps of each.     *)
(* api[r] ends in the status that the last call returned.                  *)
(***************************************************************************)
EXTENDS ServiceState

(* ScRegisterServiceRoutineW up to NtCreatePort: capture the parameter     *)
(* list, then create the port under the routine's name.                    *)
CreatePort(r, n, s) ==
  /\ api[r] = "new"
  /\ name' = [name EXCEPT ![r] = n]
  /\ shape' = [shape EXCEPT ![r] = s]
  /\ \/ /\ RtlCaptureParameters(s) = None
        /\ api' = [api EXCEPT ![r] = "INVALID_PARAMETER_3"]
        /\ UNCHANGED <<handles, hPort>>
     \/ /\ RtlCaptureParameters(s) # None
        /\ PortNamed(n) # {}
        /\ api' = [api EXCEPT ![r] = "OBJECT_NAME_EXISTS"]
        /\ UNCHANGED <<handles, hPort>>
     \/ /\ RtlCaptureParameters(s) # None
        /\ PortNamed(n) = {}
        /\ \E h \in Candidates(handles) :
             /\ handles' = Opened(handles, h, Port(r))
             /\ hPort' = [hPort EXCEPT ![r] = h]
        /\ api' = [api EXCEPT ![r] = "created"]
  /\ UNCHANGED <<conn, dest, CloseEvent, waitVars, paramVars, workerVars, clientVars>>

(* ... and from CreateThread on: the wait thread starts, or the port is    *)
(* closed again and the memory freed.  The port already takes requests.    *)
StartWaitThread(r) ==
  /\ api[r] = "created"
  /\ \/ /\ api' = [api EXCEPT ![r] = "registered"]
        /\ wait' = [wait EXCEPT ![r] = "NtListenPort"]
        /\ UNCHANGED <<handles, conn>>
     \/ /\ ThreadFailures
        /\ api' = [api EXCEPT ![r] = "NO_MEMORY"]
        /\ CloseHandles({hPort[r]})
        /\ UNCHANGED wait
  /\ UNCHANGED <<dest, name, shape, hPort, CloseEvent, current, lmData,
                 paramVars, workerVars, clientVars>>

(* Mutant: CloseEvent is never set.                                        *)
SetNothing(r) ==
  /\ api[r] = "registered"
  /\ api' = [api EXCEPT ![r] = "closing"]
  /\ UNCHANGED <<handles, conn, dest, name, shape, hPort, CloseEvent,
                 waitVars, paramVars, workerVars, clientVars>>

(* ScUnregisterServiceRoutine: CloseEvent is set first ...                 *)
SetCloseEvent(r) ==
  /\ api[r] = "registered"
  /\ api' = [api EXCEPT ![r] = "closing"]
  /\ CloseEvent' = [CloseEvent EXCEPT ![r] = TRUE]
  /\ UNCHANGED <<handles, conn, dest, name, shape, hPort,
                 waitVars, paramVars, workerVars, clientVars>>

(* The values a read of lpService->hPort can give.  When the wait thread   *)
(* has deleted the SERVICE_ROUTINE, its memory can be untouched, hold the  *)
(* heap's data, or belong to another SERVICE_ROUTINE.                      *)
PortRead(r) == IF wait[r] = "exited" THEN {hPort[q] : q \in Regs} \cup {None}
                                     ELSE {hPort[r]}

(* Mutant: the port is left open.                                          *)
ClosePortKeeping(r) ==
  /\ api[r] = "closing"
  /\ api' = [api EXCEPT ![r] = "unregistered"]
  /\ UNCHANGED <<handles, conn, dest, name, shape, hPort, CloseEvent,
                 waitVars, paramVars, workerVars, clientVars>>

(* ... and then lpService->hPort is read and closed.                       *)
ClosePort(r) ==
  /\ api[r] = "closing"
  /\ \E h \in PortRead(r) :
       /\ api' = [api EXCEPT ![r] = IF IsOpen(handles, h) THEN "unregistered"
                                                          ELSE "INVALID_PARAMETER"]
       /\ CloseHandles({h})
  /\ UNCHANGED <<dest, name, shape, hPort, CloseEvent,
                 waitVars, paramVars, workerVars, clientVars>>
=============================================================================
