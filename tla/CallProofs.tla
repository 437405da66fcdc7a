----------------------------- MODULE CallProofs -----------------------------
(***************************************************************************)
(* The parameter list a worker runs with is the one that was compared with *)
(* the registered list, for every number of registrations and calls and    *)
(* whatever fails.                                                         *)
(***************************************************************************)
EXTENDS ServiceCallProofs

Taken(c) == conn[c] \notin {"none", "pending"}

(* Steps that leave the wait threads, the parameter lists and the set of   *)
(* workers alone, and take no connection back, keep the invariant.         *)
LEMMA CallFrame ==
  ASSUME ServesCall, CallInv,
         UNCHANGED <<api, shape, wait, current, lmData, routine, lpParameters, args>>,
         \A c \in Calls : worker'[c] = "none" <=> worker[c] = "none",
         \A c \in Calls : Taken(c) => Taken(c)',
         ConnectedOnce'
  PROVE  CallInv'
<1> USE DEF CallInv, Taken
<1>1. \A r \in Regs : Serving(r)' <=> Serving(r)
  BY DEF Serving
<1>2. ServedOnce'
  BY <1>1 DEF ServedOnce, ServesCall
<1>3. BufferChecked'
  BY <1>1 DEF BufferChecked
<1>4. ShapesFixed'
  BY DEF ShapesFixed
<1>5. WorkerChecked'
  BY DEF WorkerChecked
<1> QED
  BY <1>2, <1>3, <1>4, <1>5

(* Closing handles takes no connection back and makes none.                *)
LEMMA CloseHandlesTaken ==
  ASSUME TypeOK, NEW hs, CloseHandles(hs)
  PROVE  \A c \in Calls : (Taken(c) => Taken(c)') /\ (conn[c] = "none" => conn'[c] = "none")
<1>1. \A c \in Calls : conn[c] = "none" => conn'[c] = "none"
  BY DEF CloseHandles
<1>2. \A c \in Calls : conn'[c] \in {"closed", conn[c]}
  BY DEF CloseHandles
<1> QED
  BY <1>1, <1>2 DEF Taken

(* The API calls.                                                          *)
LEMMA RegistrationCall ==
  ASSUME TypeOK, ServesCall, CallInv, NEW r \in Regs,
         \/ \E n \in Names, s \in Shapes : CreatePort(r, n, s)
         \/ StartWaitThread(r) \/ SetCloseEvent(r) \/ ClosePort(r)
  PROVE  CallInv'
<1> USE DEF CallInv, waitVars, paramVars, workerVars, clientVars
<1>1. ASSUME NEW n \in Names, NEW s \in Shapes, CreatePort(r, n, s)
      PROVE  CallInv'
  <2>1. wait[r] = "none"
    BY <1>1 DEF CreatePort, ShapesFixed
  <2>2. /\ UNCHANGED <<wait, current, lmData, routine, lpParameters, worker, conn, args, call>>
        /\ api[r] = "new" /\ shape' = [shape EXCEPT ![r] = s]
        /\ \A q \in Regs \ {r} : api'[q] = api[q] /\ shape'[q] = shape[q]
    BY <1>1 DEF CreatePort, TypeOK
  <2>3. /\ api'[r] # "new" /\ shape'[r] = s
        /\ api'[r] \notin {"INVALID_PARAMETER_3", "OBJECT_NAME_EXISTS"} => s \in ValidShapes
    BY <1>1 DEF CreatePort, TypeOK, RtlCaptureParameters
  <2>4. ServedOnce' /\ ConnectedOnce'
    BY <2>2 DEF ServedOnce, ConnectedOnce, Serving
  <2>5. BufferChecked'
    BY <2>1, <2>2 DEF BufferChecked, Serving
  <2>6. ShapesFixed'
    BY <2>1, <2>2, <2>3 DEF ShapesFixed
  <2>7. WorkerChecked'
    BY <2>2, <2>3 DEF WorkerChecked
  <2> QED
    BY <2>4, <2>5, <2>6, <2>7
<1>2. CASE StartWaitThread(r)
  <2>1. /\ UNCHANGED <<current, lmData, routine, lpParameters, worker, args, shape, call>>
        /\ api[r] = "created" /\ api'[r] \in {"registered", "NO_MEMORY"}
        /\ wait'[r] = wait[r] \/ (wait'[r] = "NtListenPort" /\ api'[r] = "registered")
        /\ \A q \in Regs \ {r} : api'[q] = api[q] /\ wait'[q] = wait[q]
    BY <1>2 DEF StartWaitThread, TypeOK
  <2>2. \A c \in Calls : (Taken(c) => Taken(c)') /\ (conn[c] = "none" => conn'[c] = "none")
    BY <1>2, CloseHandlesTaken DEF StartWaitThread, Taken
  <2>3. wait[r] = "none"
    BY <2>1 DEF ShapesFixed
  <2>4. \A q \in Regs : Serving(q)' <=> Serving(q)
    BY <2>1, <2>3 DEF Serving
  <2>5. ServedOnce'
    BY <2>1, <2>2, <2>4 DEF ServedOnce, ServesCall, Taken
  <2>6. BufferChecked'
    BY <2>1, <2>3, <2>4 DEF BufferChecked
  <2>7. ShapesFixed'
    BY <2>1, <2>3 DEF ShapesFixed
  <2>8. ConnectedOnce' /\ WorkerChecked'
    BY <2>1, <2>2 DEF ConnectedOnce, WorkerChecked, Taken
  <2> QED
    BY <2>5, <2>6, <2>7, <2>8
<1>3. CASE SetCloseEvent(r) \/ ClosePort(r)
  <2>1. /\ UNCHANGED <<wait, current, lmData, routine, lpParameters, worker, args, shape, call>>
        /\ api[r] \in {"registered", "closing"}
        /\ api'[r] \in {"closing", "unregistered", "INVALID_PARAMETER"}
        /\ \A q \in Regs \ {r} : api'[q] = api[q]
        /\ api'[r] = "closing" => api[r] = "registered"
    BY <1>3 DEF SetCloseEvent, ClosePort, TypeOK
  <2>2. \A c \in Calls : (Taken(c) => Taken(c)') /\ (conn[c] = "none" => conn'[c] = "none")
    BY <1>3, CloseHandlesTaken DEF SetCloseEvent, ClosePort, Taken
  <2>3. ServedOnce'
    BY <2>1, <2>2 DEF ServedOnce, ServesCall, Serving, Taken
  <2>4. BufferChecked'
    BY <2>1 DEF BufferChecked, Serving
  <2>5. ShapesFixed'
    BY <2>1 DEF ShapesFixed
  <2>6. ConnectedOnce' /\ WorkerChecked'
    BY <2>1, <2>2 DEF ConnectedOnce, WorkerChecked, Taken
  <2> QED
    BY <2>3, <2>4, <2>5, <2>6
<1> QED
  BY <1>1, <1>2, <1>3

(* The wait threads.                                                       *)
LEMMA WaitThreadCall ==
  ASSUME TypeOK, ServesCall, CallInv, NEW r \in Regs, WaitThreadStep(r)
  PROVE  CallInv'
<1> DEFINE c == current[r]
<1> USE DEF CallInv, WaitAt, Goto, apiVars, paramVars, workerVars, clientVars
<1>1. CASE Listen(r)
  <2>1. /\ UNCHANGED <<api, shape, routine, lpParameters, worker, args, call>>
        /\ wait[r] = "NtListenPort"
        /\ \A q \in Regs \ {r} : wait'[q] = wait[q] /\ current'[q] = current[q] /\ lmData'[q] = lmData[q]
    BY <1>1 DEF Listen, TypeOK
  <2>2. CASE wait' = [wait EXCEPT ![r] = "CloseEvent"] /\ UNCHANGED conn
    <3>1. \A q \in Regs : Serving(q)' <=> Serving(q) /\ q # r
      BY <2>1, <2>2 DEF Serving, TypeOK
    <3>2. ServedOnce' /\ BufferChecked'
      BY <2>1, <2>2, <3>1 DEF ServedOnce, BufferChecked, TypeOK
    <3>3. ShapesFixed'
      BY <2>1, <2>2 DEF ShapesFixed, TypeOK
    <3>4. ConnectedOnce' /\ WorkerChecked'
      BY <2>1, <2>2 DEF ConnectedOnce, WorkerChecked
    <3> QED
      BY <3>2, <3>3, <3>4
  <2>3. ASSUME NEW d \in Calls, conn[d] = "pending",
               conn' = [conn EXCEPT ![d] = IF call[d] = "dead" THEN "closed" ELSE "received"],
               current' = [current EXCEPT ![r] = d], lmData' = [lmData EXCEPT ![r] = args[d].shape],
               wait' = [wait EXCEPT ![r] = "OpenProcess"]
        PROVE  CallInv'
    <3>1. /\ wait'[r] = "OpenProcess" /\ current'[r] = d /\ lmData'[r] = args[d].shape
          /\ Taken(d)' /\ ~ Taken(d) /\ \A e \in Calls \ {d} : conn'[e] = conn[e]
      BY <2>3 DEF Taken, TypeOK
    <3>2. \A q \in Regs \ {r} : Serving(q)' = Serving(q) /\ (Serving(q) => current[q] # d)
      BY <2>1, <3>1 DEF Serving, ServedOnce, Taken
    <3>3. worker[d] = "none"
      BY <3>1 DEF WorkerChecked, Taken
    <3>4. ServedOnce'
      <4>1. ASSUME NEW q \in Regs, Serving(q)'
            PROVE  conn'[current'[q]] \notin {"none", "pending"} /\ worker'[current'[q]] = "none"
        BY <2>1, <3>1, <3>2, <3>3, <4>1 DEF ServedOnce, ServesCall, Taken
      <4>2. ASSUME NEW p \in Regs, NEW q \in Regs, Serving(p)', Serving(q)', current'[p] = current'[q]
            PROVE  p = q
        BY <2>1, <3>1, <3>2, <4>2 DEF ServedOnce
      <4> QED
        BY <4>1, <4>2 DEF ServedOnce
    <3>5. BufferChecked'
      BY <2>1, <3>1, <3>2 DEF BufferChecked
    <3>6. ShapesFixed'
      BY <2>1, <3>1 DEF ShapesFixed
    <3>7. ConnectedOnce'
      BY <2>1, <2>3, <3>1 DEF ConnectedOnce
    <3>8. WorkerChecked'
      BY <2>1, <3>1, <3>3 DEF WorkerChecked, Taken
    <3> QED
      BY <3>4, <3>5, <3>6, <3>7, <3>8
  <2> QED
    BY <1>1, <2>2, <2>3 DEF Listen
<1>2. CASE CheckCloseEvent(r)
  <2>1. /\ UNCHANGED <<api, shape, current, lmData, routine, lpParameters, worker, args, conn, call>>
        /\ wait[r] = "CloseEvent" /\ wait'[r] \in {"exited", "NtListenPort"}
        /\ \A q \in Regs \ {r} : wait'[q] = wait[q]
    BY <1>2 DEF CheckCloseEvent, TypeOK
  <2>2. \A q \in Regs : Serving(q)' <=> Serving(q)
    BY <2>1 DEF Serving
  <2>3. ServedOnce' /\ BufferChecked'
    BY <2>1, <2>2 DEF ServedOnce, BufferChecked
  <2>4. ShapesFixed' /\ ConnectedOnce' /\ WorkerChecked'
    BY <2>1 DEF ShapesFixed, ConnectedOnce, WorkerChecked
  <2> QED
    BY <2>3, <2>4
<1>3. CASE OpenClientProcess(r)
  <2>1. /\ UNCHANGED <<api, shape, current, lmData, lpParameters, worker, args, conn, call>>
        /\ wait[r] = "OpenProcess" /\ wait'[r] \in {"accept", "refuse"} /\ c \in Calls
        /\ wait'[r] = "accept" => lmData[r] = shape[r]
        /\ routine'[c] = r /\ \A d \in Calls \ {c} : routine'[d] = routine[d]
        /\ \A q \in Regs \ {r} : wait'[q] = wait[q]
    BY <1>3 DEF OpenClientProcess, TypeOK, ServesCall, Serving, RtlEqualParameterType
  <2>2. \A q \in Regs : Serving(q)' <=> Serving(q)
    BY <2>1 DEF Serving
  <2>3. ServedOnce'
    BY <2>1, <2>2 DEF ServedOnce
  <2>4. BufferChecked'
    <3>1. \A q \in Regs \ {r} : Serving(q) => current[q] \in Calls \ {c}
      BY <2>1 DEF ServedOnce, ServesCall, Serving
    <3> QED
      BY <2>1, <2>2, <3>1 DEF BufferChecked, Serving
  <2>5. worker[c] = "none"
    BY <2>1 DEF ServedOnce, Serving
  <2>6. ShapesFixed' /\ ConnectedOnce' /\ WorkerChecked'
    BY <2>1, <2>5 DEF ShapesFixed, ConnectedOnce, WorkerChecked
  <2> QED
    BY <2>3, <2>4, <2>6
<1>4. CASE Refuse(r) \/ DropParam(r)
  <2>1. /\ UNCHANGED <<api, shape, current, lmData, routine, lpParameters, worker, args, call>>
        /\ wait[r] \in {"refuse", "drop"} /\ wait'[r] = "NtListenPort" /\ c \in Calls
        /\ \A q \in Regs \ {r} : wait'[q] = wait[q]
    BY <1>4 DEF Refuse, DropParam, TypeOK, ServesCall, Serving
  <2>2. \A d \in Calls : (Taken(d) => Taken(d)') /\ (conn[d] = "none" => conn'[d] = "none")
    BY <1>4 DEF Refuse, DropParam, TypeOK, Taken
  <2>3. \A q \in Regs : Serving(q)' => Serving(q)
    BY <2>1 DEF Serving
  <2>4. ServedOnce' /\ BufferChecked'
    BY <2>1, <2>2, <2>3 DEF ServedOnce, BufferChecked, ServesCall, Taken
  <2>5. ShapesFixed' /\ ConnectedOnce' /\ WorkerChecked'
    BY <2>1, <2>2 DEF ShapesFixed, ConnectedOnce, WorkerChecked, Taken
  <2> QED
    BY <2>4, <2>5
<1>5. CASE Accept(r) \/ Complete(r) \/ Receive(r)
  <2>1. /\ UNCHANGED <<api, shape, current, lmData, routine, lpParameters, worker, args, call>>
        /\ wait[r] \in {"accept", "complete", "receive"}
        /\ wait'[r] \in {"complete", "receive", "CreateThread", "drop"} /\ c \in Calls
        /\ \A q \in Regs \ {r} : wait'[q] = wait[q]
    BY <1>5 DEF Accept, Complete, Receive, TypeOK, ServesCall, Serving, RequestDataLength
  <2>2. \A d \in Calls : (Taken(d) => Taken(d)') /\ (conn[d] = "none" => conn'[d] = "none")
    BY <1>5 DEF Accept, Complete, Receive, TypeOK, Taken
  <2>3. \A q \in Regs : Serving(q)' <=> Serving(q)
    BY <2>1 DEF Serving
  <2>4. ServedOnce' /\ BufferChecked'
    BY <2>1, <2>2, <2>3 DEF ServedOnce, BufferChecked, ServesCall, Taken
  <2>5. ShapesFixed' /\ ConnectedOnce' /\ WorkerChecked'
    BY <2>1, <2>2 DEF ShapesFixed, ConnectedOnce, WorkerChecked, Taken
  <2> QED
    BY <2>4, <2>5
<1>6. CASE CreateWorker(r)
  <2>1. /\ UNCHANGED <<api, shape, current, lmData, routine, conn, args, call>>
        /\ wait[r] = "CreateThread" /\ wait'[r] = "NtListenPort" /\ c \in Calls
        /\ \A q \in Regs \ {r} : wait'[q] = wait[q]
        /\ \A d \in Calls \ {c} : worker'[d] = worker[d] /\ lpParameters'[d] = lpParameters[d]
        /\ \/ worker'[c] = "start" /\ lpParameters'[c] = RtlCaptureParameters(lmData[r])
           \/ UNCHANGED <<worker, lpParameters>>
    BY <1>6 DEF CreateWorker, TypeOK, ServesCall, Serving
  <2>2. \A q \in Regs : Serving(q)' <=> Serving(q) /\ q # r
    BY <2>1 DEF Serving
  <2>3. \A q \in Regs \ {r} : Serving(q) => current[q] \in Calls \ {c}
    BY <2>1 DEF ServedOnce, ServesCall, Serving
  <2>4. ServedOnce' /\ BufferChecked'
    BY <2>1, <2>2, <2>3 DEF ServedOnce, BufferChecked
  <2>5. /\ lmData[r] = shape[r] /\ lmData[r] = args[c].shape /\ routine[c] = r
        /\ api[r] # "new" /\ shape[r] \in ValidShapes /\ Taken(c)
    BY <2>1 DEF BufferChecked, ShapesFixed, ServedOnce, Serving, Taken
  <2>6. WorkerChecked'
    BY <2>1, <2>5 DEF WorkerChecked, RtlCaptureParameters, Taken
  <2>7. ShapesFixed' /\ ConnectedOnce'
    BY <2>1 DEF ShapesFixed, ConnectedOnce
  <2> QED
    BY <2>4, <2>6, <2>7
<1> QED
  BY <1>1, <1>2, <1>3, <1>4, <1>5, <1>6 DEF WaitThreadStep

(* The workers.                                                            *)
LEMMA WorkerCall ==
  ASSUME TypeOK, ServesCall, CallInv, NEW c \in Calls, WorkerStep(c)
  PROVE  CallInv'
<1>1. /\ UNCHANGED <<api, shape, wait, current, lmData, routine, lpParameters, args, call>>
      /\ worker[c] # "none" /\ worker'[c] # "none"
      /\ \A d \in Calls \ {c} : worker'[d] = worker[d]
  BY DEF WorkerStep, EnterClientId, MapParameters, EnterRoutine, LeaveRoutine, SyncParameters,
         SendReply, ReplyReturns, EraseClientId, ExitWorker, Moves, TypeOK, apiVars, waitVars,
         paramVars, clientVars
<1>2. \A d \in Calls : (Taken(d) => Taken(d)') /\ (conn[d] = "none" => conn'[d] = "none")
  <2>1. CASE ExitWorker(c)
    BY <2>1, CloseHandlesTaken DEF ExitWorker
  <2>2. CASE SendReply(c)
    BY <2>2 DEF SendReply, TypeOK, Taken
  <2>3. CASE ~ ExitWorker(c) /\ ~ SendReply(c)
    <3>1. UNCHANGED conn
      BY <2>3 DEF WorkerStep, EnterClientId, MapParameters, EnterRoutine, LeaveRoutine,
                  SyncParameters, ReplyReturns, EraseClientId
    <3> QED
      BY <3>1 DEF Taken
  <2> QED
    BY <2>1, <2>2, <2>3
<1>3. ConnectedOnce'
  BY <1>1, <1>2 DEF CallInv, ConnectedOnce
<1>4. \A d \in Calls : worker'[d] = "none" <=> worker[d] = "none"
  BY <1>1
<1> QED
  BY <1>1, <1>2, <1>3, <1>4, CallFrame

(* The clients.  The arguments of a call change only before it connects,   *)
(* when nobody serves it.                                                  *)
LEMMA ClientsCall ==
  ASSUME TypeOK, ServesCall, CallInv, NEW c \in Calls,
         \/ \E n \in Names, s \in Shapes, nullArg \in BOOLEAN : BeginCall(c, n, s, nullArg)
         \/ ClientStep(c) \/ Die(c)
  PROVE  CallInv'
<1> USE DEF ClientAt, Return, apiVars, waitVars, paramVars, workerVars
<1>1. CASE \E n \in Names, s \in Shapes, nullArg \in BOOLEAN : BeginCall(c, n, s, nullArg)
  <2>1. /\ UNCHANGED <<api, shape, wait, current, lmData, routine, lpParameters, worker, conn>>
        /\ call[c] = "idle" /\ \A d \in Calls \ {c} : args'[d] = args[d] /\ call'[d] = call[d]
    BY <1>1 DEF BeginCall, TypeOK
  <2>2. ~ Taken(c) /\ conn[c] = "none"
    BY <2>1 DEF CallInv, ConnectedOnce, Taken
  <2>3. \A r \in Regs : Serving(r)' <=> Serving(r)
    BY <2>1 DEF Serving
  <2>4. \A r \in Regs : Serving(r) => current[r] \in Calls \ {c}
    BY <2>2 DEF CallInv, ServedOnce, ServesCall, Taken
  <2>5. worker[c] = "none"
    BY <2>2 DEF CallInv, WorkerChecked, Taken
  <2>6. ServedOnce' /\ BufferChecked'
    BY <2>1, <2>3, <2>4 DEF CallInv, ServedOnce, BufferChecked
  <2>7. ShapesFixed' /\ WorkerChecked'
    BY <2>1, <2>5 DEF CallInv, ShapesFixed, WorkerChecked
  <2>8. ConnectedOnce'
    BY <2>1, <2>2 DEF CallInv, ConnectedOnce
  <2> QED
    BY <2>6, <2>7, <2>8 DEF CallInv
<1>2. CASE ClientStep(c) \/ Die(c)
  <2>1. /\ UNCHANGED <<api, shape, wait, current, lmData, routine, lpParameters, worker, args>>
        /\ call'[c] \notin {"idle", "NtConnectPort"}
        /\ \A d \in Calls \ {c} : call'[d] = call[d] /\ conn'[d] = conn[d]
    BY <1>2 DEF ClientStep, Connect, ConnectReturns, Request, RequestReturns, Reply,
                CloseAndReturn, Die, TypeOK
  <2>2. Taken(c) => Taken(c)'
    <3>1. CASE Connect(c)
      BY <3>1 DEF Connect, CallInv, ConnectedOnce, Taken
    <3>2. CASE Die(c)
      BY <3>2 DEF Die, TypeOK, Taken
    <3>3. CASE ConnectReturns(c) \/ RequestReturns(c)
      BY <3>3 DEF ConnectReturns, RequestReturns, Taken
    <3>4. CASE Request(c) \/ Reply(c) \/ CloseAndReturn(c)
      BY <3>4 DEF Request, Reply, CloseAndReturn, TypeOK, Taken
    <3> QED
      BY <1>2, <3>1, <3>2, <3>3, <3>4 DEF ClientStep
  <2>3. \A d \in Calls : Taken(d) => Taken(d)'
    BY <2>1, <2>2 DEF Taken
  <2>4. ConnectedOnce'
    BY <2>1 DEF CallInv, ConnectedOnce
  <2>5. \A d \in Calls : worker'[d] = "none" <=> worker[d] = "none"
    BY <2>1
  <2> QED
    BY <2>1, <2>3, <2>4, <2>5, CallFrame
<1> QED
  BY <1>1, <1>2

-----------------------------------------------------------------------------
LEMMA InitCall == Init => CallInv
BY DEF Init, CallInv, ServedOnce, BufferChecked, ShapesFixed, ConnectedOnce, WorkerChecked, Serving

LEMMA NextCall ==
  ASSUME TypeOK, ServesCall, CallInv, [Next]_vars
  PROVE  CallInv'
<1>1. CASE UNCHANGED vars
  <2>1. UNCHANGED <<api, shape, wait, current, lmData, routine, lpParameters, args, worker, conn, call>>
    BY <1>1 DEF vars, apiVars, waitVars, paramVars, workerVars, clientVars
  <2>2. ConnectedOnce' /\ \A c \in Calls : Taken(c) => Taken(c)'
    BY <2>1 DEF CallInv, ConnectedOnce, Taken
  <2> QED
    BY <2>1, <2>2, CallFrame
<1>2. CASE Next /\ ~ Finished
  BY <1>2, RegistrationCall, WaitThreadCall, WorkerCall, ClientsCall DEF Next
<1> QED
  BY <1>1, <1>2 DEF Finished

(* A call is served by one wait thread and then by one worker at most, and *)
(* its checked parameters are in lm while it is: whatever fails.           *)
THEOREM CallInvariance == Spec => []CallInv
<1>1. Init => TypeOK /\ ServesCall /\ CallInv
  BY InitInv, InitCall DEF IInv
<1>2. TypeOK /\ ServesCall /\ CallInv /\ [Next]_vars => TypeOK' /\ ServesCall' /\ CallInv'
  BY NextType, NextServes, NextCall
<1> QED
  BY <1>1, <1>2, PTL DEF Spec

(* A worker runs with the parameter list that was compared with the        *)
(* registered one and that its client passed, though lm is used again for  *)
(* the request between the comparison and the capture.                     *)
THEOREM CapturedStaysChecked == Spec => []CapturedAsChecked
<1>1. CallInv => CapturedAsChecked
  BY DEF CallInv, WorkerChecked, CapturedAsChecked
<1> QED
  BY <1>1, CallInvariance, PTL
=============================================================================
