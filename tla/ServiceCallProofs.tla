------------------------- MODULE ServiceCallProofs -------------------------
(***************************************************************************)
(* Theorems about ServiceCall, for every number of registrations, calls    *)
(* and handle values and every way the kernel gives handle values out,     *)
(* closed ones included.                                                   *)
(***************************************************************************)
EXTENDS ServiceCall, TLAPS

(* The kinds of object differ, and so do the objects of one kind.          *)
LEMMA ObjectsDiffer ==
  /\ \A r : Port(r).kind = "port" /\ Port(r) \notin {Unused, Closed}
  /\ \A c : Process(c) \notin {Unused, Closed} /\ Comm(c) \notin {Unused, Closed}
  /\ \A r, c : Port(r) # Process(c) /\ Port(r) # Comm(c) /\ Process(r) # Comm(c)
  /\ \A r, q : Port(r) = Port(q) => r = q
  /\ \A c, d : Comm(c) = Comm(d) => c = d
BY DEF Port, Process, Comm, Unused, Closed

(* A value the kernel picks names no open object.                          *)
LEMMA CandidatesFree ==
  ASSUME NEW ht, NEW h \in Candidates(ht)
  PROVE  h \in Handles /\ ht[h] \in {Unused, Closed}
<1>1. FreeHandles(ht) \in SUBSET Handles
  BY DEF FreeHandles
<1>2. Alloc(FreeHandles(ht)) \subseteq FreeHandles(ht)
  BY <1>1, HandleAssumption
<1> QED
  BY <1>2 DEF Candidates, FreeHandles

(* Opening changes one free value ...                                      *)
LEMMA OpenedFacts ==
  ASSUME NEW ht \in [Handles -> ObjectType], NEW h \in Candidates(ht), NEW o \in ObjectType
  PROVE  /\ Opened(ht, h, o) \in [Handles -> ObjectType]
         /\ Opened(ht, h, o)[h] = o
         /\ \A g \in Handles : ht[g] \notin {Unused, Closed} =>
              g # h /\ Opened(ht, h, o)[g] = ht[g]
BY CandidatesFree DEF Opened

(* ... and closing changes only the values that are closed.                *)
LEMMA ClosingFacts ==
  ASSUME NEW ht \in [Handles -> ObjectType], NEW hs
  PROVE  /\ Closing(ht, hs) \in [Handles -> ObjectType]
         /\ \A g \in Handles \ hs : Closing(ht, hs)[g] = ht[g]
BY DEF Closing, ObjectType

(* Closing handles keeps the two kernel tables well typed.                 *)
LEMMA CloseHandlesType ==
  ASSUME TypeOK, NEW hs, CloseHandles(hs)
  PROVE  /\ handles' \in [Handles -> ObjectType]
         /\ conn' \in [Calls -> ConnStates]
         /\ \A g \in Handles \ hs : handles'[g] = handles[g]
BY ClosingFacts DEF CloseHandles, TypeOK, ConnStates

-----------------------------------------------------------------------------
(* The steps of the API keep the types ...                                 *)
LEMMA RegistrationType ==
  ASSUME TypeOK, NEW r \in Regs,
         \/ \E n \in Names, s \in Shapes : CreatePort(r, n, s)
         \/ StartWaitThread(r) \/ SetCloseEvent(r) \/ ClosePort(r)
  PROVE  TypeOK'
<1>1. ASSUME NEW n \in Names, NEW s \in Shapes, CreatePort(r, n, s)
      PROVE  TypeOK'
  <2>1. Port(r) \in ObjectType
    BY DEF ObjectType
  <2>2. ASSUME NEW h \in Candidates(handles)
        PROVE  h \in Handles /\ Opened(handles, h, Port(r)) \in [Handles -> ObjectType]
    BY <2>1, <2>2, CandidatesFree, OpenedFacts DEF TypeOK
  <2>3. handles' \in [Handles -> ObjectType]
    BY <1>1, <2>2 DEF TypeOK, CreatePort
  <2>4. hPort' \in [Regs -> Handles \cup {None}]
    BY <1>1, <2>2 DEF TypeOK, CreatePort
  <2>5. api' \in [Regs -> ApiStates]
    BY <1>1 DEF TypeOK, CreatePort, ApiStates
  <2> QED
    BY <1>1, <2>3, <2>4, <2>5 DEF TypeOK, CreatePort, waitVars, paramVars, workerVars, clientVars
<1>2. CASE StartWaitThread(r)
  <2>1. handles' \in [Handles -> ObjectType] /\ conn' \in [Calls -> ConnStates]
    BY <1>2, CloseHandlesType DEF TypeOK, StartWaitThread
  <2> QED
    BY <1>2, <2>1 DEF TypeOK, StartWaitThread, paramVars, workerVars, clientVars,
                      ApiStates, WaitStates
<1>3. CASE SetCloseEvent(r)
  BY <1>3 DEF TypeOK, SetCloseEvent, waitVars, paramVars, workerVars, clientVars, ApiStates
<1>4. CASE ClosePort(r)
  <2>1. handles' \in [Handles -> ObjectType] /\ conn' \in [Calls -> ConnStates]
    BY <1>4, CloseHandlesType DEF ClosePort
  <2>2. api' \in [Regs -> ApiStates]
    BY <1>4 DEF TypeOK, ClosePort, ApiStates
  <2> QED
    BY <1>4, <2>1, <2>2 DEF TypeOK, ClosePort, waitVars, paramVars, workerVars, clientVars
<1> QED
  BY <1>1, <1>2, <1>3, <1>4

(* ... and so do those of the wait threads,                                *)
LEMMA WaitThreadType ==
  ASSUME TypeOK, ServesCall, NEW r \in Regs, WaitThreadStep(r)
  PROVE  TypeOK'
<1> DEFINE c == current[r]
<1> USE DEF WaitAt, Goto, apiVars, paramVars, workerVars, clientVars
<1>1. CASE Listen(r)
  <2>1. conn' \in [Calls -> ConnStates]
    <3>1. CASE UNCHANGED conn
      BY <3>1 DEF TypeOK
    <3>2. CASE \E d \in Calls : conn' = [conn EXCEPT ![d] = IF call[d] = "dead" THEN "closed"
                                                                              ELSE "received"]
      BY <3>2 DEF TypeOK, ConnStates
    <3> QED
      BY <1>1, <3>1, <3>2 DEF Listen
  <2>2. current' \in [Regs -> Calls \cup {None}]
    BY <1>1 DEF TypeOK, Listen
  <2>3. lmData' \in [Regs -> Shapes \cup {None}]
    <3>1. \A d \in Calls : args[d].shape \in Shapes \cup {None}
      BY DEF TypeOK
    <3> QED
      BY <1>1, <3>1 DEF TypeOK, Listen
  <2>4. wait' \in [Regs -> WaitStates]
    BY <1>1 DEF TypeOK, Listen, WaitStates
  <2> QED
    BY <1>1, <2>1, <2>2, <2>3, <2>4 DEF TypeOK, Listen
<1>2. CASE CheckCloseEvent(r)
  BY <1>2 DEF TypeOK, CheckCloseEvent, WaitStates
<1>3. CASE OpenClientProcess(r)
  <2>1. c \in Calls
    BY <1>3 DEF ServesCall, Serving, OpenClientProcess
  <2>2. ProcessByNumber(c) \in ObjectType
    BY <2>1 DEF ProcessByNumber, ObjectType
  <2>3. ASSUME NEW h \in Candidates(handles)
        PROVE  h \in Handles /\ Opened(handles, h, ProcessByNumber(c)) \in [Handles -> ObjectType]
    BY <2>2, <2>3, CandidatesFree, OpenedFacts DEF TypeOK
  <2>4. handles' \in [Handles -> ObjectType]
    BY <1>3, <2>3 DEF TypeOK, OpenClientProcess
  <2>5. hClientProcess' \in [Calls -> Handles \cup {None}]
    BY <1>3, <2>3 DEF TypeOK, OpenClientProcess
  <2>6. wait' \in [Regs -> WaitStates]
    BY <1>3 DEF TypeOK, OpenClientProcess, WaitStates
  <2> QED
    BY <1>3, <2>4, <2>5, <2>6 DEF TypeOK, OpenClientProcess
<1>4. CASE Refuse(r)
  <2>1. handles' \in [Handles -> ObjectType]
    BY <1>4, ClosingFacts DEF TypeOK, Refuse
  <2> QED
    BY <1>4, <2>1 DEF TypeOK, Refuse, ConnStates, WaitStates
<1>5. CASE Accept(r)
  <2>1. c \in Calls
    BY <1>5 DEF ServesCall, Serving, Accept
  <2>2. Comm(c) \in ObjectType
    BY <2>1 DEF ObjectType
  <2>3. ASSUME NEW h \in Candidates(handles)
        PROVE  h \in Handles /\ Opened(handles, h, Comm(c)) \in [Handles -> ObjectType]
    BY <2>2, <2>3, CandidatesFree, OpenedFacts DEF TypeOK
  <2>4. handles' \in [Handles -> ObjectType]
    BY <1>5, <2>3 DEF TypeOK, Accept
  <2>5. hServerPort' \in [Calls -> Handles \cup {None}]
    BY <1>5, <2>3 DEF TypeOK, Accept
  <2>6. wait' \in [Regs -> WaitStates] /\ conn' \in [Calls -> ConnStates]
    BY <1>5 DEF TypeOK, Accept, WaitStates, ConnStates
  <2> QED
    BY <1>5, <2>4, <2>5, <2>6 DEF TypeOK, Accept
<1>6. CASE Complete(r)
  BY <1>6 DEF TypeOK, Complete, ConnStates, WaitStates
<1>7. CASE Receive(r)
  BY <1>7 DEF TypeOK, Receive, ConnStates, WaitStates
<1>8. CASE DropParam(r)
  <2>1. handles' \in [Handles -> ObjectType]
    BY <1>8, ClosingFacts DEF TypeOK, DropParam
  <2> QED
    BY <1>8, <2>1 DEF TypeOK, DropParam, WaitStates
<1>9. CASE CreateWorker(r)
  <2>1. lpParameters' \in [Calls -> Shapes \cup {None}]
    BY <1>9 DEF TypeOK, CreateWorker, RtlCaptureParameters
  <2> QED
    BY <1>9, <2>1 DEF TypeOK, CreateWorker, WorkerStates, WaitStates
<1> QED
  BY <1>1, <1>2, <1>3, <1>4, <1>5, <1>6, <1>7, <1>8, <1>9 DEF WaitThreadStep

(* ... of the workers,                                                     *)
LEMMA WorkerType ==
  ASSUME TypeOK, NEW c \in Calls, WorkerStep(c)
  PROVE  TypeOK'
<1> USE DEF Moves, ThreadId, apiVars, waitVars, paramVars, clientVars
<1>1. CASE EnterClientId(c)
  <2>1. client_id_list' \subseteq (Handles \cup {None}) \X Calls
    BY <1>1 DEF TypeOK, EnterClientId
  <2> QED
    BY <1>1, <2>1 DEF TypeOK, EnterClientId, WorkerStates
<1>2. CASE MapParameters(c)
  <2>1. reply' \in [Calls -> ReplyValues]
    BY <1>2 DEF TypeOK, MapParameters, ReplyValues
  <2> QED
    BY <1>2, <2>1 DEF TypeOK, MapParameters, WorkerStates
<1>3. CASE EnterRoutine(c)
  BY <1>3 DEF TypeOK, EnterRoutine, WorkerStates
<1>4. CASE LeaveRoutine(c)
  BY <1>4 DEF TypeOK, LeaveRoutine, WorkerStates, ReplyValues
<1>5. CASE SyncParameters(c)
  <2>1. reply' \in [Calls -> ReplyValues]
    BY <1>5 DEF TypeOK, SyncParameters, ReplyValues
  <2> QED
    BY <1>5, <2>1 DEF TypeOK, SyncParameters, WorkerStates
<1>6. CASE SendReply(c)
  BY <1>6 DEF TypeOK, SendReply, WorkerStates, ConnStates
<1>7. CASE ReplyReturns(c)
  BY <1>7 DEF TypeOK, ReplyReturns, WorkerStates
<1>8. CASE EraseClientId(c)
  <2>1. client_id_list' \subseteq client_id_list
    BY <1>8 DEF EraseClientId
  <2> QED
    BY <1>8, <2>1 DEF TypeOK, EraseClientId, WorkerStates
<1>9. CASE ExitWorker(c)
  <2>1. handles' \in [Handles -> ObjectType] /\ conn' \in [Calls -> ConnStates]
    BY <1>9, CloseHandlesType DEF ExitWorker
  <2> QED
    BY <1>9, <2>1 DEF TypeOK, ExitWorker, WorkerStates
<1> QED
  BY <1>1, <1>2, <1>3, <1>4, <1>5, <1>6, <1>7, <1>8, <1>9 DEF WorkerStep

(* ... and of the clients.                                                 *)
LEMMA ClientType ==
  ASSUME TypeOK, NEW c \in Calls,
         \/ \E n \in Names, s \in Shapes, nullArg \in BOOLEAN : BeginCall(c, n, s, nullArg)
         \/ ClientStep(c) \/ Die(c)
  PROVE  TypeOK'
<1> USE DEF ClientAt, Return, apiVars, waitVars, paramVars, workerVars
<1>1. ASSUME NEW n \in Names, NEW s \in Shapes, NEW nullArg \in BOOLEAN,
             BeginCall(c, n, s, nullArg)
      PROVE  TypeOK'
  <2>1. args' \in [Calls -> [name : Names \cup {None}, shape : Shapes \cup {None}]]
    BY <1>1 DEF TypeOK, BeginCall
  <2>2. call' \in [Calls -> ClientStates] /\ result' \in [Calls -> ResultValues]
    BY <1>1 DEF TypeOK, BeginCall, ClientStates, ResultValues
  <2> QED
    BY <1>1, <2>1, <2>2 DEF TypeOK, BeginCall
<1>2. CASE Connect(c)
  <2>1. conn' \in [Calls -> ConnStates]
    <3>1. conn' = conn \/ conn' = [conn EXCEPT ![c] = "pending"]
      BY <1>2 DEF Connect
    <3> QED
      BY <3>1 DEF TypeOK, ConnStates
  <2>2. call' \in [Calls -> ClientStates]
    <3>1. call' = [call EXCEPT ![c] = "connecting"] \/ call' = [call EXCEPT ![c] = "returned"]
      BY <1>2 DEF Connect
    <3> QED
      BY <3>1 DEF TypeOK, ClientStates
  <2>3. dest' \in [Calls -> Regs \cup {None}]
    BY <1>2 DEF TypeOK, Connect, PortNamed
  <2>4. result' \in [Calls -> ResultValues]
    BY <1>2 DEF TypeOK, Connect, ResultValues
  <2> QED
    BY <1>2, <2>1, <2>2, <2>3, <2>4 DEF TypeOK, Connect
<1>3. CASE ConnectReturns(c)
  <2>1. call' \in [Calls -> ClientStates] /\ result' \in [Calls -> ResultValues]
    BY <1>3 DEF TypeOK, ConnectReturns, ClientStates, ResultValues
  <2> QED
    BY <1>3, <2>1 DEF TypeOK, ConnectReturns
<1>4. CASE Request(c)
  BY <1>4 DEF TypeOK, Request, ConnStates, ClientStates
<1>5. CASE RequestReturns(c)
  <2>1. result' \in [Calls -> ResultValues]
    BY <1>5 DEF TypeOK, RequestReturns, ResultValues
  <2>2. serviceStatus' \in [Calls -> ReplyValues]
    BY <1>5 DEF TypeOK, RequestReturns
  <2> QED
    BY <1>5, <2>1, <2>2 DEF TypeOK, RequestReturns, ClientStates
<1>6. CASE Reply(c)
  BY <1>6 DEF TypeOK, Reply, ConnStates, ClientStates
<1>7. CASE CloseAndReturn(c)
  BY <1>7 DEF TypeOK, CloseAndReturn, ConnStates, ClientStates
<1>8. CASE Die(c)
  BY <1>8 DEF TypeOK, Die, ConnStates, ClientStates
<1> QED
  BY <1>1, <1>2, <1>3, <1>4, <1>5, <1>6, <1>7, <1>8 DEF ClientStep

(* A step that changes nothing keeps the types.                            *)
LEMMA StutterType ==
  ASSUME TypeOK, UNCHANGED vars
  PROVE  TypeOK'
BY DEF TypeOK, vars, apiVars, waitVars, paramVars, workerVars, clientVars

-----------------------------------------------------------------------------
(* A wait thread has its call from the listen to the next one.             *)
LEMMA NextServes ==
  ASSUME TypeOK, ServesCall, [Next]_vars
  PROVE  ServesCall'
<1>1. ASSUME NEW r \in Regs, WaitThreadStep(r)
      PROVE  ServesCall'
  <2> USE DEF WaitAt, Goto, ServesCall, Serving, TypeOK
  <2>1. CASE Listen(r)
    BY <2>1 DEF Listen
  <2>2. CASE CheckCloseEvent(r)
    BY <2>2 DEF CheckCloseEvent
  <2>3. CASE OpenClientProcess(r)
    BY <2>3 DEF OpenClientProcess
  <2>4. CASE Refuse(r) \/ DropParam(r) \/ CreateWorker(r)
    BY <2>4 DEF Refuse, DropParam, CreateWorker
  <2>5. CASE Accept(r)
    BY <2>5 DEF Accept
  <2>6. CASE Complete(r) \/ Receive(r)
    BY <2>6 DEF Complete, Receive
  <2> QED
    BY <1>1, <2>1, <2>2, <2>3, <2>4, <2>5, <2>6 DEF WaitThreadStep
<1>2. ASSUME NEW r \in Regs, StartWaitThread(r)
      PROVE  ServesCall'
  BY <1>2 DEF StartWaitThread, ServesCall, Serving, TypeOK
<1>3. CASE UNCHANGED <<wait, current>>
  BY <1>3 DEF ServesCall, Serving
<1>4. ASSUME NEW r \in Regs,
             \/ \E n \in Names, s \in Shapes : CreatePort(r, n, s)
             \/ SetCloseEvent(r) \/ ClosePort(r)
      PROVE  UNCHANGED <<wait, current>>
  BY <1>4 DEF CreatePort, SetCloseEvent, ClosePort, waitVars
<1>5. ASSUME NEW c \in Calls, WorkerStep(c)
      PROVE  UNCHANGED <<wait, current>>
  BY <1>5 DEF WorkerStep, EnterClientId, MapParameters, EnterRoutine, LeaveRoutine, SyncParameters,
              SendReply, ReplyReturns, EraseClientId, ExitWorker, waitVars
<1>6. ASSUME NEW c \in Calls,
             \/ \E n \in Names, s \in Shapes, nullArg \in BOOLEAN : BeginCall(c, n, s, nullArg)
             \/ ClientStep(c) \/ Die(c)
      PROVE  UNCHANGED <<wait, current>>
  BY <1>6 DEF BeginCall, ClientStep, Connect, ConnectReturns, Request, RequestReturns, Reply,
              CloseAndReturn, Die, waitVars
<1> QED
  BY <1>1, <1>2, <1>3, <1>4, <1>5, <1>6 DEF Next, Finished, vars, waitVars

(* Every step keeps the types.                                             *)
LEMMA NextType ==
  ASSUME TypeOK, ServesCall, [Next]_vars
  PROVE  TypeOK'
BY RegistrationType, WaitThreadType, WorkerType, ClientType, StutterType DEF Next, Finished

-----------------------------------------------------------------------------
(* A value that a SERVICE_ROUTINE copy holds names no port and is not free.*)
LEMMA HeldFacts ==
  ASSUME TypeOK, HeldHandlesValid, NEW c \in Calls
  PROVE  /\ hClientProcess[c] # None =>
              /\ hClientProcess[c] \in Handles
              /\ handles[hClientProcess[c]] \notin {Unused, Closed}
              /\ \A r : handles[hClientProcess[c]] # Port(r)
              /\ \A d : handles[hClientProcess[c]] # Comm(d)
         /\ hServerPort[c] # None =>
              /\ hServerPort[c] \in Handles
              /\ handles[hServerPort[c]] \notin {Unused, Closed}
              /\ \A r : handles[hServerPort[c]] # Port(r)
<1>1. ASSUME hClientProcess[c] # None
      PROVE  /\ hClientProcess[c] \in Handles
             /\ handles[hClientProcess[c]] \in {Process(c), Process(None)}
  BY <1>1 DEF TypeOK, HeldHandlesValid
<1>2. ASSUME hServerPort[c] # None
      PROVE  hServerPort[c] \in Handles /\ handles[hServerPort[c]] = Comm(c)
  BY <1>2 DEF TypeOK, HeldHandlesValid
<1> QED
  BY <1>1, <1>2, ObjectsDiffer

(* Held handles stay valid while the table changes elsewhere ...           *)
LEMMA HeldKept ==
  ASSUME TypeOK, HeldHandlesValid, UNCHANGED <<hClientProcess, hServerPort>>,
         \A c \in Calls : hClientProcess[c] # None =>
           handles'[hClientProcess[c]] = handles[hClientProcess[c]],
         \A c \in Calls : hServerPort[c] # None =>
           handles'[hServerPort[c]] = handles[hServerPort[c]]
  PROVE  HeldHandlesValid'
BY DEF HeldHandlesValid

(* ... and so do the ports of registrations.                               *)
LEMMA PortsKept ==
  ASSUME PortsHeld,
         \A r \in Regs : api'[r] \in {"created", "registered", "closing"} =>
           /\ api[r] \in {"created", "registered", "closing"} /\ hPort'[r] = hPort[r]
           /\ handles[hPort[r]] = Port(r) => handles'[hPort[r]] = handles[hPort[r]]
  PROVE  PortsHeld'
BY DEF PortsHeld

(* What the API calls close is no process and no server port.              *)
LEMMA ClosedPortsFree ==
  ASSUME TypeOK, HeldHandlesValid, ClosesPorts, NEW r \in Regs, api[r] \in {"created", "closing"},
         NEW h \in PortRead(r) \cup {hPort[r]}, CloseHandles({h})
  PROVE  \A c \in Calls :
           /\ hClientProcess[c] # None => handles'[hClientProcess[c]] = handles[hClientProcess[c]]
           /\ hServerPort[c] # None => handles'[hServerPort[c]] = handles[hServerPort[c]]
<1>1. \A g \in Handles \ {h} : handles'[g] = handles[g]
  BY CloseHandlesType
<1>2. IsOpen(handles, h) => handles[h].kind = "port"
  BY DEF ClosesPorts
<1>3. ASSUME NEW c \in Calls, hClientProcess[c] # None
      PROVE  hClientProcess[c] \in Handles /\ hClientProcess[c] # h
  <2>1. /\ hClientProcess[c] \in Handles /\ IsOpen(handles, hClientProcess[c])
        /\ handles[hClientProcess[c]] \in {Process(c), Process(None)}
    BY <1>3, HeldFacts DEF IsOpen, HeldHandlesValid
  <2> QED
    BY <1>2, <2>1 DEF Process
<1>4. ASSUME NEW c \in Calls, hServerPort[c] # None
      PROVE  hServerPort[c] \in Handles /\ hServerPort[c] # h
  <2>1. /\ hServerPort[c] \in Handles /\ IsOpen(handles, hServerPort[c])
        /\ handles[hServerPort[c]] = Comm(c)
    BY <1>4, HeldFacts DEF IsOpen, HeldHandlesValid
  <2> QED
    BY <1>2, <2>1 DEF Comm
<1> QED
  BY <1>1, <1>3, <1>4

(* The API steps keep what copies hold.                                    *)
LEMMA RegistrationHeld ==
  ASSUME TypeOK, HeldHandlesValid, ClosesPorts, NEW r \in Regs,
         \/ \E n \in Names, s \in Shapes : CreatePort(r, n, s)
         \/ StartWaitThread(r) \/ SetCloseEvent(r) \/ ClosePort(r)
  PROVE  HeldHandlesValid'
<1>1. UNCHANGED <<hClientProcess, hServerPort>>
  BY DEF CreatePort, StartWaitThread, SetCloseEvent, ClosePort, paramVars
<1>2. CASE UNCHANGED handles
  BY <1>1, <1>2, HeldKept
<1>3. ASSUME NEW h \in Candidates(handles), handles' = Opened(handles, h, Port(r))
      PROVE  HeldHandlesValid'
  <2>1. Port(r) \in ObjectType
    BY DEF ObjectType
  <2>2. \A g \in Handles : handles[g] \notin {Unused, Closed} => handles'[g] = handles[g]
    BY <1>3, <2>1, OpenedFacts DEF TypeOK
  <2> QED
    BY <1>1, <2>2, HeldKept, HeldFacts
<1>4. CASE StartWaitThread(r)
  <2>1. UNCHANGED handles \/ (api[r] = "created" /\ CloseHandles({hPort[r]}))
    BY <1>4 DEF StartWaitThread
  <2> QED
    BY <1>1, <1>2, <2>1, ClosedPortsFree, HeldKept
<1>5. CASE ClosePort(r)
  <2>1. PICK h \in PortRead(r) : CloseHandles({h})
    BY <1>5 DEF ClosePort
  <2>2. api[r] = "closing"
    BY <1>5 DEF ClosePort
  <2> QED
    BY <1>1, <2>1, <2>2, ClosedPortsFree, HeldKept
<1>6. CASE \E n \in Names, s \in Shapes : CreatePort(r, n, s)
  BY <1>2, <1>3, <1>6 DEF CreatePort
<1>7. CASE SetCloseEvent(r)
  BY <1>2, <1>7 DEF SetCloseEvent
<1> QED
  BY <1>4, <1>5, <1>6, <1>7

(* A step that only gives up held handles, and closes nothing else, keeps  *)
(* what the others hold.                                                   *)
LEMMA HeldGivenUp ==
  ASSUME TypeOK, HeldHandlesValid, NEW c \in Calls, NEW hs,
         hs \subseteq {hClientProcess[c], hServerPort[c]},
         \A g \in Handles \ hs : handles'[g] = handles[g],
         \A d \in Calls \ {c} : hClientProcess'[d] = hClientProcess[d] /\ hServerPort'[d] = hServerPort[d],
         hClientProcess'[c] = None,
         hServerPort'[c] = None \/ (hServerPort'[c] = hServerPort[c] /\ hServerPort[c] \notin hs)
  PROVE  /\ HeldHandlesValid'
         /\ \A r \in Regs : hPort[r] \in Handles /\ handles[hPort[r]] = Port(r)
              => handles'[hPort[r]] = Port(r)
<1>1. ASSUME NEW d \in Calls \ {c}, hClientProcess[d] # None
      PROVE  handles'[hClientProcess[d]] = handles[hClientProcess[d]]
  <2>1. hClientProcess[d] \in Handles /\ hClientProcess[d] # hClientProcess[c]
    BY <1>1, HeldFacts DEF HeldHandlesValid
  <2>2. hServerPort[c] # None => handles[hServerPort[c]] = Comm(c)
    BY DEF HeldHandlesValid
  <2>3. hClientProcess[d] # hServerPort[c]
    BY <1>1, <2>1, <2>2, HeldFacts, HandleAssumption
  <2> QED
    BY <2>1, <2>3
<1>2. ASSUME NEW d \in Calls \ {c}, hServerPort[d] # None
      PROVE  handles'[hServerPort[d]] = handles[hServerPort[d]]
  <2>1. hServerPort[d] \in Handles /\ handles[hServerPort[d]] = Comm(d)
    BY <1>2, HeldFacts DEF HeldHandlesValid
  <2>2. hClientProcess[c] # hServerPort[d]
    BY <2>1, HeldFacts, HandleAssumption
  <2>3. hServerPort[c] # hServerPort[d]
    BY <2>1, ObjectsDiffer, HandleAssumption DEF HeldHandlesValid
  <2> QED
    BY <2>1, <2>2, <2>3
<1>3. hServerPort'[c] # None => handles'[hServerPort'[c]] = handles[hServerPort[c]]
                                /\ hServerPort'[c] = hServerPort[c]
  BY HeldFacts
<1>4. HeldHandlesValid'
  BY <1>1, <1>2, <1>3 DEF HeldHandlesValid
<1>5. ASSUME NEW r \in Regs, hPort[r] \in Handles, handles[hPort[r]] = Port(r)
      PROVE  handles'[hPort[r]] = Port(r)
  BY <1>5, HeldFacts, HandleAssumption
<1> QED
  BY <1>4, <1>5

(* A wait thread opens a handle for its call, or gives the call's up.      *)
LEMMA WaitThreadHeld ==
  ASSUME TypeOK, ServesCall, HeldHandlesValid, NEW r \in Regs, WaitThreadStep(r)
  PROVE  /\ HeldHandlesValid' /\ UNCHANGED <<api, hPort>>
         /\ \A q \in Regs : hPort[q] \in Handles /\ handles[hPort[q]] = Port(q)
              => handles'[hPort[q]] = Port(q)
<1> DEFINE c == current[r]
           PortsStay == \A q \in Regs : hPort[q] \in Handles /\ handles[hPort[q]] = Port(q)
                                        => handles'[hPort[q]] = Port(q)
<1> USE DEF WaitAt, Goto, apiVars, paramVars
<1>0. UNCHANGED <<api, hPort>>
  BY DEF WaitThreadStep, Listen, CheckCloseEvent, OpenClientProcess, Refuse, Accept, Complete, Receive, DropParam,
         CreateWorker
<1>1. CASE UNCHANGED <<handles, hClientProcess, hServerPort>>
  BY <1>1, HeldKept, <1>0
<1>2. CASE Listen(r) \/ CheckCloseEvent(r) \/ Complete(r) \/ Receive(r)
  BY <1>1, <1>2 DEF Listen, CheckCloseEvent, Complete, Receive
<1>3. CASE OpenClientProcess(r)
  <2>1. c \in Calls
    BY <1>3 DEF ServesCall, Serving, OpenClientProcess
  <2>3. CASE UNCHANGED <<handles, hClientProcess>>
    BY <1>1, <1>3, <2>3 DEF OpenClientProcess
  <2>4. ASSUME NEW h \in Candidates(handles), handles' = Opened(handles, h, ProcessByNumber(c)),
               hClientProcess' = [hClientProcess EXCEPT ![c] = h]
        PROVE  HeldHandlesValid' /\ PortsStay
    <3>1. ProcessByNumber(c) \in ObjectType /\ ProcessByNumber(c) \in {Process(c), Process(None)}
      BY <2>1 DEF ObjectType, ProcessByNumber
    <3>2. /\ h \in Handles /\ handles'[h] = ProcessByNumber(c)
          /\ \A g \in Handles : handles[g] \notin {Unused, Closed}
               => g # h /\ handles'[g] = handles[g]
      <4>1. handles \in [Handles -> ObjectType]
        BY DEF TypeOK
      <4> QED
        BY <2>4, <3>1, <4>1, OpenedFacts, CandidatesFree
    <3>3. /\ hClientProcess'[c] = h
          /\ \A d \in Calls \ {c} : hClientProcess'[d] = hClientProcess[d]
      BY <2>1, <2>4 DEF TypeOK
    <3>4. \A d \in Calls \ {c} : hClientProcess[d] # None =>
            hClientProcess[d] # h /\ handles'[hClientProcess[d]] = handles[hClientProcess[d]]
      BY <3>2, HeldFacts
    <3>5. \A d \in Calls : hServerPort'[d] = hServerPort[d] /\ (hServerPort[d] # None =>
            handles'[hServerPort[d]] = handles[hServerPort[d]])
      BY <1>3, <3>2, HeldFacts DEF OpenClientProcess
    <3>6. HeldHandlesValid'
      <4>1. \A d \in Calls : hServerPort'[d] # None => handles'[hServerPort'[d]] = Comm(d)
        BY <3>5 DEF HeldHandlesValid
      <4>2. \A d \in Calls : hClientProcess'[d] # None =>
              /\ handles'[hClientProcess'[d]] \in {Process(d), Process(None)}
              /\ \A e \in Calls \ {d} : hClientProcess'[e] # hClientProcess'[d]
        BY <2>1, <3>1, <3>2, <3>3, <3>4, HandleAssumption DEF HeldHandlesValid
      <4> QED
        BY <4>1, <4>2 DEF HeldHandlesValid
    <3>7. PortsStay
      BY <3>2, ObjectsDiffer
    <3> QED
      BY <3>6, <3>7
  <2> QED
    BY <1>0, <1>3, <2>3, <2>4 DEF OpenClientProcess
<1>4. CASE Refuse(r) \/ DropParam(r)
  <2>1. c \in Calls
    BY <1>4 DEF ServesCall, Serving, Refuse, DropParam
  <2>2. \A g \in Handles \ {hClientProcess[c]} : handles'[g] = handles[g]
    <3>1. handles \in [Handles -> ObjectType] /\ handles' = Closing(handles, {hClientProcess[c]})
      BY <1>4 DEF Refuse, DropParam, TypeOK
    <3> QED
      BY <3>1, ClosingFacts
  <2>3. /\ hClientProcess'[c] = None /\ hServerPort'[c] \in {None, hServerPort[c]}
        /\ \A d \in Calls \ {c} : /\ hClientProcess'[d] = hClientProcess[d]
                                  /\ hServerPort'[d] = hServerPort[d]
    BY <1>4, <2>1 DEF Refuse, DropParam, TypeOK
  <2>4. hServerPort[c] # None => hServerPort[c] # hClientProcess[c]
    BY <2>1, HeldFacts DEF HeldHandlesValid
  <2>5. hServerPort'[c] = None \/ (hServerPort'[c] = hServerPort[c] /\ hServerPort[c] \notin {hClientProcess[c]})
    BY <2>3, <2>4
  <2> QED
    BY <1>0, <2>1, <2>2, <2>3, <2>5, HeldGivenUp
<1>5. CASE Accept(r)
  <2>1. c \in Calls
    BY <1>5 DEF ServesCall, Serving, Accept
  <2>3. CASE UNCHANGED <<handles, hServerPort>>
    BY <1>1, <1>5, <2>3 DEF Accept
  <2>4. ASSUME NEW h \in Candidates(handles), handles' = Opened(handles, h, Comm(c)),
               hServerPort' = [hServerPort EXCEPT ![c] = h]
        PROVE  HeldHandlesValid' /\ PortsStay
    <3>1. Comm(c) \in ObjectType
      BY <2>1 DEF ObjectType
    <3>2. /\ h \in Handles /\ handles'[h] = Comm(c)
          /\ \A g \in Handles : handles[g] \notin {Unused, Closed}
               => g # h /\ handles'[g] = handles[g]
      BY <2>4, <3>1, OpenedFacts, CandidatesFree DEF TypeOK
    <3>3. /\ hServerPort'[c] = h /\ hClientProcess' = hClientProcess
          /\ \A d \in Calls \ {c} : hServerPort'[d] = hServerPort[d]
      BY <1>5, <2>1, <2>4 DEF TypeOK, Accept
    <3>4. \A d \in Calls : hServerPort'[d] # None => handles'[hServerPort'[d]] = Comm(d)
      BY <3>2, <3>3, HeldFacts DEF HeldHandlesValid
    <3>5. \A d \in Calls : hClientProcess[d] # None =>
            handles'[hClientProcess[d]] = handles[hClientProcess[d]]
      BY <3>2, HeldFacts
    <3>6. HeldHandlesValid'
      BY <3>3, <3>4, <3>5 DEF HeldHandlesValid
    <3>7. PortsStay
      BY <3>2, ObjectsDiffer
    <3> QED
      BY <3>6, <3>7
  <2> QED
    BY <1>0, <1>5, <2>3, <2>4 DEF Accept
<1>6. CASE CreateWorker(r)
  <2>1. CASE UNCHANGED <<hClientProcess, hServerPort>>
    BY <1>1, <1>6, <2>1 DEF CreateWorker
  <2>2. CASE /\ hClientProcess' = [hClientProcess EXCEPT ![c] = None]
             /\ hServerPort' = [hServerPort EXCEPT ![c] = None]
    BY <1>0, <1>6, <2>2 DEF CreateWorker, HeldHandlesValid, TypeOK
  <2> QED
    BY <1>6, <2>1, <2>2 DEF CreateWorker
<1> QED
  BY <1>2, <1>3, <1>4, <1>5, <1>6 DEF WaitThreadStep

(* Of a worker's steps, only its exit touches the table.                   *)
LEMMA WorkerHeld ==
  ASSUME TypeOK, HeldHandlesValid, NEW c \in Calls, WorkerStep(c)
  PROVE  /\ HeldHandlesValid' /\ UNCHANGED <<api, hPort, wait>>
         /\ \A q \in Regs : hPort[q] \in Handles /\ handles[hPort[q]] = Port(q)
              => handles'[hPort[q]] = Port(q)
<1>1. UNCHANGED <<api, hPort, wait>>
  BY DEF WorkerStep, EnterClientId, MapParameters, EnterRoutine, LeaveRoutine, SyncParameters,
         SendReply, ReplyReturns, EraseClientId, ExitWorker, apiVars, waitVars
<1>2. CASE ExitWorker(c)
  <2>1. \A g \in Handles \ {hClientProcess[c], hServerPort[c]} : handles'[g] = handles[g]
    BY <1>2, CloseHandlesType DEF ExitWorker
  <2>2. /\ hClientProcess'[c] = None /\ hServerPort'[c] = None
        /\ \A d \in Calls \ {c} : /\ hClientProcess'[d] = hClientProcess[d]
                                  /\ hServerPort'[d] = hServerPort[d]
    BY <1>2 DEF ExitWorker, TypeOK
  <2> QED
    BY <1>1, <2>1, <2>2, HeldGivenUp
<1>3. CASE ~ ExitWorker(c)
  <2>1. UNCHANGED <<handles, hClientProcess, hServerPort>>
    BY <1>3 DEF WorkerStep, EnterClientId, MapParameters, EnterRoutine, LeaveRoutine,
                SyncParameters, SendReply, ReplyReturns, EraseClientId, paramVars
  <2> QED
    BY <1>1, <2>1, HeldKept
<1> QED
  BY <1>2, <1>3

(* A client, in another process, touches none of it.                       *)
LEMMA ClientHeld ==
  ASSUME HeldHandlesValid, TypeOK, NEW c \in Calls,
         \/ \E n \in Names, s \in Shapes, nullArg \in BOOLEAN : BeginCall(c, n, s, nullArg)
         \/ ClientStep(c) \/ Die(c)
  PROVE  HeldHandlesValid' /\ UNCHANGED <<handles, api, hPort, wait>>
<1>1. UNCHANGED <<handles, apiVars, waitVars, paramVars>>
  BY DEF BeginCall, ClientStep, Connect, ConnectReturns, Request, RequestReturns, Reply,
         CloseAndReturn, Die
<1> QED
  BY <1>1, HeldKept DEF apiVars, waitVars, paramVars

(* No thread closes what a copy holds.                                     *)
LEMMA NextHeld ==
  ASSUME TypeOK, ServesCall, HeldHandlesValid, ClosesPorts, [Next]_vars
  PROVE  HeldHandlesValid'
<1>1. CASE UNCHANGED vars
  BY <1>1 DEF HeldHandlesValid, vars, paramVars
<1>2. CASE Next /\ ~ Finished
  BY <1>2, RegistrationHeld, WaitThreadHeld, WorkerHeld, ClientHeld DEF Next
<1> QED
  BY <1>1, <1>2 DEF Finished

-----------------------------------------------------------------------------
(* The ports of registrations, where listening on an open port succeeds.   *)
LEMMA RegistrationInv ==
  ASSUME IInv, NEW r \in Regs,
         \/ \E n \in Names, s \in Shapes : CreatePort(r, n, s)
         \/ StartWaitThread(r) \/ SetCloseEvent(r) \/ ClosePort(r)
  PROVE  PortsHeld' /\ ListensWhileOpen'
<1> USE DEF IInv
<1>1. ASSUME NEW n \in Names, NEW s \in Shapes, CreatePort(r, n, s)
      PROVE  PortsHeld' /\ ListensWhileOpen'
  <2>1. CASE UNCHANGED <<handles, hPort>> /\ api'[r] \notin {"created", "registered", "closing"}
    <3>2. PortsHeld'
      BY <1>1, <2>1 DEF CreatePort, PortsHeld, TypeOK
    <3>3. ListensWhileOpen'
      BY <1>1, <2>1 DEF CreatePort, ListensWhileOpen, TypeOK, waitVars
    <3> QED
      BY <3>2, <3>3
  <2>2. ASSUME NEW h \in Candidates(handles), handles' = Opened(handles, h, Port(r)),
               hPort' = [hPort EXCEPT ![r] = h], api' = [api EXCEPT ![r] = "created"]
        PROVE  PortsHeld' /\ ListensWhileOpen'
    <3>1. Port(r) \in ObjectType
      BY DEF ObjectType
    <3>2. /\ h \in Handles /\ handles'[h] = Port(r)
          /\ \A g \in Handles : handles[g] \notin {Unused, Closed} => handles'[g] = handles[g]
      BY <2>2, <3>1, OpenedFacts, CandidatesFree DEF TypeOK
    <3>4. PortsHeld'
      <4>1. hPort'[r] \in Handles /\ handles'[hPort'[r]] = Port(r)
        BY <2>2, <3>2 DEF TypeOK
      <4>2. ASSUME NEW q \in Regs, q # r, api'[q] \in {"created", "registered", "closing"}
            PROVE  hPort'[q] \in Handles /\ handles'[hPort'[q]] = Port(q)
        BY <2>2, <3>2, <4>2, ObjectsDiffer DEF TypeOK, PortsHeld
      <4> QED
        BY <4>1, <4>2 DEF PortsHeld
    <3>5. ListensWhileOpen'
      BY <1>1, <2>2 DEF CreatePort, ListensWhileOpen, TypeOK, waitVars
    <3> QED
      BY <3>4, <3>5
  <2> QED
    BY <1>1, <2>1, <2>2 DEF CreatePort, TypeOK
<1>2. CASE StartWaitThread(r)
  <2>1. hPort[r] \in Handles /\ handles[hPort[r]] = Port(r)
    BY <1>2 DEF StartWaitThread, PortsHeld
  <2>2. \A g \in Handles \ {hPort[r]} : handles'[g] = handles[g]
    BY <1>2, CloseHandlesType DEF StartWaitThread
  <2>4. PortsHeld'
    BY <1>2, <2>1, <2>2, ObjectsDiffer DEF StartWaitThread, PortsHeld, TypeOK
  <2>5. ListensWhileOpen'
    BY <1>2 DEF StartWaitThread, ListensWhileOpen, TypeOK
  <2> QED
    BY <2>4, <2>5
<1>3. CASE SetCloseEvent(r)
  <2>2. PortsHeld'
    BY <1>3 DEF SetCloseEvent, PortsHeld, TypeOK
  <2>3. ListensWhileOpen'
    BY <1>3 DEF SetCloseEvent, ListensWhileOpen, TypeOK, waitVars
  <2> QED
    BY <2>2, <2>3
<1>4. CASE ClosePort(r)
  <2>1. hPort[r] \in Handles /\ handles[hPort[r]] = Port(r) /\ PortRead(r) = {hPort[r]}
    BY <1>4 DEF ClosePort, PortsHeld, ListensWhileOpen, PortRead
  <2>2. IsOpen(handles, hPort[r])
    BY <2>1, ObjectsDiffer DEF IsOpen
  <2>3. CloseHandles({hPort[r]}) /\ api' = [api EXCEPT ![r] = "unregistered"]
    BY <1>4, <2>1, <2>2 DEF ClosePort
  <2>4. \A g \in Handles \ {hPort[r]} : handles'[g] = handles[g]
    BY <2>3, CloseHandlesType
  <2>6. PortsHeld'
    BY <1>4, <2>1, <2>3, <2>4, ObjectsDiffer DEF ClosePort, PortsHeld, TypeOK
  <2>7. ListensWhileOpen'
    BY <1>4, <2>3 DEF ClosePort, ListensWhileOpen, TypeOK, waitVars
  <2> QED
    BY <2>6, <2>7
<1> QED
  BY <1>1, <1>2, <1>3, <1>4

(* A wait thread closes no port, and leaves its loop only when its own has *)
(* been closed.                                                            *)
LEMMA WaitThreadInv ==
  ASSUME ~ SpuriousListen, IInv, NEW r \in Regs, WaitThreadStep(r)
  PROVE  PortsHeld' /\ ListensWhileOpen'
<1> USE DEF IInv, WaitAt, Goto, apiVars, paramVars
<1>1. PortsHeld'
  BY WaitThreadHeld, PortsKept DEF PortsHeld
<1>2. CASE Listen(r)
  <2>1. api[r] \in {"registered", "closing"} => handles[hPort[r]].kind = "port"
    BY ObjectsDiffer DEF PortsHeld
  <2>2. api[r] \in {"registered", "closing", "unregistered"}
    BY <1>2 DEF Listen, ListensWhileOpen
  <2>3. ListensWhileOpen'
    <3>1. CASE wait' = [wait EXCEPT ![r] = "OpenProcess"]
               /\ \E d \in Calls : current' = [current EXCEPT ![r] = d]
      BY <1>2, <2>2, <3>1 DEF Listen, ListensWhileOpen, TypeOK
    <3>2. CASE handles[hPort[r]].kind # "port" /\ UNCHANGED current
               /\ wait' = [wait EXCEPT ![r] = "CloseEvent"]
      BY <1>2, <2>1, <2>2, <3>2 DEF Listen, ListensWhileOpen, TypeOK
    <3> QED
      BY <1>2, <3>1, <3>2 DEF Listen
  <2> QED
    BY <1>1, <2>3
<1>3. CASE ~ Listen(r)
  <2>1. /\ UNCHANGED api /\ wait[r] # "none"
        /\ \A q \in Regs \ {r} : wait'[q] = wait[q]
        /\ wait'[r] \in {"CloseEvent", "exited"} => wait[r] = "CloseEvent"
    BY <1>3 DEF WaitThreadStep, CheckCloseEvent, OpenClientProcess, Refuse, Accept, Complete, Receive, DropParam,
                CreateWorker, TypeOK
  <2> QED
    BY <1>1, <2>1 DEF ListensWhileOpen
<1> QED
  BY <1>2, <1>3

-----------------------------------------------------------------------------
LEMMA InitInv == Init => IInv /\ PortNumbers
<1> SUFFICES ASSUME Init PROVE IInv /\ PortNumbers
  OBVIOUS
<1>1. TypeOK
  BY DEF Init, TypeOK, ObjectType, ConnStates, ApiStates, WaitStates, WorkerStates, ReplyValues,
         ClientStates, ResultValues
<1>2. HeldHandlesValid /\ PortsHeld /\ ListensWhileOpen /\ PortNumbers
  BY DEF Init, HeldHandlesValid, PortsHeld, ListensWhileOpen, PortNumbers
<1>3. ServesCall
  BY DEF Init, ServesCall, Serving
<1> QED
  BY <1>1, <1>2, <1>3 DEF IInv

(* Where a port is open as long as its registration, the API closes it.    *)
LEMMA InvCloses == IInv => ClosesPorts
<1> SUFFICES ASSUME IInv, NEW r \in Regs, api[r] \in {"created", "closing"},
                    NEW h \in PortRead(r) \cup {hPort[r]}
             PROVE  handles[h].kind = "port"
  BY DEF ClosesPorts
<1>1. h = hPort[r] /\ handles[hPort[r]] = Port(r)
  BY DEF IInv, ListensWhileOpen, PortRead, PortsHeld
<1> QED
  BY <1>1, ObjectsDiffer

LEMMA NextInv ==
  ASSUME ~ SpuriousListen, IInv, [Next]_vars
  PROVE  IInv'
<1>1. TypeOK' /\ ServesCall' /\ HeldHandlesValid'
  BY NextType, NextServes, NextHeld, InvCloses DEF IInv
<1>2. CASE UNCHANGED vars
  BY <1>1, <1>2 DEF IInv, PortsHeld, ListensWhileOpen, vars, apiVars, waitVars, paramVars
<1>3. CASE Next /\ ~ Finished
  <2>1. ASSUME UNCHANGED <<api, hPort, wait>>,
               \A q \in Regs : hPort[q] \in Handles /\ handles[hPort[q]] = Port(q)
                 => handles'[hPort[q]] = Port(q)
        PROVE  PortsHeld' /\ ListensWhileOpen'
    BY <2>1, PortsKept DEF IInv, PortsHeld, ListensWhileOpen
  <2>2. ASSUME NEW c \in Calls,
               \/ \E n \in Names, s \in Shapes, nullArg \in BOOLEAN : BeginCall(c, n, s, nullArg)
               \/ ClientStep(c) \/ Die(c)
        PROVE  PortsHeld' /\ ListensWhileOpen'
    BY <2>1, <2>2, ClientHeld DEF IInv
  <2>3. ASSUME NEW c \in Calls, WorkerStep(c)
        PROVE  PortsHeld' /\ ListensWhileOpen'
    BY <2>1, <2>3, WorkerHeld DEF IInv
  <2>4. PortsHeld' /\ ListensWhileOpen'
    BY <1>3, <2>2, <2>3, RegistrationInv, WaitThreadInv DEF Next
  <2> QED
    BY <1>1, <2>4 DEF IInv
<1> QED
  BY <1>2, <1>3 DEF Finished

-----------------------------------------------------------------------------
(* Where values are not given out again, a new handle was never used.      *)
LEMMA FreshCandidate ==
  ASSUME ~ Recycle, NEW h \in Candidates(handles)
  PROVE  h \in Handles /\ handles[h] = Unused
<1>1. FreeHandles(handles) \in SUBSET Handles
  BY DEF FreeHandles
<1> QED
  BY <1>1, HandleAssumption DEF Candidates, FreeHandles

(* The numbers of ports stay those of ports, while steps open handles that *)
(* were never used, or close some.                                         *)
LEMMA NumbersKept ==
  ASSUME TypeOK, PortNumbers, UNCHANGED hPort,
         \A g \in Handles : handles'[g] \in {handles[g], Closed} \/ handles[g] = Unused
  PROVE  PortNumbers'
BY DEF PortNumbers, TypeOK, Unused, Closed

LEMMA NextNumbers ==
  ASSUME ~ Recycle, TypeOK, PortNumbers, [Next]_vars
  PROVE  PortNumbers'
<1>1. CASE UNCHANGED <<handles, hPort>>
  BY <1>1, NumbersKept
<1>2. ASSUME NEW hs, handles' = Closing(handles, hs), UNCHANGED hPort
      PROVE  PortNumbers'
  <2>1. \A g \in Handles : handles'[g] \in {handles[g], Closed}
    BY <1>2 DEF Closing, TypeOK
  <2> QED
    BY <1>2, <2>1, NumbersKept
<1>3. ASSUME NEW h \in Candidates(handles), NEW object, handles' = Opened(handles, h, object), UNCHANGED hPort
      PROVE  PortNumbers'
  <2>1. h \in Handles /\ handles[h] = Unused
    BY FreshCandidate
  <2>2. \A g \in Handles \ {h} : handles'[g] = handles[g]
    BY <1>3, <2>1 DEF Opened, TypeOK
  <2> QED
    BY <1>3, <2>1, <2>2, NumbersKept
<1>4. ASSUME NEW r \in Regs, NEW h \in Candidates(handles), handles' = Opened(handles, h, Port(r)),
             hPort' = [hPort EXCEPT ![r] = h]
      PROVE  PortNumbers'
  <2>1. h \in Handles /\ handles[h] = Unused
    BY FreshCandidate
  <2>2. handles'[h].kind = "port" /\ \A g \in Handles \ {h} : handles'[g] = handles[g]
    BY <1>4, <2>1 DEF Opened, TypeOK, Port
  <2> QED
    BY <1>4, <2>1, <2>2 DEF PortNumbers, TypeOK, Unused
<1>5. ASSUME NEW r \in Regs,
             \/ \E n \in Names, s \in Shapes : CreatePort(r, n, s)
             \/ StartWaitThread(r) \/ SetCloseEvent(r) \/ ClosePort(r)
      PROVE  PortNumbers'
  <2>1. CASE \E n \in Names, s \in Shapes : CreatePort(r, n, s)
    BY <1>1, <1>4, <2>1 DEF CreatePort
  <2>2. CASE StartWaitThread(r) \/ SetCloseEvent(r) \/ ClosePort(r)
    BY <1>1, <1>2, <2>2 DEF StartWaitThread, SetCloseEvent, ClosePort, CloseHandles
  <2> QED
    BY <1>5, <2>1, <2>2
<1>6. ASSUME NEW r \in Regs, WaitThreadStep(r)
      PROVE  PortNumbers'
  <2> USE DEF apiVars
  <2>1. CASE OpenClientProcess(r)
    BY <1>1, <1>3, <2>1 DEF OpenClientProcess
  <2>2. CASE Accept(r)
    BY <1>1, <1>3, <2>2 DEF Accept
  <2>3. CASE Refuse(r) \/ DropParam(r)
    BY <1>2, <2>3 DEF Refuse, DropParam
  <2>4. CASE Listen(r) \/ CheckCloseEvent(r) \/ Complete(r) \/ Receive(r) \/ CreateWorker(r)
    BY <1>1, <2>4 DEF Listen, CheckCloseEvent, Complete, Receive, CreateWorker
  <2> QED
    BY <1>6, <2>1, <2>2, <2>3, <2>4 DEF WaitThreadStep
<1>7. ASSUME NEW c \in Calls, WorkerStep(c)
      PROVE  PortNumbers'
  <2> USE DEF apiVars
  <2>1. CASE ExitWorker(c)
    BY <1>2, <2>1 DEF ExitWorker, CloseHandles
  <2>2. CASE ~ ExitWorker(c)
    BY <1>1, <1>7, <2>2 DEF WorkerStep, EnterClientId, MapParameters, EnterRoutine, LeaveRoutine,
                     SyncParameters, SendReply, ReplyReturns, EraseClientId
  <2> QED
    BY <2>1, <2>2
<1>8. ASSUME NEW c \in Calls,
             \/ \E n \in Names, s \in Shapes, nullArg \in BOOLEAN : BeginCall(c, n, s, nullArg)
             \/ ClientStep(c) \/ Die(c)
      PROVE  PortNumbers'
  BY <1>1, <1>8 DEF BeginCall, ClientStep, Connect, ConnectReturns, Request, RequestReturns, Reply,
                    CloseAndReturn, Die, apiVars
<1> QED
  BY <1>1, <1>5, <1>6, <1>7, <1>8 DEF Next, Finished, vars, apiVars

(* Where values are not given out again, the API closes a port or nothing, *)
(* from whatever memory the number is read.                                *)
LEMMA NumbersClose == TypeOK /\ PortNumbers => ClosesPorts
<1> SUFFICES ASSUME TypeOK, PortNumbers, NEW r \in Regs, NEW h \in PortRead(r) \cup {hPort[r]},
                    IsOpen(handles, h)
             PROVE  handles[h].kind = "port"
  BY DEF ClosesPorts
<1>1. PICK q \in Regs : h = hPort[q]
  BY HandleAssumption DEF PortRead, IsOpen
<1>2. handles[h] \in ObjectType /\ handles[h] # Closed /\ h # None
  BY HandleAssumption DEF TypeOK, IsOpen
<1>3. handles[h].kind # "closed"
  BY <1>2 DEF ObjectType, Unused, Closed, Port, Process, Comm
<1> QED
  BY <1>1, <1>2, <1>3 DEF PortNumbers

(* Every variable keeps its type, whatever fails.                          *)
THEOREM TypeCorrect == Spec => []TypeOK
<1>1. Init => TypeOK /\ ServesCall
  BY InitInv DEF IInv
<1>2. TypeOK /\ ServesCall /\ [Next]_vars => TypeOK' /\ ServesCall'
  BY NextType, NextServes
<1> QED
  BY <1>1, <1>2, PTL DEF Spec

(* The inductive invariant holds, where NtListenPort fails only on a       *)
(* handle that is not an open port: types, the handles that threads hold,  *)
(* the ports of registrations and the progress of wait threads.            *)
THEOREM Invariance == ~ SpuriousListen => (Spec => []IInv)
<1> SUFFICES ASSUME ~ SpuriousListen PROVE Spec => []IInv
  OBVIOUS
<1>1. IInv /\ [Next]_vars => IInv'
  BY NextInv
<1> QED
  BY InitInv, <1>1, PTL DEF Spec

(* Its weaker form holds where handle values are not given out again, even *)
(* if NtListenPort fails at will and SERVICE_ROUTINEs are freed too early. *)
THEOREM HeldInvariance == ~ Recycle => (Spec => []HeldInv)
<1> SUFFICES ASSUME ~ Recycle PROVE Spec => []HeldInv
  OBVIOUS
<1>1. Init => HeldInv
  BY InitInv DEF IInv, HeldInv
<1>2. HeldInv /\ [Next]_vars => HeldInv'
  BY NextType, NextServes, NextHeld, NextNumbers, NumbersClose DEF HeldInv
<1> QED
  BY <1>1, <1>2, PTL DEF Spec

(* No thread closes a handle that another one holds: what a SERVICE_ROUTINE*)
(* copy holds stays open and its own until the worker closes it.  One of   *)
(* two things is needed: that wait threads stay while their port is open,  *)
(* or that a number read from freed memory cannot name a newer handle.     *)
THEOREM HandlesStayValid == ~ SpuriousListen \/ ~ Recycle => (Spec => []HeldHandlesValid)
<1>1. IInv => HeldHandlesValid
  BY DEF IInv
<1>2. HeldInv => HeldHandlesValid
  BY DEF HeldInv
<1> QED
  BY <1>1, <1>2, Invariance, HeldInvariance, PTL

(* The wait thread never frees the SERVICE_ROUTINE under                   *)
(* ScUnregisterServiceRoutine, which has then read it for the last time.   *)
THEOREM NoEarlyFree == ~ SpuriousListen => (Spec => []NoUseAfterFree)
<1>1. IInv => NoUseAfterFree
  BY DEF IInv, ListensWhileOpen, NoUseAfterFree
<1> QED
  BY <1>1, Invariance, PTL
=============================================================================
