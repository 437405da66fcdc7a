--------------------------- MODULE ProgressProofs ---------------------------
(***************************************************************************)
(* Proofs about ServiceCall: no call is forgotten.  This is the part of    *)
(* its liveness that is an invariant: whoever waits waits for a thread     *)
(* that has a step left to take for it.                                    *)
(***************************************************************************)
EXTENDS ContractProofs

(* Wait threads and workers open and close no port.                        *)
LEMMA ThreadPorts ==
  ASSUME Held,
         \/ \E r \in Regs : WaitThreadStep(r)
         \/ \E c \in Calls : WorkerStep(c)
  PROVE  \A q \in Regs : PortIsOpen(q)' <=> PortIsOpen(q)
<1> USE DEF Held, apiVars, waitVars, paramVars, clientVars
<1>1. CASE UNCHANGED handles
  BY <1>1 DEF PortIsOpen
<1>2. ASSUME NEW h \in Candidates(handles), NEW o, handles' = Opened(handles, h, o), \A q \in Regs : o # Port(q)
      PROVE  \A q \in Regs : PortIsOpen(q)' <=> PortIsOpen(q)
  <2>1. h \in Handles /\ \A q \in Regs : handles[h] # Port(q)
    BY CandidatesFree, ObjectsDiffer
  <2>2. \A g \in Handles, q \in Regs : handles'[g] = Port(q) <=> handles[g] = Port(q)
    BY <1>2, <2>1 DEF Opened, TypeOK
  <2> QED
    BY <2>2 DEF PortIsOpen
<1>3. ASSUME NEW c \in Calls, NEW hs \in SUBSET {hClientProcess[c], hServerPort[c]}, handles' = Closing(handles, hs)
      PROVE  \A q \in Regs : PortIsOpen(q)' <=> PortIsOpen(q)
  <2>1. ASSUME NEW g \in Handles, NEW q \in Regs, handles[g] = Port(q)
        PROVE  g \notin hs
    <3>1. g # None
      BY HandleAssumption
    <3>2. g # hClientProcess[c] /\ g # hServerPort[c]
      BY <2>1, <3>1, HeldFacts
    <3> QED
      BY <3>2
  <2>2. \A g \in Handles, q \in Regs : handles'[g] = Port(q) <=> handles[g] = Port(q)
    BY <1>3, <2>1, ObjectsDiffer DEF Closing
  <2> QED
    BY <2>2 DEF PortIsOpen
<1>4. ASSUME NEW r \in Regs, WaitThreadStep(r)
      PROVE  \A q \in Regs : PortIsOpen(q)' <=> PortIsOpen(q)
  <2>1. CASE OpenClientProcess(r)
    <3>1. \A q \in Regs : ProcessByNumber(current[r]) # Port(q)
      BY ObjectsDiffer DEF ProcessByNumber
    <3> QED
      BY <1>1, <1>2, <2>1, <3>1 DEF OpenClientProcess
  <2>2. CASE Accept(r)
    BY <1>1, <1>2, <2>2, ObjectsDiffer DEF Accept
  <2>3. CASE Refuse(r) \/ DropParam(r)
    <3>1. current[r] \in Calls /\ handles' = Closing(handles, {hClientProcess[current[r]]})
      BY <2>3 DEF Refuse, DropParam, WaitAt, ServesCall, Serving
    <3> QED
      BY <1>3, <3>1
  <2> QED
    BY <1>1, <1>4, <2>1, <2>2, <2>3 DEF WaitThreadStep, Listen, CheckCloseEvent, Complete, Receive, CreateWorker
<1>5. ASSUME NEW c \in Calls, WorkerStep(c)
      PROVE  \A q \in Regs : PortIsOpen(q)' <=> PortIsOpen(q)
  <2>1. CASE ExitWorker(c)
    BY <1>3, <2>1 DEF ExitWorker, CloseHandles
  <2> QED
    BY <1>1, <1>5, <2>1 DEF WorkerStep, EnterClientId, MapParameters, EnterRoutine, LeaveRoutine, SyncParameters,
                            SendReply, ReplyReturns, EraseClientId
<1> QED
  BY <1>4, <1>5

(* A call is attended to as before where nothing of it changes but the     *)
(* place of threads that do not serve it.                                  *)
LEMMA AttendedFrame ==
  ASSUME NEW c \in Calls, Attended(c), conn'[c] = conn[c], dest'[c] = dest[c],
         worker'[c] = worker[c], call'[c] = call[c],
         conn[c] = "pending" => (PortIsOpen(dest[c]) => PortIsOpen(dest[c])'),
         \A q \in Regs : Serving(q) /\ current[q] = c => wait'[q] = wait[q] /\ current'[q] = c
  PROVE  Attended(c)'
<1>1. ASSUME NEW places, TakenAt(c, places), places \cap {"none", "NtListenPort", "CloseEvent", "exited"} = {}
      PROVE  TakenAt(c, places)'
  BY <1>1 DEF TakenAt, Serving
<1>2. /\ TakenAt(c, {"OpenProcess", "refuse", "accept"}) => TakenAt(c, {"OpenProcess", "refuse", "accept"})'
      /\ TakenAt(c, {"complete"}) => TakenAt(c, {"complete"})'
      /\ TakenAt(c, {"receive"}) => TakenAt(c, {"receive"})'
      /\ TakenAt(c, {"CreateThread"}) => TakenAt(c, {"CreateThread"})'
  BY <1>1
<1>3. conn[c] = "pending" => dest[c] \in Regs /\ PortIsOpen(dest[c])'
  BY DEF Attended
<1> QED
  BY <1>2, <1>3 DEF Attended

(* A port that closes fails the requests queued there, and a wait thread   *)
(* is there from the end of the registration on.                           *)
LEMMA RegistrationProgress ==
  ASSUME ~ SpuriousListen, Base, ContractInv, NoneForgotten, NEW r \in Regs,
         \/ \E n \in Names, s \in Shapes : CreatePort(r, n, s)
         \/ StartWaitThread(r) \/ SetCloseEvent(r) \/ ClosePort(r)
  PROVE  NoneForgotten'
<1> USE DEF Base, IInv, waitVars, paramVars, workerVars, clientVars
<1>1. /\ UNCHANGED <<worker, call, current>>
      /\ \A c \in Calls : conn'[c] = conn[c] \/ (conn[c] = "pending" /\ conn'[c] = "closed")
      /\ \A q \in Regs : wait'[q] = wait[q] \/ (wait[q] = "none" /\ wait'[q] = "NtListenPort")
  BY BaseHeld, RegistrationEffect
<1>2. UNCHANGED dest
  BY DEF CreatePort, StartWaitThread, SetCloseEvent, ClosePort
<1>3. /\ \A q \in Regs : PortIsOpen(q)' => ListenedTo(q)'
      /\ \A c \in Calls : conn'[c] = "pending" /\ dest[c] \in Regs /\ PortIsOpen(dest[c]) => PortIsOpen(dest[c])'
  <2>1. ASSUME NEW n \in Names, NEW s \in Shapes, CreatePort(r, n, s)
        PROVE  <1>3!:
    <3>1. api[r] = "new" /\ UNCHANGED wait /\ \A q \in Regs \ {r} : api'[q] = api[q]
      BY <2>1 DEF CreatePort, TypeOK
    <3>2. CASE UNCHANGED handles
      <4>1. ~ PortIsOpen(r)
        BY <3>1 DEF PortIsOpen, ContractInv, PortsRegistered
      <4>2. \A q \in Regs : PortIsOpen(q)' <=> PortIsOpen(q)
        BY <3>2 DEF PortIsOpen
      <4> QED
        BY <1>2, <3>1, <4>1, <4>2 DEF NoneForgotten, ListenedTo
    <3>3. ASSUME NEW h \in Candidates(handles), handles' = Opened(handles, h, Port(r)),
                 api' = [api EXCEPT ![r] = "created"]
          PROVE  <1>3!:
      <4>1. h \in Handles /\ \A q \in Regs : handles[h] # Port(q)
        BY CandidatesFree, ObjectsDiffer
      <4>2. /\ \A g \in Handles, q \in Regs : handles[g] = Port(q) => handles'[g] = Port(q)
            /\ \A g \in Handles, q \in Regs \ {r} : handles'[g] = Port(q) => handles[g] = Port(q)
        BY <3>3, <4>1, ObjectsDiffer DEF Opened, TypeOK
      <4>3. api'[r] = "created"
        BY <3>3 DEF TypeOK
      <4>4. /\ \A q \in Regs : PortIsOpen(q) => PortIsOpen(q)'
            /\ \A q \in Regs \ {r} : PortIsOpen(q)' => PortIsOpen(q)
        BY <4>2 DEF PortIsOpen
      <4> QED
        BY <1>2, <3>1, <4>3, <4>4 DEF NoneForgotten, ListenedTo
    <3> QED
      BY <2>1, <3>2, <3>3 DEF CreatePort
  <2>2. ASSUME CloseHandles({hPort[r]}), hPort[r] \in Handles, handles[hPort[r]] = Port(r),
               UNCHANGED wait, \A q \in Regs \ {r} : api'[q] = api[q]
        PROVE  <1>3!:
    <3>1. \A h \in Handles : handles'[h] = (IF h = hPort[r] THEN Closed ELSE handles[h])
      BY <2>2, ObjectsDiffer DEF CloseHandles, Closing, IsOpen
    <3>2. ~ PortIsOpen(r)'
      BY <3>1, ObjectsDiffer DEF PortIsOpen, ContractInv, PortsRegistered
    <3>3. \A q \in Regs \ {r} : PortIsOpen(q)' <=> PortIsOpen(q)
      BY <2>2, <3>1, ObjectsDiffer DEF PortIsOpen
    <3>4. \A c \in Calls : conn'[c] = "pending" => dest[c] # r
      BY <2>2, ObjectsDiffer DEF CloseHandles, IsOpen
    <3> QED
      BY <1>2, <2>2, <3>2, <3>3, <3>4 DEF NoneForgotten, ListenedTo
  <2>3. CASE StartWaitThread(r)
    <3>1. hPort[r] \in Handles /\ handles[hPort[r]] = Port(r)
      BY <2>3 DEF StartWaitThread, PortsHeld
    <3>2. CASE api' = [api EXCEPT ![r] = "registered"] /\ wait' = [wait EXCEPT ![r] = "NtListenPort"] /\ UNCHANGED handles
      <4>1. /\ \A q \in Regs : PortIsOpen(q)' <=> PortIsOpen(q)
            /\ wait'[r] = "NtListenPort" /\ \A q \in Regs \ {r} : wait'[q] = wait[q] /\ api'[q] = api[q]
        BY <3>2 DEF PortIsOpen, TypeOK
      <4> QED
        BY <1>2, <4>1 DEF NoneForgotten, ListenedTo
    <3>3. CASE api' = [api EXCEPT ![r] = "NO_MEMORY"] /\ CloseHandles({hPort[r]}) /\ UNCHANGED wait
      BY <2>2, <3>1, <3>3 DEF TypeOK
    <3> QED
      BY <2>3, <3>2, <3>3 DEF StartWaitThread
  <2>4. CASE SetCloseEvent(r)
    <3>1. /\ \A q \in Regs : PortIsOpen(q)' <=> PortIsOpen(q)
          /\ UNCHANGED wait /\ api[r] = "registered" /\ \A q \in Regs \ {r} : api'[q] = api[q]
      BY <2>4 DEF SetCloseEvent, PortIsOpen, TypeOK
    <3> QED
      BY <1>2, <3>1 DEF NoneForgotten, ListenedTo
  <2>5. CASE ClosePort(r)
    <3>1. api[r] = "closing" /\ wait[r] # "exited"
      BY <2>5 DEF ClosePort, ListensWhileOpen
    <3>2. hPort[r] \in Handles /\ handles[hPort[r]] = Port(r)
      BY <3>1 DEF PortsHeld
    <3>3. CloseHandles({hPort[r]}) /\ UNCHANGED wait /\ \A q \in Regs \ {r} : api'[q] = api[q]
      BY <2>5, <3>1 DEF ClosePort, PortRead, TypeOK
    <3> QED
      BY <2>2, <3>2, <3>3
  <2> QED
    BY <2>1, <2>3, <2>4, <2>5
<1>4. ASSUME NEW c \in Calls
      PROVE  Attended(c)'
  <2>1. Attended(c)
    BY DEF NoneForgotten
  <2>2. CASE conn'[c] = conn[c]
    <3>1. conn[c] = "pending" => dest[c] \in Regs
      BY <2>1 DEF Attended
    <3>2. \A q \in Regs : Serving(q) => wait'[q] = wait[q]
      BY <1>1 DEF Serving
    <3> QED
      BY <1>1, <1>2, <1>3, <2>1, <2>2, <3>1, <3>2, AttendedFrame
  <2>3. CASE conn[c] = "pending" /\ conn'[c] = "closed"
    BY <1>1, <2>1, <2>3 DEF Attended
  <2> QED
    BY <1>1, <2>2, <2>3
<1> QED
  BY <1>3, <1>4 DEF NoneForgotten

(* A client moves its own call from one thread's care to another's.        *)
LEMMA ClientProgress ==
  ASSUME Base, IdInv, ContractInv, NoneForgotten, NEW c \in Calls,
         \/ \E n \in Names, s \in Shapes, nullArg \in BOOLEAN : BeginCall(c, n, s, nullArg)
         \/ ClientStep(c) \/ Die(c)
  PROVE  NoneForgotten'
<1> USE DEF Base, IInv
<1>1. UNCHANGED <<handles, api, worker, wait, current>>
  BY ClientEffect
<1>2. \A d \in Calls \ {c} : conn'[d] = conn[d] /\ call'[d] = call[d] /\ dest'[d] = dest[d]
  BY DEF BeginCall, ClientStep, Connect, ConnectReturns, Request, RequestReturns, Reply, CloseAndReturn, Die,
         Return, TypeOK
<1>3. \A q \in Regs : PortIsOpen(q)' <=> PortIsOpen(q)
  BY <1>1 DEF PortIsOpen
<1>4. ASSUME NEW d \in Calls \ {c}
      PROVE  Attended(d)'
  <2>1. conn[d] = "pending" => dest[d] \in Regs
    BY DEF NoneForgotten, Attended
  <2> QED
    BY <1>1, <1>2, <1>3, <2>1, AttendedFrame DEF NoneForgotten
<1>5. Attended(c)'
  <2>1. Attended(c)
    BY DEF NoneForgotten
  <2>2. \A places : TakenAt(c, places)' <=> TakenAt(c, places)
    BY <1>1 DEF TakenAt
  <2>3. CASE \E n \in Names, s \in Shapes, nullArg \in BOOLEAN : BeginCall(c, n, s, nullArg)
    <3>1. conn[c] = "none" /\ worker[c] = "none" /\ UNCHANGED conn
      BY <2>3 DEF BeginCall, ClientAt, ContractInv, InStep
    <3> QED
      BY <1>1, <3>1 DEF Attended
  <2>4. CASE Connect(c)
    <3>1. worker[c] = "none" /\ conn[c] = "none"
      BY <2>4 DEF Connect, ClientAt, ContractInv, InStep
    <3>2. CASE dest'[c] \in PortNamed(args[c].name) /\ conn'[c] = "pending"
      BY <1>1, <1>3, <3>1, <3>2 DEF Attended, PortNamed
    <3>3. CASE UNCHANGED conn
      BY <1>1, <3>1, <3>3 DEF Attended
    <3> QED
      BY <2>4, <3>2, <3>3 DEF Connect, TypeOK
  <2>5. CASE ConnectReturns(c)
    <3>1. UNCHANGED <<conn, dest>> /\ call[c] = "connecting" /\ conn[c] \in {"connected", "refused", "closed"} /\ worker[c] = "none"
      BY <2>5 DEF ConnectReturns, ClientAt, ContractInv, InStep
    <3> QED
      BY <1>1, <2>1, <2>2, <3>1 DEF Attended
  <2>6. CASE Request(c)
    <3>1. conn[c] = "connected" /\ conn'[c] = "requested" /\ worker[c] = "none"
      BY <2>6 DEF Request, ClientAt, ContractInv, InStep, TypeOK
    <3> QED
      BY <1>1, <2>1, <2>2, <3>1 DEF Attended
  <2>7. CASE RequestReturns(c)
    <3>1. UNCHANGED <<conn, dest>> /\ conn[c] \in {"replied", "closed"} /\ call'[c] = "NtReplyPort"
      BY <2>7 DEF RequestReturns, TypeOK
    <3> QED
      BY <1>1, <2>1, <3>1 DEF Attended
  <2>8. CASE Reply(c)
    <3>1. conn[c] = "replied" /\ conn'[c] = "acked"
      BY <2>8 DEF Reply, ClientAt, ContractInv, InStep, TypeOK
    <3> QED
      BY <1>1, <3>1 DEF Attended
  <2>9. CASE CloseAndReturn(c)
    BY <1>1, <2>9 DEF CloseAndReturn, Attended, TypeOK
  <2>10. CASE Die(c)
    <3>1. /\ dest'[c] = dest[c]
          /\ conn'[c] = (IF conn[c] \in {"none", "pending"} THEN conn[c] ELSE "closed")
      BY <2>10 DEF Die, TypeOK
    <3> QED
      BY <1>1, <1>3, <2>1, <3>1 DEF Attended
  <2> QED
    BY <2>3, <2>4, <2>5, <2>6, <2>7, <2>8, <2>9, <2>10 DEF ClientStep
<1>6. \A q \in Regs : PortIsOpen(q)' => ListenedTo(q)'
  BY <1>1, <1>3 DEF NoneForgotten, ListenedTo
<1> QED
  BY <1>4, <1>5, <1>6 DEF NoneForgotten

(* A worker replies to the client that waits for it, and then waits for it.*)
LEMMA WorkerProgress ==
  ASSUME Base, IdInv, ContractInv, NoneForgotten, NEW c \in Calls, WorkerStep(c)
  PROVE  NoneForgotten'
<1> USE DEF Base, IInv, Moves, apiVars, waitVars, paramVars, clientVars
<1>1. UNCHANGED <<api, wait, current, dest, call>> /\ worker[c] # "none" /\ \A d \in Calls \ {c} : worker'[d] = worker[d]
  BY DEF WorkerStep, EnterClientId, MapParameters, EnterRoutine, LeaveRoutine, SyncParameters, SendReply,
         ReplyReturns, EraseClientId, ExitWorker, TypeOK
<1>2. \A q \in Regs : PortIsOpen(q)' <=> PortIsOpen(q)
  BY BaseHeld, ThreadPorts
<1>3. \A places, d : TakenAt(d, places)' <=> TakenAt(d, places)
  BY <1>1 DEF TakenAt
<1>4. /\ \A d \in Calls \ {c} : conn'[d] = conn[d]
      /\ \/ /\ worker[c] \in {"start", "map", "run", "running", "sync"} /\ conn'[c] = conn[c]
            /\ worker'[c] \in {"map", "run", "running", "sync", "reply"}
         \/ /\ worker[c] = "reply" /\ worker'[c] = "waitReply"
            /\ conn'[c] = (IF conn[c] = "serving" THEN "replied" ELSE conn[c])
         \/ worker[c] = "waitReply" /\ worker'[c] = "erase" /\ conn'[c] = conn[c] /\ conn[c] \in {"acked", "closed"}
         \/ worker[c] = "erase" /\ worker'[c] = "close" /\ conn'[c] = conn[c]
         \/ worker[c] = "close" /\ worker'[c] = "exited" /\ conn'[c] \in {conn[c], "closed"}
  <2>1. CASE ExitWorker(c)
    <3>1. \A d \in Calls : conn'[d] = conn[d] \/ (conn'[d] = "closed" /\ d = c)
      <4> DEFINE hs == {hClientProcess[c], hServerPort[c]}
      <4>1. \A d \in Calls : conn'[d] =
              IF \/ conn[d] = "pending" /\ \E h \in hs : IsOpen(handles, h) /\ handles[h] = Port(dest[d])
                 \/ conn[d] # "none" /\ \E h \in hs : IsOpen(handles, h) /\ handles[h] = Comm(d)
              THEN "closed" ELSE conn[d]
        BY <2>1 DEF ExitWorker, CloseHandles
      <4>2. ASSUME NEW h \in hs, IsOpen(handles, h)
            PROVE  handles[h] \in {Process(c), Process(None), Comm(c)}
        BY <4>2, HandleAssumption DEF HeldHandlesValid, IsOpen
      <4>3. \A h \in hs : IsOpen(handles, h) =>
              (\A r : handles[h] # Port(r)) /\ \A d \in Calls \ {c} : handles[h] # Comm(d)
        BY <4>2, ObjectsDiffer
      <4> QED
        BY <4>1, <4>3
    <3> QED
      BY <2>1, <3>1 DEF ExitWorker, TypeOK
  <2>2. CASE ~ ExitWorker(c)
    BY <2>2 DEF WorkerStep, EnterClientId, MapParameters, EnterRoutine, LeaveRoutine, SyncParameters, SendReply,
           ReplyReturns, EraseClientId, TypeOK
  <2> QED
    BY <2>1, <2>2
<1>5. ASSUME NEW d \in Calls \ {c}
      PROVE  Attended(d)'
  <2>1. conn[d] = "pending" => dest[d] \in Regs
    BY DEF NoneForgotten, Attended
  <2> QED
    BY <1>1, <1>2, <1>4, <2>1, AttendedFrame DEF NoneForgotten
<1>6. Attended(c)'
  <2>1. Attended(c) /\ conn[c] # "pending"
    BY <1>1 DEF NoneForgotten, CallInv, WorkerChecked
  <2>2. worker[c] \in {"start", "map", "run", "running", "sync", "reply"} =>
          conn[c] = "closed" \/ (conn[c] = "serving" /\ call[c] = "waiting")
    BY <2>1 DEF ContractInv, InStep, IdInv, DeadClosed, CallInv, WorkerChecked, TypeOK, ClientStates
  <2>3. \A places : TakenAt(c, places)' <=> TakenAt(c, places)
    BY <1>3
  <2> QED
    BY <1>1, <1>4, <2>1, <2>2, <2>3 DEF Attended
<1>7. \A q \in Regs : PortIsOpen(q)' => ListenedTo(q)'
  BY <1>1, <1>2 DEF NoneForgotten, ListenedTo
<1> QED
  BY <1>5, <1>6, <1>7 DEF NoneForgotten

(* A wait thread keeps the call it takes until it has refused it, given it *)
(* to a worker, or found its connection closed.                            *)
LEMMA WaitThreadProgress ==
  ASSUME ~ SpuriousListen, Base, ContractInv, NoneForgotten, NEW r \in Regs, WaitThreadStep(r)
  PROVE  NoneForgotten'
<1> DEFINE c == current[r]
<1> USE DEF Base, IInv, WaitAt, Goto, apiVars, paramVars, workerVars, clientVars
<1>1. UNCHANGED <<api, call, dest>> /\ \A q \in Regs \ {r} : wait'[q] = wait[q] /\ current'[q] = current[q]
  BY DEF WaitThreadStep, Listen, CheckCloseEvent, OpenClientProcess, Refuse, Accept, Complete, Receive, DropParam,
         CreateWorker, TypeOK
<1>2. \A q \in Regs : PortIsOpen(q)' <=> PortIsOpen(q)
  BY BaseHeld, ThreadPorts
<1>3. wait[r] # "none" /\ wait'[r] # "none" /\ (wait'[r] = "exited" => api[r] = "unregistered")
  BY DEF WaitThreadStep, Listen, CheckCloseEvent, OpenClientProcess, Refuse, Accept, Complete, Receive, DropParam,
         CreateWorker, TypeOK, ListensWhileOpen
<1>4. \A q \in Regs : PortIsOpen(q)' => ListenedTo(q)'
  <2>1. \A q \in Regs : PortIsOpen(q) => api[q] # "unregistered"
    BY DEF PortIsOpen, ContractInv, PortsRegistered
  <2> QED
    BY <1>1, <1>2, <1>3, <2>1 DEF NoneForgotten, ListenedTo
<1>5. CASE Listen(r) \/ CheckCloseEvent(r)
  <2>1. UNCHANGED worker /\ ~ Serving(r)
    BY <1>5 DEF Listen, CheckCloseEvent, Serving
  <2>2. ASSUME NEW d \in Calls, conn'[d] = conn[d]
        PROVE  Attended(d)'
    <3>1. conn[d] = "pending" => dest[d] \in Regs
      BY DEF NoneForgotten, Attended
    <3> QED
      BY <1>1, <1>2, <2>1, <2>2, <3>1, AttendedFrame DEF NoneForgotten
  <2>3. ASSUME NEW d \in Calls, conn'[d] # conn[d]
        PROVE  Attended(d)'
    <3>1. /\ conn[d] = "pending" /\ conn'[d] \in {"closed", "received"}
          /\ current'[r] = d /\ wait'[r] = "OpenProcess"
      BY <1>5, <2>3 DEF Listen, CheckCloseEvent, TypeOK
    <3>2. worker[d] # "waitReply"
      BY <3>1 DEF CallInv, WorkerChecked
    <3> QED
      BY <2>1, <3>1, <3>2 DEF Attended, TakenAt
  <2> QED
    BY <1>4, <2>2, <2>3 DEF NoneForgotten
<1>6. CASE Serving(r)
  <2>1. /\ c \in Calls /\ current'[r] = c /\ worker[c] = "none" /\ conn[c] \notin {"none", "pending"}
        /\ \A d \in Calls \ {c} : conn'[d] = conn[d] /\ worker'[d] = worker[d]
    BY <1>6, BaseHeld, WaitEffect
  <2>2. ASSUME NEW d \in Calls \ {c}
        PROVE  Attended(d)'
    <3>1. conn[d] = "pending" => dest[d] \in Regs
      BY DEF NoneForgotten, Attended
    <3> QED
      BY <1>1, <1>2, <2>1, <3>1, AttendedFrame DEF NoneForgotten
  (* The thread is where the connection of its call says it is.            *)
  <2>3. /\ conn[c] = "received" => wait[r] \in {"OpenProcess", "refuse", "accept"}
        /\ conn[c] = "accepted" => wait[r] = "complete"
        /\ conn[c] \in {"connected", "requested"} => wait[r] = "receive"
        /\ conn[c] = "serving" => wait[r] = "CreateThread" \/ ThreadFailures
        /\ conn[c] # "replied"
    <3>1. \A places : TakenAt(c, places) /\ places \cap {"none", "NtListenPort", "CloseEvent", "exited"} = {}
                        => wait[r] \in places
      BY <1>6, BaseHeld, ServedFacts DEF TakenAt, Serving
    <3>2. Attended(c)
      BY <2>1 DEF NoneForgotten
    <3>3. /\ TakenAt(c, {"OpenProcess", "refuse", "accept"}) => wait[r] \in {"OpenProcess", "refuse", "accept"}
          /\ TakenAt(c, {"complete"}) => wait[r] = "complete"
          /\ TakenAt(c, {"receive"}) => wait[r] = "receive"
          /\ TakenAt(c, {"CreateThread"}) => wait[r] = "CreateThread"
      BY <3>1
    <3> QED
      BY <2>1, <3>2, <3>3 DEF Attended
  <2>4. /\ worker'[c] \in {"none", "start"}
        /\ \/ conn'[c] = "received" /\ wait'[r] \in {"refuse", "accept"}
           \/ conn'[c] = "accepted" /\ wait'[r] = "complete"
           \/ conn'[c] = "connected" /\ wait'[r] = "receive"
           \/ conn'[c] = "serving" /\ (wait'[r] = "CreateThread" \/ worker'[c] = "start" \/ ThreadFailures)
           \/ conn'[c] \in {"refused", "acked", "closed"}
    <3>1. conn[c] \in ConnStates
      BY <2>1 DEF TypeOK
    <3>2. CASE OpenClientProcess(r)
      BY <2>1, <2>3, <3>1, <3>2 DEF OpenClientProcess, ConnStates, TypeOK
    <3>3. CASE Refuse(r) \/ Accept(r)
      BY <2>1, <2>3, <3>1, <3>3 DEF Refuse, Accept, ConnStates, TypeOK
    <3>4. CASE Complete(r) \/ Receive(r)
      BY <2>1, <2>3, <3>1, <3>4 DEF Complete, Receive, ConnStates, TypeOK
    <3>5. CASE DropParam(r) \/ CreateWorker(r)
      BY <2>1, <2>3, <3>1, <3>5 DEF DropParam, CreateWorker, ConnStates, TypeOK
    <3> QED
      BY <1>6, <3>2, <3>3, <3>4, <3>5 DEF WaitThreadStep, Listen, CheckCloseEvent, Serving
  <2>5. Attended(c)'
    BY <2>1, <2>4 DEF Attended, TakenAt
  <2> QED
    BY <1>4, <2>1, <2>2, <2>5 DEF NoneForgotten
<1> QED
  BY <1>5, <1>6 DEF WaitThreadStep, OpenClientProcess, Refuse, Accept, Complete, Receive, DropParam, CreateWorker, Serving

(* At first nobody waits.                                                  *)
LEMMA InitProgress == Init => NoneForgotten
BY DEF Init, NoneForgotten, Attended, PortIsOpen, Unused, Port

(* One lemma per family of steps, together.                                *)
LEMMA NextProgress ==
  ASSUME ~ SpuriousListen, Base, IdInv, ContractInv, NoneForgotten, [Next]_vars
  PROVE  NoneForgotten'
<1>1. CASE UNCHANGED vars
  BY <1>1 DEF vars, apiVars, waitVars, paramVars, workerVars, clientVars, NoneForgotten, Attended, ListenedTo,
              TakenAt, PortIsOpen
<1>2. CASE Next /\ ~ Finished
  BY <1>2, RegistrationProgress, WaitThreadProgress, WorkerProgress, ClientProgress DEF Next
<1> QED
  BY <1>1, <1>2 DEF Finished

(* Whoever waits in a call, at a port or for an answer, waits for a thread *)
(* that has not given it up, as long as threads can be created.            *)
THEOREM NoCallForgotten == ~ SpuriousListen => (Spec => []NoneForgotten)
<1> SUFFICES ASSUME ~ SpuriousListen PROVE Spec => []NoneForgotten
  OBVIOUS
<1>1. Base /\ IdInv /\ ContractInv /\ NoneForgotten /\ [Next]_vars => NoneForgotten'
  BY NextProgress
<1> QED
  BY <1>1, InitProgress, BaseInvariance, IdInvariance, ContractInvariance, PTL DEF Spec
=============================================================================
