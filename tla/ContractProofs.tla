--------------------------- MODULE ContractProofs ---------------------------
(***************************************************************************)
(* Proofs about ServiceCall: what the threads, ports and handles do is     *)
(* what ServiceContract allows, closed handle values given out again or    *)
(* not.                                                                    *)
(* They rest on the invariants that the other proofs have shown.           *)
(***************************************************************************)
EXTENDS HandleProofs

(* Opening something else than a port, or closing, leaves ports their own. *)
LEMMA PortsFrame ==
  ASSUME TypeOK, PortsOwn, PortsRegistered, UNCHANGED <<api, hPort>>,
         \A h \in Handles :
           \/ handles'[h] \in {handles[h], Closed}
           \/ /\ Recycle \/ handles[h] = Unused
              /\ \A q \in Regs : handles'[h] # Port(q)
  PROVE  PortsOwn' /\ PortsRegistered'
<1>1. PortsOwn'
  <2>1. ASSUME ~ Recycle, NEW q \in Regs, hPort[q] # None
        PROVE  handles'[hPort[q]] \in {Port(q), Closed}
    <3>1. hPort[q] \in Handles /\ handles[hPort[q]] \in {Port(q), Closed}
      BY <2>1 DEF PortsOwn, TypeOK
    <3> QED
      BY <2>1, <3>1 DEF Unused, Port, Closed
  <2> QED
    BY <2>1 DEF PortsOwn
<1>2. PortsRegistered'
  BY ObjectsDiffer DEF PortsRegistered
<1> QED
  BY <1>1, <1>2

(* What an API step does to the ports, and to the connections queued there.*)
LEMMA RegistrationContract ==
  ASSUME ~ SpuriousListen, Base, ContractInv, NEW r \in Regs,
         \/ \E n \in Names, s \in Shapes : CreatePort(r, n, s)
         \/ StartWaitThread(r) \/ SetCloseEvent(r) \/ ClosePort(r)
  PROVE  ContractInv'
<1> USE DEF Base, IInv, waitVars, paramVars, workerVars, clientVars
<1>1. /\ UNCHANGED <<worker, call, current>>
      /\ \A c \in Calls : conn'[c] = conn[c] \/ (conn[c] = "pending" /\ conn'[c] = "closed")
      /\ \A q \in Regs : wait'[q] = wait[q] \/ (wait[q] = "none" /\ wait'[q] = "NtListenPort")
  BY BaseHeld, RegistrationEffect
<1>2. UNCHANGED <<dest, routine, reply, ran, args, result, serviceStatus>>
  BY DEF CreatePort, StartWaitThread, SetCloseEvent, ClosePort
<1>3. \A q \in Regs : Serving(q) => conn'[current[q]] = conn[current[q]]
  BY <1>1, BaseHeld, ServedFacts
<1>4. \A q \in Regs : Serving(q)' => Serving(q)
  BY <1>1 DEF Serving
<1>5. InStep'
  BY <1>1, <1>3 DEF ContractInv, InStep, Serving
<1>6. AnswersTell'
  BY <1>1, <1>2 DEF ContractInv, AnswersTell, ReplyTells
<1>7. /\ PortsOwn' /\ PortsRegistered'
      /\ \A q \in Regs : hPort[q] # None => hPort'[q] = hPort[q] /\ name'[q] = name[q]
      /\ \A q \in Regs : api[q] \in {"unregistered", "NO_MEMORY"} => api'[q] = api[q]
      /\ \A c \in Calls : conn[c] = "pending" /\ conn'[c] = "closed" => api'[dest[c]] \in {"unregistered", "NO_MEMORY"}
  <2>1. ASSUME NEW n \in Names, NEW s \in Shapes, CreatePort(r, n, s)
        PROVE  <1>7!:
    <3>1. /\ api[r] = "new" /\ hPort[r] = None /\ UNCHANGED conn
          /\ \A q \in Regs \ {r} : hPort'[q] = hPort[q] /\ name'[q] = name[q] /\ api'[q] = api[q]
      BY <2>1 DEF CreatePort, ContractInv, PortsOwn, TypeOK
    <3>2. \A h \in Handles : handles[h] # Port(r)
      BY <3>1 DEF ContractInv, PortsRegistered
    <3>3. CASE UNCHANGED <<handles, hPort>> /\ api' = [api EXCEPT ![r] = api'[r]]
               /\ api'[r] \in {"INVALID_PARAMETER_3", "OBJECT_NAME_EXISTS"}
      <4>1. PortsOwn'
        BY <3>1, <3>3 DEF ContractInv, PortsOwn
      <4>2. PortsRegistered'
        BY <3>1, <3>2, <3>3 DEF ContractInv, PortsRegistered
      <4> QED
        BY <3>1, <4>1, <4>2
    <3>4. ASSUME NEW h \in Candidates(handles), handles' = Opened(handles, h, Port(r)),
                 hPort' = [hPort EXCEPT ![r] = h], api' = [api EXCEPT ![r] = "created"]
          PROVE  PortsOwn' /\ PortsRegistered'
      <4>1. h \in Handles /\ h # None
        BY CandidatesFree, HandleAssumption
      <4>2. handles'[h] = Port(r) /\ \A g \in Handles \ {h} : handles'[g] = handles[g]
        BY <3>4, <4>1 DEF Opened, TypeOK
      <4>3. hPort'[r] = h /\ api'[r] = "created"
        BY <3>4 DEF TypeOK
      <4>4. \A q \in Regs : ~ Recycle /\ hPort[q] # None => hPort[q] \in Handles \ {h}
        <5>1. ASSUME ~ Recycle, NEW q \in Regs, hPort[q] # None
              PROVE  hPort[q] \in Handles /\ handles[hPort[q]] \in {Port(q), Closed}
          BY <5>1 DEF ContractInv, PortsOwn, TypeOK
        <5>2. Unused # Closed /\ (~ Recycle => handles[h] = Unused)
          BY FreshCandidate DEF Unused, Closed
        <5> QED
          BY <4>1, <5>1, <5>2, ObjectsDiffer
      <4>5. PortsOwn'
        BY <3>1, <4>1, <4>2, <4>3, <4>4 DEF ContractInv, PortsOwn
      <4>6. PortsRegistered'
        BY <3>1, <3>2, <4>2, <4>3, ObjectsDiffer DEF ContractInv, PortsRegistered
      <4> QED
        BY <4>5, <4>6
    <3>5. PortsOwn' /\ PortsRegistered'
      BY <2>1, <3>3, <3>4 DEF CreatePort, TypeOK
    <3> QED
      BY <3>1, <3>5
  <2>2. ASSUME handles' = Closing(handles, {hPort[r]}), hPort[r] \in Handles, handles[hPort[r]] = Port(r),
               UNCHANGED <<hPort, name>>, api[r] \in {"created", "closing"},
               api'[r] \in {"unregistered", "NO_MEMORY"}, \A q \in Regs \ {r} : api'[q] = api[q],
               CloseHandles({hPort[r]})
        PROVE  <1>7!:
    <3>1. /\ \A h \in Handles : handles'[h] \in {handles[h], Closed}
          /\ handles'[hPort[r]] = Closed
      <4>1. \A h \in Handles : handles'[h] \in {handles[h], Closed}
        BY <2>2, ClosingAdds
      <4> QED
        BY <2>2, <4>1, ObjectsDiffer DEF Closing, IsOpen
    <3>2. PortsOwn'
      <4>1. \A q \in Regs : hPort'[q] = None <=> api'[q] \in {"new", "INVALID_PARAMETER_3", "OBJECT_NAME_EXISTS"}
        BY <2>2, HandleAssumption DEF ContractInv, PortsOwn
      <4>3. \A q \in Regs : api'[q] # "INVALID_PARAMETER"
        BY <2>2 DEF ContractInv, PortsOwn
      <4>2. \A q \in Regs : ~ Recycle /\ hPort[q] # None => handles'[hPort[q]] \in {Port(q), Closed}
        BY <3>1 DEF ContractInv, PortsOwn, TypeOK
      <4> QED
        BY <2>2, <4>1, <4>2, <4>3 DEF PortsOwn
    <3>3. PortsRegistered'
      <4>1. \A q \in Regs, h \in Handles : handles'[h] = Port(q) => handles[h] = Port(q) /\ h # hPort[r]
        BY <3>1, ObjectsDiffer
      <4>2. \A q \in Regs, h \in Handles : handles'[h] = Port(q) => q # r
        BY <4>1 DEF ContractInv, PortsRegistered
      <4> QED
        BY <2>2, <4>1, <4>2 DEF ContractInv, PortsRegistered
    <3>4. \A c \in Calls : conn[c] = "pending" /\ conn'[c] = "closed" => dest[c] = r
      BY <2>2, ObjectsDiffer DEF CloseHandles
    <3> QED
      BY <2>2, <3>2, <3>3, <3>4
  <2>3. CASE StartWaitThread(r)
    <3>1. hPort[r] \in Handles /\ handles[hPort[r]] = Port(r) /\ api[r] = "created" /\ UNCHANGED <<hPort, name>>
      BY <2>3 DEF StartWaitThread, PortsHeld
    <3>2. CASE api' = [api EXCEPT ![r] = "registered"] /\ UNCHANGED <<handles, conn>>
      <4>1. PortsOwn' /\ PortsRegistered'
        BY <3>1, <3>2 DEF ContractInv, PortsOwn, PortsRegistered, TypeOK
      <4> QED
        BY <3>1, <3>2, <4>1 DEF TypeOK
    <3>3. CASE api' = [api EXCEPT ![r] = "NO_MEMORY"] /\ CloseHandles({hPort[r]})
      BY <2>2, <3>1, <3>3 DEF CloseHandles, TypeOK
    <3> QED
      BY <2>3, <3>2, <3>3 DEF StartWaitThread
  <2>4. CASE SetCloseEvent(r)
    <3>1. UNCHANGED <<handles, conn, hPort, name>> /\ api[r] = "registered" /\ api' = [api EXCEPT ![r] = "closing"]
      BY <2>4 DEF SetCloseEvent
    <3>2. PortsOwn' /\ PortsRegistered'
      BY <3>1 DEF ContractInv, PortsOwn, PortsRegistered, TypeOK
    <3> QED
      BY <3>1, <3>2 DEF TypeOK
  <2>5. CASE ClosePort(r)
    <3>1. api[r] = "closing" /\ wait[r] # "exited"
      BY <2>5 DEF ClosePort, ListensWhileOpen
    <3>2. hPort[r] \in Handles /\ handles[hPort[r]] = Port(r)
      BY <3>1 DEF PortsHeld
    <3>3. CloseHandles({hPort[r]}) /\ UNCHANGED <<hPort, name>> /\ api' = [api EXCEPT ![r] = "unregistered"]
      BY <2>5, <3>1, <3>2, ObjectsDiffer DEF ClosePort, PortRead, IsOpen
    <3> QED
      BY <2>2, <3>1, <3>2, <3>3 DEF CloseHandles, TypeOK
  <2> QED
    BY <2>1, <2>3, <2>4, <2>5
<1>8. RoutedByName'
  <2>1. ASSUME NEW c \in Calls, conn'[c] = "pending" \/ (conn'[c] = "closed" /\ call'[c] = "connecting")
        PROVE  dest[c] \in Regs /\ hPort'[dest[c]] # None /\ name'[dest[c]] = args[c].name
    <3>1. conn[c] = "pending" \/ (conn[c] = "closed" /\ call[c] = "connecting")
      BY <1>1, <2>1
    <3> QED
      BY <1>7, <3>1 DEF ContractInv, RoutedByName
  <2>2. \A c \in Calls : conn'[c] = "closed" /\ call'[c] = "connecting" => api'[dest[c]] \in {"unregistered", "NO_MEMORY"}
    BY <1>1, <1>7 DEF ContractInv, RoutedByName
  <2>3. \A c \in Calls, q \in Regs : hPort[q] # None /\ RightName(q, c) => hPort'[q] # None /\ RightName(q, c)'
    BY <1>2, <1>7 DEF RightName
  <2>4. \A c \in Calls : worker[c] # "none" => hPort'[routine[c]] # None /\ RightName(routine[c], c)'
    <3>1. \A c \in Calls : worker[c] # "none" => routine[c] \in Regs /\ hPort[routine[c]] # None /\ RightName(routine[c], c)
      BY DEF ContractInv, RoutedByName, CallInv, WorkerChecked
    <3> QED
      BY <1>2, <2>3, <3>1 DEF RightName
  <2>5. \A q \in Regs : Serving(q)' => hPort'[q] # None /\ RightName(q, current[q])'
    <3>1. \A q \in Regs : Serving(q) => current[q] \in Calls /\ hPort[q] # None /\ RightName(q, current[q])
      BY DEF ServesCall, ContractInv, RoutedByName
    <3> QED
      BY <1>1, <1>4, <2>3, <3>1 DEF RightName
  <2> QED
    BY <1>1, <1>2, <2>1, <2>2, <2>4, <2>5 DEF RoutedByName, RightName
<1> QED
  BY <1>5, <1>6, <1>7, <1>8 DEF ContractInv

(* A client goes through its call in order, and returns what it was told.  *)
LEMMA ClientContract ==
  ASSUME Base, ContractInv, NEW c \in Calls,
         \/ \E n \in Names, s \in Shapes, nullArg \in BOOLEAN : BeginCall(c, n, s, nullArg)
         \/ ClientStep(c) \/ Die(c)
  PROVE  ContractInv'
<1> USE DEF Base, IInv
<1>1. UNCHANGED <<handles, api, hPort, hClientProcess, hServerPort, worker, client_id_list, wait, current>>
  BY ClientEffect
<1>2. UNCHANGED <<name, routine, reply, ran>>
  BY DEF BeginCall, ClientStep, Connect, ConnectReturns, Request, RequestReturns, Reply, CloseAndReturn, Die,
         apiVars, paramVars, workerVars
<1>3. \A d \in Calls \ {c} :
        /\ conn'[d] = conn[d] /\ call'[d] = call[d] /\ dest'[d] = dest[d] /\ args'[d] = args[d]
        /\ result'[d] = result[d] /\ serviceStatus'[d] = serviceStatus[d]
  BY DEF BeginCall, ClientStep, Connect, ConnectReturns, Request, RequestReturns, Reply, CloseAndReturn, Die,
         Return, clientVars, TypeOK
<1>4. \/ /\ call[c] = "idle" /\ call'[c] \in {"NtConnectPort", "returned"} /\ UNCHANGED <<conn, dest, serviceStatus>>
         /\ call'[c] = "NtConnectPort" => result'[c] = result[c]
      \/ /\ call[c] = "NtConnectPort" /\ call'[c] = "connecting" /\ conn'[c] = "pending"
         /\ dest'[c] \in PortNamed(args[c].name) /\ UNCHANGED <<args, result, serviceStatus>>
      \/ call[c] = "NtConnectPort" /\ call'[c] = "returned" /\ UNCHANGED <<conn, dest, args, serviceStatus>>
      \/ /\ call[c] = "connecting" /\ conn[c] = "connected" /\ call'[c] = "request"
         /\ UNCHANGED <<conn, dest, args, result, serviceStatus>>
      \/ /\ call[c] = "connecting" /\ conn[c] \in {"refused", "closed"} /\ call'[c] = "returned"
         /\ UNCHANGED <<conn, dest, args, serviceStatus>>
      \/ /\ call[c] = "request" /\ call'[c] = "waiting"
         /\ conn'[c] = (IF conn[c] = "connected" THEN "requested" ELSE conn[c])
         /\ UNCHANGED <<dest, args, result, serviceStatus>>
      \/ /\ call[c] = "waiting" /\ conn[c] = "closed" /\ call'[c] = "NtReplyPort"
         /\ UNCHANGED <<conn, dest, args>>
      \/ /\ call[c] = "waiting" /\ conn[c] = "replied" /\ call'[c] = "NtReplyPort"
         /\ result'[c] = "STATUS_SUCCESS" /\ serviceStatus'[c] = reply[c] /\ UNCHANGED <<conn, dest, args>>
      \/ /\ call[c] = "NtReplyPort" /\ call'[c] = "NtClose"
         /\ conn'[c] = (IF conn[c] = "replied" THEN "acked" ELSE conn[c])
         /\ UNCHANGED <<dest, args, result, serviceStatus>>
      \/ /\ call[c] = "NtClose" /\ call'[c] = "returned" /\ conn'[c] = "closed"
         /\ UNCHANGED <<dest, args, result, serviceStatus>>
      \/ /\ call'[c] = "dead" /\ conn'[c] = (IF conn[c] \in {"none", "pending"} THEN conn[c] ELSE "closed")
         /\ UNCHANGED <<dest, args, result, serviceStatus>>
  BY DEF BeginCall, ClientStep, Connect, ConnectReturns, Request, RequestReturns, Reply, CloseAndReturn, Die,
         Return, ClientAt, TypeOK
<1>5. \A r \in Regs : Serving(r) => current[r] \in Calls /\ conn[current[r]] \notin {"none", "pending"}
  BY BaseHeld, ServedFacts
<1>6. call[c] # "dead" /\ (call[c] = "idle" => conn[c] = "none" /\ worker[c] = "none")
  BY DEF BeginCall, ClientStep, Connect, ConnectReturns, Request, RequestReturns, Reply, CloseAndReturn, Die,
         ClientAt, InCall, ContractInv, InStep
<1>7. InStep'
  <2>1. /\ call[c] \in {"idle", "NtConnectPort"} => conn[c] = "none" /\ worker[c] = "none"
        /\ call[c] = "connecting" => worker[c] = "none"
        /\ call[c] = "request" => conn[c] = "connected" /\ worker[c] = "none"
        /\ call[c] = "waiting" => conn[c] # "closed" /\ (conn[c] = "replied" => worker[c] = "waitReply")
        /\ call[c] = "NtReplyPort" => conn[c] = "replied" /\ worker[c] = "waitReply"
        /\ call[c] = "NtClose" => worker[c] \in {"waitReply", "erase", "close", "exited"}
    BY DEF ContractInv, InStep
  <2>2. /\ call'[c] \in {"idle", "NtConnectPort"} => conn'[c] = "none" /\ worker[c] = "none"
        /\ call'[c] = "connecting" => conn'[c] = "pending" /\ worker[c] = "none"
        /\ call'[c] = "request" => conn'[c] = "connected" /\ worker[c] = "none"
        /\ call'[c] = "waiting" => conn'[c] = "requested" /\ worker[c] = "none"
        /\ call'[c] = "NtReplyPort" => conn'[c] = "replied" /\ worker[c] = "waitReply"
        /\ call'[c] = "NtClose" =>
             conn'[c] = "acked" /\ worker[c] \in {"waitReply", "erase", "close", "exited"}
        /\ call'[c] = "returned" =>
             /\ conn'[c] \in {"none", "refused", "closed"}
             /\ worker[c] \in {"none", "waitReply", "erase", "close", "exited"}
    BY <1>4, <1>6, <2>1
  <2>3. ASSUME NEW r \in Regs, wait[r] = "CreateThread"
        PROVE  conn'[current[r]] = "serving" \/ call'[current[r]] = "dead"
    <3>1. current[r] \in Calls /\ (conn[current[r]] = "serving" \/ call[current[r]] = "dead")
      BY <1>5, <2>3 DEF ContractInv, InStep, Serving
    <3>2. CASE current[r] = c
      <4>1. conn[c] = "serving" => call[c] = "waiting"
        BY <1>6 DEF ContractInv, InStep, TypeOK, ClientStates
      <4> QED
        BY <1>4, <1>6, <3>1, <3>2, <4>1
    <3> QED
      BY <1>3, <3>1, <3>2
  <2> QED
    BY <1>1, <1>3, <2>2, <2>3 DEF ContractInv, InStep
<1>8. PortsOwn' /\ PortsRegistered'
  BY <1>1, PortsFrame DEF ContractInv
<1>9. RoutedByName'
  <2>1. ASSUME NEW d \in Calls, conn'[d] = "pending" \/ (conn'[d] = "closed" /\ call'[d] = "connecting")
        PROVE  /\ dest'[d] \in Regs /\ hPort[dest'[d]] # None /\ name[dest'[d]] = args'[d].name
               /\ conn'[d] = "closed" /\ call'[d] = "connecting" => api[dest'[d]] \in {"unregistered", "NO_MEMORY"}
    <3>1. CASE d # c \/ call'[c] = "dead"
      <4>1. /\ dest'[d] = dest[d] /\ args'[d] = args[d]
            /\ conn[d] = "pending" \/ (conn[d] = "closed" /\ call[d] = "connecting")
            /\ conn'[d] = "closed" /\ call'[d] = "connecting" => conn[d] = "closed" /\ call[d] = "connecting"
        BY <1>3, <1>4, <1>6, <2>1, <3>1
      <4> QED
        BY <4>1 DEF ContractInv, RoutedByName
    <3>2. CASE d = c /\ call'[c] # "dead"
      <4>1. call[c] = "NtConnectPort" /\ conn'[c] = "pending" /\ dest'[c] \in PortNamed(args[c].name) /\ UNCHANGED args
        <5>1. conn'[c] = "pending" => call'[c] = "connecting"
          <6>1. call'[c] \in ClientStates
            BY ClientType DEF TypeOK
          <6> QED
            BY <1>7, <3>2, <6>1 DEF InStep, ClientStates
        <5> QED
          BY <1>4, <2>1, <3>2, <5>1
      <4>2. dest'[c] \in Regs /\ name[dest'[c]] = args[c].name /\ \E h \in Handles : handles[h] = Port(dest'[c])
        BY <4>1 DEF PortNamed, PortIsOpen
      <4>3. hPort[dest'[c]] # None
        BY <4>2, HandleAssumption DEF ContractInv, PortsRegistered
      <4> QED
        BY <3>2, <4>1, <4>2, <4>3
    <3> QED
      BY <3>1, <3>2
  <2>2. \A d \in Calls : conn[d] # "none" \/ worker[d] # "none" => args'[d] = args[d]
    BY <1>3, <1>4, <1>6
  <2>3. \A d \in Calls : worker[d] # "none" => hPort[routine[d]] # None /\ RightName(routine[d], d)'
    BY <1>1, <1>2, <2>2 DEF ContractInv, RoutedByName, RightName
  <2>4. \A r \in Regs : Serving(r) => hPort[r] # None /\ RightName(r, current[r])'
    BY <1>1, <1>2, <1>5, <2>2 DEF ContractInv, RoutedByName, RightName
  <2> QED
    BY <1>1, <1>2, <2>1, <2>3, <2>4 DEF RoutedByName, RightName, Serving
<1>10. AnswersTell'
  <2>1. /\ call'[c] \in {"idle", "NtConnectPort", "connecting", "request", "waiting"} =>
             result'[c] = None /\ serviceStatus'[c] = None
        /\ call'[c] \in {"NtReplyPort", "NtClose"} => result'[c] = "STATUS_SUCCESS" /\ serviceStatus'[c] = reply[c]
    BY <1>4, <1>6 DEF ContractInv, AnswersTell, InStep
  <2> QED
    BY <1>1, <1>2, <1>3, <2>1 DEF ContractInv, AnswersTell, ReplyTells
<1> QED
  BY <1>7, <1>8, <1>9, <1>10 DEF ContractInv

(* A worker replies what it did, once, while its client waits for it.      *)
LEMMA WorkerContract ==
  ASSUME Base, ContractInv, NEW c \in Calls, WorkerStep(c)
  PROVE  ContractInv'
<1> USE DEF Base, IInv, Moves, apiVars, waitVars, paramVars, clientVars
<1>1. /\ UNCHANGED <<api, hPort, name, wait, current, dest, routine, call, args, result, serviceStatus>>
      /\ worker[c] # "none" /\ worker'[c] # "none"
      /\ \A d \in Calls \ {c} : worker'[d] = worker[d] /\ reply'[d] = reply[d] /\ ran'[d] = ran[d]
  BY DEF WorkerStep, EnterClientId, MapParameters, EnterRoutine, LeaveRoutine, SyncParameters, SendReply,
         ReplyReturns, EraseClientId, ExitWorker, TypeOK
<1>2. \A q \in Regs : Serving(q) => current[q] \in Calls \ {c}
  BY <1>1, BaseHeld, ServedFacts
<1>3. routine[c] \in Regs
  BY <1>1 DEF CallInv, WorkerChecked
<1>4. \/ /\ worker[c] \in {"start"} /\ worker'[c] = "map" /\ UNCHANGED <<handles, conn, reply, ran>>
      \/ /\ worker[c] = "map" /\ worker'[c] = "run" /\ UNCHANGED <<handles, conn, reply, ran>>
      \/ /\ worker[c] = "map" /\ worker'[c] = "reply" /\ reply'[c] = "STATUS_INVALID_PARAMETER"
         /\ UNCHANGED <<handles, conn, ran>>
      \/ /\ worker[c] = "run" /\ worker'[c] = "running" /\ ran'[c] = routine[c] /\ UNCHANGED <<handles, conn, reply>>
      \/ /\ worker[c] = "running" /\ worker'[c] = "sync" /\ reply'[c] = routine[c] /\ UNCHANGED <<handles, conn, ran>>
      \/ /\ worker[c] = "sync" /\ worker'[c] = "reply" /\ reply'[c] \in {reply[c], "STATUS_ACCESS_DENIED"}
         /\ UNCHANGED <<handles, conn, ran>>
      \/ /\ worker[c] = "reply" /\ worker'[c] = "waitReply" /\ UNCHANGED <<handles, reply, ran>>
         /\ conn' = [conn EXCEPT ![c] = IF @ = "serving" THEN "replied" ELSE @]
      \/ /\ worker[c] = "waitReply" /\ worker'[c] = "erase" /\ UNCHANGED <<handles, conn, reply, ran>>
         /\ conn[c] \in {"acked", "closed"}
      \/ /\ worker[c] = "erase" /\ worker'[c] = "close" /\ UNCHANGED <<handles, conn, reply, ran>>
      \/ worker[c] = "close" /\ worker'[c] = "exited" /\ ExitWorker(c)
  BY DEF WorkerStep, EnterClientId, MapParameters, EnterRoutine, LeaveRoutine, SyncParameters, SendReply,
         ReplyReturns, EraseClientId, ExitWorker, TypeOK
<1>5. /\ \A d \in Calls \ {c} : conn'[d] = conn[d]
      /\ \A h \in Handles : handles'[h] \in {handles[h], Closed}
      /\ ExitWorker(c) => conn'[c] \in {conn[c], "closed"} /\ UNCHANGED <<reply, ran>>
  <2>1. CASE ExitWorker(c)
    <3> DEFINE hs == {hClientProcess[c], hServerPort[c]}
    <3>1. handles' = Closing(handles, hs) /\ UNCHANGED <<reply, ran>>
      BY <2>1 DEF ExitWorker, CloseHandles
    <3>2. \A d \in Calls : conn'[d] =
            IF \/ conn[d] = "pending" /\ \E h \in hs : IsOpen(handles, h) /\ handles[h] = Port(dest[d])
               \/ conn[d] # "none" /\ \E h \in hs : IsOpen(handles, h) /\ handles[h] = Comm(d)
            THEN "closed" ELSE conn[d]
      BY <2>1 DEF ExitWorker, CloseHandles
    <3>3. ASSUME NEW h \in hs, IsOpen(handles, h)
          PROVE  handles[h] \in {Process(c), Process(None), Comm(c)}
      <4>1. h # None
        BY <3>3, HandleAssumption DEF IsOpen
      <4>2. CASE h = hClientProcess[c]
        BY <4>1, <4>2 DEF HeldHandlesValid
      <4>3. CASE h = hServerPort[c]
        BY <4>1, <4>3 DEF HeldHandlesValid
      <4> QED
        BY <3>3, <4>2, <4>3
    <3>4. \A h \in Handles : handles'[h] \in {handles[h], Closed}
      BY <3>1, ClosingAdds
    <3>5. \A h \in hs : IsOpen(handles, h) =>
            /\ \A r : handles[h] # Port(r)
            /\ \A d \in Calls \ {c} : handles[h] # Comm(d)
      BY <3>3, ObjectsDiffer
    <3> QED
      BY <3>1, <3>2, <3>4, <3>5
  <2>2. CASE ~ ExitWorker(c)
    BY <1>4, <2>2 DEF TypeOK
  <2> QED
    BY <2>1, <2>2
<1>6. /\ call[c] \in {"waiting", "NtReplyPort", "NtClose", "returned", "dead"}
      /\ worker[c] \in {"start", "map", "run", "running", "sync", "reply"} =>
           call[c] = "dead" \/ (call[c] = "waiting" /\ conn[c] = "serving")
      /\ worker[c] \in {"erase", "close"} => call[c] \in {"NtClose", "returned", "dead"}
      /\ conn[c] \in {"acked", "closed"} => call[c] \in {"NtClose", "returned", "dead"}
  BY <1>1 DEF ContractInv, InStep, TypeOK, ClientStates
<1>7. InStep'
  <2>1. \/ call[c] = "dead"
        \/ /\ call[c] = "waiting" /\ conn'[c] = "serving"
           /\ worker'[c] \in {"start", "map", "run", "running", "sync", "reply"}
        \/ call[c] = "waiting" /\ conn'[c] = "replied" /\ worker'[c] = "waitReply"
        \/ /\ call[c] \in {"NtClose", "returned"} /\ conn'[c] \in {conn[c], "closed"}
           /\ worker'[c] \in {"waitReply", "erase", "close", "exited"}
    BY <1>4, <1>5, <1>6 DEF TypeOK
  <2>2. \A r \in Regs : wait[r] = "CreateThread" => conn'[current[r]] = "serving" \/ call[current[r]] = "dead"
    BY <1>2, <1>5 DEF ContractInv, InStep, Serving
  <2> QED
    BY <1>1, <1>5, <2>1, <2>2 DEF ContractInv, InStep
<1>8. PortsOwn' /\ PortsRegistered'
  BY <1>1, <1>5, PortsFrame DEF ContractInv
<1>9. RoutedByName'
  <2>1. \A d \in Calls : conn'[d] = "pending" \/ (conn'[d] = "closed" /\ call[d] = "connecting") => conn'[d] = conn[d]
    BY <1>4, <1>5, <1>6 DEF TypeOK
  <2> QED
    BY <1>1, <2>1 DEF ContractInv, RoutedByName, RightName, Serving
<1>10. AnswersTell'
  <2>1. /\ worker'[c] \in {"none", "start", "map", "run"} => ran'[c] = None
        /\ worker'[c] \in {"running", "sync"} => ran'[c] = routine[c]
        /\ worker'[c] = "sync" => reply'[c] = routine[c]
        /\ worker'[c] \in {"reply", "waitReply", "erase", "close", "exited"} =>
             ReplyTells(c)' /\ ran'[c] \in {None, routine[c]}
    <3>1. routine[c] # None
      BY <1>3, ServiceAssumption
    <3> QED
      BY <1>1, <1>4, <1>5, <3>1 DEF ContractInv, AnswersTell, ReplyTells
  <2>2. call[c] \in {"NtReplyPort", "NtClose"} => reply'[c] = reply[c]
    BY <1>4, <1>5, <1>6
  <2> QED
    BY <1>1, <2>1, <2>2 DEF ContractInv, AnswersTell, ReplyTells
<1> QED
  BY <1>7, <1>8, <1>9, <1>10 DEF ContractInv

(* A wait thread takes calls for its own registration, and changes nothing *)
(* but their connections.                                                  *)
LEMMA WaitThreadContract ==
  ASSUME ~ SpuriousListen, Base, ContractInv, NEW r \in Regs, WaitThreadStep(r)
  PROVE  ContractInv'
<1> DEFINE c == current[r]
<1> USE DEF Base, IInv, WaitAt, Goto, apiVars, paramVars, workerVars, clientVars
<1>1. UNCHANGED <<api, hPort, name, call, dest, args, result, serviceStatus, reply, ran>>
  BY DEF WaitThreadStep, Listen, CheckCloseEvent, OpenClientProcess, Refuse, Accept, Complete, Receive, DropParam,
         CreateWorker
<1>2. PortsOwn' /\ PortsRegistered'
  <2>1. ASSUME NEW h \in Candidates(handles), NEW o, handles' = Opened(handles, h, o), \A q \in Regs : o # Port(q)
        PROVE  PortsOwn' /\ PortsRegistered'
    <3>1. h \in Handles /\ (Recycle \/ handles[h] = Unused)
      BY FreshCandidate, CandidatesFree
    <3>2. \A g \in Handles :
            \/ handles'[g] = handles[g]
            \/ (Recycle \/ handles[g] = Unused) /\ \A q \in Regs : handles'[g] # Port(q)
      BY <2>1, <3>1 DEF Opened, TypeOK
    <3> QED
      BY <1>1, <3>2, PortsFrame DEF ContractInv
  <2>2. CASE UNCHANGED handles
    BY <1>1, <2>2, PortsFrame DEF ContractInv
  <2>3. CASE handles' = Closing(handles, {hClientProcess[c]})
    BY <1>1, <2>3, ClosingAdds, PortsFrame DEF ContractInv
  <2>4. CASE OpenClientProcess(r)
    <3>1. \A q \in Regs : ProcessByNumber(c) # Port(q)
      BY ObjectsDiffer DEF ProcessByNumber
    <3> QED
      BY <2>1, <2>2, <2>4, <3>1 DEF OpenClientProcess
  <2>5. CASE Accept(r)
    BY <2>1, <2>2, <2>5, ObjectsDiffer DEF Accept
  <2> QED
    BY <2>2, <2>3, <2>4, <2>5 DEF WaitThreadStep, Listen, CheckCloseEvent, Refuse, Complete, Receive, DropParam,
                               CreateWorker
(* The number it listens to is its port's, but for a closed one's.         *)
<1>3. wait[r] # "none" =>
        /\ hPort[r] # None
        /\ handles[hPort[r]].kind = "port" =>
             handles[hPort[r]].id = r \/ (Recycle /\ api[r] = "unregistered")
  <2>1. wait[r] # "none" =>
          /\ hPort[r] # None
          /\ handles[hPort[r]] \in {Port(r), Closed} \/ (Recycle /\ api[r] = "unregistered")
    BY HandleAssumption DEF ContractInv, PortsOwn, ListensWhileOpen, PortsHeld
  <2> QED
    BY <2>1 DEF Port, Closed
<1>4. CASE Listen(r) \/ CheckCloseEvent(r)
  <2>1. /\ UNCHANGED <<worker, routine>>
        /\ \A q \in Regs \ {r} : wait'[q] = wait[q] /\ current'[q] = current[q]
    BY <1>4 DEF Listen, CheckCloseEvent, TypeOK
  <2>2. AnswersTell'
    BY <1>1, <2>1 DEF ContractInv, AnswersTell, ReplyTells
  <2>3. CASE UNCHANGED <<conn, current>> /\ wait'[r] \in {"CloseEvent", "exited", "NtListenPort"}
    <3>1. InStep'
      BY <1>1, <2>1, <2>3 DEF ContractInv, InStep
    <3>2. RoutedByName'
      BY <1>1, <2>1, <2>3 DEF ContractInv, RoutedByName, RightName, Serving
    <3> QED
      BY <1>2, <2>2, <3>1, <3>2 DEF ContractInv
  <2>4. ASSUME NEW d \in Calls, conn[d] = "pending", wait[r] # "none",
               dest[d] = r \/ (Recycle /\ api[r] = "unregistered"),
               wait'[r] = "OpenProcess", current'[r] = d,
               conn' = [conn EXCEPT ![d] = IF call[d] = "dead" THEN "closed" ELSE "received"]
        PROVE  ContractInv'
    <3>1. /\ \A e \in Calls \ {d} : conn'[e] = conn[e]
          /\ conn'[d] = (IF call[d] = "dead" THEN "closed" ELSE "received")
      BY <2>4 DEF TypeOK
    <3>2. call[d] = "dead" \/ (call[d] = "connecting" /\ worker[d] = "none")
      BY <2>4 DEF ContractInv, InStep, TypeOK, ClientStates
    <3>3. \A q \in Regs \ {r} : Serving(q) => current[q] \in Calls \ {d}
      BY <2>4, BaseHeld, ServedFacts
    <3>4. InStep'
      <4>1. \A q \in Regs : wait'[q] = "CreateThread" => conn'[current'[q]] = "serving" \/ call[current'[q]] = "dead"
        BY <2>1, <2>4, <3>1, <3>3 DEF ContractInv, InStep, Serving
      <4> QED
        BY <1>1, <2>1, <3>1, <3>2, <4>1 DEF ContractInv, InStep
    <3>5. RoutedByName'
      <4>1. hPort[r] # None /\ RightName(r, d)
        BY <1>3, <2>4 DEF ContractInv, RoutedByName, RightName
      <4>2. \A q \in Regs : Serving(q)' => hPort[q] # None /\ RightName(q, current'[q])
        BY <2>1, <2>4, <4>1 DEF ContractInv, RoutedByName, Serving
      <4>3. \A e \in Calls : conn'[e] = "closed" /\ call[e] = "connecting" => conn[e] = "closed"
        BY <3>1, <3>2
      <4>4. \A e \in Calls : conn'[e] = "pending" => conn[e] = "pending"
        BY <3>1
      <4> QED
        BY <1>1, <2>1, <4>2, <4>3, <4>4 DEF ContractInv, RoutedByName, RightName
    <3> QED
      BY <1>2, <2>2, <3>4, <3>5 DEF ContractInv
  <2>5. CASE Listen(r) /\ ~ UNCHANGED current
    <3>1. PICK d \in Calls : /\ handles[hPort[r]].kind = "port" /\ conn[d] = "pending" /\ dest[d] = handles[hPort[r]].id
                             /\ conn' = [conn EXCEPT ![d] = IF call[d] = "dead" THEN "closed" ELSE "received"]
                             /\ current' = [current EXCEPT ![r] = d] /\ wait' = [wait EXCEPT ![r] = "OpenProcess"]
                             /\ wait[r] = "NtListenPort"
      BY <2>5 DEF Listen
    <3> QED
      BY <1>3, <2>4, <3>1 DEF TypeOK
  <2> QED
    BY <1>3, <1>4, <2>3, <2>4, <2>5 DEF Listen, CheckCloseEvent, TypeOK
<1>5. CASE Serving(r)
  <2>1. /\ c \in Calls /\ current'[r] = c /\ worker[c] = "none" /\ conn[c] \notin {"none", "pending"}
        /\ \A d \in Calls \ {c} : conn'[d] = conn[d] /\ worker'[d] = worker[d]
    BY <1>5, BaseHeld, WaitEffect
  <2>2. ASSUME NEW q \in Regs \ {r}
        PROVE  wait'[q] = wait[q] /\ current'[q] = current[q] /\ (Serving(q) => current[q] \in Calls \ {c})
    BY <1>5, BaseHeld, WaitEffect
  <2>3. hPort[r] # None /\ RightName(r, c)
    BY <1>5 DEF ContractInv, RoutedByName
  <2>4. \/ UNCHANGED <<conn, worker>> /\ wait'[r] # "CreateThread"
        \/ conn[c] = "received" /\ conn'[c] \in {"refused", "accepted"} /\ UNCHANGED worker /\ wait'[r] # "CreateThread"
        \/ conn[c] = "accepted" /\ conn'[c] = "connected" /\ UNCHANGED worker /\ wait'[r] # "CreateThread"
        \/ conn[c] = "requested" /\ conn'[c] = "serving" /\ UNCHANGED worker
        \/ wait[r] = "CreateThread" /\ worker'[c] = "start" /\ UNCHANGED conn /\ wait'[r] # "CreateThread"
    BY <1>5, <2>1 DEF WaitThreadStep, Listen, CheckCloseEvent, OpenClientProcess, Refuse, Accept, Complete, Receive,
                      DropParam, CreateWorker, Serving, TypeOK
  <2>5. InStep'
    <3>1. wait[r] = "CreateThread" => call[c] = "dead" \/ (call[c] = "waiting" /\ conn[c] = "serving")
      BY <2>1 DEF ContractInv, InStep, TypeOK, ClientStates
    <3>2. \A q \in Regs : wait'[q] = "CreateThread" => conn'[current'[q]] = "serving" \/ call[current'[q]] = "dead"
      BY <2>1, <2>2, <2>4 DEF ContractInv, InStep, Serving
    <3>3. \/ call[c] = "dead"
          \/ call[c] = "connecting" /\ conn'[c] \in {conn[c], "refused", "accepted", "connected"} /\ worker'[c] = "none"
          \/ call[c] \in {"waiting"} /\ conn'[c] = "serving" /\ worker'[c] \in {"none", "start"}
          \/ conn'[c] = conn[c] /\ worker'[c] = worker[c]
      BY <2>1, <2>4, <3>1 DEF ContractInv, InStep, TypeOK, ClientStates
    <3> QED
      BY <1>1, <2>1, <3>2, <3>3 DEF ContractInv, InStep
  <2>6. RoutedByName'
    <3>1. \A d \in Calls : conn'[d] \in {"pending", "closed"} => conn'[d] = conn[d]
      BY <2>1, <2>4
    <3>2. routine'[c] = r \/ UNCHANGED routine
      BY <1>5, <2>1 DEF WaitThreadStep, Listen, CheckCloseEvent, OpenClientProcess, Refuse, Accept, Complete, Receive,
                        DropParam, CreateWorker, Serving, TypeOK
    <3>3. \A d \in Calls \ {c} : routine'[d] = routine[d]
      BY <1>5, <2>1 DEF WaitThreadStep, Listen, CheckCloseEvent, OpenClientProcess, Refuse, Accept, Complete, Receive,
                        DropParam, CreateWorker, Serving, TypeOK
    <3>4. worker'[c] # "none" => routine'[c] = r
      BY <2>1, <2>4, <3>2 DEF CallInv, BufferChecked, WaitThreadStep, Listen, CheckCloseEvent, OpenClientProcess, Refuse,
                        Accept, Complete, Receive, DropParam, CreateWorker
    <3>5. \A q \in Regs : Serving(q)' => hPort[q] # None /\ RightName(q, current'[q])
      BY <2>1, <2>2, <2>3 DEF ContractInv, RoutedByName, Serving
    <3>6. \A d \in Calls : worker'[d] # "none" => hPort[routine'[d]] # None /\ RightName(routine'[d], d)
      BY <2>1, <2>3, <3>3, <3>4 DEF ContractInv, RoutedByName
    <3> QED
      BY <1>1, <3>1, <3>5, <3>6 DEF ContractInv, RoutedByName, RightName
  <2>7. AnswersTell'
    <3>1. worker'[c] \in {"none", "start"}
      BY <2>1, <2>4
    <3>2. \A d \in Calls \ {c} : routine'[d] = routine[d]
      BY <1>5, <2>1 DEF WaitThreadStep, Listen, CheckCloseEvent, OpenClientProcess, Refuse, Accept, Complete, Receive,
                        DropParam, CreateWorker, Serving, TypeOK
    <3> QED
      BY <1>1, <2>1, <3>1, <3>2 DEF ContractInv, AnswersTell, ReplyTells
  <2> QED
    BY <1>2, <2>5, <2>6, <2>7 DEF ContractInv
<1> QED
  BY <1>4, <1>5 DEF WaitThreadStep, OpenClientProcess, Refuse, Accept, Complete, Receive, DropParam, CreateWorker, Serving

(* At first nobody has registered or called.                               *)
LEMMA InitContract == Init => ContractInv
<1> SUFFICES ASSUME Init PROVE ContractInv
  OBVIOUS
<1>1. InStep /\ AnswersTell
  BY DEF Init, InStep, AnswersTell
<1>2. PortsOwn /\ PortsRegistered
  BY DEF Init, PortsOwn, PortsRegistered, Unused, Port
<1>3. RoutedByName
  BY DEF Init, RoutedByName, Serving
<1> QED
  BY <1>1, <1>2, <1>3 DEF ContractInv

(* One lemma per family of steps, together.                                *)
LEMMA NextContract ==
  ASSUME ~ SpuriousListen, Base, ContractInv, [Next]_vars
  PROVE  ContractInv'
<1>1. CASE UNCHANGED vars
  BY <1>1 DEF vars, apiVars, waitVars, paramVars, workerVars, clientVars, ContractInv, InStep, PortsOwn,
              PortsRegistered, RoutedByName, RightName, AnswersTell, ReplyTells, Serving
<1>2. CASE Next /\ ~ Finished
  BY <1>2, BaseHeld, RegistrationContract, WaitThreadContract, WorkerContract, ClientContract DEF Next
<1> QED
  BY <1>1, <1>2 DEF Finished

-----------------------------------------------------------------------------
(* Every API step opens a service, closes one, or shows nothing.           *)
LEMMA RegistrationRefines ==
  ASSUME ~ SpuriousListen, Base, ContractInv, ContractInv', NEW r \in Regs,
         \/ \E n \in Names, s \in Shapes : CreatePort(r, n, s)
         \/ StartWaitThread(r) \/ SetCloseEvent(r) \/ ClosePort(r)
  PROVE  Contract!Next \/ UNCHANGED Contract!vars
<1> USE DEF Base, IInv, waitVars, paramVars, workerVars, clientVars
<1>1. UNCHANGED <<call, args, ran, result, serviceStatus>>
  BY DEF CreatePort, StartWaitThread, SetCloseEvent, ClosePort
<1>2. UNCHANGED Contract!callVars
  BY <1>1 DEF Contract!callVars, InCall
<1>3. ASSUME NEW n \in Names, NEW s \in Shapes, CreatePort(r, n, s)
      PROVE  Contract!Next \/ UNCHANGED Contract!vars
  <2>1. /\ api[r] = "new" /\ hPort[r] = None
        /\ \A q \in Regs \ {r} : hPort'[q] = hPort[q] /\ name'[q] = name[q] /\ api'[q] = api[q] /\ shape'[q] = shape[q]
    BY <1>3 DEF CreatePort, ContractInv, PortsOwn, TypeOK
  <2>2. CASE UNCHANGED hPort /\ api'[r] \in {"INVALID_PARAMETER_3", "OBJECT_NAME_EXISTS"}
    BY <1>2, <2>1, <2>2 DEF Contract!vars
  <2>3. CASE \E h \in Candidates(handles) : /\ hPort' = [hPort EXCEPT ![r] = h] /\ api'[r] = "created"
                                          /\ PortNamed(n) = {} /\ RtlCaptureParameters(s) # None
    <3>1. hPort'[r] # None /\ name'[r] = n /\ shape'[r] = s
      BY <1>3, <2>3, CandidatesFree, HandleAssumption DEF CreatePort, TypeOK
    <3>2. Contract!OpenUnder(n) = {}
      <4>1. \A q \in Regs : api[q] \in {"created", "registered", "closing"} =>
              hPort[q] # None /\ (name[q] = n => q \in PortNamed(n))
        BY HandleAssumption DEF PortsHeld, PortNamed, PortIsOpen
      <4> QED
        BY <2>3, <4>1 DEF Contract!OpenUnder
    <3>3. s \in ValidShapes
      BY <2>3 DEF RtlCaptureParameters
    <3>4. Contract!Open(r, n, s)
      BY <1>2, <2>1, <2>3, <3>1, <3>2, <3>3 DEF Contract!Open
    <3> QED
      BY <3>4 DEF Contract!Next
  <2> QED
    BY <1>3, <2>2, <2>3 DEF CreatePort, TypeOK
<1>4. ASSUME UNCHANGED <<hPort, name, shape>>, \A q \in Regs \ {r} : api'[q] = api[q],
             api[r] \in {"created", "registered", "closing"},
             api'[r] \in {"created", "registered", "closing", "unregistered", "NO_MEMORY"}
      PROVE  Contract!Next \/ UNCHANGED Contract!vars
  <2>1. CASE api'[r] \in {"created", "registered", "closing"}
    BY <1>2, <1>4, <2>1 DEF Contract!vars
  <2>2. CASE api'[r] \in {"unregistered", "NO_MEMORY"}
    <3>1. Contract!Close(r)
      BY <1>2, <1>4, <2>2 DEF Contract!Close
    <3> QED
      BY <3>1 DEF Contract!Next
  <2> QED
    BY <1>4, <2>1, <2>2
<1>5. CASE StartWaitThread(r) \/ SetCloseEvent(r)
  BY <1>4, <1>5 DEF StartWaitThread, SetCloseEvent, TypeOK
<1>6. CASE ClosePort(r)
  <2>1. api[r] = "closing" /\ wait[r] # "exited"
    BY <1>6 DEF ClosePort, ListensWhileOpen
  <2>2. hPort[r] \in Handles /\ handles[hPort[r]] = Port(r)
    BY <2>1 DEF PortsHeld
  <2>3. UNCHANGED <<hPort, name, shape>> /\ api' = [api EXCEPT ![r] = "unregistered"]
    BY <1>6, <2>1, <2>2, ObjectsDiffer DEF ClosePort, PortRead, IsOpen
  <2> QED
    BY <1>4, <2>1, <2>3 DEF TypeOK
<1> QED
  BY <1>3, <1>5, <1>6

(* Wait threads and workers show nothing, but for the routine's run.       *)
LEMMA ThreadRefines ==
  ASSUME Base, ContractInv,
         \/ \E r \in Regs : WaitThreadStep(r)
         \/ \E c \in Calls : WorkerStep(c)
  PROVE  Contract!Next \/ UNCHANGED Contract!vars
<1> USE DEF Base, IInv, Moves, apiVars, waitVars, paramVars, workerVars, clientVars
<1>1. UNCHANGED <<api, hPort, name, shape, call, args, result, serviceStatus>>
  BY DEF WaitThreadStep, Listen, CheckCloseEvent, OpenClientProcess, Refuse, Accept, Complete, Receive, DropParam,
         CreateWorker, WorkerStep, EnterClientId, MapParameters, EnterRoutine, LeaveRoutine, SyncParameters, SendReply,
         ReplyReturns, EraseClientId, ExitWorker
<1>2. CASE UNCHANGED ran
  BY <1>1, <1>2 DEF Contract!vars, Contract!callVars, InCall
<1>3. ASSUME NEW c \in Calls, EnterRoutine(c)
      PROVE  Contract!Next
  <2> DEFINE r == routine[c]
  <2>1. worker[c] = "run" /\ ran' = [ran EXCEPT ![c] = r]
    BY <1>3 DEF EnterRoutine
  <2>2. r \in Regs /\ shape[r] = args[c].shape /\ hPort[r] # None /\ RightName(r, c) /\ ran[c] = None
    BY <2>1 DEF CallInv, WorkerChecked, ContractInv, RoutedByName, AnswersTell
  <2>3. call[c] \in {"waiting", "dead"}
    BY <2>1 DEF ContractInv, InStep, TypeOK, ClientStates
  <2>4. api[r] \in {"created", "registered", "closing", "unregistered", "NO_MEMORY"}
    <3>1. api[r] \notin {"new", "INVALID_PARAMETER_3", "OBJECT_NAME_EXISTS", "INVALID_PARAMETER"}
      BY <2>2 DEF ContractInv, PortsOwn
    <3> QED
      BY <2>2, <3>1 DEF TypeOK, ApiStates
  <2>5. Contract!Serves(r, c)
    <3>1. CASE name[r] = args[c].name
      <4>1. args[c] = [name |-> name[r], shape |-> shape[r]]
        BY <2>2, <3>1 DEF TypeOK
      <4> QED
        BY <2>2, <2>4, <4>1 DEF Contract!Serves
    <3>2. CASE Recycle /\ api[r] = "unregistered"
      BY <2>2, <3>2 DEF Contract!Serves
    <3> QED
      BY <2>2, <3>1, <3>2 DEF RightName
  <2>6. Contract!Run(c, r)
    BY <1>1, <2>1, <2>2, <2>3, <2>5 DEF Contract!Run, InCall
  <2> QED
    BY <2>2, <2>6 DEF Contract!Next
<1> QED
  BY <1>2, <1>3 DEF WaitThreadStep, Listen, CheckCloseEvent, OpenClientProcess, Refuse, Accept, Complete, Receive,
       DropParam, CreateWorker, WorkerStep, EnterClientId, MapParameters, LeaveRoutine, SyncParameters,
       SendReply, ReplyReturns, EraseClientId, ExitWorker

(* Every step of a client begins its call, ends it, or shows nothing.      *)
LEMMA ClientRefines ==
  ASSUME Base, ContractInv, NEW c \in Calls,
         \/ \E n \in Names, s \in Shapes, nullArg \in BOOLEAN : BeginCall(c, n, s, nullArg)
         \/ ClientStep(c) \/ Die(c)
  PROVE  Contract!Next \/ UNCHANGED Contract!vars
<1> USE DEF Base, IInv, apiVars, workerVars
<1>1. UNCHANGED <<api, hPort, name, shape, ran>>
  BY DEF BeginCall, ClientStep, Connect, ConnectReturns, Request, RequestReturns, Reply, CloseAndReturn, Die
<1>3. /\ call \in [Calls -> ClientStates] /\ call' \in [Calls -> ClientStates]
      /\ \A d \in Calls \ {c} :
           /\ call'[d] = call[d] /\ args'[d] = args[d] /\ result'[d] = result[d] /\ serviceStatus'[d] = serviceStatus[d]
  <2>1. call' \in [Calls -> ClientStates]
    BY ClientType DEF TypeOK
  <2> QED
    BY <2>1 DEF BeginCall, ClientStep, Connect, ConnectReturns, Request, RequestReturns, Reply, CloseAndReturn, Die,
                Return, clientVars, TypeOK
(* A step inside the call shows nothing.                                   *)
<1>4. ASSUME InCall(c), InCall(c)', UNCHANGED args
      PROVE  UNCHANGED Contract!vars
  BY <1>1, <1>3, <1>4 DEF Contract!vars, Contract!callVars, InCall, TypeOK
(* A call that fails has run nothing.                                      *)
<1>5. ASSUME NEW status, InCall(c), call'[c] = "returned", UNCHANGED <<args, serviceStatus>>, result'[c] = status,
             worker[c] = "none", serviceStatus[c] = None,
             \/ status = "STATUS_INVALID_PARAMETER_1" /\ PortNamed(args[c].name) = {}
             \/ status = "STATUS_INVALID_PARAMETER_2"
             \/ /\ status = "STATUS_UNSUCCESSFUL" /\ dest[c] \in Regs /\ hPort[dest[c]] # None
                /\ name[dest[c]] = args[c].name /\ api[dest[c]] \in {"unregistered", "NO_MEMORY"}
      PROVE  Contract!Next
  <2>1. ran[c] = None
    BY <1>5 DEF ContractInv, AnswersTell
  <2>2. \/ status = "STATUS_INVALID_PARAMETER_1" /\ Contract!OpenUnder(args[c].name) = {}
        \/ status = "STATUS_INVALID_PARAMETER_2"
        \/ status = "STATUS_UNSUCCESSFUL" /\ Contract!ClosedUnder(args[c].name) # {}
    <3>1. ASSUME PortNamed(args[c].name) = {}
          PROVE  Contract!OpenUnder(args[c].name) = {}
      <4>1. \A q \in Regs : api[q] \in {"created", "registered", "closing"} =>
              hPort[q] # None /\ (name[q] = args[c].name => q \in PortNamed(args[c].name))
        BY HandleAssumption DEF PortsHeld, PortNamed, PortIsOpen
      <4> QED
        BY <3>1, <4>1 DEF Contract!OpenUnder
    <3>2. ASSUME dest[c] \in Regs, hPort[dest[c]] # None, name[dest[c]] = args[c].name,
                 api[dest[c]] \in {"unregistered", "NO_MEMORY"}
          PROVE  Contract!ClosedUnder(args[c].name) # {}
      BY <3>2 DEF Contract!ClosedUnder
    <3> QED
      BY <1>5, <3>1, <3>2
  <2>3. Contract!Fail(c, status)
    BY <1>1, <1>3, <1>5, <2>1, <2>2 DEF Contract!Fail, InCall
  <2> QED
    BY <1>5, <2>3 DEF Contract!Next
<1>6. ASSUME NEW n \in Names, NEW s \in Shapes, NEW nullArg \in BOOLEAN, BeginCall(c, n, s, nullArg)
      PROVE  Contract!Next
  <2>1. call[c] = "idle" /\ serviceStatus[c] = None /\ UNCHANGED serviceStatus
    BY <1>6 DEF BeginCall, ClientAt, ContractInv, AnswersTell
  <2>2. args' = [args EXCEPT ![c] = [name |-> n, shape |-> s]]
    BY <1>6 DEF BeginCall
  <2>3. \/ s \in ValidShapes /\ call'[c] = "NtConnectPort"
        \/ call'[c] = "returned" /\ result'[c] = "STATUS_INVALID_PARAMETER_2"
    BY <1>6 DEF BeginCall, Return, RtlCaptureParameters, TypeOK
  <2>4. Contract!Begin(c, n, s)
    BY <1>1, <1>3, <2>1, <2>2, <2>3 DEF Contract!Begin, InCall
  <2> QED
    BY <2>4 DEF Contract!Next
<1>7. CASE Connect(c)
  <2>1. call[c] = "NtConnectPort" /\ worker[c] = "none" /\ serviceStatus[c] = None /\ UNCHANGED <<args, serviceStatus>>
    BY <1>7 DEF Connect, ClientAt, ContractInv, InStep, AnswersTell
  <2>2. CASE call'[c] = "connecting"
    BY <1>4, <2>1, <2>2 DEF InCall
  <2>3. CASE PortNamed(args[c].name) = {} /\ call'[c] = "returned" /\ result'[c] = "STATUS_INVALID_PARAMETER_1"
    BY <1>5, <2>1, <2>3 DEF InCall
  <2> QED
    BY <1>7, <2>2, <2>3 DEF Connect, Return, TypeOK
<1>8. CASE ConnectReturns(c)
  <2>1. call[c] = "connecting" /\ worker[c] = "none" /\ serviceStatus[c] = None /\ UNCHANGED <<args, serviceStatus>>
    BY <1>8 DEF ConnectReturns, ClientAt, ContractInv, InStep, AnswersTell
  <2>2. CASE call'[c] = "request"
    BY <1>4, <2>1, <2>2 DEF InCall
  <2>3. CASE call'[c] = "returned" /\ result'[c] = "STATUS_INVALID_PARAMETER_2"
    BY <1>5, <2>1, <2>3 DEF InCall
  <2>4. CASE call'[c] = "returned" /\ conn[c] = "closed" /\ result'[c] = "STATUS_UNSUCCESSFUL"
    <3>1. /\ dest[c] \in Regs /\ hPort[dest[c]] # None
          /\ name[dest[c]] = args[c].name /\ api[dest[c]] \in {"unregistered", "NO_MEMORY"}
      BY <2>1, <2>4 DEF ContractInv, RoutedByName
    <3> QED
      BY <1>5, <2>1, <2>4, <3>1 DEF InCall
  <2> QED
    BY <1>8, <2>2, <2>3, <2>4 DEF ConnectReturns, Return, TypeOK
<1>9. CASE Request(c) \/ RequestReturns(c) \/ Reply(c)
  <2>1. InCall(c) /\ InCall(c)' /\ UNCHANGED args
    BY <1>9 DEF Request, RequestReturns, Reply, ClientAt, InCall, TypeOK
  <2> QED
    BY <1>4, <2>1
<1>10. CASE CloseAndReturn(c)
  <2>1. call[c] = "NtClose" /\ call'[c] = "returned" /\ UNCHANGED <<args, result, serviceStatus>>
    BY <1>10 DEF CloseAndReturn, ClientAt, TypeOK
  <2>2. result[c] = "STATUS_SUCCESS" /\ serviceStatus[c] = reply[c] /\ ReplyTells(c)
    BY <2>1 DEF ContractInv, AnswersTell, InStep
  <2>3. /\ IF ran[c] = None THEN reply[c] = "STATUS_INVALID_PARAMETER" ELSE reply[c] \in {ran[c], "STATUS_ACCESS_DENIED"}
        /\ ran[c] \in Regs \cup {None}
    BY <2>2 DEF ReplyTells, TypeOK
  <2>4. PICK status \in Regs \cup {"STATUS_INVALID_PARAMETER", "STATUS_ACCESS_DENIED"} : reply[c] = status
    BY <2>3
  <2>5. Contract!Succeed(c, status)
    BY <1>1, <1>3, <2>1, <2>2, <2>3, <2>4 DEF Contract!Succeed, InCall
  <2> QED
    BY <2>5 DEF Contract!Next
<1>11. CASE Die(c)
  <2>1. InCall(c) /\ call'[c] = "dead" /\ UNCHANGED <<args, result, serviceStatus>>
    BY <1>11 DEF Die, TypeOK
  <2>2. Contract!Die(c)
    BY <1>1, <1>3, <2>1 DEF Contract!Die, InCall
  <2> QED
    BY <2>2 DEF Contract!Next
<1> QED
  BY <1>6, <1>7, <1>8, <1>9, <1>10, <1>11 DEF ClientStep

(* At first the contract knows of no service and no call.                  *)
LEMMA InitRefines == Init => Contract!Init
BY DEF Init, Contract!Init, Contract!NoArgs, InCall

(* Every step of the system is one of the contract, or shows nothing.      *)
LEMMA NextRefines ==
  ASSUME ~ SpuriousListen, Base, ContractInv, ContractInv', [Next]_vars
  PROVE  [Contract!Next]_(Contract!vars)
<1>1. CASE UNCHANGED vars
  BY <1>1 DEF vars, apiVars, waitVars, paramVars, workerVars, clientVars, Contract!vars, Contract!callVars, InCall
<1>2. CASE Next /\ ~ Finished
  BY <1>2, RegistrationRefines, ThreadRefines, ClientRefines DEF Next
<1> QED
  BY <1>1, <1>2 DEF Finished

(* What the refinement rests on holds in every state.                      *)
THEOREM ContractInvariance == ~ SpuriousListen => (Spec => []ContractInv)
<1> SUFFICES ASSUME ~ SpuriousListen PROVE Spec => []ContractInv
  OBVIOUS
<1>1. Base /\ ContractInv /\ [Next]_vars => ContractInv'
  BY NextContract
<1> QED
  BY <1>1, InitContract, BaseInvariance, PTL DEF Spec

(* Every behaviour of any number of services and clients, with threads     *)
(* that cannot be created, clients that die and handle values that are     *)
(* given out again, is one of the contract.                                *)
THEOREM Implementation == ~ SpuriousListen => (Spec => ImplementsContract)
<1> SUFFICES ASSUME ~ SpuriousListen PROVE Spec => ImplementsContract
  OBVIOUS
<1>1. Base /\ ContractInv /\ ContractInv' /\ [Next]_vars => [Contract!Next]_(Contract!vars)
  BY NextRefines
<1> QED
  BY <1>1, InitRefines, BaseInvariance, ContractInvariance, PTL DEF Spec, ImplementsContract, Contract!Spec

(* Where values are not given out again, a call runs the routine that was  *)
(* registered under its name, or none.                                     *)
THEOREM OnlyNamedRuns == ~ SpuriousListen /\ ~ Recycle => (Spec => []OnlyNamedServiceRuns)
<1> SUFFICES ASSUME ~ SpuriousListen, ~ Recycle PROVE Spec => []OnlyNamedServiceRuns
  OBVIOUS
<1>1. TypeOK /\ ContractInv => OnlyNamedServiceRuns
  <2> SUFFICES ASSUME TypeOK, ContractInv, NEW c \in Calls, ran[c] # None
               PROVE  name[ran[c]] = args[c].name
    BY DEF OnlyNamedServiceRuns
  <2>1. worker[c] # "none" /\ ran[c] = routine[c]
    BY DEF ContractInv, AnswersTell, TypeOK, WorkerStates
  <2> QED
    BY <2>1 DEF ContractInv, RoutedByName, RightName
<1> QED
  BY <1>1, TypeCorrect, ContractInvariance, PTL

(* The same holds for the moment a call is taken: a wait thread listens on *)
(* its own port or on nothing, so it takes none once the port is closed,   *)
(* and what runs after ScUnregisterServiceRoutine was on its way before.   *)
THEOREM NoLateCalls == ~ SpuriousListen /\ ~ Recycle => (Spec => NoneTakenLate)
<1> SUFFICES ASSUME ~ SpuriousListen, ~ Recycle PROVE Spec => NoneTakenLate
  OBVIOUS
<1>1. TypeOK /\ ContractInv /\ [Next]_vars =>
        [\A r \in Regs : wait[r] = "NtListenPort" /\ wait'[r] = "OpenProcess" => api[r] # "unregistered"]_vars
  <2> SUFFICES ASSUME TypeOK, ContractInv, Next, NEW r \in Regs,
                      wait[r] = "NtListenPort", wait'[r] = "OpenProcess"
               PROVE  api[r] # "unregistered"
    OBVIOUS
  <2> USE DEF waitVars, paramVars, workerVars, clientVars
  <2>1. CASE Listen(r)
    <3>1. handles[hPort[r]].kind = "port"
      BY <2>1 DEF Listen, Goto, TypeOK
    <3>2. hPort[r] # None => handles[hPort[r]] = Port(r)
      BY <3>1 DEF ContractInv, PortsOwn, Closed
    <3>3. CASE hPort[r] = None
      BY <3>3 DEF ContractInv, PortsOwn
    <3>4. CASE hPort[r] # None
      <4>1. hPort[r] \in Handles
        BY <3>4 DEF TypeOK
      <4> QED
        BY <3>2, <3>4, <4>1 DEF ContractInv, PortsRegistered
    <3> QED
      BY <3>3, <3>4
  <2>2. ASSUME NEW q \in Regs, WaitThreadStep(q)
        PROVE  Listen(r)
    <3>1. CASE q = r
      BY <2>2, <3>1 DEF WaitThreadStep, CheckCloseEvent, OpenClientProcess, Refuse, Accept, Complete,
                        Receive, DropParam, CreateWorker, WaitAt
    <3>2. CASE q # r
      BY <2>2, <3>2 DEF WaitThreadStep, Listen, CheckCloseEvent, OpenClientProcess, Refuse, Accept, Complete,
                        Receive, DropParam, CreateWorker, Goto, TypeOK
    <3> QED
      BY <3>1, <3>2
  <2>3. ASSUME NEW q \in Regs,
               \/ \E n \in Names, s \in Shapes : CreatePort(q, n, s)
               \/ StartWaitThread(q) \/ SetCloseEvent(q) \/ ClosePort(q)
        PROVE  FALSE
    BY <2>3 DEF CreatePort, StartWaitThread, SetCloseEvent, ClosePort, TypeOK
  <2>4. ASSUME NEW c \in Calls, WorkerStep(c)
        PROVE  FALSE
    BY <2>4 DEF WorkerStep, EnterClientId, MapParameters, EnterRoutine, LeaveRoutine, SyncParameters,
                SendReply, ReplyReturns, EraseClientId, ExitWorker
  <2>5. ASSUME NEW c \in Calls,
               \/ \E n \in Names, s \in Shapes, nullArg \in BOOLEAN : BeginCall(c, n, s, nullArg)
               \/ ClientStep(c) \/ Die(c)
        PROVE  FALSE
    BY <2>5 DEF ClientStep, BeginCall, Connect, ConnectReturns, Request, RequestReturns, Reply, CloseAndReturn, Die
  <2> QED
    BY <2>1, <2>2, <2>3, <2>4, <2>5 DEF Next, Finished, vars
<1> QED
  BY <1>1, TypeCorrect, ContractInvariance, PTL DEF Spec, NoneTakenLate
=============================================================================
