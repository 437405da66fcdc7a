---------------------------- MODULE HandleProofs ----------------------------
(***************************************************************************)
(* Proofs about ServiceCall: RtlClientId finds the caller's process, and   *)
(* open handles are accounted for.  Both rest on the invariants that       *)
(* ServiceCallProofs and CallProofs prove.                                 *)
(***************************************************************************)
EXTENDS CallProofs

(* What is known of every reachable state.                                 *)
Base == IInv /\ CallInv

(* What is known of it when a listen may fail at will, but closed handle   *)
(* values are not given out again.                                         *)
Held == TypeOK /\ ServesCall /\ HeldHandlesValid /\ ClosesPorts /\ CallInv

LEMMA BaseHeld == Base => Held
BY InvCloses DEF Base, IInv, Held

(* A handle that closes names an object of the closing thread's own, so    *)
(* the client processes that copies hold stay open.                        *)
LEMMA ClosingKeeps ==
  ASSUME TypeOK, HeldHandlesValid, NEW hs, handles' = Closing(handles, hs),
         NEW d \in Calls, hClientProcess[d] # None, hClientProcess[d] \notin hs
  PROVE  handles'[hClientProcess[d]] = handles[hClientProcess[d]]
BY ClosingFacts DEF TypeOK

(* No object appears by closing.                                           *)
LEMMA ClosingAdds ==
  ASSUME TypeOK, NEW hs, handles' = Closing(handles, hs), NEW h \in Handles
  PROVE  handles'[h] \in {handles[h], Closed}
         /\ (h \in hs => handles'[h] \in {Unused, Closed})
BY DEF Closing, IsOpen, TypeOK

(* What an API step changes: what it closes is a port or nothing.          *)
LEMMA RegistrationEffect ==
  ASSUME Held, NEW r \in Regs,
         \/ \E n \in Names, s \in Shapes : CreatePort(r, n, s)
         \/ StartWaitThread(r) \/ SetCloseEvent(r) \/ ClosePort(r)
  PROVE  /\ UNCHANGED <<hClientProcess, hServerPort, worker, client_id_list, call, current>>
         /\ \A c \in Calls : hClientProcess[c] # None =>
              handles'[hClientProcess[c]] = handles[hClientProcess[c]]
         /\ \A h \in Handles : handles'[h] = handles[h] \/ handles'[h] \in {Unused, Closed}
                               \/ handles'[h].kind = "port"
         /\ \A c \in Calls : conn'[c] = conn[c] \/ (conn[c] = "pending" /\ conn'[c] = "closed")
         /\ \A q \in Regs : wait'[q] = wait[q] \/ (wait[q] = "none" /\ wait'[q] = "NtListenPort")
<1> USE DEF Held, waitVars, paramVars, workerVars, clientVars
<1>1. ASSUME NEW n \in Names, NEW s \in Shapes, CreatePort(r, n, s)
      PROVE  /\ UNCHANGED <<conn, wait>>
             /\ UNCHANGED handles \/ \E h \in Candidates(handles) : handles' = Opened(handles, h, Port(r))
  BY <1>1 DEF CreatePort
<1>2. CASE \E n \in Names, s \in Shapes : CreatePort(r, n, s)
  <2>1. UNCHANGED <<hClientProcess, hServerPort, worker, client_id_list, call, current>>
    BY <1>2 DEF CreatePort
  <2>2. Port(r) \in ObjectType /\ Port(r).kind = "port"
    BY DEF ObjectType, Port
  <2>3. ASSUME NEW h \in Candidates(handles), handles' = Opened(handles, h, Port(r))
        PROVE  /\ \A c \in Calls : hClientProcess[c] # None =>
                    handles'[hClientProcess[c]] = handles[hClientProcess[c]]
               /\ \A g \in Handles : handles'[g] = handles[g] \/ handles'[g].kind = "port"
    <3>1. h \in Handles /\ \A g \in Handles \ {h} : handles'[g] = handles[g]
      BY <2>3, CandidatesFree DEF Opened, TypeOK
    <3>2. handles'[h] = Port(r)
      BY <2>2, <2>3, OpenedFacts DEF TypeOK
    <3>3. \A c \in Calls : hClientProcess[c] # None => hClientProcess[c] \in Handles /\ hClientProcess[c] # h
      BY <2>3, HeldFacts, CandidatesFree
    <3> QED
      BY <2>2, <3>1, <3>2, <3>3
  <2> QED
    BY <1>1, <1>2, <2>1, <2>3
<1>3. ASSUME NEW g, IsOpen(handles, g) => handles[g].kind = "port", CloseHandles({g})
      PROVE  /\ \A c \in Calls : hClientProcess[c] # None =>
                  handles'[hClientProcess[c]] = handles[hClientProcess[c]]
             /\ \A h \in Handles : handles'[h] \in {handles[h], Closed}
             /\ \A c \in Calls : conn'[c] = conn[c] \/ (conn[c] = "pending" /\ conn'[c] = "closed")
  <2>1. ASSUME NEW c \in Calls, hClientProcess[c] # None
        PROVE  hClientProcess[c] # g
    <3>1. /\ IsOpen(handles, hClientProcess[c])
          /\ handles[hClientProcess[c]] \in {Process(c), Process(None)}
      BY <2>1, HeldFacts DEF IsOpen, HeldHandlesValid
    <3> QED
      BY <1>3, <3>1 DEF Process
  <2>2. handles' = Closing(handles, {g})
    BY <1>3 DEF CloseHandles
  <2>3. \A c \in Calls : conn'[c] = conn[c] \/ (conn[c] = "pending" /\ conn'[c] = "closed")
    <3>1. \A c \in Calls : IsOpen(handles, g) => handles[g] # Comm(c)
      BY <1>3 DEF Comm
    <3> QED
      BY <1>3, <3>1 DEF CloseHandles, TypeOK
  <2> QED
    BY <2>1, <2>2, <2>3, ClosingKeeps, ClosingAdds
<1>4. CASE StartWaitThread(r)
  <2>1. wait[r] = "none" /\ (IsOpen(handles, hPort[r]) => handles[hPort[r]].kind = "port")
    BY <1>4 DEF StartWaitThread, CallInv, ShapesFixed, ClosesPorts
  <2>2. UNCHANGED <<hClientProcess, hServerPort, worker, client_id_list, call, current>>
    BY <1>4 DEF StartWaitThread
  <2>3. CASE UNCHANGED <<handles, conn>> /\ wait' = [wait EXCEPT ![r] = "NtListenPort"]
    BY <2>1, <2>2, <2>3 DEF TypeOK
  <2>4. CASE CloseHandles({hPort[r]}) /\ UNCHANGED wait
    BY <1>3, <2>1, <2>2, <2>4
  <2> QED
    BY <1>4, <2>3, <2>4 DEF StartWaitThread
<1>5. CASE SetCloseEvent(r)
  BY <1>5 DEF SetCloseEvent
<1>6. CASE ClosePort(r)
  <2>1. PICK h \in PortRead(r) : CloseHandles({h})
    BY <1>6 DEF ClosePort
  <2>2. IsOpen(handles, h) => handles[h].kind = "port"
    BY <1>6 DEF ClosePort, ClosesPorts
  <2> QED
    BY <1>3, <1>6, <2>1, <2>2 DEF ClosePort
<1> QED
  BY <1>2, <1>4, <1>5, <1>6

(* What a client's step changes.                                           *)
LEMMA ClientEffect ==
  ASSUME NEW c \in Calls,
         \/ \E n \in Names, s \in Shapes, nullArg \in BOOLEAN : BeginCall(c, n, s, nullArg)
         \/ ClientStep(c) \/ Die(c)
  PROVE  UNCHANGED <<handles, api, hPort, hClientProcess, hServerPort, worker, client_id_list,
                     wait, current>>
BY DEF BeginCall, ClientStep, Connect, ConnectReturns, Request, RequestReturns, Reply, CloseAndReturn, Die,
       apiVars, waitVars, paramVars, workerVars

-----------------------------------------------------------------------------
(* Where the owned processes are as they were, RtlClientId finds what it   *)
(* found.                                                                  *)
LEMMA IdFrame ==
  ASSUME IdInv, UNCHANGED <<hClientProcess, worker, client_id_list>>,
         \A c \in Calls : hClientProcess[c] # None =>
           handles'[hClientProcess[c]] = handles[hClientProcess[c]],
         \A q \in Regs :
           \/ wait'[q] \notin {"accept", "complete", "receive", "CreateThread"}
           \/ /\ wait'[q] = wait[q] /\ current'[q] = current[q] /\ current[q] \in Calls
              /\ conn'[current[q]] = "received" => conn[current[q]] = "received",
         \A c \in Calls : call'[c] = "dead" =>
           conn'[c] \in {"none", "pending", "closed"} \/ (call[c] = "dead" /\ conn'[c] = conn[c])
  PROVE  IdInv'
<1>1. DeadClosed'
  BY DEF IdInv, DeadClosed
<1>2. \A c \in Calls : Owns(c) => Owns(c)'
  BY DEF Owns
<1>3. WaitOwns'
  BY <1>2 DEF IdInv, WaitOwns
<1>4. WorkerOwns'
  BY <1>2 DEF IdInv, WorkerOwns
<1>5. EntriesExact'
  BY DEF IdInv, EntriesExact, Listed
<1> QED
  BY <1>1, <1>3, <1>4, <1>5 DEF IdInv

(* The API calls leave processes, lists and workers alone.                 *)
LEMMA RegistrationId ==
  ASSUME Held, IdInv, NEW r \in Regs,
         \/ \E n \in Names, s \in Shapes : CreatePort(r, n, s)
         \/ StartWaitThread(r) \/ SetCloseEvent(r) \/ ClosePort(r)
  PROVE  IdInv'
<1>1. \A q \in Regs : wait[q] \in {"accept", "complete", "receive", "CreateThread"} => current[q] \in Calls
  BY DEF Held, ServesCall, Serving
<1>2. \A c \in Calls : call[c] = "dead" => conn[c] \in {"none", "pending", "closed"}
  BY DEF IdInv, DeadClosed
<1> QED
  BY <1>1, <1>2, IdFrame, RegistrationEffect

(* So does a client, whose death closes its connection.                    *)
LEMMA ClientId ==
  ASSUME Held, IdInv, NEW c \in Calls,
         \/ \E n \in Names, s \in Shapes, nullArg \in BOOLEAN : BeginCall(c, n, s, nullArg)
         \/ ClientStep(c) \/ Die(c)
  PROVE  IdInv'
<1>1. \A q \in Regs : wait[q] \in {"accept", "complete", "receive", "CreateThread"} => current[q] \in Calls
  BY DEF Held, ServesCall, Serving
<1>2. \A d \in Calls : conn'[d] = "received" => conn[d] = "received"
  BY DEF BeginCall, ClientStep, Connect, ConnectReturns, Request, RequestReturns, Reply, CloseAndReturn, Die,
         Held, TypeOK
<1>3. \A d \in Calls : call'[d] = "dead" =>
        conn'[d] \in {"none", "pending", "closed"} \/ (call[d] = "dead" /\ conn'[d] = conn[d])
  BY DEF BeginCall, ClientStep, Connect, ConnectReturns, Request, RequestReturns, Reply, CloseAndReturn, Die,
         Held, TypeOK, ClientAt, Return
<1> QED
  BY <1>1, <1>2, <1>3, IdFrame, ClientEffect

(* A worker enters and erases its own entry, and closes only its own        *)
(*handles.                                                               *)
LEMMA WorkerId ==
  ASSUME Held, IdInv, NEW c \in Calls, WorkerStep(c)
  PROVE  IdInv'
<1> USE DEF Held, Moves, apiVars, waitVars, paramVars, clientVars
<1>1. /\ UNCHANGED <<call, wait, current>> /\ worker[c] # "none"
      /\ \A q \in Regs : Serving(q) => current[q] \in Calls \ {c}
  <2>1. UNCHANGED <<call, wait, current>> /\ worker[c] # "none"
    BY DEF WorkerStep, EnterClientId, MapParameters, EnterRoutine, LeaveRoutine, SyncParameters, SendReply,
           ReplyReturns, EraseClientId, ExitWorker
  <2> QED
    BY <2>1 DEF ServesCall, CallInv, ServedOnce
<1>2. ASSUME UNCHANGED <<handles, hClientProcess, client_id_list>>,
             worker' = [worker EXCEPT ![c] = worker'[c]], worker[c] # "exited", Listed(c) <=> Listed(c)',
             \A d \in Calls : conn'[d] = conn[d] \/ (call[d] # "dead" /\ conn'[d] # "received")
      PROVE  IdInv'
  <2>1. \A d \in Calls : Owns(d) <=> Owns(d)'
    BY <1>2 DEF Owns
  <2>2. DeadClosed'
    BY <1>1, <1>2 DEF IdInv, DeadClosed
  <2>3. WaitOwns'
    BY <1>1, <1>2, <2>1 DEF IdInv, WaitOwns, Serving
  <2>4. WorkerOwns'
    <3>1. \A d \in Calls : worker'[d] \notin {"none", "exited"} => worker[d] \notin {"none", "exited"}
      BY <1>1, <1>2 DEF TypeOK
    <3> QED
      BY <2>1, <3>1 DEF IdInv, WorkerOwns
  <2>5. \A d \in Calls : Listed(d) <=> Listed(d)'
    BY <1>2 DEF Listed, TypeOK
  <2>6. EntriesExact'
    BY <1>2, <2>5 DEF IdInv, EntriesExact, TypeOK
  <2> QED
    BY <2>2, <2>3, <2>4, <2>6 DEF IdInv
<1>3. CASE EnterClientId(c)
  <2>1. \A d \in Calls : Owns(d) <=> Owns(d)'
    BY <1>3 DEF EnterClientId, Owns
  <2>2. DeadClosed' /\ WaitOwns'
    BY <1>3, <1>1, <2>1 DEF EnterClientId, IdInv, DeadClosed, WaitOwns, Serving
  <2>3. WorkerOwns'
    BY <1>1, <1>3, <2>1 DEF EnterClientId, IdInv, WorkerOwns, TypeOK
  <2>4. EntriesExact'
    BY <1>3 DEF EnterClientId, IdInv, EntriesExact, Listed, ThreadId, TypeOK
  <2> QED
    BY <2>2, <2>3, <2>4 DEF IdInv
<1>4. CASE \/ MapParameters(c) \/ EnterRoutine(c) \/ LeaveRoutine(c) \/ SyncParameters(c) \/ ReplyReturns(c)
  <2>1. /\ UNCHANGED <<handles, hClientProcess, client_id_list, conn>>
        /\ worker' = [worker EXCEPT ![c] = worker'[c]] /\ worker[c] # "exited" /\ (Listed(c) <=> Listed(c)')
    BY <1>4 DEF MapParameters, EnterRoutine, LeaveRoutine, SyncParameters, ReplyReturns, Listed, TypeOK
  <2> QED
    BY <1>2, <2>1
<1>5. CASE SendReply(c)
  <2>1. /\ UNCHANGED <<handles, hClientProcess, client_id_list>>
        /\ worker' = [worker EXCEPT ![c] = worker'[c]] /\ worker[c] # "exited" /\ (Listed(c) <=> Listed(c)')
    BY <1>5 DEF SendReply, Listed, TypeOK
  <2>2. \A d \in Calls : conn'[d] = conn[d] \/ (call[d] # "dead" /\ conn'[d] # "received")
    BY <1>5 DEF SendReply, IdInv, DeadClosed, TypeOK
  <2> QED
    BY <1>2, <2>1, <2>2
<1>6. CASE EraseClientId(c)
  <2>1. \A d \in Calls : Owns(d) <=> Owns(d)'
    BY <1>6 DEF EraseClientId, Owns
  <2>2. DeadClosed' /\ WaitOwns'
    BY <1>6, <1>1, <2>1 DEF EraseClientId, IdInv, DeadClosed, WaitOwns, Serving
  <2>3. WorkerOwns'
    BY <1>1, <1>6, <2>1 DEF EraseClientId, IdInv, WorkerOwns, TypeOK
  <2>4. EntriesExact'
    BY <1>6 DEF EraseClientId, IdInv, EntriesExact, Listed, ThreadId, TypeOK
  <2> QED
    BY <2>2, <2>3, <2>4 DEF IdInv
<1>7. CASE ExitWorker(c)
  <2>1. \A d \in Calls \ {c} : hClientProcess[d] # None => hClientProcess[d] \notin {hClientProcess[c], hServerPort[c]}
    BY HeldFacts DEF HeldHandlesValid, TypeOK
  <2>2. \A d \in Calls \ {c} : /\ hClientProcess'[d] = hClientProcess[d]
                               /\ Owns(d) => Owns(d)'
    BY <1>7, <2>1, ClosingKeeps DEF ExitWorker, CloseHandles, Owns, TypeOK
  <2>3. DeadClosed'
    BY <1>1, <1>7 DEF ExitWorker, CloseHandles, IdInv, DeadClosed
  <2>4. \A d \in Calls : conn'[d] = "received" => conn[d] = "received"
    BY <1>7 DEF ExitWorker, CloseHandles
  <2>5. WaitOwns'
    BY <1>1, <2>2, <2>4 DEF IdInv, WaitOwns, Serving
  <2>6. WorkerOwns'
    BY <1>7, <2>2 DEF ExitWorker, IdInv, WorkerOwns, TypeOK
  <2>7. EntriesExact'
    BY <1>7, <2>2 DEF ExitWorker, IdInv, EntriesExact, Listed, TypeOK
  <2> QED
    BY <2>3, <2>5, <2>6, <2>7 DEF IdInv
<1> QED
  BY <1>3, <1>4, <1>5, <1>6, <1>7 DEF WorkerStep

(* What a wait thread's step leaves alone.                                 *)
LEMMA WaitEffect ==
  ASSUME Held, NEW r \in Regs, WaitThreadStep(r)
  PROVE  /\ UNCHANGED <<api, hPort, client_id_list, call>>
         /\ \A q \in Regs \ {r} :
              /\ wait'[q] = wait[q] /\ current'[q] = current[q]
              /\ Serving(q) => current[q] \in Calls
              /\ Serving(q) /\ Serving(r) => current[q] # current[r]
         /\ Serving(r) =>
              /\ current'[r] = current[r] /\ current[r] \in Calls
              /\ worker[current[r]] = "none" /\ conn[current[r]] \notin {"none", "pending"}
              /\ \A d \in Calls \ {current[r]} :
                   /\ conn'[d] = conn[d] /\ worker'[d] = worker[d]
                   /\ hClientProcess'[d] = hClientProcess[d] /\ hServerPort'[d] = hServerPort[d]
<1> USE DEF Held, WaitAt, Goto, apiVars, paramVars, workerVars, clientVars
<1>1. /\ UNCHANGED <<api, hPort, client_id_list, call>>
      /\ \A q \in Regs \ {r} : wait'[q] = wait[q] /\ current'[q] = current[q]
  BY DEF WaitThreadStep, Listen, CheckCloseEvent, OpenClientProcess, Refuse, Accept, Complete, Receive, DropParam,
         CreateWorker, TypeOK
<1>2. Serving(r) =>
        /\ current'[r] = current[r]
        /\ \A d \in Calls \ {current[r]} :
             /\ conn'[d] = conn[d] /\ worker'[d] = worker[d]
             /\ hClientProcess'[d] = hClientProcess[d] /\ hServerPort'[d] = hServerPort[d]
  BY DEF WaitThreadStep, Listen, CheckCloseEvent, OpenClientProcess, Refuse, Accept, Complete, Receive, DropParam,
         CreateWorker, TypeOK, Serving
<1>3. \A q \in Regs : Serving(q) =>
        /\ current[q] \in Calls /\ worker[current[q]] = "none" /\ conn[current[q]] \notin {"none", "pending"}
        /\ \A p \in Regs : Serving(p) /\ current[p] = current[q] => p = q
  BY DEF CallInv, ServedOnce, ServesCall
<1> QED
  BY <1>1, <1>2, <1>3

(* The processes of the other calls stay open.                             *)
LEMMA WaitKeeps ==
  ASSUME Held, NEW r \in Regs, WaitThreadStep(r), NEW d \in Calls, hClientProcess[d] # None,
         hClientProcess'[d] = hClientProcess[d]
  PROVE  handles'[hClientProcess[d]] = handles[hClientProcess[d]]
<1> USE DEF Held, WaitAt, Goto
<1>1. CASE UNCHANGED handles
  BY <1>1
<1>2. ASSUME NEW h \in Candidates(handles), NEW o, handles' = Opened(handles, h, o)
      PROVE  handles'[hClientProcess[d]] = handles[hClientProcess[d]]
  <2>1. h # hClientProcess[d] /\ hClientProcess[d] \in Handles
    BY CandidatesFree, HeldFacts
  <2> QED
    BY <1>2, <2>1 DEF Opened, TypeOK
<1>3. CASE OpenClientProcess(r)
  BY <1>1, <1>2, <1>3 DEF OpenClientProcess
<1>4. CASE Accept(r)
  BY <1>1, <1>2, <1>4 DEF Accept
<1>5. CASE Refuse(r) \/ DropParam(r)
  <2>1. handles' = Closing(handles, {hClientProcess[current[r]]}) /\ hClientProcess'[current[r]] = None
        /\ current[r] \in Calls
    BY <1>5 DEF Refuse, DropParam, ServesCall, Serving, TypeOK
  <2>2. hClientProcess[d] # hClientProcess[current[r]]
    BY <2>1 DEF HeldHandlesValid
  <2> QED
    BY <2>1, <2>2, ClosingKeeps
<1> QED
  BY <1>1, <1>3, <1>4, <1>5 DEF WaitThreadStep, Listen, CheckCloseEvent, Complete, Receive, CreateWorker

(* A wait thread opens the process of the call it serves, hands it to the  *)
(* worker, and closes it otherwise.                                        *)
LEMMA WaitThreadId ==
  ASSUME Held, IdInv, NEW r \in Regs, WaitThreadStep(r)
  PROVE  IdInv'
<1> DEFINE c == current[r]
<1>3. ASSUME NEW q \in Regs \ {r}
      PROVE  /\ wait'[q] = wait[q] /\ current'[q] = current[q]
             /\ Serving(q) => current[q] \in Calls
             /\ Serving(q) /\ Serving(r) => current[q] # current[r]
  BY <1>3, WaitEffect
<1>4. \A q \in Regs : Serving(q) => conn[current[q]] # "pending"
  BY DEF Held, CallInv, ServedOnce
<1> USE DEF Held, WaitAt, Goto, apiVars, paramVars, workerVars, clientVars
<1>1. CASE Listen(r) \/ CheckCloseEvent(r)
  <2>1. /\ UNCHANGED <<hClientProcess, worker, client_id_list, handles, call>>
        /\ wait'[r] \in {"OpenProcess", "CloseEvent", "exited", "NtListenPort"}
        /\ \A d \in Calls : conn'[d] = conn[d] \/ (call[d] # "dead" /\ conn[d] = "pending") \/ conn'[d] = "closed"
    BY <1>1 DEF Listen, CheckCloseEvent, TypeOK
  <2>2. \A q \in Regs \ {r} :
          /\ wait'[q] = wait[q] /\ current'[q] = current[q]
          /\ Serving(q) => current[q] \in Calls /\ conn[current[q]] # "pending"
    BY <1>3, <1>4
  <2>3. \A q \in Regs : \/ wait'[q] \notin {"accept", "complete", "receive", "CreateThread"}
                        \/ /\ wait'[q] = wait[q] /\ current'[q] = current[q] /\ current[q] \in Calls
                           /\ conn'[current[q]] = "received" => conn[current[q]] = "received"
    <3>1. ASSUME NEW q \in Regs, wait'[q] \in {"accept", "complete", "receive", "CreateThread"}
          PROVE  /\ wait'[q] = wait[q] /\ current'[q] = current[q] /\ current[q] \in Calls
                 /\ conn'[current[q]] = "received" => conn[current[q]] = "received"
      <4>1. q # r
        BY <2>1, <3>1
      <4>2. Serving(q)
        BY <2>2, <3>1, <4>1 DEF Serving
      <4> QED
        BY <2>1, <2>2, <4>1, <4>2
    <3> QED
      BY <3>1
  <2>4. \A d \in Calls : call'[d] = "dead" =>
          conn'[d] \in {"none", "pending", "closed"} \/ (call[d] = "dead" /\ conn'[d] = conn[d])
    BY <2>1
  <2> QED
    BY <2>1, <2>3, <2>4, IdFrame
<1>2. CASE Serving(r)
  <2>1. /\ c \in Calls /\ current'[r] = c /\ worker[c] = "none"
        /\ \A q \in Regs \ {r} : wait'[q] = wait[q] /\ current'[q] = current[q] /\ (Serving(q) => current[q] \in Calls \ {c})
        /\ \A d \in Calls \ {c} : conn'[d] = conn[d] /\ worker'[d] = worker[d] /\ hClientProcess'[d] = hClientProcess[d]
        /\ UNCHANGED <<client_id_list, call>>
    <3>1. /\ c \in Calls /\ current'[r] = c /\ worker[c] = "none"
          /\ \A d \in Calls \ {c} : conn'[d] = conn[d] /\ worker'[d] = worker[d] /\ hClientProcess'[d] = hClientProcess[d]
          /\ UNCHANGED <<client_id_list, call>>
      BY <1>2, WaitEffect
    <3>2. ASSUME NEW q \in Regs \ {r}
          PROVE  wait'[q] = wait[q] /\ current'[q] = current[q] /\ (Serving(q) => current[q] \in Calls \ {c})
      BY <1>2, <1>3, <3>2
    <3> QED
      BY <3>1, <3>2
  <2>2. \A d \in Calls : hClientProcess'[d] = hClientProcess[d] => (Owns(d) => Owns(d)')
    BY WaitKeeps DEF Owns
  <2>3. worker'[c] \in {"none", "start"}
    BY <2>1 DEF WaitThreadStep, Listen, CheckCloseEvent, OpenClientProcess, Refuse, Accept, Complete, Receive, DropParam,
               CreateWorker, TypeOK
  <2>4. EntriesExact'
    <3>1. \A d \in Calls : Listed(d)' <=> Listed(d)
      BY <2>1, <2>3 DEF Listed
    <3>2. ~ Listed(c)
      BY <2>1 DEF Listed
    <3> QED
      BY <2>1, <3>1, <3>2 DEF IdInv, EntriesExact, TypeOK
  <2>5. DeadClosed'
    <3>1. call[c] = "dead" => conn[c] = "closed"
      BY <1>2, <2>1 DEF IdInv, DeadClosed, CallInv, ServedOnce
    <3>2. conn[c] = "closed" => conn'[c] = "closed"
      BY <1>2, <2>1 DEF WaitThreadStep, Listen, CheckCloseEvent, OpenClientProcess, Refuse, Accept, Complete, Receive,
                 DropParam, CreateWorker, TypeOK, Serving
    <3> QED
      BY <2>1, <3>1, <3>2 DEF IdInv, DeadClosed
  <2>6. \A d \in Calls \ {c} : Owns(d) => Owns(d)'
    BY <2>1, <2>2
  <2>7. /\ wait'[r] \in {"complete", "receive", "CreateThread"} => Owns(c)'
        /\ wait'[r] = "accept" /\ conn'[c] = "received" => Owns(c)'
        /\ worker'[c] = "start" => Owns(c)'
    <3>1. CASE OpenClientProcess(r)
      <4>1. wait'[r] \in {"accept", "refuse"} /\ UNCHANGED <<conn, worker>>
        BY <3>1 DEF OpenClientProcess, TypeOK
      <4>2. conn[c] = "received" => ProcessByNumber(c) = Process(c)
        BY <2>1 DEF IdInv, DeadClosed, ProcessByNumber
      <4>3. wait'[r] = "accept" => \E h \in Candidates(handles) :
              /\ handles' = Opened(handles, h, ProcessByNumber(c))
              /\ hClientProcess' = [hClientProcess EXCEPT ![c] = h]
        BY <3>1 DEF OpenClientProcess, TypeOK
      <4>4. ASSUME NEW h \in Candidates(handles), handles' = Opened(handles, h, Process(c)),
                   hClientProcess' = [hClientProcess EXCEPT ![c] = h]
            PROVE  Owns(c)'
        <5>1. h \in Handles /\ h # None
          BY CandidatesFree, HandleAssumption
        <5> QED
          BY <2>1, <4>4, <5>1 DEF Owns, Opened, TypeOK
      <4> QED
        BY <2>1, <4>1, <4>2, <4>3, <4>4
    <3>2. CASE Accept(r)
      <4>1. /\ wait'[r] \in {"complete", "drop"} /\ UNCHANGED <<worker, hClientProcess>>
            /\ wait'[r] = "complete" => wait[r] = "accept" /\ conn[c] = "received"
        BY <3>2 DEF Accept, TypeOK
      <4> QED
        BY <2>1, <2>2, <4>1 DEF IdInv, WaitOwns
    <3>3. CASE Complete(r) \/ Receive(r)
      <4>1. /\ wait'[r] \in {"receive", "CreateThread", "drop"} /\ UNCHANGED <<worker, hClientProcess>>
            /\ wait[r] \in {"complete", "receive"}
        BY <3>3 DEF Complete, Receive, TypeOK
      <4> QED
        BY <2>1, <2>2, <4>1 DEF IdInv, WaitOwns
    <3>4. CASE CreateWorker(r)
      <4>1. wait'[r] = "NtListenPort" /\ wait[r] = "CreateThread" /\ (worker'[c] = "start" => UNCHANGED hClientProcess)
        BY <2>1, <3>4 DEF CreateWorker, TypeOK
      <4> QED
        BY <2>1, <2>2, <4>1 DEF IdInv, WaitOwns
    <3>5. CASE Refuse(r) \/ DropParam(r)
      <4>1. wait'[r] = "NtListenPort" /\ UNCHANGED worker
        BY <3>5 DEF Refuse, DropParam, TypeOK
      <4> QED
        BY <2>1, <4>1
    <3> QED
      BY <1>2, <3>1, <3>2, <3>3, <3>4, <3>5 DEF WaitThreadStep, Listen, CheckCloseEvent, Serving
  <2>8. WaitOwns'
    BY <2>1, <2>6, <2>7 DEF IdInv, WaitOwns, Serving
  <2>9. WorkerOwns'
    BY <2>1, <2>3, <2>6, <2>7 DEF IdInv, WorkerOwns
  <2> QED
    BY <2>4, <2>5, <2>8, <2>9 DEF IdInv
<1> QED
  BY <1>1, <1>2 DEF WaitThreadStep, OpenClientProcess, Refuse, Accept, Complete, Receive, DropParam, CreateWorker, Serving

(* At first nothing is owned or listed.                                    *)
LEMMA InitId == Init => IdInv
BY DEF Init, IdInv, DeadClosed, WaitOwns, WorkerOwns, EntriesExact, Listed

(* One lemma per family of steps, together.                                *)
LEMMA NextId ==
  ASSUME Held, IdInv, [Next]_vars
  PROVE  IdInv'
<1>1. CASE UNCHANGED vars
  BY <1>1 DEF vars, apiVars, waitVars, paramVars, workerVars, clientVars, IdInv, DeadClosed, WaitOwns, WorkerOwns,
              Owns, EntriesExact, Listed
<1>2. CASE Next /\ ~ Finished
  BY <1>2, RegistrationId, WaitThreadId, WorkerId, ClientId DEF Next
<1> QED
  BY <1>1, <1>2 DEF Finished

(* What the other proofs have shown of every behaviour.                    *)
LEMMA BaseInvariance == ~ SpuriousListen => (Spec => []Base)
BY Invariance, CallInvariance, PTL DEF Base

LEMMA StaysHeld == ~ SpuriousListen \/ ~ Recycle => (Spec => []Held)
<1>1. ~ SpuriousListen => (Spec => []Held)
  BY BaseHeld, BaseInvariance, PTL
<1>2. ~ Recycle => (Spec => []Held)
  <2>1. HeldInv /\ CallInv => Held
    BY NumbersClose DEF HeldInv, Held
  <2> QED
    BY <2>1, HeldInvariance, CallInvariance, PTL
<1> QED
  BY <1>1, <1>2

(* A worker's process handle and its entry in the list are right, unless a *)
(* listen may fail at will and closed handle values are given out again.   *)
THEOREM IdInvariance == ~ SpuriousListen \/ ~ Recycle => (Spec => []IdInv)
<1> SUFFICES ASSUME ~ SpuriousListen \/ ~ Recycle PROVE Spec => []IdInv
  OBVIOUS
<1>1. Held /\ IdInv /\ [Next]_vars => IdInv'
  BY NextId
<1> QED
  BY <1>1, InitId, StaysHeld, PTL DEF Spec

(* So RtlClientId in the worker's thread finds the open handle of the      *)
(* process that made the call, for any number of services and clients.     *)
THEOREM ClientIdsStayExact == ~ SpuriousListen \/ ~ Recycle => (Spec => []ClientIdsExact)
<1> SUFFICES ASSUME ~ SpuriousListen \/ ~ Recycle PROVE Spec => []ClientIdsExact
  OBVIOUS
<1>1. IdInv => ClientIdsExact
  <2> SUFFICES ASSUME IdInv, NEW c \in Calls
               PROVE  IF worker[c] \in {"none", "start", "close", "exited"}
                      THEN RtlClientId(ThreadId(c)) = {}
                      ELSE /\ RtlClientId(ThreadId(c)) = {hClientProcess[c]}
                           /\ hClientProcess[c] # None /\ handles[hClientProcess[c]] = Process(c)
    BY DEF ClientIdsExact
  <2>1. \A p \in client_id_list : p[2] = c => Listed(c) /\ p = <<hClientProcess[c], c>>
    BY DEF IdInv, EntriesExact
  <2>2. CASE ~ Listed(c)
    BY <2>1, <2>2 DEF RtlClientId, ThreadId, Listed
  <2>3. CASE Listed(c)
    <3>1. <<hClientProcess[c], c>> \in client_id_list
      BY <2>3 DEF IdInv, EntriesExact
    <3>2. RtlClientId(ThreadId(c)) = {hClientProcess[c]}
      BY <2>1, <3>1 DEF RtlClientId, ThreadId
    <3>3. Owns(c)
      BY <2>3 DEF IdInv, WorkerOwns, Listed
    <3> QED
      BY <2>3, <3>2, <3>3 DEF Owns, Listed
  <2> QED
    BY <2>2, <2>3
<1> QED
  BY <1>1, IdInvariance, PTL

-----------------------------------------------------------------------------
(* A connection that is served is in nobody's queue and has no worker.     *)
LEMMA ServedFacts ==
  ASSUME Held, NEW r \in Regs, Serving(r)
  PROVE  /\ current[r] \in Calls /\ conn[current[r]] \notin {"none", "pending"}
         /\ worker[current[r]] = "none"
         /\ \A q \in Regs : Serving(q) /\ current[q] = current[r] => q = r
BY DEF Held, CallInv, ServesCall, ServedOnce

(* Where calls, copies and workers are as they were and threads go on, a   *)
(* connection that fails in the queue disturbs no order ...                *)
LEMMA OrderFrame ==
  ASSUME Held, AccountInv, UNCHANGED <<hClientProcess, hServerPort, worker, call, current>>,
         \A c \in Calls : conn'[c] = conn[c] \/ (conn[c] = "pending" /\ conn'[c] = "closed"),
         \A q \in Regs : wait'[q] = wait[q] \/ wait'[q] = "NtListenPort"
  PROVE  CallOrder' /\ TakenAlive' /\ HeldInTurn'
<1>1. CallOrder'
  BY DEF AccountInv, CallOrder
<1>2. \A q \in Regs : Serving(q) => conn'[current[q]] = conn[current[q]]
  BY ServedFacts
<1>3. TakenAlive'
  BY <1>2 DEF AccountInv, TakenAlive, Serving
<1>4. HeldInTurn'
  BY DEF AccountInv, HeldInTurn
<1> QED
  BY <1>1, <1>3, <1>4

(* ... and a step of the API adds and closes ports only.                   *)
LEMMA RegistrationAccount ==
  ASSUME ~ SpuriousListen, ~ ThreadFailures, Base, AccountInv, NEW r \in Regs,
         \/ \E n \in Names, s \in Shapes : CreatePort(r, n, s)
         \/ StartWaitThread(r) \/ SetCloseEvent(r) \/ ClosePort(r)
  PROVE  AccountInv'
<1>1. /\ UNCHANGED <<hClientProcess, hServerPort, worker, client_id_list, call, current>>
      /\ \A h \in Handles : handles'[h] = handles[h] \/ handles'[h] \in {Unused, Closed}
                            \/ handles'[h].kind = "port"
      /\ \A c \in Calls : conn'[c] = conn[c] \/ (conn[c] = "pending" /\ conn'[c] = "closed")
      /\ \A q \in Regs : wait'[q] = wait[q] \/ (wait[q] = "none" /\ wait'[q] = "NtListenPort")
  BY BaseHeld, RegistrationEffect
<1>2. CallOrder' /\ TakenAlive' /\ HeldInTurn'
  BY <1>1, BaseHeld, OrderFrame
<1>3. ServerPortsHeld'
  <2>1. \A h \in Handles, c \in Calls : handles'[h] = Comm(c) => handles[h] = Comm(c)
    BY <1>1 DEF Comm, Unused, Closed
  <2>2. \A q \in Regs : Serving(q)' => Serving(q)
    BY <1>1 DEF Serving
  <2> QED
    BY <1>1, <2>1, <2>2 DEF AccountInv, ServerPortsHeld
<1>4. ProcessesHeld'
  <2>1. \A h \in Handles : handles'[h].kind = "process" => handles[h].kind = "process"
    BY <1>1 DEF Unused, Closed
  <2> QED
    BY <1>1, <2>1 DEF AccountInv, ProcessesHeld
<1>5. PortsRegistered'
  <2> USE DEF Base, IInv
  <2>1. ASSUME NEW n \in Names, NEW s \in Shapes, CreatePort(r, n, s)
        PROVE  PortsRegistered'
    <3>1. /\ \A h \in Handles : handles[h] # Port(r)
          /\ \A q \in Regs \ {r} : hPort'[q] = hPort[q] /\ api'[q] = api[q]
      BY <2>1 DEF CreatePort, AccountInv, PortsRegistered, TypeOK
    <3>2. CASE UNCHANGED handles
      BY <3>1, <3>2 DEF AccountInv, PortsRegistered
    <3>3. ASSUME NEW h \in Candidates(handles), handles' = Opened(handles, h, Port(r)),
                 hPort' = [hPort EXCEPT ![r] = h], api' = [api EXCEPT ![r] = "created"]
          PROVE  PortsRegistered'
      <4>1. h \in Handles /\ \A g \in Handles \ {h} : handles'[g] = handles[g]
        BY <3>3, CandidatesFree DEF Opened, TypeOK
      <4>2. handles'[h] = Port(r) /\ \A q \in Regs \ {r} : handles'[h] # Port(q)
        <5>1. handles'[h] = Port(r)
          BY <3>3, <4>1 DEF Opened, TypeOK
        <5> QED
          BY <5>1, ObjectsDiffer
      <4>3. hPort'[r] = h /\ api'[r] = "created"
        BY <3>3 DEF TypeOK
      <4> QED
        BY <3>1, <4>1, <4>2, <4>3 DEF AccountInv, PortsRegistered
    <3> QED
      BY <2>1, <3>2, <3>3 DEF CreatePort
  <2>2. CASE StartWaitThread(r) \/ SetCloseEvent(r)
    <3>1. /\ UNCHANGED <<handles, hPort>>
          /\ \A q \in Regs : api'[q] = api[q] \/ api'[q] \in {"registered", "closing"}
      BY <2>2 DEF StartWaitThread, SetCloseEvent, TypeOK
    <3> QED
      BY <3>1 DEF AccountInv, PortsRegistered
  <2>3. CASE ClosePort(r)
    <3>1. api[r] = "closing" /\ wait[r] # "exited"
      BY <2>3 DEF ClosePort, ListensWhileOpen
    <3>2. hPort[r] \in Handles /\ handles[hPort[r]] = Port(r)
      BY <3>1 DEF PortsHeld
    <3>3. /\ handles' = Closing(handles, {hPort[r]}) /\ UNCHANGED hPort
          /\ \A q \in Regs \ {r} : api'[q] = api[q]
      BY <2>3, <3>1 DEF ClosePort, PortRead, CloseHandles, TypeOK
    <3>4. handles'[hPort[r]] = Closed
      BY <3>2, <3>3, ObjectsDiffer DEF Closing, IsOpen
    <3>5. \A h \in Handles, q \in Regs : handles'[h] = Port(q) => handles[h] = Port(q)
      BY <3>3, ClosingAdds, ObjectsDiffer
    <3>6. \A h \in Handles : handles'[h] # Port(r)
      BY <3>4, <3>5, ObjectsDiffer DEF AccountInv, PortsRegistered
    <3> QED
      BY <3>3, <3>5, <3>6 DEF AccountInv, PortsRegistered
  <2> QED
    BY <2>1, <2>2, <2>3
<1> QED
  BY <1>2, <1>3, <1>4, <1>5 DEF AccountInv

(* A client moves its own connection and no handle of the service.         *)
LEMMA ClientAccount ==
  ASSUME Held, IdInv, AccountInv, NEW c \in Calls,
         \/ \E n \in Names, s \in Shapes, nullArg \in BOOLEAN : BeginCall(c, n, s, nullArg)
         \/ ClientStep(c) \/ Die(c)
  PROVE  AccountInv'
<1> USE DEF Held
<1>1. UNCHANGED <<handles, api, hPort, hClientProcess, hServerPort, worker, client_id_list, wait, current>>
  BY ClientEffect
<1>2. /\ \A d \in Calls \ {c} : conn'[d] = conn[d] /\ call'[d] = call[d]
      /\ call[c] # "dead" /\ call'[c] = "dead" => conn'[c] \in {"none", "pending", "closed"}
      /\ \/ call'[c] = "dead" /\ conn'[c] = (IF conn[c] \in {"none", "pending"} THEN conn[c] ELSE "closed")
         \/ call[c] = "idle" /\ UNCHANGED conn
         \/ call[c] = "NtConnectPort" /\ conn'[c] = "pending" /\ call'[c] = "connecting"
         \/ call[c] = "NtConnectPort" /\ UNCHANGED conn
         \/ call[c] = "connecting" /\ conn[c] = "connected" /\ UNCHANGED conn /\ call'[c] = "request"
         \/ call[c] = "connecting" /\ conn[c] \in {"refused", "closed"} /\ UNCHANGED conn
         \/ /\ call[c] = "request" /\ call'[c] = "waiting"
            /\ conn'[c] = (IF conn[c] = "connected" THEN "requested" ELSE conn[c])
         \/ call[c] = "waiting" /\ conn[c] \in {"replied", "closed"} /\ UNCHANGED conn
         \/ call[c] = "NtReplyPort" /\ conn'[c] = (IF conn[c] = "replied" THEN "acked" ELSE conn[c])
         \/ call[c] = "NtClose" /\ conn'[c] = "closed"
  BY DEF BeginCall, ClientStep, Connect, ConnectReturns, Request, RequestReturns, Reply, CloseAndReturn, Die,
         TypeOK, ClientAt, Return, InCall
<1>3. call[c] # "dead" /\ (call[c] \in {"idle", "NtConnectPort"} => conn[c] = "none")
  BY DEF CallInv, ConnectedOnce, BeginCall, ClientStep, Connect, ConnectReturns, Request, RequestReturns, Reply,
         CloseAndReturn, Die, ClientAt, InCall
<1>4. CallOrder'
  BY <1>2, <1>3 DEF AccountInv, CallOrder
<1>5. TakenAlive'
  <2>1. ASSUME NEW r \in Regs, wait[r] \in {"complete", "receive", "drop"}
        PROVE  /\ wait[r] = "complete" => conn'[current[r]] = "accepted" \/ call'[current[r]] = "dead"
               /\ wait[r] = "receive" => conn'[current[r]] \in {"connected", "requested"} \/ call'[current[r]] = "dead"
               /\ wait[r] = "drop" /\ hServerPort[current[r]] # None => call'[current[r]] = "dead"
    <3>1. /\ wait[r] = "complete" => conn[current[r]] = "accepted" \/ call[current[r]] = "dead"
          /\ wait[r] = "receive" => conn[current[r]] \in {"connected", "requested"} \/ call[current[r]] = "dead"
          /\ wait[r] = "drop" /\ hServerPort[current[r]] # None => call[current[r]] = "dead"
      BY DEF AccountInv, TakenAlive
    <3>2. current[r] \in Calls
      BY <2>1, ServedFacts DEF Serving
    <3>3. CASE current[r] # c
      BY <1>2, <3>1, <3>2, <3>3
    <3>4. CASE current[r] = c
      <4>1. conn[c] \in {"accepted", "connected", "requested"} =>
              \/ call[c] = "connecting" /\ conn[c] \in {"accepted", "connected"}
              \/ call[c] = "request" /\ conn[c] = "connected"
              \/ call[c] = "waiting" /\ conn[c] = "requested"
        BY DEF AccountInv, CallOrder
      <4> QED
        BY <1>2, <1>3, <2>1, <3>1, <3>4, <4>1
    <3> QED
      BY <3>3, <3>4
  <2> QED
    BY <1>1, <2>1 DEF TakenAlive
<1>6. HeldInTurn'
  BY <1>1, <1>2, <1>3 DEF AccountInv, HeldInTurn
<1>7. ServerPortsHeld'
  BY <1>1, <1>2, <1>3 DEF AccountInv, ServerPortsHeld, Serving
<1>8. ProcessesHeld' /\ PortsRegistered'
  BY <1>1 DEF AccountInv, ProcessesHeld, PortsRegistered
<1> QED
  BY <1>4, <1>5, <1>6, <1>7, <1>8 DEF AccountInv

(* A worker touches the handles it holds, and only in the end.             *)
LEMMA WorkerAccount ==
  ASSUME Held, AccountInv, NEW c \in Calls, WorkerStep(c)
  PROVE  AccountInv'
<1> USE DEF Held, Moves, apiVars, waitVars, paramVars, clientVars
<1>1. /\ UNCHANGED <<call, wait, current, api, hPort>> /\ worker[c] # "none"
      /\ \A d \in Calls \ {c} : worker'[d] = worker[d]
  BY DEF WorkerStep, EnterClientId, MapParameters, EnterRoutine, LeaveRoutine, SyncParameters, SendReply,
         ReplyReturns, EraseClientId, ExitWorker, TypeOK
<1>2. \A q \in Regs : Serving(q) => current[q] \in Calls \ {c}
  BY <1>1, ServedFacts
<1>3. conn[c] \notin {"none", "pending"}
  BY <1>1 DEF CallInv, WorkerChecked
<1>4. ASSUME \A d \in Calls \ {c} : conn'[d] = conn[d] /\ hClientProcess'[d] = hClientProcess[d]
                                   /\ hServerPort'[d] = hServerPort[d],
             conn'[c] \in {conn[c], "replied", "closed"}
      PROVE  CallOrder' /\ TakenAlive' /\ HeldInTurn'
  <2>1. CallOrder'
    BY <1>1, <1>4 DEF AccountInv, CallOrder
  <2>2. TakenAlive'
    BY <1>1, <1>2, <1>4 DEF AccountInv, TakenAlive, Serving
  <2>3. HeldInTurn'
    BY <1>1, <1>2, <1>3, <1>4 DEF AccountInv, HeldInTurn, Serving
  <2> QED
    BY <2>1, <2>2, <2>3
<1>5. ASSUME UNCHANGED <<handles, hClientProcess, hServerPort>>,
             \A d \in Calls : conn[d] = "closed" => conn'[d] = "closed"
      PROVE  ServerPortsHeld' /\ ProcessesHeld' /\ PortsRegistered'
  <2>1. ServerPortsHeld'
    BY <1>1, <1>5 DEF AccountInv, ServerPortsHeld, Serving
  <2> QED
    BY <1>1, <1>5, <2>1 DEF AccountInv, ProcessesHeld, PortsRegistered
<1>6. CASE \/ EnterClientId(c) \/ MapParameters(c) \/ EnterRoutine(c) \/ LeaveRoutine(c) \/ SyncParameters(c)
           \/ SendReply(c) \/ ReplyReturns(c) \/ EraseClientId(c)
  <2>1. /\ UNCHANGED <<handles, hClientProcess, hServerPort>>
        /\ \A d \in Calls \ {c} : conn'[d] = conn[d]
        /\ conn'[c] \in {conn[c], "replied", "closed"} /\ (conn[c] = "closed" => conn'[c] = "closed")
    BY <1>6 DEF EnterClientId, MapParameters, EnterRoutine, LeaveRoutine, SyncParameters, SendReply,
           ReplyReturns, EraseClientId, TypeOK
  <2> QED
    BY <1>4, <1>5, <2>1 DEF AccountInv
<1>7. CASE ExitWorker(c)
  <2> DEFINE hs == {hClientProcess[c], hServerPort[c]}
  <2>1. /\ handles' = Closing(handles, hs) /\ worker'[c] = "exited"
        /\ \A d \in Calls \ {c} : hClientProcess'[d] = hClientProcess[d] /\ hServerPort'[d] = hServerPort[d]
    BY <1>7 DEF ExitWorker, CloseHandles, TypeOK
  <2>2. /\ \A d \in Calls \ {c} : conn'[d] = conn[d]
        /\ conn'[c] \in {conn[c], "closed"}
    <3>1. \A d \in Calls : conn'[d] =
            IF \/ conn[d] = "pending" /\ \E h \in hs : IsOpen(handles, h) /\ handles[h] = Port(dest[d])
               \/ conn[d] # "none" /\ \E h \in hs : IsOpen(handles, h) /\ handles[h] = Comm(d)
            THEN "closed" ELSE conn[d]
      BY <1>7 DEF ExitWorker, CloseHandles
    <3>2. \A h \in hs : IsOpen(handles, h) =>
            /\ \A r : handles[h] # Port(r)
            /\ \A d \in Calls \ {c} : handles[h] # Comm(d)
      <4>1. ASSUME NEW h \in hs, IsOpen(handles, h)
            PROVE  handles[h] \in {Process(c), Process(None), Comm(c)}
        <5>1. h # None
          BY <4>1, HandleAssumption DEF IsOpen
        <5>2. CASE h = hClientProcess[c]
          BY <5>1, <5>2 DEF HeldHandlesValid
        <5>3. CASE h = hServerPort[c]
          BY <5>1, <5>3 DEF HeldHandlesValid
        <5> QED
          BY <4>1, <5>2, <5>3
      <4> QED
        BY <4>1, ObjectsDiffer
    <3> QED
      BY <3>1, <3>2
  <2>3. \A h \in Handles :
          /\ handles'[h] \in {handles[h], Closed}
          /\ h \in hs => handles'[h] \in {Unused, Closed}
    BY <2>1, ClosingAdds
  <2>4. ServerPortsHeld'
    <3>1. ASSUME NEW d \in Calls, NEW h \in Handles, handles'[h] = Comm(d)
          PROVE  handles[h] = Comm(d) /\ h \notin hs
      BY <2>3, <3>1, ObjectsDiffer
    <3>2. \A h \in Handles : handles'[h] # Comm(c)
      BY <1>1, <3>1 DEF AccountInv, ServerPortsHeld
    <3>3. ASSUME NEW d \in Calls \ {c}, NEW h \in Handles, handles'[h] = Comm(d)
          PROVE  \/ hServerPort'[d] = h
                 \/ /\ call'[d] = "dead" /\ worker'[d] = "none" /\ conn'[d] = "closed"
                    /\ \A r \in Regs : Serving(r)' => current'[r] # d
      <4>1. \/ hServerPort[d] = h
            \/ /\ call[d] = "dead" /\ worker[d] = "none" /\ conn[d] = "closed"
               /\ \A r \in Regs : Serving(r) => current[r] # d
        BY <3>1, <3>3 DEF AccountInv, ServerPortsHeld
      <4> QED
        BY <1>1, <2>1, <2>2, <3>3, <4>1 DEF Serving
    <3> QED
      BY <3>2, <3>3 DEF ServerPortsHeld
  <2>5. ProcessesHeld'
    <3>1. ASSUME NEW h \in Handles, handles'[h].kind = "process"
          PROVE  \E d \in Calls : hClientProcess'[d] = h
      <4>1. handles[h].kind = "process" /\ h \notin hs
        BY <2>3, <3>1 DEF Unused, Closed
      <4>2. PICK d \in Calls : hClientProcess[d] = h
        BY <4>1 DEF AccountInv, ProcessesHeld
      <4> QED
        BY <2>1, <4>1, <4>2
    <3> QED
      BY <3>1 DEF ProcessesHeld
  <2>6. PortsRegistered'
    BY <1>1, <2>3, ObjectsDiffer DEF AccountInv, PortsRegistered
  <2> QED
    BY <1>4, <2>1, <2>2, <2>4, <2>5, <2>6 DEF AccountInv
<1> QED
  BY <1>6, <1>7 DEF WorkerStep

(* A wait thread that serves a call moves that call only, so the order of  *)
(* the other calls and of the threads that serve them stays.               *)
LEMMA ServingFrame ==
  ASSUME Held, AccountInv, NEW r \in Regs, WaitThreadStep(r), Serving(r), NEW c, c = current[r],
         conn'[c] = "accepted" => conn[c] = "received" \/ conn[c] = "accepted",
         conn'[c] = "connected" => conn[c] = "accepted" \/ conn[c] = "connected",
         conn'[c] \in {"received", "requested"} => conn'[c] = conn[c],
         conn'[c] \notin {"none", "pending"},
         wait'[r] = "complete" => conn'[c] = "accepted" \/ call[c] = "dead",
         wait'[r] = "receive" => conn'[c] \in {"connected", "requested"} \/ call[c] = "dead",
         wait'[r] = "drop" /\ hServerPort'[c] # None => call[c] = "dead",
         wait'[r] # "OpenProcess",
         wait'[r] \in {"refuse", "accept"} => hServerPort'[c] = None
  PROVE  CallOrder' /\ TakenAlive' /\ HeldInTurn'
<1>1. /\ UNCHANGED call /\ current'[r] = c /\ c \in Calls
      /\ \A d \in Calls \ {c} : /\ conn'[d] = conn[d]
                                /\ hClientProcess'[d] = hClientProcess[d] /\ hServerPort'[d] = hServerPort[d]
  BY WaitEffect
<1>2. ASSUME NEW q \in Regs \ {r}
      PROVE  wait'[q] = wait[q] /\ current'[q] = current[q] /\ (Serving(q) => current[q] \in Calls \ {c})
  BY WaitEffect
<1>3. CallOrder'
  BY <1>1 DEF AccountInv, CallOrder
<1>4. TakenAlive'
  BY <1>1, <1>2 DEF AccountInv, TakenAlive, Serving
<1>5. HeldInTurn'
  BY <1>1, <1>2 DEF AccountInv, HeldInTurn, Serving
<1> QED
  BY <1>3, <1>4, <1>5

(* A wait thread opens handles for the call it serves, in turn, and hands  *)
(* them to the worker or closes them.                                      *)
LEMMA WaitThreadAccount ==
  ASSUME ~ ThreadFailures, Held, IdInv, AccountInv, NEW r \in Regs, WaitThreadStep(r)
  PROVE  AccountInv'
<1> DEFINE c == current[r]
<1> USE DEF Held, WaitAt, Goto, apiVars, paramVars, workerVars, clientVars
<1>1. CASE Listen(r) \/ CheckCloseEvent(r)
  <2>1. /\ UNCHANGED <<handles, hPort, api, hClientProcess, hServerPort, worker, call>>
        /\ \A q \in Regs \ {r} : wait'[q] = wait[q] /\ current'[q] = current[q]
    BY <1>1 DEF Listen, CheckCloseEvent, TypeOK
  <2>2. CASE UNCHANGED <<conn, current>> /\ wait'[r] \in {"CloseEvent", "exited", "NtListenPort"}
    <3>1. CallOrder' /\ TakenAlive' /\ HeldInTurn'
      BY <2>1, <2>2 DEF AccountInv, CallOrder, TakenAlive, HeldInTurn
    <3>2. ServerPortsHeld'
      BY <2>1, <2>2 DEF AccountInv, ServerPortsHeld, Serving
    <3> QED
      BY <2>1, <3>1, <3>2 DEF AccountInv, ProcessesHeld, PortsRegistered
  <2>3. ASSUME NEW d \in Calls, conn[d] = "pending", wait'[r] = "OpenProcess", current'[r] = d,
               conn' = [conn EXCEPT ![d] = IF call[d] = "dead" THEN "closed" ELSE "received"]
        PROVE  AccountInv'
    <3>1. \A q \in Regs \ {r} : Serving(q) => current[q] \in Calls \ {d}
      BY <2>3, ServedFacts
    <3>2. /\ \A e \in Calls \ {d} : conn'[e] = conn[e]
          /\ conn'[d] = (IF call[d] = "dead" THEN "closed" ELSE "received")
      BY <2>3 DEF TypeOK
    <3>3. hClientProcess[d] = None /\ hServerPort[d] = None
      BY <2>3 DEF AccountInv, HeldInTurn
    <3>4. CallOrder'
      BY <2>1, <2>3, <3>2 DEF AccountInv, CallOrder
    <3>5. TakenAlive'
      BY <2>1, <2>3, <3>1, <3>2 DEF AccountInv, TakenAlive, Serving
    <3>6. HeldInTurn'
      BY <2>1, <2>3, <3>2, <3>3 DEF AccountInv, HeldInTurn
    <3>7. ServerPortsHeld'
      <4>1. \A h \in Handles : handles[h] # Comm(d)
        BY <2>3, <3>3, HandleAssumption DEF AccountInv, ServerPortsHeld
      <4> QED
        BY <2>1, <2>3, <3>2, <4>1 DEF AccountInv, ServerPortsHeld, Serving
    <3> QED
      BY <2>1, <3>4, <3>5, <3>6, <3>7 DEF AccountInv, ProcessesHeld, PortsRegistered
  <2> QED
    BY <1>1, <2>2, <2>3 DEF Listen, CheckCloseEvent, TypeOK
<1>2. CASE Serving(r)
  <2>1. /\ c \in Calls /\ conn[c] \notin {"none", "pending"} /\ worker[c] = "none"
        /\ \A h \in Handles : handles[h] = Comm(c) => hServerPort[c] = h
        /\ wait[r] = "OpenProcess" => hClientProcess[c] = None
        /\ wait[r] \in {"OpenProcess", "refuse", "accept"} => hServerPort[c] = None
        /\ wait[r] = "complete" => conn[c] = "accepted" \/ call[c] = "dead"
        /\ wait[r] = "receive" => conn[c] \in {"connected", "requested"} \/ call[c] = "dead"
        /\ wait[r] = "drop" /\ hServerPort[c] # None => call[c] = "dead"
    BY <1>2, ServedFacts DEF AccountInv, ServerPortsHeld, HeldInTurn, TakenAlive
  <2>2. /\ UNCHANGED <<api, hPort, call>>
        /\ current'[r] = c
        /\ \A d \in Calls \ {c} :
             /\ conn'[d] = conn[d] /\ worker'[d] = worker[d]
             /\ hClientProcess'[d] = hClientProcess[d] /\ hServerPort'[d] = hServerPort[d]
    BY <1>2, WaitEffect
  <2>3. ASSUME NEW q \in Regs \ {r}
        PROVE  wait'[q] = wait[q] /\ current'[q] = current[q] /\ (Serving(q) => current[q] \in Calls \ {c})
    BY <1>2, WaitEffect
  (* What the step opens or closes is the served call's own.               *)
  <2>4. ASSUME \A h \in Handles :
                 \/ handles'[h] \in {handles[h], Closed}
                 \/ hClientProcess'[c] = h /\ handles'[h].kind = "process"
                 \/ hServerPort'[c] = h /\ handles'[h] = Comm(c),
               hClientProcess[c] # None =>
                 hClientProcess'[c] = hClientProcess[c] \/ handles'[hClientProcess[c]] = Closed,
               \/ hServerPort[c] = None \/ hServerPort'[c] = hServerPort[c]
               \/ call[c] = "dead" /\ conn'[c] = "closed" /\ worker'[c] = "none" /\ wait'[r] = "NtListenPort"
        PROVE  ServerPortsHeld' /\ ProcessesHeld' /\ PortsRegistered'
    <3>1. ASSUME NEW d \in Calls, NEW h \in Handles, handles'[h] = Comm(d)
          PROVE  \/ hServerPort'[d] = h
                 \/ /\ call'[d] = "dead" /\ worker'[d] = "none" /\ conn'[d] = "closed"
                    /\ \A q \in Regs : Serving(q)' => current'[q] # d
      <4>1. CASE handles'[h] # handles[h]
        BY <2>4, <3>1, <4>1, ObjectsDiffer DEF Comm
      <4>2. CASE handles[h] = Comm(d) /\ d = c
        BY <2>1, <2>2, <2>3, <2>4, <4>2, HandleAssumption DEF Serving
      <4>3. CASE handles[h] = Comm(d) /\ d # c
        <5>1. \/ hServerPort[d] = h
              \/ /\ call[d] = "dead" /\ worker[d] = "none" /\ conn[d] = "closed"
                 /\ \A q \in Regs : Serving(q) => current[q] # d
          BY <4>3 DEF AccountInv, ServerPortsHeld
        <5> QED
          BY <2>2, <2>3, <4>3, <5>1 DEF Serving
      <4> QED
        BY <3>1, <4>1, <4>2, <4>3
    <3>2. ASSUME NEW h \in Handles, handles'[h].kind = "process"
          PROVE  \E d \in Calls : hClientProcess'[d] = h
      <4>1. CASE handles'[h] # handles[h]
        BY <2>1, <2>4, <3>2, <4>1 DEF Comm, Closed
      <4>2. CASE handles'[h] = handles[h]
        <5>1. PICK d \in Calls : hClientProcess[d] = h
          BY <3>2, <4>2 DEF AccountInv, ProcessesHeld
        <5>2. h # None /\ handles'[h] # Closed
          BY <3>2, HandleAssumption DEF Closed
        <5> QED
          BY <2>1, <2>2, <2>4, <5>1, <5>2
      <4> QED
        BY <4>1, <4>2
    <3>3. \A q \in Regs, h \in Handles : handles'[h] = Port(q) => handles[h] = Port(q)
      BY <2>4, ObjectsDiffer DEF Port, Comm
    <3> QED
      BY <2>2, <3>1, <3>2, <3>3 DEF AccountInv, ServerPortsHeld, ProcessesHeld, PortsRegistered
  <2>5. CASE OpenClientProcess(r)
    <3>1. CallOrder' /\ TakenAlive' /\ HeldInTurn'
      <4>1. /\ wait[r] = "OpenProcess" /\ wait'[r] \in {"accept", "refuse"}
            /\ UNCHANGED <<conn, hServerPort>>
        BY <2>5 DEF OpenClientProcess, TypeOK
      <4> QED
        BY <1>2, <2>1, <4>1, ServingFrame
    <3>2. ASSUME NEW h \in Candidates(handles), handles' = Opened(handles, h, ProcessByNumber(c)),
                 hClientProcess' = [hClientProcess EXCEPT ![c] = h]
          PROVE  /\ \A g \in Handles : handles'[g] = handles[g]
                                     \/ (hClientProcess'[c] = g /\ handles'[g].kind = "process")
      <4>1. h \in Handles
        BY CandidatesFree
      <4>2. ProcessByNumber(c).kind = "process"
        BY DEF ProcessByNumber, Process
      <4> QED
        BY <2>1, <3>2, <4>1, <4>2 DEF Opened, TypeOK
    <3>3. wait[r] = "OpenProcess" /\ UNCHANGED hServerPort
      BY <2>5 DEF OpenClientProcess
    <3>4. ServerPortsHeld' /\ ProcessesHeld' /\ PortsRegistered'
      <4>1. CASE UNCHANGED handles
        BY <2>1, <2>4, <3>3, <4>1
      <4>2. CASE \E h \in Candidates(handles) : /\ handles' = Opened(handles, h, ProcessByNumber(c))
                                                /\ hClientProcess' = [hClientProcess EXCEPT ![c] = h]
        BY <2>1, <2>4, <3>2, <3>3, <4>2
      <4> QED
        BY <2>5, <4>1, <4>2 DEF OpenClientProcess
    <3> QED
      BY <3>1, <3>4 DEF AccountInv
  <2>6. CASE Refuse(r) \/ DropParam(r)
    <3>1. /\ wait'[r] = "NtListenPort" /\ conn'[c] \in {conn[c], "refused"} /\ (conn[c] = "closed" => conn'[c] = "closed")
          /\ handles' = Closing(handles, {hClientProcess[c]}) /\ hClientProcess'[c] = None
          /\ UNCHANGED worker /\ wait[r] \in {"refuse", "drop"}
          /\ wait[r] = "refuse" => UNCHANGED hServerPort
      BY <2>1, <2>6 DEF Refuse, DropParam, TypeOK
    <3>2. CallOrder' /\ TakenAlive' /\ HeldInTurn'
      BY <1>2, <2>1, <3>1, ServingFrame
    <3>3. /\ \A h \in Handles : handles'[h] \in {handles[h], Closed}
          /\ hClientProcess[c] # None => handles'[hClientProcess[c]] = Closed
      <4>1. \A h \in Handles : handles'[h] \in {handles[h], Closed}
        BY <3>1, ClosingAdds
      <4>2. hClientProcess[c] # None => handles'[hClientProcess[c]] = Closed
        BY <2>1, <3>1, HeldFacts DEF Closing, IsOpen
      <4> QED
        BY <4>1, <4>2
    <3>4. call[c] = "dead" => conn[c] = "closed"
      BY <2>1 DEF IdInv, DeadClosed
    <3> QED
      BY <2>1, <2>4, <3>1, <3>2, <3>3, <3>4 DEF AccountInv
  <2>7. CASE Accept(r)
    <3>1. wait[r] = "accept" /\ hServerPort[c] = None /\ UNCHANGED hClientProcess
      BY <2>1, <2>7 DEF Accept
    <3>2. CASE UNCHANGED <<handles, conn, hServerPort>> /\ wait'[r] = "drop"
      BY <1>2, <2>1, <2>4, <3>1, <3>2, ServingFrame DEF AccountInv
    <3>3. ASSUME NEW h \in Candidates(handles), handles' = Opened(handles, h, Comm(c)),
                 hServerPort' = [hServerPort EXCEPT ![c] = h],
                 conn[c] = "received", conn' = [conn EXCEPT ![c] = "accepted"], wait'[r] = "complete"
          PROVE  AccountInv'
      <4>1. h \in Handles
        BY CandidatesFree
      <4>2. \A g \in Handles : handles'[g] = handles[g] \/ (hServerPort'[c] = g /\ handles'[g] = Comm(c))
        BY <2>1, <3>3, <4>1 DEF Opened, TypeOK
      <4>3. conn'[c] = "accepted"
        BY <2>1, <3>3 DEF TypeOK
      <4>4. CallOrder' /\ TakenAlive' /\ HeldInTurn'
        BY <1>2, <2>1, <3>3, <4>3, ServingFrame
      <4> QED
        BY <2>4, <3>1, <4>2, <4>4 DEF AccountInv
    <3> QED
      BY <2>7, <3>2, <3>3 DEF Accept, TypeOK
  <2>8. CASE Complete(r) \/ Receive(r)
    <3>1. UNCHANGED <<handles, hClientProcess, hServerPort>>
      BY <2>8 DEF Complete, Receive
    <3>2. CallOrder' /\ TakenAlive' /\ HeldInTurn'
      <4>1. CASE Complete(r)
        <5>1. /\ wait[r] = "complete" /\ conn'[c] = (IF conn[c] = "accepted" THEN "connected" ELSE conn[c])
              /\ wait'[r] = (IF conn[c] = "accepted" THEN "receive" ELSE "drop")
          BY <2>1, <4>1 DEF Complete, TypeOK
        <5> QED
          BY <1>2, <2>1, <5>1, ServingFrame
      <4>2. CASE Receive(r)
        <5>1. /\ wait[r] = "receive"
              /\ \/ conn[c] = "requested" /\ conn'[c] = "serving" /\ wait'[r] = "CreateThread"
                 \/ conn[c] = "closed" /\ conn'[c] = "closed" /\ wait'[r] = "drop"
          BY <2>1, <4>2 DEF Receive, TypeOK
        <5> QED
          BY <1>2, <2>1, <5>1, ServingFrame
      <4> QED
        BY <2>8, <4>1, <4>2
    <3> QED
      BY <2>4, <3>1, <3>2 DEF AccountInv
  <2>9. CASE CreateWorker(r)
    <3>1. UNCHANGED <<handles, conn, hClientProcess, hServerPort>> /\ wait'[r] = "NtListenPort"
      BY <2>9 DEF CreateWorker, TypeOK
    <3>2. CallOrder' /\ TakenAlive' /\ HeldInTurn'
      BY <1>2, <2>1, <3>1, ServingFrame
    <3> QED
      BY <2>4, <3>1, <3>2 DEF AccountInv
  <2> QED
    BY <1>2, <2>5, <2>6, <2>7, <2>8, <2>9 DEF WaitThreadStep, Listen, CheckCloseEvent, Serving
<1> QED
  BY <1>1, <1>2 DEF WaitThreadStep, OpenClientProcess, Refuse, Accept, Complete, Receive, DropParam, CreateWorker, Serving

(* At first nothing is open.                                               *)
LEMMA InitAccount == Init => AccountInv
BY DEF Init, AccountInv, CallOrder, TakenAlive, HeldInTurn, ServerPortsHeld, ProcessesHeld, PortsRegistered,
       Unused, Comm, Port, Serving

(* One lemma per family of steps, together.                                *)
LEMMA NextAccount ==
  ASSUME ~ SpuriousListen, ~ ThreadFailures, Base, IdInv, AccountInv, [Next]_vars
  PROVE  AccountInv'
<1>1. CASE UNCHANGED vars
  BY <1>1 DEF vars, apiVars, waitVars, paramVars, workerVars, clientVars, AccountInv, CallOrder, TakenAlive,
              HeldInTurn, ServerPortsHeld, ProcessesHeld, PortsRegistered, Serving
<1>2. CASE Next /\ ~ Finished
  BY <1>2, BaseHeld, RegistrationAccount, WaitThreadAccount, WorkerAccount, ClientAccount DEF Next
<1> QED
  BY <1>1, <1>2 DEF Finished

(* What accounts for the open handles is kept, when threads can be created.*)
THEOREM AccountInvariance == ~ SpuriousListen /\ ~ ThreadFailures => (Spec => []AccountInv)
<1> SUFFICES ASSUME ~ SpuriousListen, ~ ThreadFailures PROVE Spec => []AccountInv
  OBVIOUS
<1>1. Base /\ IdInv /\ AccountInv /\ [Next]_vars => AccountInv'
  BY NextAccount
<1> QED
  BY <1>1, InitAccount, BaseInvariance, IdInvariance, PTL DEF Spec

(* Whatever is open in the service is accounted for, when threads can be   *)
(* created: nothing is left open that nobody will close but the server     *)
(* port of a client who died before its request was served.                *)
THEOREM HandlesStayAccounted == ~ SpuriousListen /\ ~ ThreadFailures => (Spec => []HandlesAccounted)
<1> SUFFICES ASSUME ~ SpuriousListen, ~ ThreadFailures PROVE Spec => []HandlesAccounted
  OBVIOUS
<1>1. Base /\ AccountInv => HandlesAccounted
  <2> SUFFICES ASSUME Base, AccountInv, NEW h \in Handles
               PROVE  /\ handles[h].kind = "process" => \E c \in Calls : hClientProcess[c] = h
                      /\ handles[h].kind = "port" =>
                           /\ hPort[handles[h].id] = h
                           /\ api[handles[h].id] \in {"created", "registered", "closing"}
                      /\ handles[h].kind = "comm" =>
                           \/ hServerPort[handles[h].id] = h
                           \/ call[handles[h].id] = "dead" /\ worker[handles[h].id] = "none"
    BY DEF HandlesAccounted
  <2>1. handles[h] \in ObjectType
    BY DEF Base, IInv, TypeOK
  <2>2. handles[h].kind = "port" => \E r \in Regs : handles[h] = Port(r) /\ handles[h].id = r
    BY <2>1 DEF ObjectType, Unused, Closed, Port, Process, Comm
  <2>3. handles[h].kind = "comm" => \E c \in Calls : handles[h] = Comm(c) /\ handles[h].id = c
    BY <2>1 DEF ObjectType, Unused, Closed, Port, Process, Comm
  <2> QED
    BY <2>2, <2>3 DEF AccountInv, ProcessesHeld, PortsRegistered, ServerPortsHeld
<1> QED
  BY <1>1, BaseInvariance, AccountInvariance, PTL
=============================================================================
