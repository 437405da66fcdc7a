---------------------------- MODULE ClientIdList ----------------------------
(***************************************************************************)
(* client_id_list down to its critical section and its vector, with        *)
(* ScInitializeService, which creates both.  Callers are the threads of    *)
(* the service that initialize the library and then register a routine;    *)
(* workers are named by their thread ids, which Windows gives out again.   *)
(* A critical section and a vector are named by the caller that made them. *)
(***************************************************************************)
EXTENDS Naturals, SequencesExt

CONSTANTS
  Callers,    (* threads that call ScInitializeService                     *)
  Workers,    (* thread ids of worker threads                              *)
  Processes,  (* values of client process handles                          *)
  MaxCalls,   (* calls served (a bound)                                    *)
  None

ASSUME ClientIdAssumption ==
  /\ None \notin Callers \cup Workers \cup Processes \cup {"native", "STATUS_NOT_FOUND"}
  /\ "STATUS_NOT_FOUND" \notin Processes
  /\ MaxCalls \in Nat

VARIABLES
  lpCriticalSection, client_id_list, system_lpc_message_length,  (* statics *)
  initialized,     (* the critical sections that are initialized           *)
  owner,           (* the worker inside each critical section              *)
  entries,         (* the elements of each vector                          *)
  caller,          (* where each caller is                                 *)
  worker,          (* where each worker thread is                          *)
  hClientProcess,  (* the process handle of the call a worker serves       *)
  pos,             (* the iterator of a worker's loop, as a position       *)
  found,           (* what RtlClientId has found in the current call       *)
  calls            (* the number of calls served                           *)

statics == <<lpCriticalSection, client_id_list, system_lpc_message_length>>
callVars == <<hClientProcess, pos, found, calls>>
vars == <<statics, initialized, owner, entries, caller, worker, callVars>>

Entry == [hProcess : Processes, thread : Workers]
List == IF client_id_list = None THEN <<>> ELSE entries[client_id_list]

-----------------------------------------------------------------------------
(* ScInitializeService, one step per statement.                            *)

CallerAt(t, from, to) == caller[t] = from /\ caller' = [caller EXCEPT ![t] = to]

(* if (lpCriticalSection) return STATUS_SUCCESS.                           *)
CheckInitialized(t) ==
  /\ CallerAt(t, "begin", IF lpCriticalSection # None THEN "returned" ELSE "new")
  /\ UNCHANGED <<statics, initialized, owner, entries, worker, callVars>>

(* lpCriticalSection = new CRITICAL_SECTION, before it is initialized.     *)
NewCriticalSection(t) ==
  /\ CallerAt(t, "new", "InitializeCriticalSection")
  /\ lpCriticalSection' = t
  /\ UNCHANGED <<client_id_list, system_lpc_message_length, initialized, owner, entries, worker,
                 callVars>>

InitializeCriticalSection(t) ==
  /\ CallerAt(t, "InitializeCriticalSection", "list")
  /\ initialized' = initialized \cup {t}
  /\ owner' = [owner EXCEPT ![t] = None]
  /\ UNCHANGED <<statics, entries, worker, callVars>>

NewList(t) ==
  /\ CallerAt(t, "list", "length")
  /\ client_id_list' = t
  /\ entries' = [entries EXCEPT ![t] = <<>>]
  /\ UNCHANGED <<lpCriticalSection, system_lpc_message_length, initialized, owner, worker, callVars>>

SetMessageLength(t) ==
  /\ CallerAt(t, "length", "returned")
  /\ system_lpc_message_length' = "native"
  /\ UNCHANGED <<lpCriticalSection, client_id_list, initialized, owner, entries, worker, callVars>>

(* The check at the start of ScRegisterServiceRoutineW; what follows is in *)
(* module Registration.                                                    *)
Register(t) ==
  /\ CallerAt(t, "returned", IF lpCriticalSection = None \/ client_id_list = None
                             THEN "STATUS_NOT_SUPPORTED" ELSE "registered")
  /\ UNCHANGED <<statics, initialized, owner, entries, worker, callVars>>

-----------------------------------------------------------------------------
(* The accesses of WorkerThread and of RtlClientId in its routine.         *)

WorkerAt(w, from, to) == worker[w] = from /\ worker' = [worker EXCEPT ![w] = to]

(* CreateThread in a wait thread, for a client whose open handle is p.     *)
StartWorker(w, p) ==
  /\ \A v \in Workers : worker[v] # "none" => hClientProcess[v] # p
  /\ \E t \in Callers : caller[t] = "registered"
  /\ WorkerAt(w, "none", "enter")
  /\ calls < MaxCalls /\ calls' = calls + 1
  /\ hClientProcess' = [hClientProcess EXCEPT ![w] = p]
  /\ found' = [found EXCEPT ![w] = None]
  /\ UNCHANGED <<statics, initialized, owner, entries, caller, pos>>

(* Mutant: the list is walked without the critical section.                *)
AcquireNothing(w, from, to) ==
  /\ WorkerAt(w, from, to)
  /\ pos' = [pos EXCEPT ![w] = 1]
  /\ UNCHANGED <<statics, initialized, owner, entries, caller, hClientProcess, found, calls>>

(* EnterCriticalSection(lpCriticalSection), then the iterator at begin().  *)
(* One that is not initialized may let anybody in.                         *)
Acquire(w, from, to) ==
  /\ WorkerAt(w, from, to)
  /\ lpCriticalSection \in initialized => owner[lpCriticalSection] = None
  /\ owner' = [owner EXCEPT ![lpCriticalSection] = w]
  /\ pos' = [pos EXCEPT ![w] = 1]
  /\ UNCHANGED <<statics, initialized, entries, caller, hClientProcess, found, calls>>

(* LeaveCriticalSection(lpCriticalSection).                                *)
Release(w, from, to) ==
  /\ WorkerAt(w, from, to)
  /\ owner' = [owner EXCEPT ![lpCriticalSection] = None]
  /\ UNCHANGED <<statics, initialized, entries, caller, callVars>>

PushBack(w) ==
  /\ WorkerAt(w, "push", "leavePush")
  /\ entries' = [entries EXCEPT ![client_id_list] =
                   Append(@, [hProcess |-> hClientProcess[w], thread |-> w])]
  /\ UNCHANGED <<statics, initialized, owner, caller, callVars>>

(* The routine asks for its client, once (a bound), or not at all, and     *)
(* returns; then the reply is sent.                                        *)
RunRoutine(w) ==
  /\ \/ found[w] = None /\ WorkerAt(w, "routine", "enterFind")
     \/ WorkerAt(w, "routine", "reply")
  /\ UNCHANGED <<statics, initialized, owner, entries, caller, callVars>>

(* One turn of the loop of RtlSafeThreadServiceClientId.                   *)
FindStep(w) ==
  /\ \/ /\ pos[w] > Len(List)
        /\ WorkerAt(w, "find", "leaveFind")
        /\ found' = [found EXCEPT ![w] = "STATUS_NOT_FOUND"]
        /\ UNCHANGED pos
     \/ /\ pos[w] <= Len(List) /\ List[pos[w]].thread = w
        /\ WorkerAt(w, "find", "leaveFind")
        /\ found' = [found EXCEPT ![w] = List[pos[w]].hProcess]
        /\ UNCHANGED pos
     \/ /\ pos[w] <= Len(List) /\ List[pos[w]].thread # w
        /\ WorkerAt(w, "find", "find")
        /\ pos' = [pos EXCEPT ![w] = @ + 1]
        /\ UNCHANGED found
  /\ UNCHANGED <<statics, initialized, owner, entries, caller, hClientProcess, calls>>

Reply(w) ==
  /\ WorkerAt(w, "reply", "enterErase")
  /\ UNCHANGED <<statics, initialized, owner, entries, caller, callVars>>

(* Mutant: the iterator moves on before the element is erased.             *)
EraseNext(w) ==
  /\ pos[w] <= Len(List) /\ List[pos[w]].thread = w
  /\ WorkerAt(w, "erase", "leaveErase")
  /\ entries' = [entries EXCEPT ![client_id_list] = IF pos[w] < Len(@) THEN RemoveAt(@, pos[w] + 1) ELSE @]
  /\ UNCHANGED pos

(* client_id_list->erase(i); break.                                        *)
EraseFound(w) ==
  /\ pos[w] <= Len(List) /\ List[pos[w]].thread = w
  /\ WorkerAt(w, "erase", "leaveErase")
  /\ entries' = [entries EXCEPT ![client_id_list] = RemoveAt(@, pos[w])]
  /\ UNCHANGED pos

(* Mutant: the iterator does not move.                                     *)
EraseStay(w) ==
  /\ pos[w] <= Len(List) /\ List[pos[w]].thread # w
  /\ WorkerAt(w, "erase", "erase")
  /\ UNCHANGED <<entries, pos>>

(* i++, past another thread's element.                                     *)
EraseAdvance(w) ==
  /\ pos[w] <= Len(List) /\ List[pos[w]].thread # w
  /\ WorkerAt(w, "erase", "erase")
  /\ pos' = [pos EXCEPT ![w] = @ + 1]
  /\ UNCHANGED entries

(* One turn of the loop that leaves the list.                              *)
EraseStep(w) ==
  /\ \/ EraseFound(w) \/ EraseAdvance(w)
     \/ /\ pos[w] > Len(List)
        /\ WorkerAt(w, "erase", "leaveErase")
        /\ UNCHANGED <<entries, pos>>
  /\ UNCHANGED <<statics, initialized, owner, caller, hClientProcess, found, calls>>

EnterCriticalSection(w) ==
  \/ Acquire(w, "enter", "push") \/ Acquire(w, "enterFind", "find") \/ Acquire(w, "enterErase", "erase")

(* After the last one the thread ends, and its id is free.                 *)
LeaveCriticalSection(w) ==
  \/ Release(w, "leavePush", "routine") \/ Release(w, "leaveFind", "routine")
  \/ Release(w, "leaveErase", "none")

-----------------------------------------------------------------------------
Init ==
  /\ lpCriticalSection = None /\ client_id_list = None /\ system_lpc_message_length = None
  /\ initialized = {} /\ owner = [t \in Callers |-> None] /\ entries = [t \in Callers |-> <<>>]
  /\ caller = [t \in Callers |-> "begin"] /\ worker = [w \in Workers |-> "none"]
  /\ hClientProcess = [w \in Workers |-> None] /\ pos = [w \in Workers |-> 1]
  /\ found = [w \in Workers |-> None] /\ calls = 0

CallerStep(t) ==
  \/ CheckInitialized(t) \/ NewCriticalSection(t) \/ InitializeCriticalSection(t) \/ NewList(t)
  \/ SetMessageLength(t) \/ Register(t)

WorkerStep(w) ==
  \/ EnterCriticalSection(w) \/ PushBack(w) \/ LeaveCriticalSection(w) \/ RunRoutine(w)
  \/ FindStep(w) \/ Reply(w) \/ EraseStep(w)

Finished ==
  /\ \A t \in Callers : caller[t] \in {"registered", "STATUS_NOT_SUPPORTED"}
  /\ \A w \in Workers : worker[w] = "none"
  /\ calls = MaxCalls \/ \A t \in Callers : caller[t] # "registered"
  /\ UNCHANGED vars

Next ==
  \/ \E t \in Callers : CallerStep(t)
  \/ \E w \in Workers : WorkerStep(w) \/ \E p \in Processes : StartWorker(w, p)
  \/ Finished

Spec == Init /\ [][Next]_vars

(* Windows schedules every ready thread, and a critical section that is    *)
(* free stays so or is taken; routines return.                             *)
Fairness == \A w \in Workers : WF_vars(WorkerStep(w))

FairSpec == Spec /\ Fairness

-----------------------------------------------------------------------------
(* A worker between the return of EnterCriticalSection and the call of     *)
(* LeaveCriticalSection.                                                   *)
Inside(w) == worker[w] \in {"push", "leavePush", "find", "leaveFind", "erase", "leaveErase"}

(* A worker that has entered itself in the list and not yet left it.       *)
Listed(w) == worker[w] \notin {"none", "enter", "push", "leaveErase"}

TypeOK ==
  /\ lpCriticalSection \in Callers \cup {None} /\ client_id_list \in Callers \cup {None}
  /\ system_lpc_message_length \in {None, "native"}
  /\ initialized \subseteq Callers
  /\ owner \in [Callers -> Workers \cup {None}] /\ entries \in [Callers -> Seq(Entry)]
  /\ caller \in [Callers -> {"begin", "new", "InitializeCriticalSection", "list", "length",
                             "returned", "registered", "STATUS_NOT_SUPPORTED"}]
  /\ worker \in [Workers -> {"none", "enter", "push", "leavePush", "routine", "enterFind", "find",
                             "leaveFind", "reply", "enterErase", "erase", "leaveErase"}]
  /\ hClientProcess \in [Workers -> Processes \cup {None}]
  /\ \A w \in Workers : worker[w] # "none" => hClientProcess[w] \in Processes
  /\ pos \in [Workers -> Nat \ {0}]
  /\ found \in [Workers -> Processes \cup {None, "STATUS_NOT_FOUND"}]
  /\ calls \in Nat

(* Initialization is complete before a worker exists: the statics are set, *)
(* the critical section is initialized, and nobody will set them again.    *)
InitializedFirst ==
  \A w \in Workers : worker[w] # "none" =>
    /\ lpCriticalSection \in initialized /\ client_id_list # None
    /\ system_lpc_message_length # None

(* One worker at a time is inside the critical section, and the critical   *)
(* section knows it: an iterator that one holds is not made invalid by     *)
(* another's push_back or erase.                                           *)
OneInside == \A w \in Workers : Inside(w) => owner[lpCriticalSection] = w

(* The vector has exactly one element for every listed thread, with the    *)
(* handle of the client that the thread serves now, though ids are reused, *)
(* and none for any other.                                                 *)
ListExact ==
  /\ \A k \in DOMAIN List : LET w == List[k].thread IN
       /\ Listed(w) /\ List[k].hProcess = hClientProcess[w]
       /\ \A j \in DOMAIN List : List[j].thread = w => j = k
  /\ \A w \in Workers : Listed(w) => \E k \in DOMAIN List : List[k].thread = w

(* A walk has passed over other threads' elements only.                    *)
WalksExact ==
  \A w \in Workers : worker[w] \in {"find", "erase"} =>
    \A k \in DOMAIN List : k < pos[w] => List[k].thread # w

(* README: RtlClientId "can get the client's process handle"; the status   *)
(* STATUS_NOT_FOUND is for threads that do not belong to a routine.        *)
FindsClient == \A w \in Workers : worker[w] # "none" => found[w] \in {None, hClientProcess[w]}

(* With one caller, initialization has one order, and workers come last.   *)
CallerOrder ==
  \A t \in Callers :
    /\ caller[t] \in {"begin", "new"} => lpCriticalSection = None
    /\ caller[t] \notin {"begin", "new"} => lpCriticalSection = t
    /\ caller[t] \notin {"begin", "new", "InitializeCriticalSection"} => t \in initialized
    /\ caller[t] \in {"begin", "new", "InitializeCriticalSection", "list"} <=> client_id_list = None
    /\ caller[t] \in {"returned", "registered"} => system_lpc_message_length # None
    /\ caller[t] # "registered" => \A w \in Workers : worker[w] = "none"

ListInv == TypeOK /\ CallerOrder /\ InitializedFirst /\ OneInside /\ ListExact /\ WalksExact /\ FindsClient

(* STATUS_NOT_SUPPORTED means "no initialization function called": a thread*)
(* whose ScInitializeService returned STATUS_SUCCESS does not get it.      *)
SupportedOnceInitialized == \A t \in Callers : caller[t] # "STATUS_NOT_SUPPORTED"

(* No worker waits for ever at the critical section: each gets its call    *)
(* done and leaves the list.                                               *)
WorkersLeave == \A w \in Workers : worker[w] = "enter" ~> worker[w] = "none"

(* The list with its lock does what the list as a set, each access to it   *)
(* one step, does: what module WorkerThread takes for granted.             *)
Atomic == INSTANCE ClientIds WITH
  ids <- {<<e.hProcess, e.thread>> : e \in {List[k] : k \in DOMAIN List}},
  found <- [w \in Workers |-> IF Listed(w) THEN found[w] ELSE None]

ImplementsClientIds == Atomic!Spec
=============================================================================
