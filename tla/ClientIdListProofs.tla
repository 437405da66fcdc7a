------------------------- MODULE ClientIdListProofs -------------------------
EXTENDS ClientIdList, TLAPS

(* What erase leaves of a vector.                                          *)
LEMMA RemoveAtFacts ==
  ASSUME NEW S, NEW s \in Seq(S), NEW k \in 1..Len(s)
  PROVE  /\ RemoveAt(s, k) \in Seq(S) /\ Len(RemoveAt(s, k)) = Len(s) - 1
         /\ \A j \in 1..(Len(s) - 1) : RemoveAt(s, k)[j] = IF j < k THEN s[j] ELSE s[j + 1]
<1>1. SubSeq(s, 1, k - 1) \in Seq(S) /\ Len(SubSeq(s, 1, k - 1)) = k - 1
  OBVIOUS
<1>2. \A j \in 1..(k - 1) : SubSeq(s, 1, k - 1)[j] = s[j]
  OBVIOUS
<1>3. SubSeq(s, k + 1, Len(s)) \in Seq(S) /\ Len(SubSeq(s, k + 1, Len(s))) = Len(s) - k
  OBVIOUS
<1>4. \A j \in 1..(Len(s) - k) : SubSeq(s, k + 1, Len(s))[j] = s[k + j]
  OBVIOUS
<1> DEFINE a == SubSeq(s, 1, k - 1)
           b == SubSeq(s, k + 1, Len(s))
<1> HIDE DEF a, b
<1>5. /\ a \in Seq(S) /\ Len(a) = k - 1 /\ \A j \in 1..(k - 1) : a[j] = s[j]
      /\ b \in Seq(S) /\ Len(b) = Len(s) - k /\ \A j \in 1..(Len(s) - k) : b[j] = s[k + j]
  BY <1>1, <1>2, <1>3, <1>4 DEF a, b
<1>6. a \o b \in Seq(S) /\ Len(a \o b) = Len(s) - 1
  BY <1>5
<1>7. ASSUME NEW j \in 1..(Len(s) - 1)
      PROVE  (a \o b)[j] = IF j < k THEN s[j] ELSE s[j + 1]
  <2>1. CASE j < k
    BY <1>5, <2>1
  <2>2. CASE ~ (j < k)
    <3>1. (a \o b)[j] = b[j - (k - 1)]
      BY <1>5, <2>2
    <3>2. j - (k - 1) \in 1..(Len(s) - k) /\ k + (j - (k - 1)) = j + 1
      BY <2>2
    <3> QED
      BY <1>5, <2>2, <3>1, <3>2
  <2> QED
    BY <2>1, <2>2
<1> QED
  BY <1>6, <1>7 DEF RemoveAt, a, b

(* The proofs are about an initialization that only one thread calls: with *)
(* two, lists and critical sections replace each other, and they fail.     *)
OneCaller == \A s, t \in Callers : s = t

-----------------------------------------------------------------------------
(* Types.                                                                  *)
LEMMA CallerType ==
  ASSUME TypeOK, NEW t \in Callers, CallerStep(t)
  PROVE  TypeOK'
<1> USE DEF TypeOK, CallerAt, statics, callVars
<1>1. CASE CheckInitialized(t) \/ Register(t) \/ SetMessageLength(t)
  BY <1>1 DEF CheckInitialized, Register, SetMessageLength
<1>2. CASE NewCriticalSection(t) \/ InitializeCriticalSection(t)
  BY <1>2 DEF NewCriticalSection, InitializeCriticalSection
<1>3. CASE NewList(t)
  BY <1>3 DEF NewList
<1> QED
  BY <1>1, <1>2, <1>3 DEF CallerStep

LEMMA ListType ==
  ASSUME TypeOK
  PROVE  /\ List \in Seq(Entry)
         /\ client_id_list # None => client_id_list \in Callers /\ List = entries[client_id_list]
BY DEF TypeOK, List

LEMMA ElementsType ==
  ASSUME TypeOK
  PROVE  /\ DOMAIN List = 1..Len(List) /\ Len(List) \in Nat
         /\ \A k \in DOMAIN List : List[k].thread \in Workers /\ List[k].hProcess \in Processes
<1>1. List \in Seq(Entry)
  BY ListType
<1>2. DOMAIN List = 1..Len(List) /\ Len(List) \in Nat /\ \A k \in DOMAIN List : List[k] \in Entry
  BY <1>1
<1> QED
  BY <1>2 DEF Entry

(* The element that an iterator points to.                                 *)
LEMMA ElementType ==
  ASSUME TypeOK, NEW w \in Workers, pos[w] <= Len(List)
  PROVE  /\ pos[w] \in 1..Len(List) /\ List[pos[w]].thread \in Workers
         /\ List[pos[w]].hProcess \in Processes
<1>1. pos[w] \in 1..Len(List)
  BY ListType DEF TypeOK
<1>2. List[pos[w]] \in Entry
  BY <1>1, ListType
<1> QED
  BY <1>1, <1>2 DEF Entry

WorkerPlaces ==
  {"none", "enter", "push", "leavePush", "routine", "enterFind", "find", "leaveFind", "reply",
   "enterErase", "erase", "leaveErase"}

(* What every step of a worker leaves alone: the part of TypeOK that is    *)
(* about all threads, and initialization.                                  *)
LEMMA WorkerMoves ==
  ASSUME TypeOK, NEW w \in Workers, WorkerStep(w)
  PROVE  /\ worker[w] # "none"
         /\ \E to \in WorkerPlaces : worker' = [worker EXCEPT ![w] = to]
         /\ UNCHANGED <<statics, initialized, caller, hClientProcess, calls>>
         /\ \A v \in Workers : worker'[v] # "none" => worker[v] # "none"
<1> USE DEF WorkerAt, callVars, statics, WorkerPlaces
<1>1. worker \in [Workers -> WorkerPlaces]
  BY DEF TypeOK
<1>2. CASE EnterCriticalSection(w) \/ LeaveCriticalSection(w)
  BY <1>1, <1>2 DEF EnterCriticalSection, LeaveCriticalSection, Acquire, Release
<1>3. CASE PushBack(w) \/ RunRoutine(w) \/ Reply(w)
  BY <1>1, <1>3 DEF PushBack, RunRoutine, Reply
<1>4. CASE FindStep(w)
  BY <1>1, <1>4 DEF FindStep
<1>5. CASE EraseStep(w)
  BY <1>1, <1>5 DEF EraseStep, EraseFound, EraseAdvance
<1> QED
  BY <1>2, <1>3, <1>4, <1>5 DEF WorkerStep

LEMMA WorkerType ==
  ASSUME TypeOK, NEW w \in Workers, WorkerStep(w), client_id_list # None, lpCriticalSection # None
  PROVE  TypeOK'
<1>1. /\ lpCriticalSection \in Callers /\ client_id_list \in Callers /\ initialized \subseteq Callers
      /\ owner \in [Callers -> Workers \cup {None}] /\ entries \in [Callers -> Seq(Entry)]
      /\ pos \in [Workers -> Nat \ {0}] /\ found \in [Workers -> Processes \cup {None, "STATUS_NOT_FOUND"}]
      /\ worker \in [Workers -> WorkerPlaces]
      /\ \A v \in Workers : worker[v] # "none" => hClientProcess[v] \in Processes
  BY DEF TypeOK, WorkerPlaces
<1>2. /\ worker' \in [Workers -> WorkerPlaces]
      /\ \A v \in Workers : worker'[v] # "none" => hClientProcess'[v] \in Processes
  <2>1. /\ \E to \in WorkerPlaces : worker' = [worker EXCEPT ![w] = to]
        /\ \A v \in Workers : worker'[v] # "none" => worker[v] # "none"
        /\ hClientProcess' = hClientProcess
    BY WorkerMoves
  <2> QED
    BY <1>1, <2>1
<1>3. /\ owner' \in [Callers -> Workers \cup {None}] /\ entries' \in [Callers -> Seq(Entry)]
      /\ pos' \in [Workers -> Nat \ {0}] /\ found' \in [Workers -> Processes \cup {None, "STATUS_NOT_FOUND"}]
  <2>1. CASE EnterCriticalSection(w) \/ LeaveCriticalSection(w)
    <3>1. UNCHANGED <<entries, found>>
      BY <2>1 DEF EnterCriticalSection, LeaveCriticalSection, Acquire, Release, callVars
    <3>2. owner' = [owner EXCEPT ![lpCriticalSection] = w] \/ owner' = [owner EXCEPT ![lpCriticalSection] = None]
      BY <2>1 DEF EnterCriticalSection, LeaveCriticalSection, Acquire, Release
    <3>3. pos' = [pos EXCEPT ![w] = 1] \/ pos' = pos
      BY <2>1 DEF EnterCriticalSection, LeaveCriticalSection, Acquire, Release, callVars
    <3>4. pos' \in [Workers -> Nat \ {0}]
      <4>1. \E k \in Nat \ {0} : pos' = [pos EXCEPT ![w] = k] \/ pos' = pos
        BY <1>1, <3>3
      <4> QED
        BY <1>1, <4>1
    <3> QED
      BY <1>1, <3>1, <3>2, <3>4
  <2>2. CASE PushBack(w)
    <3>1. [hProcess |-> hClientProcess[w], thread |-> w] \in Entry
      BY <1>1, <2>2 DEF PushBack, WorkerAt, Entry
    <3> QED
      BY <1>1, <2>2, <3>1 DEF PushBack, callVars
  <2>3. CASE RunRoutine(w) \/ Reply(w)
    BY <1>1, <2>3 DEF RunRoutine, Reply, callVars
  <2>4. CASE FindStep(w)
    <3>1. UNCHANGED <<owner, entries>>
      BY <2>4 DEF FindStep
    <3>2. pos' = [pos EXCEPT ![w] = pos[w] + 1] \/ pos' = pos
      BY <2>4 DEF FindStep
    <3>3. \/ found' = found \/ found' = [found EXCEPT ![w] = "STATUS_NOT_FOUND"]
          \/ \E p \in Processes : found' = [found EXCEPT ![w] = p]
      BY <2>4, ElementType DEF FindStep
    <3>4. pos' \in [Workers -> Nat \ {0}]
      <4>1. \E k \in Nat \ {0} : pos' = [pos EXCEPT ![w] = k] \/ pos' = pos
        BY <1>1, <3>2
      <4> QED
        BY <1>1, <4>1
    <3> QED
      BY <1>1, <3>1, <3>3, <3>4
  <2>5. CASE EraseStep(w)
    <3>1. UNCHANGED <<owner, found>>
      BY <2>5 DEF EraseStep
    <3>2. pos' = [pos EXCEPT ![w] = pos[w] + 1] \/ pos' = pos
      BY <2>5 DEF EraseStep, EraseFound, EraseAdvance
    <3>3. entries' = entries \/ \E l \in Seq(Entry) : entries' = [entries EXCEPT ![client_id_list] = l]
      <4>1. EraseFound(w) => RemoveAt(List, pos[w]) \in Seq(Entry)
        BY ElementType, ListType, RemoveAtFacts DEF EraseFound
      <4> QED
        BY <2>5, <4>1, ListType DEF EraseStep, EraseFound, EraseAdvance
    <3>4. pos' \in [Workers -> Nat \ {0}]
      <4>1. \E k \in Nat \ {0} : pos' = [pos EXCEPT ![w] = k] \/ pos' = pos
        BY <1>1, <3>2
      <4> QED
        BY <1>1, <4>1
    <3> QED
      BY <1>1, <3>1, <3>3, <3>4
  <2> QED
    BY <2>1, <2>2, <2>3, <2>4, <2>5 DEF WorkerStep
<1>4. UNCHANGED <<statics, initialized, caller, hClientProcess, calls>>
  BY WorkerMoves
<1> QED
  BY <1>2, <1>3, <1>4 DEF TypeOK, WorkerPlaces, statics

LEMMA StartType ==
  ASSUME TypeOK, NEW w \in Workers, NEW p \in Processes, StartWorker(w, p)
  PROVE  TypeOK'
<1> USE DEF TypeOK, StartWorker, WorkerAt, statics
<1>1. worker' = [worker EXCEPT ![w] = "enter"] /\ hClientProcess' = [hClientProcess EXCEPT ![w] = p]
  OBVIOUS
<1>2. \A v \in Workers : worker'[v] # "none" => hClientProcess'[v] \in Processes
  BY <1>1
<1> QED
  BY <1>2

-----------------------------------------------------------------------------
(* The thread that initializes.                                            *)
LEMMA CallerInv ==
  ASSUME OneCaller, ListInv, NEW t \in Callers, CallerStep(t)
  PROVE  ListInv'
<1> USE DEF ListInv
<1>1. /\ caller[t] # "registered" /\ \A w \in Workers : worker[w] = "none"
      /\ UNCHANGED <<worker, pos, found, hClientProcess>>
  BY DEF CallerOrder, CallerStep, CheckInitialized, NewCriticalSection, InitializeCriticalSection,
         NewList, SetMessageLength, Register, CallerAt, callVars
<1>2. TypeOK'
  BY CallerType
<1>3. CallerOrder'
  <2> SUFFICES ASSUME NEW u \in Callers
               PROVE  (CallerOrder!(u))'
    BY DEF CallerOrder
  <2>1. u = t /\ caller[t] \in {"begin", "new", "InitializeCriticalSection", "list", "length",
                             "returned", "registered", "STATUS_NOT_SUPPORTED"}
    BY DEF OneCaller, TypeOK
  <2>2. CASE CheckInitialized(t)
    BY <1>1, <2>1, <2>2 DEF CheckInitialized, CallerAt, CallerOrder, statics, TypeOK
  <2>3. CASE NewCriticalSection(t)
    BY <1>1, <2>1, <2>3 DEF NewCriticalSection, CallerAt, CallerOrder, TypeOK
  <2>4. CASE InitializeCriticalSection(t)
    BY <1>1, <2>1, <2>4 DEF InitializeCriticalSection, CallerAt, CallerOrder, statics, TypeOK
  <2>5. CASE NewList(t)
    BY <1>1, <2>1, <2>5, ClientIdAssumption DEF NewList, CallerAt, CallerOrder, TypeOK
  <2>6. CASE SetMessageLength(t)
    BY <1>1, <2>1, <2>6, ClientIdAssumption DEF SetMessageLength, CallerAt, CallerOrder, TypeOK
  <2>7. CASE Register(t)
    BY <1>1, <2>1, <2>7, ClientIdAssumption DEF Register, CallerAt, CallerOrder, statics, TypeOK
  <2> QED
    BY <2>2, <2>3, <2>4, <2>5, <2>6, <2>7 DEF CallerStep
<1>4. DOMAIN List = {} /\ DOMAIN List' = {}
  <2>1. \A k \in DOMAIN List : List[k].thread \in Workers
    BY ElementsType
  <2>2. DOMAIN List = {}
    <3>1. ASSUME NEW k \in DOMAIN List PROVE FALSE
      <4>1. Listed(List[k].thread)
        BY DEF ListExact
      <4> QED
        BY <1>1, <2>1, <4>1 DEF Listed
    <3> QED
      BY <3>1
  <2>3. CASE NewList(t)
    <3>1. client_id_list' = t /\ entries' = [entries EXCEPT ![t] = <<>>] /\ t \in DOMAIN entries
      BY <2>3 DEF NewList, TypeOK
    <3>2. List' = <<>>
      BY <3>1, ClientIdAssumption DEF List
    <3> QED
      BY <2>2, <3>2
  <2>4. CASE ~ NewList(t)
    <3>1. UNCHANGED <<client_id_list, entries>>
      BY <2>4 DEF CallerStep, CheckInitialized, NewCriticalSection, InitializeCriticalSection,
                  SetMessageLength, Register, statics
    <3> QED
      BY <2>2, <3>1 DEF List
  <2> QED
    BY <2>3, <2>4
<1> QED
  BY <1>1, <1>2, <1>3, <1>4 DEF InitializedFirst, OneInside, ListExact, WalksExact, FindsClient,
     Inside, Listed

(* A worker changes nothing of initialization.                             *)
LEMMA WorkerOrder ==
  ASSUME ListInv, NEW w \in Workers, WorkerStep(w)
  PROVE  /\ TypeOK' /\ CallerOrder' /\ InitializedFirst'
         /\ lpCriticalSection \in Callers /\ lpCriticalSection \in initialized
         /\ client_id_list \in Callers
<1> USE DEF ListInv
<1>1. worker[w] # "none" /\ lpCriticalSection \in initialized /\ client_id_list # None
  BY WorkerMoves DEF InitializedFirst
<1>2. lpCriticalSection \in Callers /\ client_id_list \in Callers /\ lpCriticalSection # None
  BY <1>1, ClientIdAssumption DEF TypeOK
<1>3. TypeOK'
  BY <1>1, <1>2, WorkerType
<1>4. /\ UNCHANGED <<statics, initialized, caller>>
      /\ \A v \in Workers : worker'[v] # "none" => worker[v] # "none"
  BY WorkerMoves
<1> QED
  BY <1>1, <1>2, <1>3, <1>4 DEF CallerOrder, InitializedFirst, statics

LEMMA FindsStay ==
  ASSUME ListInv, NEW w \in Workers, WorkerStep(w), UNCHANGED found
  PROVE  FindsClient'
BY WorkerMoves DEF ListInv, FindsClient

(* A thread id that CreateThread gives out is not in the list.             *)
LEMMA StartInv ==
  ASSUME OneCaller, ListInv, NEW w \in Workers, NEW p \in Processes, StartWorker(w, p)
  PROVE  ListInv'
<1> USE DEF ListInv
<1>1. PICK t \in Callers : caller[t] = "registered"
  BY DEF StartWorker
<1>2. TypeOK'
  BY StartType
<1>3. /\ worker[w] = "none" /\ worker' = [worker EXCEPT ![w] = "enter"]
      /\ hClientProcess' = [hClientProcess EXCEPT ![w] = p] /\ found' = [found EXCEPT ![w] = None]
      /\ UNCHANGED <<lpCriticalSection, client_id_list, system_lpc_message_length, initialized,
                     owner, entries, caller, pos>>
  BY DEF StartWorker, WorkerAt, statics
<1>4. CallerOrder'
  BY <1>1, <1>3 DEF CallerOrder, OneCaller
<1>5. InitializedFirst'
  BY <1>1, <1>3 DEF CallerOrder, InitializedFirst
<1>6. \A v \in Workers : /\ v # w => worker'[v] = worker[v] /\ hClientProcess'[v] = hClientProcess[v]
                                     /\ found'[v] = found[v]
                         /\ Listed(v)' <=> Listed(v)
                         /\ Inside(v)' <=> Inside(v)
                         /\ worker'[v] \in {"find", "erase"} <=> worker[v] \in {"find", "erase"}
  BY <1>3 DEF TypeOK, Listed, Inside
<1>7. ~ Listed(w) /\ List' = List
  BY <1>3 DEF Listed, List
<1>8. OneInside' /\ WalksExact'
  BY <1>3, <1>6, <1>7 DEF OneInside, WalksExact
<1>10. FindsClient'
  BY <1>3, <1>6 DEF FindsClient, TypeOK
<1>9. ListExact'
  <2>1. \A k \in DOMAIN List : List[k].thread \in Workers /\ List[k].thread # w
    BY <1>7, ElementsType DEF ListExact
  <2> QED
    BY <1>6, <1>7, <2>1 DEF ListExact
<1> QED
  BY <1>2, <1>4, <1>5, <1>8, <1>9, <1>10

(* Nobody else is inside the critical section while a worker is.           *)
LEMMA Alone ==
  ASSUME OneInside, NEW w \in Workers, NEW v \in Workers, Inside(w), Inside(v)
  PROVE  v = w
BY DEF OneInside

LEMMA AcquireInv ==
  ASSUME ListInv, NEW w \in Workers, WorkerStep(w), EnterCriticalSection(w)
  PROVE  ListInv'
<1> USE DEF ListInv
<1>1. /\ TypeOK' /\ CallerOrder' /\ InitializedFirst'
      /\ lpCriticalSection \in Callers /\ lpCriticalSection \in initialized
  BY WorkerOrder
<1>2. \A v \in Workers : ~ Inside(v)
  BY <1>1, ClientIdAssumption DEF OneInside, EnterCriticalSection, Acquire
<1>3. /\ owner' = [owner EXCEPT ![lpCriticalSection] = w] /\ pos' = [pos EXCEPT ![w] = 1]
      /\ lpCriticalSection' = lpCriticalSection
      /\ \/ worker[w] = "enter" /\ worker' = [worker EXCEPT ![w] = "push"]
         \/ worker[w] = "enterFind" /\ worker' = [worker EXCEPT ![w] = "find"]
         \/ worker[w] = "enterErase" /\ worker' = [worker EXCEPT ![w] = "erase"]
      /\ UNCHANGED <<client_id_list, entries, found, hClientProcess>>
  BY DEF EnterCriticalSection, Acquire, WorkerAt, statics
<1>4. List' = List
  BY <1>3 DEF List
<1>5. \A v \in Workers : /\ v # w => worker'[v] = worker[v] /\ ~ Inside(v)'
                         /\ Listed(v)' <=> Listed(v)
  BY <1>2, <1>3 DEF TypeOK, Listed, Inside
<1>6. owner'[lpCriticalSection] = w /\ pos'[w] = 1
  BY <1>1, <1>3 DEF TypeOK
<1>7. OneInside'
  BY <1>3, <1>5, <1>6 DEF OneInside
<1>8. WalksExact'
  <2>1. \A k \in DOMAIN List : ~ (k < 1)
    BY ElementsType
  <2> QED
    BY <1>4, <1>5, <1>6, <2>1 DEF WalksExact, Inside
<1>9. ListExact'
  BY <1>3, <1>4, <1>5, ElementsType DEF ListExact
<1>10. FindsClient'
  BY <1>3, FindsStay
<1> QED
  BY <1>1, <1>7, <1>8, <1>9, <1>10

LEMMA ReleaseInv ==
  ASSUME ListInv, NEW w \in Workers, WorkerStep(w), LeaveCriticalSection(w)
  PROVE  ListInv'
<1> USE DEF ListInv
<1>1. TypeOK' /\ CallerOrder' /\ InitializedFirst'
  BY WorkerOrder
<1>2. /\ \/ worker[w] \in {"leavePush", "leaveFind"} /\ worker' = [worker EXCEPT ![w] = "routine"]
         \/ worker[w] = "leaveErase" /\ worker' = [worker EXCEPT ![w] = "none"]
      /\ UNCHANGED <<client_id_list, entries, found, hClientProcess, pos>>
  BY DEF LeaveCriticalSection, Release, WorkerAt, statics, callVars
<1>3. Inside(w) /\ \A v \in Workers : v # w => ~ Inside(v)
  BY <1>2, Alone DEF Inside
<1>4. \A v \in Workers : ~ Inside(v)' /\ (Listed(v)' <=> Listed(v))
  BY <1>2, <1>3 DEF TypeOK, Inside, Listed
<1>5. List' = List
  BY <1>2 DEF List
<1>6. OneInside' /\ WalksExact'
  BY <1>4 DEF OneInside, WalksExact, Inside
<1>7. ListExact'
  BY <1>2, <1>4, <1>5, ElementsType DEF ListExact
<1>10. FindsClient'
  BY <1>2, FindsStay
<1> QED
  BY <1>1, <1>6, <1>7, <1>10

LEMMA RoutineInv ==
  ASSUME ListInv, NEW w \in Workers, WorkerStep(w), RunRoutine(w) \/ Reply(w)
  PROVE  ListInv'
<1> USE DEF ListInv
<1>1. TypeOK' /\ CallerOrder' /\ InitializedFirst'
  BY WorkerOrder
<1>2. /\ \E to \in {"enterFind", "reply", "enterErase"} : worker' = [worker EXCEPT ![w] = to]
      /\ worker[w] \in {"routine", "reply"}
      /\ UNCHANGED <<lpCriticalSection, client_id_list, owner, entries, found, hClientProcess, pos>>
  BY DEF RunRoutine, Reply, WorkerAt, statics, callVars
<1>3. \A v \in Workers : /\ Inside(v)' <=> Inside(v)
                         /\ Listed(v)' <=> Listed(v)
                         /\ worker'[v] \in {"find", "erase"} <=> worker[v] \in {"find", "erase"}
  BY <1>2 DEF TypeOK, Inside, Listed
<1>4. List' = List
  BY <1>2 DEF List
<1>5. OneInside' /\ WalksExact'
  BY <1>2, <1>3, <1>4 DEF OneInside, WalksExact
<1>6. ListExact'
  BY <1>2, <1>3, <1>4, ElementsType DEF ListExact
<1>10. FindsClient'
  BY <1>2, FindsStay
<1> QED
  BY <1>1, <1>5, <1>6, <1>10

LEMMA PushBackInv ==
  ASSUME ListInv, NEW w \in Workers, WorkerStep(w), PushBack(w)
  PROVE  ListInv'
<1> USE DEF ListInv
<1> DEFINE e == [hProcess |-> hClientProcess[w], thread |-> w]
<1>1. TypeOK' /\ CallerOrder' /\ InitializedFirst' /\ client_id_list \in Callers
  BY WorkerOrder
<1>2. /\ worker[w] = "push" /\ worker' = [worker EXCEPT ![w] = "leavePush"]
      /\ entries' = [entries EXCEPT ![client_id_list] = Append(entries[client_id_list], e)]
      /\ UNCHANGED <<lpCriticalSection, client_id_list, owner, found, hClientProcess, pos>>
  BY DEF PushBack, WorkerAt, statics, callVars
<1>3. List \in Seq(Entry) /\ List' = Append(List, e) /\ e \in Entry
  <2>1. List \in Seq(Entry) /\ List = entries[client_id_list] /\ client_id_list # None
    BY <1>1, ListType, ClientIdAssumption
  <2>2. List' = Append(List, e)
    BY <1>1, <1>2, <2>1 DEF List, TypeOK
  <2>3. e \in Entry
    BY <1>2 DEF TypeOK, Entry
  <2> QED
    BY <2>1, <2>2, <2>3
<1> HIDE DEF e
<1>4. /\ DOMAIN List = 1..Len(List) /\ DOMAIN List' = 1..(Len(List) + 1) /\ Len(List) \in Nat
      /\ \A k \in 1..Len(List) : List'[k] = List[k]
      /\ List'[Len(List) + 1] = e
  BY <1>3
<1>5. e.thread = w /\ e.hProcess = hClientProcess[w]
  BY DEF e
<1>6. \A v \in Workers : /\ Inside(v)' <=> Inside(v)
                         /\ v # w => (Listed(v)' <=> Listed(v))
                         /\ Inside(v) => v = w
  BY <1>2, Alone DEF TypeOK, Inside, Listed
<1>7. ~ Listed(w) /\ Listed(w)'
  BY <1>2 DEF TypeOK, Listed
<1>8. \A k \in 1..Len(List) : List[k].thread \in Workers /\ List[k].thread # w
  BY <1>4, <1>7, ElementsType DEF ListExact
<1>9. OneInside'
  BY <1>2, <1>6 DEF OneInside
<1>10. WalksExact'
  <2>1. \A v \in Workers : worker'[v] \notin {"find", "erase"}
    BY <1>2, <1>6 DEF TypeOK, Inside
  <2> QED
    BY <2>1 DEF WalksExact
<1>11. FindsClient'
  BY <1>2, FindsStay
<1>12. ListExact'
  <2>1. ASSUME NEW k \in DOMAIN List', NEW v, v = List'[k].thread
        PROVE  /\ Listed(v)' /\ List'[k].hProcess = hClientProcess'[v]
               /\ \A j \in DOMAIN List' : List'[j].thread = v => j = k
    <3>1. CASE k = Len(List) + 1
      <4>1. v = w
        BY <1>4, <1>5, <2>1, <3>1
      <4>2. \A j \in DOMAIN List' : List'[j].thread = w => j = k
        BY <1>4, <1>8, <3>1
      <4> QED
        BY <1>2, <1>4, <1>5, <1>7, <3>1, <4>1, <4>2
    <3>2. CASE k \in 1..Len(List)
      <4>1. v = List[k].thread /\ v \in Workers /\ v # w
        BY <1>4, <1>8, <2>1, <3>2
      <4>2. /\ Listed(v) /\ List[k].hProcess = hClientProcess[v]
            /\ \A j \in 1..Len(List) : List[j].thread = v => j = k
        BY <1>4, <3>2, <4>1 DEF ListExact
      <4>3. \A j \in DOMAIN List' : List'[j].thread = v => j = k
        BY <1>4, <1>5, <4>1, <4>2
      <4> QED
        BY <1>2, <1>4, <1>6, <3>2, <4>1, <4>2, <4>3
    <3> QED
      BY <1>4, <3>1, <3>2
  <2>2. ASSUME NEW v \in Workers, Listed(v)'
        PROVE  \E k \in DOMAIN List' : List'[k].thread = v
    <3>1. CASE v = w
      BY <1>4, <1>5, <3>1
    <3>2. CASE v # w
      <4>1. PICK k \in 1..Len(List) : List[k].thread = v
        BY <1>4, <1>6, <2>2, <3>2 DEF ListExact
      <4> QED
        BY <1>4, <4>1
    <3> QED
      BY <3>1, <3>2
  <2> QED
    BY <2>1, <2>2 DEF ListExact
<1> QED
  BY <1>1, <1>9, <1>10, <1>11, <1>12

(* A walk ends at the thread's own element, before the end of the vector.  *)
LEMMA WalkEnds ==
  ASSUME ListInv, NEW w \in Workers, worker[w] \in {"find", "erase"}
  PROVE  /\ pos[w] \in 1..Len(List)
         /\ List[pos[w]].thread = w => List[pos[w]].hProcess = hClientProcess[w]
<1> USE DEF ListInv
<1>1. Listed(w)
  BY DEF Listed
<1>2. PICK k \in DOMAIN List : List[k].thread = w
  BY <1>1 DEF ListExact
<1>3. ~ (k < pos[w])
  BY <1>2 DEF WalksExact
<1>4. pos[w] \in 1..Len(List)
  BY <1>3, ElementsType DEF TypeOK
<1> QED
  BY <1>4, ElementsType DEF ListExact

LEMMA FindInv ==
  ASSUME ListInv, NEW w \in Workers, WorkerStep(w), FindStep(w)
  PROVE  ListInv'
<1> USE DEF ListInv
<1>1. TypeOK' /\ CallerOrder' /\ InitializedFirst'
  BY WorkerOrder
<1>2. /\ worker[w] = "find"
      /\ UNCHANGED <<lpCriticalSection, client_id_list, owner, entries, hClientProcess>>
  BY DEF FindStep, WorkerAt, statics
<1>3. pos[w] \in 1..Len(List) /\ (List[pos[w]].thread = w => List[pos[w]].hProcess = hClientProcess[w])
  BY <1>2, WalkEnds
<1>4. \/ /\ List[pos[w]].thread = w /\ worker' = [worker EXCEPT ![w] = "leaveFind"]
         /\ found' = [found EXCEPT ![w] = hClientProcess[w]] /\ pos' = pos
      \/ /\ List[pos[w]].thread # w /\ worker' = [worker EXCEPT ![w] = "find"]
         /\ found' = found /\ pos' = [pos EXCEPT ![w] = pos[w] + 1]
  BY <1>3 DEF FindStep, WorkerAt
<1>5. List' = List
  BY <1>2 DEF List
<1>6. \A v \in Workers : /\ Inside(v)' <=> Inside(v)
                         /\ Listed(v)' <=> Listed(v)
                         /\ v # w => worker'[v] = worker[v] /\ pos'[v] = pos[v] /\ found'[v] = found[v]
  BY <1>2, <1>4 DEF TypeOK, Inside, Listed
<1>7. OneInside' /\ ListExact'
  BY <1>2, <1>5, <1>6, ElementsType DEF OneInside, ListExact
<1>8. WalksExact'
  <2>1. ASSUME NEW v \in Workers, worker'[v] \in {"find", "erase"}, NEW k \in DOMAIN List, k < pos'[v]
        PROVE  List[k].thread # v
    <3>1. CASE v # w
      BY <1>6, <2>1, <3>1 DEF WalksExact
    <3>2. CASE v = w
      <4>1. List[pos[w]].thread # w /\ pos'[w] = pos[w] + 1
        BY <1>4, <2>1, <3>2 DEF TypeOK
      <4>2. k < pos[w] \/ k = pos[w]
        BY <1>3, <2>1, <3>2, <4>1, ElementsType
      <4> QED
        BY <1>2, <3>2, <4>1, <4>2 DEF WalksExact
    <3> QED
      BY <3>1, <3>2
  <2> QED
    BY <1>5, <2>1 DEF WalksExact
<1>9. FindsClient'
  <2>1. \A v \in Workers : worker'[v] # "none" => worker[v] # "none"
    BY WorkerMoves
  <2>2. found'[w] = found[w] \/ found'[w] = hClientProcess[w]
    BY <1>4 DEF TypeOK
  <2> QED
    BY <1>2, <1>6, <2>1, <2>2 DEF FindsClient
<1> QED
  BY <1>1, <1>7, <1>8, <1>9

LEMMA EraseFoundInv ==
  ASSUME ListInv, NEW w \in Workers, WorkerStep(w), EraseStep(w), EraseFound(w)
  PROVE  ListInv'
<1> USE DEF ListInv
<1>1. TypeOK' /\ CallerOrder' /\ InitializedFirst' /\ client_id_list \in Callers
  BY WorkerOrder
<1>2. /\ worker[w] = "erase" /\ worker' = [worker EXCEPT ![w] = "leaveErase"]
      /\ entries' = [entries EXCEPT ![client_id_list] = RemoveAt(entries[client_id_list], pos[w])]
      /\ List[pos[w]].thread = w
      /\ UNCHANGED <<lpCriticalSection, client_id_list, owner, found, hClientProcess, pos>>
  BY DEF EraseStep, EraseFound, WorkerAt, statics
<1> DEFINE n == Len(List)
           at == pos[w]
<1>3. n \in Nat /\ at \in 1..n
  BY <1>2, WalkEnds, ElementsType
<1>4. /\ DOMAIN List = 1..n /\ DOMAIN List' = 1..(n - 1)
      /\ \A k \in 1..(n - 1) : List'[k] = IF k < at THEN List[k] ELSE List[k + 1]
  <2>1. List' = RemoveAt(List, at)
    <3>1. List = entries[client_id_list] /\ client_id_list # None
      BY <1>1, ListType, ClientIdAssumption
    <3> QED
      BY <1>1, <1>2, <3>1 DEF List, TypeOK
  <2>2. List \in Seq(Entry)
    BY ListType
  <2>3. /\ RemoveAt(List, at) \in Seq(Entry) /\ Len(RemoveAt(List, at)) = n - 1
        /\ \A k \in 1..(n - 1) : RemoveAt(List, at)[k] = IF k < at THEN List[k] ELSE List[k + 1]
    BY <1>3, <2>2, RemoveAtFacts
  <2> QED
    BY <2>1, <2>2, <2>3
<1> HIDE DEF n, at
<1>5. List[at].thread = w
  BY <1>2 DEF at
<1>6. \A v \in Workers : /\ Inside(v)' <=> Inside(v)
                         /\ v # w => (Listed(v)' <=> Listed(v))
                         /\ Inside(v) => v = w
  BY <1>2, Alone DEF TypeOK, Inside, Listed
<1>7. Listed(w) /\ ~ Listed(w)'
  BY <1>2 DEF TypeOK, Listed
<1>8. OneInside'
  BY <1>2, <1>6 DEF OneInside
<1>9. WalksExact'
  <2>1. \A v \in Workers : worker'[v] \notin {"find", "erase"}
    BY <1>2, <1>6 DEF TypeOK, Inside
  <2> QED
    BY <2>1 DEF WalksExact
<1>10. FindsClient'
  BY <1>2, FindsStay
<1>11. \A j \in 1..n : List[j].thread = w => j = at
  BY <1>3, <1>4, <1>5 DEF ListExact
<1>12. ASSUME NEW k \in DOMAIN List'
       PROVE  \E j \in 1..n : j # at /\ List'[k] = List[j] /\ (k < at => j = k) /\ (~ (k < at) => j = k + 1)
  BY <1>3, <1>4
<1>13. ListExact'
  <2>1. ASSUME NEW k \in DOMAIN List', NEW v, v = List'[k].thread
        PROVE  /\ Listed(v)' /\ List'[k].hProcess = hClientProcess'[v]
               /\ \A i \in DOMAIN List' : List'[i].thread = v => i = k
    <3>1. PICK j \in 1..n : j # at /\ List'[k] = List[j] /\ (k < at => j = k) /\ (~ (k < at) => j = k + 1)
      BY <1>12
    <3>2. v = List[j].thread /\ v \in Workers /\ v # w
      BY <1>4, <1>11, <2>1, <3>1, ElementsType
    <3>3. /\ Listed(v) /\ List[j].hProcess = hClientProcess[v]
          /\ \A i \in 1..n : List[i].thread = v => i = j
      BY <1>4, <3>2 DEF ListExact
    <3>4. ASSUME NEW i \in DOMAIN List', List'[i].thread = v
          PROVE  i = k
      <4>1. PICK h \in 1..n : h # at /\ List'[i] = List[h] /\ (i < at => h = i) /\ (~ (i < at) => h = i + 1)
        BY <1>12
      <4>2. h = j
        BY <3>3, <3>4, <4>1
      <4> QED
        BY <1>3, <1>4, <3>1, <4>1, <4>2
    <3> QED
      BY <1>2, <1>6, <3>1, <3>2, <3>3, <3>4
  <2>2. ASSUME NEW v \in Workers, Listed(v)'
        PROVE  \E k \in DOMAIN List' : List'[k].thread = v
    <3>1. v # w /\ Listed(v)
      BY <1>6, <1>7, <2>2
    <3>2. PICK j \in 1..n : List[j].thread = v
      BY <1>4, <3>1 DEF ListExact
    <3>3. j # at
      BY <1>5, <3>1, <3>2
    <3>4. CASE j < at
      BY <1>3, <1>4, <3>2, <3>4
    <3>5. CASE j > at
      <4>1. j - 1 \in 1..(n - 1) /\ ~ (j - 1 < at) /\ (j - 1) + 1 = j
        BY <1>3, <3>5
      <4>2. List'[j - 1] = List[j]
        BY <1>4, <4>1
      <4> QED
        BY <1>4, <3>2, <4>1, <4>2
    <3> QED
      BY <1>3, <3>3, <3>4, <3>5
  <2> QED
    BY <2>1, <2>2 DEF ListExact
<1> QED
  BY <1>1, <1>8, <1>9, <1>10, <1>13

LEMMA EraseInv ==
  ASSUME ListInv, NEW w \in Workers, WorkerStep(w), EraseStep(w)
  PROVE  ListInv'
<1>1. CASE EraseFound(w)
  BY <1>1, EraseFoundInv
<1>2. CASE ~ EraseFound(w)
  <2> USE DEF ListInv
  <2>1. TypeOK' /\ CallerOrder' /\ InitializedFirst'
    BY WorkerOrder
  <2>2. /\ worker[w] = "erase"
        /\ UNCHANGED <<lpCriticalSection, client_id_list, owner, found, hClientProcess>>
    BY DEF EraseStep, EraseFound, EraseAdvance, WorkerAt, statics
  <2>3. pos[w] \in 1..Len(List)
    BY <2>2, WalkEnds
  <2>4. EraseAdvance(w)
    BY <1>2, <2>3 DEF EraseStep
  <2>5. /\ worker' = worker /\ entries' = entries /\ List[pos[w]].thread # w
        /\ pos' = [pos EXCEPT ![w] = pos[w] + 1]
    BY <2>2, <2>4 DEF EraseAdvance, WorkerAt, TypeOK
  <2>6. List' = List
    BY <2>2, <2>5 DEF List
  <2>7. OneInside' /\ ListExact'
    BY <2>2, <2>5, <2>6 DEF OneInside, ListExact, Inside, Listed
  <2>8. WalksExact'
    <3>1. ASSUME NEW v \in Workers, worker[v] \in {"find", "erase"}, NEW k \in DOMAIN List, k < pos'[v]
          PROVE  List[k].thread # v
      <4>1. CASE v # w
        BY <2>5, <3>1, <4>1 DEF WalksExact, TypeOK
      <4>2. CASE v = w
        <5>1. k < pos[w] \/ k = pos[w]
          BY <2>3, <2>5, <3>1, <4>2, ElementsType DEF TypeOK
        <5> QED
          BY <2>2, <2>5, <4>2, <5>1 DEF WalksExact
      <4> QED
        BY <4>1, <4>2
    <3> QED
      BY <2>5, <2>6, <3>1 DEF WalksExact
  <2>9. FindsClient'
    BY <2>2, FindsStay
  <2> QED
    BY <2>1, <2>7, <2>8, <2>9
<1> QED
  BY <1>1, <1>2

-----------------------------------------------------------------------------
(* For any number of workers, processes and calls: where one thread        *)
(* initializes the library, the list and its critical section are in order.*)
(* Code: WorkerThread 194-196 and 233-240, RtlSafeThreadServiceClientId.   *)
THEOREM ListInvariance == OneCaller => (Spec => []ListInv)
<1> SUFFICES ASSUME OneCaller PROVE Spec => []ListInv
  OBVIOUS
<1>1. Init => ListInv
  <2> SUFFICES ASSUME Init PROVE ListInv
    OBVIOUS
  <2>1. List = <<>>
    BY DEF Init, List
  <2>2. TypeOK /\ CallerOrder
    BY ClientIdAssumption DEF Init, TypeOK, CallerOrder
  <2> QED
    BY <2>1, <2>2 DEF Init, ListInv, InitializedFirst, OneInside, ListExact, WalksExact, FindsClient,
                      Inside, Listed
<1>2. ListInv /\ [Next]_vars => ListInv'
  <2> SUFFICES ASSUME ListInv, [Next]_vars PROVE ListInv'
    OBVIOUS
  <2>1. CASE \E t \in Callers : CallerStep(t)
    BY <2>1, CallerInv
  <2>2. CASE \E w \in Workers : WorkerStep(w)
    BY <2>2, AcquireInv, PushBackInv, ReleaseInv, RoutineInv, FindInv, EraseInv DEF WorkerStep
  <2>3. CASE \E w \in Workers, p \in Processes : StartWorker(w, p)
    BY <2>3, StartInv
  <2>4. CASE UNCHANGED vars
    BY <2>4 DEF vars, statics, callVars, ListInv, TypeOK, CallerOrder, InitializedFirst, OneInside,
                ListExact, WalksExact, FindsClient, Inside, Listed, List
  <2> QED
    BY <2>1, <2>2, <2>3, <2>4 DEF Next, Finished
<1> QED
  BY <1>1, <1>2, PTL DEF Spec

(* RtlClientId finds the client of the thread that asks and never fails,   *)
(* where one thread initializes the library.                               *)
THEOREM AlwaysFound == OneCaller => (Spec => []FindsClient)
<1>1. ListInv => FindsClient
  BY DEF ListInv
<1> QED
  BY <1>1, ListInvariance, PTL

-----------------------------------------------------------------------------
(* The list implements the set of ClientIds.                               *)

(* A worker that has not entered itself has not asked for its client.      *)
NothingFound == \A w \in Workers : worker[w] \in {"enter", "push"} => found[w] = None

LEMMA NothingFoundStep ==
  ASSUME ListInv, NothingFound, [Next]_vars
  PROVE  NothingFound'
<1> USE DEF ListInv
<1>1. CASE \E t \in Callers : CallerStep(t)
  BY <1>1 DEF NothingFound, CallerStep, CheckInitialized, NewCriticalSection,
     InitializeCriticalSection, NewList, SetMessageLength, Register, callVars
<1>2. ASSUME NEW w \in Workers, WorkerStep(w) PROVE NothingFound'
  <2>1. CASE FindStep(w)
    <3>1. \E to \in {"find", "leaveFind"} : worker' = [worker EXCEPT ![w] = to]
      BY <2>1 DEF FindStep, WorkerAt
    <3>2. \A v \in Workers : v # w => found'[v] = found[v]
      BY <2>1 DEF FindStep, TypeOK
    <3> QED
      BY <3>1, <3>2 DEF NothingFound, TypeOK
  <2>2. CASE ~ FindStep(w)
    <3>1. found' = found
      BY <1>2, <2>2 DEF WorkerStep, EnterCriticalSection, LeaveCriticalSection, PushBack, RunRoutine,
         Reply, EraseStep, Acquire, Release, callVars
    <3>2. worker'[w] = "push" => worker[w] \in {"enter", "push"}
      BY <1>2, <2>2 DEF WorkerStep, EnterCriticalSection, LeaveCriticalSection, PushBack, RunRoutine,
         Reply, EraseStep, EraseFound, EraseAdvance, Acquire, Release, WorkerAt, TypeOK
    <3>3. worker'[w] # "enter"
      BY <1>2, <2>2 DEF WorkerStep, EnterCriticalSection, LeaveCriticalSection, PushBack, RunRoutine,
         Reply, EraseStep, EraseFound, EraseAdvance, Acquire, Release, WorkerAt, TypeOK
    <3>4. \A v \in Workers : v # w => worker'[v] = worker[v]
      BY <1>2, WorkerMoves DEF TypeOK
    <3> QED
      BY <3>1, <3>2, <3>3, <3>4 DEF NothingFound
  <2> QED
    BY <2>1, <2>2
<1>3. CASE \E w \in Workers, p \in Processes : StartWorker(w, p)
  BY <1>3 DEF StartWorker, WorkerAt, NothingFound, TypeOK
<1>4. CASE UNCHANGED vars
  BY <1>4 DEF vars, callVars, NothingFound
<1> QED
  BY <1>1, <1>2, <1>3, <1>4 DEF Next, Finished

ids == {<<e.hProcess, e.thread>> : e \in {List[k] : k \in DOMAIN List}}
foundListed == [w \in Workers |-> IF Listed(w) THEN found[w] ELSE None]

(* What the mapped set is, without the vector.                             *)
LEMMA IdsAre ==
  ListInv => \A x : x \in ids <=> \E w \in Workers : Listed(w) /\ x = <<hClientProcess[w], w>>
<1> USE DEF ListInv
<1> SUFFICES ASSUME ListInv, NEW x
             PROVE  x \in ids <=> \E w \in Workers : Listed(w) /\ x = <<hClientProcess[w], w>>
  OBVIOUS
<1>1. x \in ids <=> \E k \in DOMAIN List : x = <<List[k].hProcess, List[k].thread>>
  BY DEF ids
<1>2. ASSUME NEW k \in DOMAIN List
      PROVE  List[k].thread \in Workers /\ Listed(List[k].thread) /\ List[k].hProcess = hClientProcess[List[k].thread]
  BY ElementsType DEF ListExact
<1>3. ASSUME NEW w \in Workers, Listed(w)
      PROVE  \E k \in DOMAIN List : List[k].thread = w /\ List[k].hProcess = hClientProcess[w]
  BY <1>2, <1>3 DEF ListExact
<1> QED
  BY <1>1, <1>2, <1>3

LEMMA NextIds ==
  ASSUME ListInv'
  PROVE  \A x : x \in ids' <=> \E w \in Workers : Listed(w)' /\ x = <<hClientProcess'[w], w>>
<1>1. (ListInv => \A x : x \in ids <=> \E w \in Workers : Listed(w) /\ x = <<hClientProcess[w], w>>)'
  BY IdsAre, PTL
<1> QED
  BY <1>1

(* A step that no listed worker sees is a stutter.                         *)
LEMMA Unseen ==
  ASSUME ListInv, ListInv',
         \A w \in Workers : Listed(w)' <=> Listed(w),
         \A w \in Workers : Listed(w) => hClientProcess'[w] = hClientProcess[w] /\ found'[w] = found[w]
  PROVE  ids' = ids /\ foundListed' = foundListed
<1>1. \A x : x \in ids' <=> x \in ids
  BY IdsAre, NextIds
<1>2. foundListed' = foundListed
  BY DEF foundListed
<1>3. ids' = ids
  BY <1>1
<1> QED
  BY <1>2, <1>3

(* The pairs of one thread.                                                *)
LEMMA OwnIds ==
  ASSUME ListInv, NEW w \in Workers
  PROVE  /\ Listed(w) => hClientProcess[w] \in Processes
         /\ \A p : <<p, w>> \in ids <=> Listed(w) /\ p = hClientProcess[w]
<1>1. Listed(w) => hClientProcess[w] \in Processes
  BY DEF ListInv, TypeOK, Listed
<1>2. \A p : <<p, w>> \in ids <=> \E v \in Workers : Listed(v) /\ <<p, w>> = <<hClientProcess[v], v>>
  BY IdsAre
<1> QED
  BY <1>1, <1>2

(* push_back is Enter.                                                     *)
LEMMA PushBackEnters ==
  ASSUME ListInv, ListInv', NothingFound, NEW w \in Workers, WorkerStep(w), PushBack(w)
  PROVE  \E p \in Processes : Atomic!Enter(w, p)
<1>1. /\ worker[w] = "push" /\ worker' = [worker EXCEPT ![w] = "leavePush"]
      /\ UNCHANGED <<found, hClientProcess>> /\ found[w] = None
      /\ hClientProcess[w] \in Processes /\ worker \in [Workers -> WorkerPlaces]
  BY DEF PushBack, WorkerAt, callVars, NothingFound, ListInv, TypeOK, WorkerPlaces
<1>2. /\ ~ Listed(w) /\ Listed(w)'
      /\ \A v \in Workers : v # w => (Listed(v)' <=> Listed(v))
  BY <1>1 DEF Listed
<1>3. \A x : x \in ids' <=> x \in ids \/ x = <<hClientProcess[w], w>>
  BY <1>1, <1>2, IdsAre, NextIds
<1>4. ids' = ids \cup {<<hClientProcess[w], w>>}
  BY <1>3
<1>5. \A p : <<p, w>> \notin ids
  BY <1>2, OwnIds
<1>6. foundListed' = foundListed
  BY <1>1, <1>2 DEF foundListed
<1> QED
  BY <1>1, <1>4, <1>5, <1>6 DEF Atomic!Enter, Atomic!IdsOf, ids, foundListed

(* A turn of the loop of RtlSafeThreadServiceClientId is Lookup, or only   *)
(* moves the iterator.                                                     *)
LEMMA FindLooksUp ==
  ASSUME ListInv, ListInv', NEW w \in Workers, WorkerStep(w), FindStep(w)
  PROVE  Atomic!Lookup(w) \/ (ids' = ids /\ foundListed' = foundListed)
<1> DEFINE p == hClientProcess[w]
<1>1. /\ worker[w] = "find" /\ UNCHANGED <<client_id_list, entries, hClientProcess>>
      /\ worker \in [Workers -> WorkerPlaces] /\ found \in [Workers -> Processes \cup {None, "STATUS_NOT_FOUND"}]
  BY DEF FindStep, WorkerAt, statics, ListInv, TypeOK, WorkerPlaces
<1>2. \/ /\ worker' = [worker EXCEPT ![w] = "leaveFind"]
         /\ found' = [found EXCEPT ![w] = p]
      \/ worker' = [worker EXCEPT ![w] = "find"] /\ found' = found
  BY <1>1, WalkEnds DEF FindStep, WorkerAt
<1>3. Listed(w) /\ \A v \in Workers : (Listed(v)' <=> Listed(v))
  BY <1>1, <1>2 DEF Listed
<1>4. CASE found' = found
  BY <1>1, <1>3, <1>4, Unseen
<1>5. CASE found' = [found EXCEPT ![w] = p]
  <2>1. ids' = ids
    BY <1>1 DEF ids, List
  <2>2. foundListed' = [foundListed EXCEPT ![w] = p]
    BY <1>1, <1>3, <1>5 DEF foundListed
  <2>3. p \in Processes /\ \A q : <<q, w>> \in ids <=> q = p
    BY <1>3, OwnIds
  <2>4. {q \in Processes : <<q, w>> \in ids} = {p}
    BY <2>3
  <2> HIDE DEF p
  <2> QED
    BY <2>1, <2>2, <2>4 DEF Atomic!Lookup, Atomic!IdsOf, ids, foundListed
<1> QED
  BY <1>2, <1>4, <1>5

(* erase is Leave.                                                         *)
LEMMA EraseLeaves ==
  ASSUME ListInv, ListInv', NEW w \in Workers, WorkerStep(w), EraseStep(w)
  PROVE  Atomic!Leave(w) \/ (ids' = ids /\ foundListed' = foundListed)
<1>1. /\ worker[w] = "erase" /\ UNCHANGED <<hClientProcess, found>> /\ worker \in [Workers -> WorkerPlaces]
      /\ \/ worker' = [worker EXCEPT ![w] = "leaveErase"]
         \/ worker' = [worker EXCEPT ![w] = "erase"]
  BY DEF EraseStep, EraseFound, EraseAdvance, WorkerAt, ListInv, TypeOK, WorkerPlaces
<1>2. CASE worker' = [worker EXCEPT ![w] = "erase"]
  <2>1. \A v \in Workers : Listed(v)' <=> Listed(v)
    BY <1>1, <1>2 DEF Listed
  <2> QED
    BY <1>1, <2>1, Unseen
<1>3. CASE worker' = [worker EXCEPT ![w] = "leaveErase"]
  <2>1. /\ Listed(w) /\ ~ Listed(w)'
        /\ \A v \in Workers : v # w => (Listed(v)' <=> Listed(v))
    BY <1>1, <1>3 DEF Listed
  <2>2. \A x : x \in ids' <=> x \in ids /\ x # <<hClientProcess[w], w>>
    BY <1>1, <2>1, IdsAre, NextIds
  <2>3. \A x : x \in ids /\ x \in Processes \X {w} <=> x = <<hClientProcess[w], w>>
    <3>1. \A p : <<p, w>> \in ids <=> p = hClientProcess[w]
      BY <2>1, OwnIds
    <3> QED
      BY <2>1, <3>1, OwnIds
  <2>4. ids' = ids \ (Processes \X {w})
    BY <2>2, <2>3
  <2>5. {q \in Processes : <<q, w>> \in ids} # {}
    BY <2>1, OwnIds
  <2>6. foundListed' = [foundListed EXCEPT ![w] = None]
    BY <1>1, <2>1 DEF foundListed
  <2> QED
    BY <2>4, <2>5, <2>6 DEF Atomic!Leave, Atomic!IdsOf, ids, foundListed
<1> QED
  BY <1>1, <1>2, <1>3

LEMMA StepMaps ==
  ASSUME ListInv, ListInv', NothingFound, [Next]_vars
  PROVE  [Atomic!Next]_(Atomic!vars)
<1>1. SUFFICES ASSUME ids' = ids /\ foundListed' = foundListed => [Atomic!Next]_(Atomic!vars)
               PROVE  [Atomic!Next]_(Atomic!vars)
  BY DEF Atomic!vars, ids, foundListed
<1>2. CASE \E t \in Callers : CallerStep(t)
  <2>1. UNCHANGED <<worker, hClientProcess, found>>
    BY <1>2 DEF CallerStep, CheckInitialized, NewCriticalSection, InitializeCriticalSection, NewList,
                SetMessageLength, Register, callVars
  <2> QED
    BY <1>1, <2>1, Unseen DEF Listed
<1>3. ASSUME NEW w \in Workers, WorkerStep(w) PROVE [Atomic!Next]_(Atomic!vars)
  <2>1. CASE PushBack(w)
    BY <1>3, <2>1, PushBackEnters DEF Atomic!Next
  <2>2. CASE FindStep(w)
    BY <1>1, <1>3, <2>2, FindLooksUp DEF Atomic!Next
  <2>3. CASE EraseStep(w)
    BY <1>1, <1>3, <2>3, EraseLeaves DEF Atomic!Next
  <2>4. CASE EnterCriticalSection(w) \/ LeaveCriticalSection(w) \/ RunRoutine(w) \/ Reply(w)
    <3>1. UNCHANGED <<hClientProcess, found>>
      BY <2>4 DEF EnterCriticalSection, LeaveCriticalSection, RunRoutine, Reply, Acquire, Release, callVars
    <3>2. \A v \in Workers : Listed(v)' <=> Listed(v)
      BY <2>4 DEF EnterCriticalSection, LeaveCriticalSection, RunRoutine, Reply, Acquire, Release,
                  WorkerAt, Listed, ListInv, TypeOK
    <3> QED
      BY <1>1, <3>1, <3>2, Unseen
  <2> QED
    BY <1>3, <2>1, <2>2, <2>3, <2>4 DEF WorkerStep
<1>4. CASE \E w \in Workers, p \in Processes : StartWorker(w, p)
  <2>1. PICK w \in Workers, p \in Processes : StartWorker(w, p)
    BY <1>4
  <2>2. ~ Listed(w) /\ \A v \in Workers : Listed(v)' <=> Listed(v)
    BY <2>1 DEF StartWorker, WorkerAt, Listed, ListInv, TypeOK
  <2>3. \A v \in Workers : v # w => hClientProcess'[v] = hClientProcess[v] /\ found'[v] = found[v]
    BY <2>1 DEF StartWorker, ListInv, TypeOK
  <2> QED
    BY <1>1, <2>2, <2>3, Unseen
<1>5. CASE UNCHANGED vars
  BY <1>1, <1>5, Unseen DEF vars, callVars, Listed
<1> QED
  BY <1>2, <1>3, <1>4, <1>5 DEF Next, Finished

(* The vector under its critical section, walked element by element while  *)
(* other threads wait, does what a set does whose accesses are atomic.     *)
(* Code: WorkerThread 194-196 and 233-240, RtlSafeThreadServiceClientId.   *)
THEOREM ListImplementsClientIds == OneCaller => (Spec => ImplementsClientIds)
<1> SUFFICES ASSUME OneCaller PROVE Spec => ImplementsClientIds
  OBVIOUS
<1>1. Init => NothingFound
  BY DEF Init, NothingFound
<1>2. ListInv /\ NothingFound /\ [Next]_vars => NothingFound'
  BY NothingFoundStep
<1>3. Spec => []ListInv
  BY ListInvariance
<1>4. Init => Atomic!Init
  <2> SUFFICES ASSUME Init PROVE Atomic!Init
    OBVIOUS
  <2>1. List = <<>>
    BY DEF Init, List
  <2>2. {<<e.hProcess, e.thread>> : e \in {List[k] : k \in DOMAIN List}} = {}
    BY <2>1
  <2>3. \A w \in Workers : ~ Listed(w)
    BY DEF Init, Listed
  <2> QED
    BY <2>2, <2>3 DEF Atomic!Init
<1>5. ListInv /\ ListInv' /\ NothingFound /\ [Next]_vars => [Atomic!Next]_(Atomic!vars)
  BY StepMaps
<1> QED
  BY <1>1, <1>2, <1>3, <1>4, <1>5, PTL DEF Spec, ImplementsClientIds, Atomic!Spec
=============================================================================
