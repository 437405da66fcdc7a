------------------------ MODULE ParameterPathProofs ------------------------
(***************************************************************************)
(* Proofs about ParameterPath, for parameter lists of every length, every  *)
(* room in the connection information and in lm, whatever memory holds     *)
(* behind a list, and however often the list is rewritten under a call.    *)
(***************************************************************************)
EXTENDS ParameterPath, TLAPS

(* What is needed of % where a length wraps.                               *)
LEMMA ModFacts ==
  \A n \in Nat : /\ n % LengthModulus \in Nat /\ n % LengthModulus < LengthModulus
                 /\ n < LengthModulus => n % LengthModulus = n
<1>1. LengthModulus \in Nat /\ LengthModulus > 0
  BY PathAssumption
<1> QED
  BY <1>1

LEMMA SizeFacts ==
  ASSUME NEW n \in Nat
  PROVE  /\ InSize(n) \in Nat
         /\ arch = "x86" => InSize(n) < LengthModulus
         /\ n < LengthModulus \/ arch # "x86" => InSize(n) = n
  BY ModFacts DEF InSize

(* The lists of the variables, and those that callers pass.                *)
LEMMA ListFacts ==
  ASSUME TypeOK
  PROVE  /\ Len(masks) \in Nat /\ Len(captured) \in Nat /\ Len(service) \in Nat
         /\ DOMAIN masks = 1..Len(masks) /\ DOMAIN captured = 1..Len(captured)
         /\ DOMAIN service = 1..Len(service)
         /\ \A list \in Lists : list \in Seq(SUBSET Bits) /\ Len(list) \in Nat /\ DOMAIN list = 1..Len(list)
         /\ <<>> \in Seq(SUBSET Bits) /\ Len(<<>>) = 0 /\ DOMAIN <<>> = {}
  BY PathAssumption DEF TypeOK

(* Until a list is the worker's, nothing is said of the worker.            *)
LEMMA WorkerPart ==
  ASSUME pc' \notin {"narrow", "map"} \cup Calls
  PROVE  NarrowLoop' /\ MappedExact' /\ PushLoop' /\ StackExact'
  BY DEF Calls, NarrowLoop, MappedExact, PushLoop, StackExact

(* The worker leaves alone what came before it.                            *)
LEMMA CallerPart ==
  ASSUME PathInv, pc \in Works, pc' \in Works,
         UNCHANGED <<arch, caller, memory, capture, service, connection>>
  PROVE  CaptureLoop' /\ RegisterLoop' /\ CallLoop' /\ CompareLoop'
         /\ FaultsExact' /\ RefusalsExact' /\ ServesRegistered'
<1> USE DEF PathInv, Capturing, Works, Calls, memory, capture, connection
<1>1. CaptureLoop' /\ RegisterLoop' /\ CallLoop' /\ CompareLoop'
  BY DEF CaptureLoop, RegisterLoop, CallLoop, CompareLoop
<1>2. FaultsExact' /\ RefusalsExact' /\ ServesRegistered'
  BY DEF FaultsExact, RefusalsExact, ServesRegistered
<1> QED
  BY <1>1, <1>2

(* The size of the arguments' part of the stack.                           *)
LEMMA StackWordsEnough ==
  ASSUME Len(captured) \in Nat
  PROVE  /\ StackWords \in Nat /\ StackWords >= Len(captured)
         /\ arch = "x86" => StackWords = Len(captured)
         /\ arch # "x86" => StackWords >= 4 /\ (StackWords + 3) % 2 = 1
<1>1. /\ Larger(Len(captured), 4) \in Nat /\ Larger(Len(captured), 4) >= 4
      /\ Larger(Len(captured), 4) >= Len(captured)
  BY DEF Larger
<1>2. \A a \in Nat : a % 2 \in Nat /\ (a + (a % 2) + 3) % 2 = 1
  OBVIOUS
<1> QED
  BY <1>1, <1>2 DEF StackWords

(* Where the stack has its domain, it is a sequence.                       *)
LEMMA StackIsSequence ==
  ASSUME Len(stack) \in Nat, DOMAIN stack = 1..Len(stack), stack = [k \in 1..Len(stack) |-> stack[k]]
  PROVE  stack \in Seq({stack[k] : k \in 1..Len(stack)})
  OBVIOUS

-----------------------------------------------------------------------------
(* Another thread rewrites the list: what depends on it is only said of    *)
(* lists that nobody rewrote.                                              *)
LEMMA RewriteInv == PathInv /\ Rewrite => PathInv'
<1> SUFFICES ASSUME PathInv, Rewrite PROVE PathInv'
  OBVIOUS
<1> USE DEF PathInv, Capturing, Works, Calls, Statuses, Undefined, capture, connection, worker
<1>a. /\ caller \in Callers /\ caller' = caller /\ rewritten' = rewritten \cup {caller}
      /\ pc \in {"check", "null", "allocate", "mask", "copy", "connect"} /\ pc' = pc
  BY DEF Rewrite, TypeOK, Callers
<1>1. TypeOK'
  <2>1. masks' \in Lists /\ masks' \in Seq(SUBSET Bits) /\ Pointers(masks') \subseteq 1..Len(masks')
    BY ListFacts DEF Rewrite, Pointers
  <2>2. nulls' \subseteq 1..Len(masks')
    BY <2>1 DEF Rewrite
  <2>3. rewritten' \subseteq Callers
    BY <1>a DEF TypeOK
  <2>4. rewrites \in Nat /\ rewrites' = rewrites + 1
    BY DEF Rewrite, TypeOK
  <2>5. rewrites' \in Nat
    BY <2>4
  <2>6. UNCHANGED <<arch, pc, caller, index, accessible, capacity, captured, service, sent, opened>>
    BY DEF Rewrite
  <2> QED
    BY <1>a, <2>1, <2>2, <2>3, <2>5, <2>6 DEF TypeOK
<1>2. Turns'
  BY <1>a DEF Rewrite, Turns, Callers
<1>3. CaptureLoop'
  BY <1>a DEF Rewrite, CaptureLoop
<1>4. RegisterLoop' /\ CallLoop'
  BY <1>a DEF Rewrite, RegisterLoop, CallLoop
<1>5. CompareLoop'
  BY <1>a DEF Rewrite, CompareLoop, Callers
<1>6. FaultsExact' /\ RefusalsExact' /\ ServesRegistered'
  BY <1>a DEF Rewrite, FaultsExact, RefusalsExact, ServesRegistered, Callers
<1> QED
  BY <1>a, <1>1, <1>2, <1>3, <1>4, <1>5, <1>6, WorkerPart

(* A capture is allocated.                                                 *)
LEMMA AllocateInv == PathInv /\ Allocate => PathInv'
<1> SUFFICES ASSUME PathInv, Allocate PROVE PathInv'
  OBVIOUS
<1> USE DEF PathInv, Capturing, Works, Calls, Statuses, Undefined, memory, connection, worker
<1>a. /\ InSize(Len(masks)) \in Nat /\ (arch = "x86" => InSize(Len(masks)) < LengthModulus)
      /\ capacity' = InSize(Len(masks)) /\ captured' = <<>> /\ Len(captured') = 0 /\ DOMAIN captured' = {}
      /\ Len(masks) \in Nat /\ InSize(Len(masks))' = InSize(Len(masks))
  BY ListFacts, SizeFacts DEF Allocate, InSize
<1>b. /\ pc = "allocate" /\ pc' = "mask"
      /\ UNCHANGED <<arch, caller, index, memory, service, connection, worker>>
  BY DEF Allocate
<1>1. TypeOK'
  BY <1>a, <1>b, ListFacts DEF TypeOK
<1>2. Turns'
  BY <1>b DEF Turns
<1>3. CaptureLoop'
  BY <1>a, <1>b DEF CaptureLoop
<1>4. RegisterLoop'
  BY <1>a, <1>b DEF RegisterLoop
<1>5. CallLoop' /\ CompareLoop'
  BY <1>a, <1>b DEF CallLoop, CompareLoop
<1>6. FaultsExact' /\ RefusalsExact' /\ ServesRegistered'
  BY <1>b DEF FaultsExact, RefusalsExact, ServesRegistered
<1> QED
  BY <1>b, <1>1, <1>2, <1>3, <1>4, <1>5, <1>6, WorkerPart

(* A capture reads past what was probed only in the cases of FaultsExact.  *)
LEMMA CaptureFaults ==
  ASSUME PathInv, pc \in {"mask", "copy"}, Len(captured) < Len(masks) \/ caller \in rewritten,
         accessible < Dwords(Len(captured) + 1)
  PROVE  CASE caller = "ScRegisterServiceRoutineW" ->
                caller \in rewritten \/ accessible = Dwords(Len(masks)) - 1 \/ InSize(Len(masks)) < Len(masks)
           [] caller = "ScServiceCallW" -> caller \in rewritten \/ Len(masks) >= LengthModulus
           [] caller = "WaitThread" -> Len(masks) > MaxMessage
<1> USE DEF PathInv, Capturing
<1>a. /\ Len(masks) \in Nat /\ Len(captured) \in Nat /\ accessible \in Nat /\ sent \in Nat
      /\ caller \in Callers \cup {"WaitThread"} /\ rewritten \subseteq Callers
  BY ListFacts DEF TypeOK
<1>b. accessible < 4 * Len(captured) + 6
  BY <1>a DEF Dwords
<1>1. CASE caller = "ScRegisterServiceRoutineW"
  <2>1. SUFFICES ASSUME caller \notin rewritten, ~ (InSize(Len(masks)) < Len(masks))
                 PROVE  accessible = Dwords(Len(masks)) - 1
    BY <1>1
  <2>2. accessible >= 4 * InSize(Len(masks)) + 1 /\ InSize(Len(masks)) \in Nat
    BY <1>1, <1>a, <2>1, SizeFacts DEF RegisterLoop
  <2>3. Len(captured) < Len(masks)
    BY <2>1
  <2> QED
    BY <1>a, <1>b, <2>1, <2>2, <2>3 DEF Dwords
<1>2. CASE caller = "ScServiceCallW"
  <2>1. SUFFICES ASSUME caller \notin rewritten, ~ (Len(masks) >= LengthModulus)
                 PROVE  FALSE
    BY <1>2
  <2>2. Len(masks) < LengthModulus
    BY <1>a, <2>1, PathAssumption
  <2>3. accessible >= Dwords(sent) /\ sent = Len(masks)
    BY <1>2, <1>a, <2>1, <2>2, ModFacts DEF CallLoop
  <2>4. Len(captured) < Len(masks)
    BY <2>1
  <2> QED
    BY <1>a, <1>b, <2>3, <2>4 DEF Dwords
<1>3. CASE caller = "WaitThread"
  <2>1. accessible >= Dwords(Smaller(MaxMessage, Len(masks)))
    BY <1>3 DEF CompareLoop
  <2>2. Len(captured) < Len(masks)
    BY <1>3, <1>a DEF Callers
  <2> QED
    BY <1>3, <1>a, <1>b, <2>1, <2>2, PathAssumption DEF Smaller, Dwords
<1> QED
  BY <1>1, <1>2, <1>3, <1>a DEF Callers

(* The mask of the next parameter that is captured.                        *)
LEMMA CaptureMaskInv == PathInv /\ CaptureMask => PathInv'
<1> SUFFICES ASSUME PathInv, CaptureMask PROVE PathInv'
  OBVIOUS
<1> USE DEF PathInv, Capturing, Works, Calls, Statuses, Undefined, memory, capture, connection, worker
<1>a. /\ pc = "mask" /\ Len(captured) < Len(masks) /\ Len(captured) \in Nat /\ Len(masks) \in Nat
      /\ UNCHANGED <<arch, caller, index, memory, capture, service, connection, worker>>
      /\ caller \in Callers \cup {"WaitThread"} /\ rewritten \subseteq Callers
  BY ListFacts DEF CaptureMask, TypeOK
<1>b. PICK mask \in MaskAt(Len(captured) + 1) :
        pc' = IF accessible < MaskDword(Len(captured) + 1) THEN "fault"
              ELSE IF Invalid(mask) THEN NullCapture ELSE "copy"
  BY DEF CaptureMask
<1>c. NullCapture \in {"STATUS_INVALID_PARAMETER_3", "STATUS_INVALID_PARAMETER_2", "null dereferenced"}
  BY <1>a DEF NullCapture, Callers
<1>d. pc' \in {"fault", "copy", "STATUS_INVALID_PARAMETER_3", "STATUS_INVALID_PARAMETER_2", "null dereferenced"}
  BY <1>b, <1>c
<1>e. InSize(Len(masks))' = InSize(Len(masks))
  BY <1>a DEF InSize
<1>f. caller # "WaitThread" \/ Len(captured) < MaxMessage => mask = masks[Len(captured) + 1]
  BY <1>a, <1>b, PathAssumption DEF MaskAt, Smaller
<1>g. pc' = "copy" => ~ Invalid(mask)
  BY <1>b, <1>c
<1>1. TypeOK'
  BY <1>a, <1>d DEF TypeOK
<1>2. Turns'
  BY <1>a, <1>d DEF Turns
<1>3. CaptureLoop'
  BY <1>a, <1>d, <1>e DEF CaptureLoop
<1>4. RegisterLoop'
  BY <1>a, <1>d, <1>e, <1>f, <1>g DEF RegisterLoop
<1>5. CallLoop' /\ CompareLoop'
  BY <1>a, <1>d DEF CallLoop, CompareLoop
<1>6. FaultsExact'
  <2>1. pc' # "overrun"
    BY <1>d
  <2>2. ASSUME pc' = "fault"
        PROVE  accessible < Dwords(Len(captured) + 1)
    <3>1. accessible < MaskDword(Len(captured) + 1)
      BY <1>b, <1>c, <2>2
    <3>2. accessible \in Nat
      BY DEF TypeOK
    <3> QED
      BY <1>a, <3>1, <3>2 DEF MaskDword, Dwords
  <2> QED
    BY <1>a, <1>e, <2>1, <2>2, CaptureFaults DEF FaultsExact
<1>7. RefusalsExact'
  <2>1. CASE pc' \in {"fault", "copy", "null dereferenced"}
    BY <1>a, <2>1 DEF RefusalsExact
  <2>2. CASE pc' \in {"STATUS_INVALID_PARAMETER_3", "STATUS_INVALID_PARAMETER_2"}
    <3>1. Invalid(mask) /\ pc' = NullCapture
      BY <1>b, <2>2
    <3>2. caller \in Callers /\ (pc' = "STATUS_INVALID_PARAMETER_2" => caller = "ScServiceCallW")
      BY <1>a, <2>2, <3>1 DEF NullCapture, Callers
    <3>3. mask = masks[Len(captured) + 1] /\ Len(captured) + 1 \in DOMAIN masks
      BY <1>a, <1>f, <3>2, ListFacts DEF Callers
    <3> QED
      BY <1>a, <3>1, <3>2, <3>3 DEF RefusalsExact
  <2> QED
    BY <1>d, <2>1, <2>2
<1>8. ServesRegistered'
  <2>1. pc' \notin Works
    BY <1>d
  <2>2. ASSUME pc' = "null dereferenced", "ScRegisterServiceRoutineW" \notin rewritten
        PROVE  Len(service) > MaxMessage
    <3>1. Invalid(mask) /\ caller = "WaitThread"
      BY <1>a, <1>b, <2>2 DEF NullCapture, Callers
    <3>2. masks = service /\ Len(service) \in Nat
      BY <1>a, <3>1, ListFacts DEF CompareLoop
    <3>3. Len(captured) + 1 \in DOMAIN service
      BY <1>a, <3>2, ListFacts
    <3>4. ~ Invalid(service[Len(captured) + 1])
      BY <2>2, <3>3 DEF RefusalsExact
    <3>5. ~ (Len(captured) < MaxMessage)
      BY <1>f, <3>1, <3>2, <3>4
    <3> QED
      BY <1>a, <3>2, <3>5, PathAssumption
  <2> QED
    BY <1>a, <2>1, <2>2 DEF ServesRegistered
<1> QED
  BY <1>d, <1>1, <1>2, <1>3, <1>4, <1>5, <1>6, <1>7, <1>8, WorkerPart

(* The next parameter is copied, into a block that has room for it unless  *)
(* the list was rewritten or its length wrapped.                           *)
LEMMA CopyParameterInv == PathInv /\ CopyParameter => PathInv'
<1> SUFFICES ASSUME PathInv, CopyParameter PROVE PathInv'
  OBVIOUS
<1> USE DEF PathInv, Capturing, Works, Calls, Statuses, Undefined, memory, connection, worker
<1>a. /\ pc = "copy" /\ Len(captured) \in Nat /\ Len(masks) \in Nat /\ Len(service) \in Nat
      /\ UNCHANGED <<arch, caller, index, memory, capacity, service, connection, worker>>
      /\ caller \in Callers \cup {"WaitThread"} /\ rewritten \subseteq Callers
      /\ capacity \in Nat /\ accessible \in Nat /\ captured \in Seq(SUBSET Bits)
  BY ListFacts DEF CopyParameter, TypeOK
<1>b. InSize(Len(masks))' = InSize(Len(masks))
  BY <1>a DEF InSize
<1>1. CASE accessible < Dwords(Len(captured) + 1)
  <2>1. pc' = "fault" /\ captured' = captured
    BY <1>1 DEF CopyParameter
  <2>2. TypeOK' /\ Turns'
    BY <1>a, <2>1 DEF TypeOK, Turns
  <2>3. CaptureLoop' /\ RegisterLoop' /\ CallLoop' /\ CompareLoop'
    BY <1>a, <1>b, <2>1 DEF CaptureLoop, RegisterLoop, CallLoop, CompareLoop
  <2>4. Len(captured) < Len(masks) \/ caller \in rewritten
    BY <1>a DEF CaptureLoop
  <2>5. FaultsExact'
    BY <1>a, <1>b, <1>1, <2>1, <2>4, CaptureFaults DEF FaultsExact
  <2>6. RefusalsExact' /\ ServesRegistered'
    BY <1>a, <2>1 DEF RefusalsExact, ServesRegistered
  <2> QED
    BY <2>1, <2>2, <2>3, <2>5, <2>6, WorkerPart
<1>2. CASE ~ (accessible < Dwords(Len(captured) + 1)) /\ Len(captured) >= capacity
  <2>1. pc' = "overrun" /\ captured' = captured
    BY <1>2 DEF CopyParameter
  <2>2. TypeOK' /\ Turns'
    BY <1>a, <2>1 DEF TypeOK, Turns
  <2>3. CaptureLoop' /\ RegisterLoop' /\ CallLoop' /\ CompareLoop'
    BY <1>a, <1>b, <2>1 DEF CaptureLoop, RegisterLoop, CallLoop, CompareLoop
  <2>4. ASSUME caller \notin rewritten
        PROVE  caller \in Callers /\ InSize(Len(masks)) < Len(masks)
    <3>1. InSize(Len(masks)) < Len(masks)
      BY <1>a, <1>2, <2>4 DEF CaptureLoop
    <3>2. ASSUME caller = "WaitThread" PROVE FALSE
      <4>1. masks = service
        BY <1>a, <3>2 DEF CompareLoop
      <4>2. InSize(Len(masks)) = Len(masks)
        BY <1>a, <4>1, SizeFacts DEF CaptureLoop
      <4> QED
        BY <1>a, <3>1, <4>2
    <3> QED
      BY <1>a, <3>1, <3>2
  <2>5. FaultsExact'
    BY <1>a, <1>b, <2>1, <2>4 DEF FaultsExact
  <2>6. RefusalsExact' /\ ServesRegistered'
    BY <1>a, <2>1 DEF RefusalsExact, ServesRegistered
  <2> QED
    BY <2>1, <2>2, <2>3, <2>5, <2>6, WorkerPart
<1>3. CASE ~ (accessible < Dwords(Len(captured) + 1)) /\ ~ (Len(captured) >= capacity)
  <2>1. PICK mask \in MaskAt(Len(captured) + 1) : captured' = Append(captured, mask) /\ pc' = "mask"
    BY <1>3 DEF CopyParameter
  <2>2. caller # "WaitThread" \/ Len(captured) < MaxMessage =>
          (Len(captured) < Len(masks) => mask = masks[Len(captured) + 1])
    BY <1>a, <2>1, PathAssumption DEF MaskAt, Smaller
  <2>3. mask \in SUBSET Bits
    <3>1. Len(captured) + 1 <= Len(masks) => masks[Len(captured) + 1] \in SUBSET Bits
      BY <1>a DEF TypeOK
    <3>2. Smaller(MaxMessage, Len(masks)) <= Len(masks) /\ Smaller(MaxMessage, Len(masks)) \in Nat
      BY <1>a, PathAssumption DEF Smaller
    <3> QED
      BY <1>a, <2>1, <3>1, <3>2, PathAssumption DEF MaskAt
  <2>4. /\ captured' \in Seq(SUBSET Bits) /\ Len(captured') = Len(captured) + 1
        /\ DOMAIN captured' = 1..(Len(captured) + 1) /\ captured'[Len(captured) + 1] = mask
        /\ \A k \in 1..Len(captured) : captured'[k] = captured[k]
    BY <1>a, <2>1, <2>3
  <2>5. Len(captured) < capacity /\ (caller \notin rewritten => Len(captured) < Len(masks))
    BY <1>a, <1>3 DEF CaptureLoop
  <2>6. TypeOK' /\ Turns'
    BY <1>a, <2>1, <2>4 DEF TypeOK, Turns
  <2>7. CaptureLoop'
    BY <1>a, <1>b, <2>1, <2>4, <2>5 DEF CaptureLoop
  <2>8. RegisterLoop'
    <3>1. SUFFICES ASSUME caller = "ScRegisterServiceRoutineW", caller \notin rewritten
                   PROVE  /\ accessible >= 4 * InSize(Len(masks)) + 1
                          /\ \A k \in DOMAIN captured' : ~ Invalid(captured'[k])
      BY <1>a, <1>b, <2>1 DEF RegisterLoop
    <3>2. ~ Invalid(mask)
      BY <1>a, <2>2, <2>5, <3>1 DEF RegisterLoop
    <3>3. \A k \in 1..Len(captured) : ~ Invalid(captured[k])
      BY <1>a, <3>1, ListFacts DEF RegisterLoop
    <3>4. accessible >= 4 * InSize(Len(masks)) + 1
      BY <1>a, <3>1 DEF RegisterLoop
    <3> QED
      BY <1>a, <2>4, <3>2, <3>3, <3>4
  <2>9. CallLoop'
    BY <1>a, <2>1 DEF CallLoop
  <2>10. CompareLoop'
    <3>1. ASSUME caller = "WaitThread", NEW k \in 1..(Len(captured) + 1), k <= MaxMessage
          PROVE  captured'[k] = service[k]
      <4>1. masks = service /\ \A j \in DOMAIN captured : j <= MaxMessage => captured[j] = service[j]
        BY <1>a, <3>1 DEF CompareLoop
      <4>2. CASE k <= Len(captured)
        BY <1>a, <2>4, <3>1, <4>1, <4>2, ListFacts
      <4>3. CASE k = Len(captured) + 1
        <5>1. Len(captured) < MaxMessage
          BY <1>a, <3>1, <4>3, PathAssumption
        <5>2. mask = masks[Len(captured) + 1]
          BY <1>a, <2>2, <2>5, <3>1, <5>1 DEF Callers
        <5> QED
          BY <2>4, <4>1, <4>3, <5>2
      <4> QED
        BY <1>a, <3>1, <4>2, <4>3
    <3>2. caller = "WaitThread" => masks = service /\ accessible >= Dwords(Smaller(MaxMessage, Len(masks)))
      BY <1>a DEF CompareLoop
    <3> QED
      BY <1>a, <2>1, <2>4, <3>1, <3>2 DEF CompareLoop
  <2>11. FaultsExact' /\ RefusalsExact' /\ ServesRegistered'
    BY <1>a, <2>1 DEF FaultsExact, RefusalsExact, ServesRegistered
  <2> QED
    BY <2>1, <2>6, <2>7, <2>8, <2>9, <2>10, <2>11, WorkerPart
<1> QED
  BY <1>1, <1>2, <1>3

-----------------------------------------------------------------------------
(* The probe of a registered list.                                         *)
LEMMA ProbeRegisterInv == PathInv /\ ProbeRegister => PathInv'
<1> SUFFICES ASSUME PathInv, ProbeRegister PROVE PathInv'
  OBVIOUS
<1> USE DEF PathInv, Capturing, Works, Calls, Statuses, Undefined, capture, connection, worker
<1>a. PICK list \in Lists : \E readable \in Readable :
        /\ masks' = list /\ accessible' = readable /\ nulls' = {}
        /\ pc' = IF readable < Larger(2, 4 * InSize(Len(list)) + 1)
                 THEN "STATUS_ACCESS_VIOLATION" ELSE "allocate"
  BY DEF ProbeRegister
<1>b. /\ pc = "register" /\ rewritten = {} /\ pc' \in {"STATUS_ACCESS_VIOLATION", "allocate"}
      /\ caller = "ScRegisterServiceRoutineW" /\ index = 1
      /\ UNCHANGED <<arch, caller, index, rewritten, rewrites, capture, service, connection, worker>>
      /\ masks' \in Seq(SUBSET Bits) /\ Len(masks') \in Nat /\ accessible' \in Nat /\ nulls' = {}
  BY <1>a, ListFacts, PathAssumption DEF ProbeRegister, Turns
<1>c. InSize(Len(masks')) \in Nat /\ InSize(Len(masks))' = InSize(Len(masks'))
  BY <1>b, SizeFacts DEF InSize
<1>1. TypeOK'
  BY <1>b DEF TypeOK
<1>2. Turns'
  BY <1>b DEF Turns
<1>3. CaptureLoop'
  BY <1>b DEF CaptureLoop
<1>4. RegisterLoop'
  <2>1. pc' = "allocate" => accessible' >= 4 * InSize(Len(masks')) + 1
    BY <1>a, <1>b, <1>c DEF Larger
  <2> QED
    BY <1>b, <1>c, <2>1 DEF RegisterLoop
<1>5. CallLoop' /\ CompareLoop'
  BY <1>b DEF CallLoop, CompareLoop
<1>6. FaultsExact' /\ RefusalsExact' /\ ServesRegistered'
  BY <1>b DEF FaultsExact, RefusalsExact, ServesRegistered
<1> QED
  BY <1>b, <1>1, <1>2, <1>3, <1>4, <1>5, <1>6, WorkerPart

(* What is registered has been checked.                                    *)
LEMMA RegisterInv == PathInv /\ Register => PathInv'
<1> SUFFICES ASSUME PathInv, Register PROVE PathInv'
  OBVIOUS
<1> USE DEF PathInv, Capturing, Works, Calls, Statuses, Undefined, memory, connection, worker
<1>a. /\ pc = "mask" /\ pc' = "call" /\ caller = "ScRegisterServiceRoutineW"
      /\ service' = captured /\ captured' = <<>> /\ capacity' = 0
      /\ UNCHANGED <<arch, caller, index, memory, connection, worker>>
      /\ Len(captured) \in Nat /\ capacity \in Nat /\ Len(captured) <= capacity
      /\ LengthModulus \in Nat /\ LengthModulus > 0
  BY ListFacts, PathAssumption DEF Register, Captures, CaptureLoop, TypeOK
<1>1. TypeOK'
  BY <1>a, ListFacts DEF TypeOK
<1>2. Turns'
  BY <1>a DEF Turns
<1>3. CaptureLoop'
  BY <1>a DEF CaptureLoop
<1>4. RegisterLoop' /\ CallLoop' /\ CompareLoop'
  BY <1>a DEF RegisterLoop, CallLoop, CompareLoop
<1>5. RefusalsExact'
  BY <1>a DEF RefusalsExact, RegisterLoop
<1>6. FaultsExact' /\ ServesRegistered'
  BY <1>a DEF FaultsExact, ServesRegistered
<1> QED
  BY <1>a, <1>1, <1>2, <1>3, <1>4, <1>5, <1>6, WorkerPart

-----------------------------------------------------------------------------
(* The probe of a client's list.                                           *)
LEMMA ProbeCallInv == PathInv /\ ProbeCall => PathInv'
<1> SUFFICES ASSUME PathInv, ProbeCall PROVE PathInv'
  OBVIOUS
<1> USE DEF PathInv, Capturing, Works, Calls, Statuses, Undefined, capture, worker
<1>a. PICK list \in Lists : \E readable \in Readable :
        /\ masks' = list /\ accessible' = readable /\ nulls' \in SUBSET Pointers(list)
        /\ sent' = Len(list) % LengthModulus
        /\ pc' = IF readable < Dwords(sent') THEN "STATUS_ACCESS_VIOLATION" ELSE "check"
  BY DEF ProbeCall
<1>b. /\ pc = "call" /\ pc' \in {"STATUS_ACCESS_VIOLATION", "check"} /\ index = 1
      /\ caller' = "ScServiceCallW" /\ "ScServiceCallW" \notin rewritten
      /\ UNCHANGED <<arch, index, rewritten, rewrites, capture, service, opened, worker>>
      /\ masks' \in Seq(SUBSET Bits) /\ Len(masks') \in Nat /\ accessible' \in Nat
      /\ sent' \in Nat /\ sent' = Len(masks') % LengthModulus
      /\ (pc' = "check" => accessible' >= Dwords(sent'))
  BY <1>a, ListFacts, ModFacts, PathAssumption DEF ProbeCall, Turns, Dwords
<1>c. nulls' \subseteq 1..Len(masks')
  BY <1>a, ListFacts DEF Pointers
<1>1. TypeOK'
  BY <1>b, <1>c DEF TypeOK, Callers
<1>2. Turns'
  BY <1>b DEF Turns
<1>3. CaptureLoop'
  BY <1>b DEF CaptureLoop
<1>4. RegisterLoop' /\ CallLoop' /\ CompareLoop'
  BY <1>b DEF RegisterLoop, CallLoop, CompareLoop
<1>5. FaultsExact' /\ RefusalsExact' /\ ServesRegistered'
  BY <1>b DEF FaultsExact, RefusalsExact, ServesRegistered
<1> QED
  BY <1>b, <1>1, <1>2, <1>3, <1>4, <1>5, WorkerPart

(* The loop of ScServiceCallW reads past the probe only in the cases of    *)
(* FaultsExact.                                                            *)
LEMMA CheckFaults ==
  ASSUME PathInv, pc \in {"check", "null"}, index <= Len(masks) \/ caller \in rewritten,
         accessible < Dwords(index)
  PROVE  caller \in rewritten \/ Len(masks) >= LengthModulus
<1> SUFFICES ASSUME caller \notin rewritten, ~ (Len(masks) >= LengthModulus)
             PROVE  FALSE
  OBVIOUS
<1> USE DEF PathInv
<1>1. index <= Len(masks) /\ index \in Nat /\ Len(masks) \in Nat /\ accessible \in Nat
  BY ListFacts DEF TypeOK
<1>2. accessible >= Dwords(sent) /\ sent = Len(masks) % LengthModulus
  BY DEF CallLoop, Turns
<1>3. sent = Len(masks)
  BY <1>1, <1>2, ModFacts, PathAssumption
<1> QED
  BY <1>1, <1>2, <1>3 DEF Dwords


(* Each parameter that ScServiceCallW looks at.                            *)
LEMMA CheckMaskInv == PathInv /\ CheckMask => PathInv'
<1> SUFFICES ASSUME PathInv, CheckMask PROVE PathInv'
  OBVIOUS
<1> USE DEF PathInv, Capturing, Works, Calls, Statuses, Undefined, memory, capture, connection, worker
<1>a. /\ pc = "check" /\ caller = "ScServiceCallW" /\ Len(masks) \in Nat /\ accessible \in Nat
      /\ index \in Nat /\ index >= 1
      /\ UNCHANGED <<arch, caller, memory, capture, service, connection, worker>>
  BY ListFacts DEF CheckMask, Turns, TypeOK
<1>b. InSize(Len(masks))' = InSize(Len(masks))
  BY <1>a DEF InSize
<1>c. /\ pc' \in {"allocate", "fault", "null", "check"} /\ index' \in Nat /\ index' >= 1
      /\ pc' = "allocate" => index' = 1
      /\ pc' = "fault" => index <= Len(masks) /\ accessible < MaskDword(index)
      /\ pc' = "null" => index' = index /\ index <= Len(masks) /\ MustPoint(masks[index])
  BY <1>a DEF CheckMask
<1>1. TypeOK'
  BY <1>a, <1>c DEF TypeOK
<1>2. Turns'
  BY <1>a, <1>c DEF Turns
<1>3. CaptureLoop'
  BY <1>a, <1>b, <1>c DEF CaptureLoop
<1>4. RegisterLoop' /\ CompareLoop'
  BY <1>a, <1>c DEF RegisterLoop, CompareLoop
<1>5. CallLoop'
  BY <1>a, <1>c DEF CallLoop
<1>6. FaultsExact'
  <2>1. pc' = "fault" => accessible < Dwords(index)
    BY <1>a, <1>c DEF MaskDword, Dwords
  <2> QED
    BY <1>a, <1>b, <1>c, <2>1, CheckFaults DEF FaultsExact
<1>7. RefusalsExact' /\ ServesRegistered'
  BY <1>a, <1>c DEF RefusalsExact, ServesRegistered
<1> QED
  BY <1>c, <1>1, <1>2, <1>3, <1>4, <1>5, <1>6, <1>7, WorkerPart

(* The pointer of one that must point.                                     *)
LEMMA CheckNullInv == PathInv /\ CheckNull => PathInv'
<1> SUFFICES ASSUME PathInv, CheckNull PROVE PathInv'
  OBVIOUS
<1> USE DEF PathInv, Capturing, Works, Calls, Statuses, Undefined, memory, capture, connection, worker
<1>a. /\ pc = "null" /\ caller = "ScServiceCallW" /\ Len(masks) \in Nat /\ accessible \in Nat
      /\ index \in Nat /\ index >= 1
      /\ UNCHANGED <<arch, caller, memory, capture, service, connection, worker>>
  BY ListFacts DEF CheckNull, Turns, TypeOK
<1>b. InSize(Len(masks))' = InSize(Len(masks))
  BY <1>a DEF InSize
<1>c. /\ pc' \in {"fault", "STATUS_INVALID_PARAMETER_2", "check"} /\ index' \in {index, index + 1}
      /\ pc' = "fault" => accessible < Dwords(index)
      /\ pc' = "STATUS_INVALID_PARAMETER_2" => (index \in Pointers(masks) => index \in nulls)
  BY DEF CheckNull
<1>d. index' \in Nat /\ index' >= 1
  BY <1>a, <1>c
<1>e. caller \notin rewritten => index \in 1..Len(masks) /\ MustPoint(masks[index])
  BY <1>a DEF CallLoop
<1>1. TypeOK'
  BY <1>a, <1>c, <1>d DEF TypeOK
<1>2. Turns'
  BY <1>a, <1>c, <1>d DEF Turns
<1>3. CaptureLoop'
  BY <1>a, <1>b, <1>c DEF CaptureLoop
<1>4. RegisterLoop' /\ CompareLoop'
  BY <1>a, <1>c DEF RegisterLoop, CompareLoop
<1>5. CallLoop'
  BY <1>a, <1>c DEF CallLoop
<1>6. FaultsExact'
  BY <1>a, <1>b, <1>c, <1>e, CheckFaults DEF FaultsExact
<1>7. RefusalsExact'
  <2>1. ASSUME pc' = "STATUS_INVALID_PARAMETER_2", caller \notin rewritten
        PROVE  index \in DOMAIN masks /\ index \in nulls /\ "NL" \notin masks[index]
    <3>1. index \in DOMAIN masks /\ MustPoint(masks[index])
      BY <1>e, <2>1, ListFacts
    <3> QED
      BY <1>c, <2>1, <3>1 DEF MustPoint, Pointers
  <2> QED
    BY <1>a, <1>c, <2>1 DEF RefusalsExact
<1>8. ServesRegistered'
  BY <1>a, <1>c DEF ServesRegistered
<1> QED
  BY <1>c, <1>1, <1>2, <1>3, <1>4, <1>5, <1>6, <1>7, <1>8, WorkerPart

(* The capture of the client's list is deleted.                            *)
LEMMA ClientCapturedInv == PathInv /\ ClientCaptured => PathInv'
<1> SUFFICES ASSUME PathInv, ClientCaptured PROVE PathInv'
  OBVIOUS
<1> USE DEF PathInv, Capturing, Works, Calls, Statuses, Undefined, memory, connection, worker
<1>a. /\ pc = "mask" /\ pc' = "connect" /\ caller = "ScServiceCallW"
      /\ captured' = <<>> /\ capacity' = 0 /\ capacity \in Nat
      /\ UNCHANGED <<arch, caller, index, memory, service, connection, worker>>
      /\ LengthModulus \in Nat /\ LengthModulus > 0
  BY PathAssumption DEF ClientCaptured, Captures, TypeOK
<1>1. TypeOK'
  BY <1>a, ListFacts DEF TypeOK
<1>2. Turns'
  BY <1>a DEF Turns
<1>3. CaptureLoop'
  BY <1>a DEF CaptureLoop
<1>4. RegisterLoop' /\ CallLoop' /\ CompareLoop'
  BY <1>a DEF RegisterLoop, CallLoop, CompareLoop
<1>5. FaultsExact' /\ RefusalsExact' /\ ServesRegistered'
  BY <1>a DEF FaultsExact, RefusalsExact, ServesRegistered
<1> QED
  BY <1>a, <1>1, <1>2, <1>3, <1>4, <1>5, WorkerPart

(* The list is sent.                                                       *)
LEMMA ConnectInv == PathInv /\ Connect => PathInv'
<1> SUFFICES ASSUME PathInv, Connect PROVE PathInv'
  OBVIOUS
<1> USE DEF PathInv, Capturing, Works, Calls, Statuses, Undefined, capture, connection, worker
<1>a. /\ pc = "connect" /\ pc' = "open" /\ caller = "ScServiceCallW" /\ caller' = "WaitThread" /\ index = 1
      /\ nulls' = {k \in nulls : k <= Arrived} /\ Len(masks) \in Nat
      /\ UNCHANGED <<arch, index, masks, rewritten, rewrites, capture, service, connection, worker>>
  BY ListFacts DEF Connect, Turns
<1>b. accessible' \in Nat /\ accessible' >= Dwords(Smaller(MaxMessage, Len(masks)))
  <2>1. Dwords(Smaller(MaxMessage, Len(masks))) \in Nat
    BY <1>a, PathAssumption DEF Smaller, Dwords
  <2>2. accessible' \in Dwords(Smaller(MaxMessage, Len(masks)))..Dwords(Len(masks))
    BY DEF Connect
  <2> QED
    BY <2>1, <2>2
<1>1. TypeOK'
  BY <1>a, <1>b DEF TypeOK
<1>2. Turns'
  BY <1>a DEF Turns
<1>3. CaptureLoop'
  BY <1>a DEF CaptureLoop
<1>4. RegisterLoop' /\ CallLoop'
  BY <1>a DEF RegisterLoop, CallLoop
<1>5. CompareLoop'
  <2>1. "ScServiceCallW" \notin rewritten => sent = Len(masks) % LengthModulus
    BY <1>a DEF CallLoop
  <2> QED
    BY <1>a, <1>b, <2>1 DEF CompareLoop
<1>6. FaultsExact' /\ RefusalsExact' /\ ServesRegistered'
  BY <1>a DEF FaultsExact, RefusalsExact, ServesRegistered
<1> QED
  BY <1>a, <1>1, <1>2, <1>3, <1>4, <1>5, <1>6, WorkerPart

-----------------------------------------------------------------------------
(* WaitThread opens the client's process.                                  *)
LEMMA OpenClientInv == PathInv /\ OpenClient => PathInv'
<1> SUFFICES ASSUME PathInv, OpenClient PROVE PathInv'
  OBVIOUS
<1> USE DEF PathInv, Capturing, Works, Calls, Statuses, Undefined, memory, capture, worker
<1>a. /\ pc = "open" /\ pc' = (IF opened' THEN "compare" ELSE "STATUS_INVALID_PARAMETER_2")
      /\ opened' \in BOOLEAN /\ caller = "WaitThread" /\ index = 1 /\ Len(service) \in Nat
      /\ UNCHANGED <<arch, caller, index, memory, capture, service, sent, worker>>
  BY ListFacts DEF OpenClient, Turns
<1>1. TypeOK'
  BY <1>a DEF TypeOK
<1>2. Turns'
  BY <1>a DEF Turns
<1>3. CaptureLoop' /\ RegisterLoop' /\ CallLoop'
  BY <1>a DEF CaptureLoop, RegisterLoop, CallLoop
<1>4. CompareLoop'
  BY <1>a DEF CompareLoop
<1>5. FaultsExact' /\ ServesRegistered'
  BY <1>a DEF FaultsExact, ServesRegistered
<1>6. RefusalsExact'
  BY <1>a DEF RefusalsExact
<1> QED
  BY <1>a, <1>1, <1>2, <1>3, <1>4, <1>5, <1>6, WorkerPart

(* Each mask that RtlEqualParameterType compares.                          *)
LEMMA CompareInv == PathInv /\ Compare => PathInv'
<1> SUFFICES ASSUME PathInv, Compare PROVE PathInv'
  OBVIOUS
<1> USE DEF PathInv, Capturing, Works, Calls, Statuses, Undefined, capture, connection, worker
<1>a. /\ pc = "compare" /\ caller = "WaitThread" /\ Len(masks) \in Nat /\ Len(service) \in Nat
      /\ index \in Nat /\ index >= 1 /\ masks \in Seq(SUBSET Bits) /\ service \in Seq(SUBSET Bits)
      /\ UNCHANGED <<arch, caller, nulls, accessible, rewritten, rewrites, capture, service, connection, worker>>
      /\ accessible \in Nat
  BY ListFacts DEF Compare, Turns, TypeOK
<1>b. /\ accessible >= Dwords(Smaller(MaxMessage, Len(masks)))
      /\ "ScServiceCallW" \notin rewritten => sent = Len(masks) % LengthModulus
      /\ \A k \in 1..(index - 1) : masks[k] = service[k]
  BY <1>a DEF CompareLoop
<1>1. CASE ~ SameCount /\ pc' = "STATUS_INVALID_PARAMETER_2" /\ UNCHANGED <<index, masks>>
  <2>1. TypeOK' /\ Turns'
    BY <1>a, <1>1 DEF TypeOK, Turns
  <2>2. CaptureLoop' /\ RegisterLoop' /\ CallLoop' /\ CompareLoop'
    BY <1>a, <1>b, <1>1 DEF CaptureLoop, RegisterLoop, CallLoop, CompareLoop
  <2>3. FaultsExact' /\ ServesRegistered'
    BY <1>a, <1>1 DEF FaultsExact, ServesRegistered
  <2>4. masks # service
    BY <1>1 DEF SameCount
  <2>5. RefusalsExact'
    BY <1>a, <1>1, <2>4 DEF RefusalsExact
  <2> QED
    BY <1>1, <2>1, <2>2, <2>3, <2>5, WorkerPart
<1>2. CASE SameCount /\ index > Len(service) /\ pc' = "allocate" /\ index' = 1 /\ UNCHANGED masks
  <2>1. TypeOK' /\ Turns'
    BY <1>a, <1>2 DEF TypeOK, Turns
  <2>2. CaptureLoop' /\ RegisterLoop' /\ CallLoop'
    BY <1>a, <1>2 DEF CaptureLoop, RegisterLoop, CallLoop
  <2>3. masks = service
    <3>1. \A k \in 1..Len(service) : masks[k] = service[k]
      BY <1>a, <1>b, <1>2
    <3> QED
      BY <1>a, <1>2, <3>1 DEF SameCount
  <2>4. CompareLoop'
    BY <1>a, <1>b, <1>2, <2>3 DEF CompareLoop
  <2>5. FaultsExact' /\ ServesRegistered' /\ RefusalsExact'
    BY <1>a, <1>2 DEF FaultsExact, ServesRegistered, RefusalsExact
  <2> QED
    BY <1>2, <2>1, <2>2, <2>4, <2>5, WorkerPart
<1>3. CASE /\ SameCount /\ index <= Len(service) /\ accessible < MaskDword(index)
           /\ pc' = "fault" /\ UNCHANGED <<index, masks>>
  <2>1. TypeOK' /\ Turns'
    BY <1>a, <1>3 DEF TypeOK, Turns
  <2>2. CaptureLoop' /\ RegisterLoop' /\ CallLoop' /\ CompareLoop'
    BY <1>a, <1>b, <1>3 DEF CaptureLoop, RegisterLoop, CallLoop, CompareLoop
  <2>3. Len(masks) > MaxMessage
    BY <1>a, <1>b, <1>3, PathAssumption DEF Smaller, Dwords, MaskDword, SameCount
  <2>4. FaultsExact'
    BY <1>a, <1>3, <2>3 DEF FaultsExact
  <2>5. RefusalsExact' /\ ServesRegistered'
    BY <1>a, <1>3 DEF RefusalsExact, ServesRegistered
  <2> QED
    BY <1>3, <2>1, <2>2, <2>4, <2>5, WorkerPart
<1>4. CASE /\ SameCount /\ index <= Len(service) /\ accessible >= MaskDword(index)
           /\ \E mask \in IF index <= Arrived THEN {masks[index]} ELSE Stale :
                /\ masks' = [masks EXCEPT ![index] = mask]
                /\ IF Agree(mask, index) THEN index' = index + 1 /\ UNCHANGED pc
                   ELSE pc' = "STATUS_INVALID_PARAMETER_2" /\ UNCHANGED index
  <2>1. PICK mask \in IF index <= Arrived THEN {masks[index]} ELSE Stale :
          /\ masks' = [masks EXCEPT ![index] = mask]
          /\ IF Agree(mask, index) THEN index' = index + 1 /\ UNCHANGED pc
             ELSE pc' = "STATUS_INVALID_PARAMETER_2" /\ UNCHANGED index
    BY <1>4
  <2>a. index \in 1..Len(masks) /\ Len(masks) = Len(service)
    BY <1>a, <1>4 DEF SameCount
  <2>b. mask \in SUBSET Bits
    BY <1>a, <2>1, <2>a, PathAssumption
  <2>c. /\ masks' \in Seq(SUBSET Bits) /\ Len(masks') = Len(masks) /\ masks'[index] = mask
        /\ \A k \in 1..(index - 1) : masks'[k] = masks[k]
    BY <1>a, <2>1, <2>a, <2>b
  <2>d. pc' \in {"compare", "STATUS_INVALID_PARAMETER_2"} /\ index' \in {index, index + 1}
    BY <1>a, <2>1
  <2>e. index' \in Nat /\ index' >= 1
    BY <1>a, <2>d
  <2>2. TypeOK' /\ Turns'
    <3>1. nulls' \subseteq 1..Len(masks')
      BY <1>a, <2>c DEF TypeOK
    <3> QED
      BY <1>a, <2>c, <2>d, <2>e, <3>1 DEF TypeOK, Turns
  <2>3. CaptureLoop' /\ RegisterLoop' /\ CallLoop'
    BY <1>a, <2>d DEF CaptureLoop, RegisterLoop, CallLoop
  <2>4. CompareLoop'
    <3>1. ASSUME pc' = "compare"
          PROVE  index' = index + 1 /\ \A k \in 1..index : masks'[k] = service[k]
      <4>1. Agree(mask, index) /\ index' = index + 1
        BY <2>1, <3>1
      <4> QED
        BY <1>a, <1>b, <2>c, <4>1 DEF Agree
    <3>2. pc' = "compare" => /\ Len(masks') = Len(service) /\ index' <= Len(service) + 1
                             /\ \A k \in 1..(index' - 1) : masks'[k] = service[k]
      BY <1>a, <2>a, <2>c, <3>1
    <3> QED
      BY <1>a, <1>b, <2>c, <2>d, <3>2 DEF CompareLoop
  <2>5. FaultsExact' /\ ServesRegistered'
    BY <1>a, <2>d DEF FaultsExact, ServesRegistered
  <2>6. RefusalsExact'
    <3>1. pc' = "STATUS_INVALID_PARAMETER_2" => masks'[index] # service[index]
      BY <1>a, <2>1, <2>c DEF Agree
    <3> QED
      BY <1>a, <2>d, <3>1 DEF RefusalsExact
  <2> QED
    BY <2>d, <2>2, <2>3, <2>4, <2>5, <2>6, WorkerPart
<1> QED
  BY <1>1, <1>2, <1>3, <1>4 DEF Compare

(* WaitThread hands its capture to the worker.                             *)
LEMMA ArrivedCapturedInv == PathInv /\ ArrivedCaptured => PathInv'
<1> SUFFICES ASSUME PathInv, ArrivedCaptured PROVE PathInv'
  OBVIOUS
<1> USE DEF PathInv, Capturing, Works, Calls, Statuses, Undefined, memory, capture, connection
<1>a. /\ pc = "mask" /\ caller = "WaitThread" /\ pc' = (IF arch = "x86" THEN "narrow" ELSE "map")
      /\ width' = [k \in 1..Len(captured) |-> 8] /\ Len(captured) >= Len(masks)
      /\ UNCHANGED <<arch, caller, index, memory, capture, service, connection, value, stack, registers>>
      /\ index = 1 /\ Len(captured) \in Nat /\ Len(masks) \in Nat /\ Len(service) \in Nat
      /\ rewritten \subseteq Callers /\ arch \in {"x64", "x86"}
  BY ListFacts DEF ArrivedCaptured, Captures, Turns, TypeOK
<1>b. caller \notin rewritten
  BY <1>a DEF Callers
<1>c. /\ masks = service /\ Len(captured) <= Len(masks)
      /\ \A k \in DOMAIN captured : k <= MaxMessage => captured[k] = service[k]
  BY <1>a, <1>b DEF CompareLoop, CaptureLoop
<1>d. Len(captured) = Len(service) /\ DOMAIN captured = DOMAIN service
  <2>1. Len(captured) = Len(masks)
    BY <1>a, <1>c
  <2>2. Len(captured) = Len(service)
    BY <1>c, <2>1
  <2> QED
    BY <2>2, ListFacts
<1>1. TypeOK'
  BY <1>a DEF TypeOK
<1>2. Turns'
  BY <1>a DEF Turns
<1>3. CaptureLoop' /\ RegisterLoop' /\ CallLoop'
  BY <1>a DEF CaptureLoop, RegisterLoop, CallLoop
<1>4. CompareLoop'
  BY <1>a, <1>c DEF CompareLoop
<1>5. NarrowLoop'
  BY <1>a DEF NarrowLoop
<1>6. MappedExact' /\ PushLoop' /\ StackExact'
  BY <1>a DEF MappedExact, PushLoop, StackExact
<1>7. FaultsExact' /\ RefusalsExact'
  BY <1>a DEF FaultsExact, RefusalsExact
<1>8. ServesRegistered'
  BY <1>a, <1>c, <1>d DEF ServesRegistered
<1> QED
  BY <1>1, <1>2, <1>3, <1>4, <1>5, <1>6, <1>7, <1>8

-----------------------------------------------------------------------------
(* Each value that x86 narrows.                                            *)
LEMMA NarrowStepInv == PathInv /\ NarrowStep => PathInv'
<1> SUFFICES ASSUME PathInv, NarrowStep PROVE PathInv'
  OBVIOUS
<1> USE DEF PathInv, Capturing, Works, Calls, Statuses, Undefined, memory, capture, connection
<1>a. /\ pc \in Works /\ pc' \in Works /\ Len(captured) \in Nat /\ index \in Nat
      /\ UNCHANGED <<arch, caller, memory, capture, service, connection>>
  BY ListFacts DEF NarrowStep, TypeOK
<1>1. CaptureLoop' /\ RegisterLoop' /\ CallLoop' /\ CompareLoop'
      /\ FaultsExact' /\ RefusalsExact' /\ ServesRegistered'
  BY <1>a, CallerPart
<1>2. index' \in Nat
  BY <1>a DEF NarrowStep
<1>3. TypeOK'
  BY <1>a, <1>2 DEF TypeOK
<1>4. Turns'
  BY <1>a DEF NarrowStep, Turns
<1>5. NarrowLoop'
  <2>1. pc = "narrow" /\ arch = "x86" /\ index \in 1..(Len(captured) + 1)
        /\ width = [k \in 1..Len(captured) |-> IF k < index THEN Narrow(captured[k]) ELSE 8]
    BY DEF NarrowStep, NarrowLoop
  <2>2. CASE index > Len(captured)
    <3>1. pc' = "map" /\ width' = width
      BY <2>2 DEF NarrowStep
    <3>2. \A k \in 1..Len(captured) : k < index
      BY <1>a, <2>2
    <3>3. width = [k \in 1..Len(captured) |-> Narrow(captured[k])]
      BY <2>1, <3>2
    <3> QED
      BY <1>a, <2>1, <3>1, <3>3 DEF NarrowLoop, Narrow
  <2>3. CASE ~ (index > Len(captured))
    <3>1. /\ width' = [width EXCEPT ![index] = Smaller(@, Narrow(captured[index]))]
          /\ index' = index + 1 /\ pc' = "narrow"
      BY <2>1, <2>3 DEF NarrowStep
    <3>2. width[index] = 8 /\ index \in 1..Len(captured)
      BY <1>a, <2>1, <2>3
    <3>3. Smaller(8, Narrow(captured[index])) = Narrow(captured[index])
      BY DEF Smaller, Narrow
    <3>4. width' = [k \in 1..Len(captured) |-> IF k = index THEN Narrow(captured[k]) ELSE width[k]]
      BY <2>1, <3>1, <3>2, <3>3
    <3>5. \A k \in 1..Len(captured) : (IF k = index THEN Narrow(captured[k]) ELSE width[k])
                                       = (IF k < index + 1 THEN Narrow(captured[k]) ELSE 8)
      BY <1>a, <2>1, <3>2
    <3>6. width' = [k \in 1..Len(captured) |-> IF k < index' THEN Narrow(captured[k]) ELSE 8]
      BY <3>1, <3>4, <3>5
    <3>7. index' \in 1..(Len(captured) + 1)
      BY <1>a, <3>1, <3>2
    <3> QED
      BY <1>a, <2>1, <3>1, <3>6, <3>7 DEF NarrowLoop, Narrow
  <2> QED
    BY <2>2, <2>3
<1>6. MappedExact' /\ PushLoop' /\ StackExact'
  BY DEF NarrowStep, MappedExact, PushLoop, StackExact
<1> QED
  BY <1>1, <1>3, <1>4, <1>5, <1>6

(* The list is mapped.                                                     *)
LEMMA MapInv == PathInv /\ Map => PathInv'
<1> SUFFICES ASSUME PathInv, Map PROVE PathInv'
  OBVIOUS
<1> USE DEF PathInv, Capturing, Works, Calls, Statuses, Undefined, memory, capture, connection
<1>a. /\ pc \in Works /\ pc' \in Works /\ Len(captured) \in Nat /\ index \in Nat
      /\ UNCHANGED <<arch, caller, memory, capture, service, connection>>
  BY ListFacts DEF Map, TypeOK
<1>1. CaptureLoop' /\ RegisterLoop' /\ CallLoop' /\ CompareLoop'
      /\ FaultsExact' /\ RefusalsExact' /\ ServesRegistered'
  BY <1>a, CallerPart
<1>2. index' \in Nat
  BY <1>a DEF Map
<1>3. TypeOK'
  BY <1>a, <1>2 DEF TypeOK
<1>4. Turns'
  BY <1>a DEF Map, Turns
<1>5. NarrowLoop' /\ PushLoop' /\ StackExact'
  BY DEF Map, NarrowLoop, PushLoop, StackExact
<1>6. MappedExact'
  <2> SUFFICES ASSUME pc' = "thunk", NEW k \in 1..Len(captured)
               PROVE  /\ value'[k].of = k
                      /\ value'[k].kind \in
                           IF "PT" \notin captured[k] THEN IF k <= Arrived THEN {"value"} ELSE {"garbage"}
                           ELSE IF "NL" \in captured[k] THEN {"buffer", "null"} ELSE {"buffer"}
                      /\ value'[k].bytes = IF arch = "x86" /\ "PT" \notin captured[k]
                                           THEN Narrow(captured[k]) ELSE 8
    BY DEF Map, MappedExact, Arrived
  <2>1. PICK zeros \in NullsCaptured : value' = [j \in 1..Len(captured) |-> Mapped(j, zeros)]
    BY DEF Map
  <2>2. width[k] = IF arch = "x86" THEN Narrow(captured[k]) ELSE 8
    BY DEF Map, NarrowLoop
  <2>3. value'[k] = Mapped(k, zeros)
    BY <2>1
  <2> QED
    BY <2>2, <2>3 DEF Mapped, Word
<1> QED
  BY <1>1, <1>3, <1>4, <1>5, <1>6

(* The thunk reserves its stack.                                           *)
LEMMA EnterThunkInv == PathInv /\ EnterThunk => PathInv'
<1> SUFFICES ASSUME PathInv, EnterThunk PROVE PathInv'
  OBVIOUS
<1> USE DEF PathInv, Capturing, Works, Calls, Statuses, Undefined, memory, capture, connection
<1>a. /\ pc \in Works /\ pc' \in Works /\ Len(captured) \in Nat /\ index \in Nat
      /\ UNCHANGED <<arch, caller, memory, capture, service, connection>>
  BY ListFacts DEF EnterThunk, TypeOK
<1>1. CaptureLoop' /\ RegisterLoop' /\ CallLoop' /\ CompareLoop'
      /\ FaultsExact' /\ RefusalsExact' /\ ServesRegistered'
  BY <1>a, CallerPart
<1>2. index' \in Nat
  BY <1>a DEF EnterThunk
<1>3. TypeOK'
  BY <1>a, <1>2 DEF TypeOK
<1>4. Turns'
  BY <1>a DEF EnterThunk, Turns
<1>5. NarrowLoop' /\ StackExact'
  BY DEF EnterThunk, NarrowLoop, StackExact
<1>6. MappedExact'
  BY DEF EnterThunk, MappedExact, Arrived
<1>7. PushLoop'
  <2>1. StackWords \in Nat /\ StackWords >= Len(captured)
    BY <1>a, StackWordsEnough
  <2>2. /\ pc' = "push" /\ index' = Len(captured) /\ StackWords' = StackWords /\ captured' = captured
        /\ stack' = <<Return, Saved>> \o [k \in 1..(StackWords - Len(captured)) |-> Reserved]
    BY DEF EnterThunk, StackWords
  <2>3. /\ Len(stack') = StackWords - Len(captured) + 2 /\ DOMAIN stack' = 1..Len(stack')
        /\ stack'[1] = Return /\ stack'[2] = Saved
    BY <1>a, <2>1, <2>2
  <2>4. index' \in 0..Len(captured) /\ Len(stack') = StackWords + 2 - index'
    BY <1>a, <2>1, <2>2, <2>3
  <2>5. \A k \in (index' + 1)..Len(captured) : FALSE
    BY <1>a, <2>2
  <2> QED
    BY <2>2, <2>3, <2>4, <2>5 DEF PushLoop
<1> QED
  BY <1>1, <1>3, <1>4, <1>5, <1>6, <1>7

(* Each argument goes where the routine looks for it.                      *)
LEMMA PushInv == PathInv /\ Push => PathInv'
<1> SUFFICES ASSUME PathInv, Push PROVE PathInv'
  OBVIOUS
<1> USE DEF PathInv, Capturing, Works, Calls, Statuses, Undefined, memory, capture, connection
<1>a. /\ pc \in Works /\ pc' \in Works /\ Len(captured) \in Nat /\ index \in Nat
      /\ UNCHANGED <<arch, caller, memory, capture, service, connection>>
  BY ListFacts DEF Push, TypeOK
<1>1. CaptureLoop' /\ RegisterLoop' /\ CallLoop' /\ CompareLoop'
      /\ FaultsExact' /\ RefusalsExact' /\ ServesRegistered'
  BY <1>a, CallerPart
<1>2. index' \in Nat
  BY <1>a DEF Push
<1>3. TypeOK'
  BY <1>a, <1>2 DEF TypeOK
<1>4. Turns'
  BY <1>a DEF Push, Turns
<1>5. NarrowLoop' /\ StackExact'
  BY DEF Push, NarrowLoop, StackExact
<1>6. MappedExact'
  BY DEF Push, MappedExact, Arrived
<1>7. PushLoop'
  <2>1. StackWords \in Nat /\ StackWords >= Len(captured)
    BY <1>a, StackWordsEnough
  <2>2. /\ pc = "push" /\ index \in 1..Len(captured) /\ Len(stack) = StackWords + 2 - index
        /\ DOMAIN stack = 1..Len(stack) /\ stack[1] = Return /\ stack[2] = Saved
        /\ stack' = Append(stack, Pushed(index)) /\ index' = index - 1
    BY <1>a DEF Push, PushLoop
  <2>3. /\ Len(stack') = Len(stack) + 1 /\ DOMAIN stack' = 1..Len(stack')
        /\ stack'[Len(stack')] = Pushed(index) /\ \A j \in 1..Len(stack) : stack'[j] = stack[j]
    BY <2>2, StackIsSequence
  <2>4. \A k \in index..Len(captured) : stack'[StackWords + 3 - k] = Pushed(k)
    <3> TAKE k \in index..Len(captured)
    <3>1. CASE k = index
      BY <1>a, <2>1, <2>2, <2>3, <3>1
    <3>2. CASE k # index
      <4>1. stack[StackWords + 3 - k] = Pushed(k) /\ StackWords + 3 - k \in 1..Len(stack)
        BY <1>a, <2>1, <2>2, <3>2 DEF PushLoop
      <4> QED
        BY <2>3, <4>1
    <3> QED
      BY <3>1, <3>2
  <2>5. /\ pc' = "push" /\ captured' = captured /\ StackWords' = StackWords
        /\ \A k : Pushed(k)' = Pushed(k)
    BY <2>2 DEF Push, StackWords, Pushed, WordSize
  <2>6. index' \in 0..Len(captured) /\ Len(stack') = StackWords + 2 - index' /\ index' + 1 = index
        /\ stack'[1] = Return /\ stack'[2] = Saved
    BY <1>a, <2>1, <2>2, <2>3
  <2>7. \A k \in (index' + 1)..Len(captured) : stack'[StackWords' + 3 - k] = Pushed(k)'
    BY <2>4, <2>5, <2>6
  <2> QED
    BY <2>3, <2>5, <2>6, <2>7 DEF PushLoop
<1> QED
  BY <1>1, <1>3, <1>4, <1>5, <1>6, <1>7

(* The routine is entered.                                                 *)
LEMMA CallRoutineInv == PathInv /\ CallRoutine => PathInv'
<1> SUFFICES ASSUME PathInv, CallRoutine PROVE PathInv'
  OBVIOUS
<1> USE DEF PathInv, Capturing, Works, Calls, Statuses, Undefined, memory, capture, connection
<1>a. /\ pc \in Works /\ pc' \in Works /\ Len(captured) \in Nat /\ index \in Nat
      /\ UNCHANGED <<arch, caller, memory, capture, service, connection>>
  BY ListFacts DEF CallRoutine, TypeOK
<1>1. CaptureLoop' /\ RegisterLoop' /\ CallLoop' /\ CompareLoop'
      /\ FaultsExact' /\ RefusalsExact' /\ ServesRegistered'
  BY <1>a, CallerPart
<1>2. index' \in Nat
  BY <1>a DEF CallRoutine
<1>3. TypeOK'
  BY <1>a, <1>2 DEF TypeOK
<1>4. Turns'
  BY <1>a DEF CallRoutine, Turns
<1>5. NarrowLoop'
  BY DEF CallRoutine, NarrowLoop
<1>6. MappedExact'
  BY DEF CallRoutine, MappedExact, Arrived
<1>b. /\ StackWords \in Nat /\ StackWords >= Len(captured)
      /\ arch # "x86" => StackWords >= 4 /\ (StackWords + 3) % 2 = 1
  BY <1>a, StackWordsEnough
<1>c. pc = "push" /\ index = 0 /\ stack' = Append(stack, Return) /\ pc' = "routine" /\ index' = 0
  BY DEF CallRoutine
<1>d. /\ Len(stack) = StackWords + 2 /\ DOMAIN stack = 1..Len(stack) /\ stack[1] = Return /\ stack[2] = Saved
      /\ \A k \in 1..Len(captured) : stack[StackWords + 3 - k] = Pushed(k)
  <2>1. /\ Len(stack) = StackWords + 2 - index /\ DOMAIN stack = 1..Len(stack)
        /\ stack[1] = Return /\ stack[2] = Saved
        /\ \A k \in (index + 1)..Len(captured) : stack[StackWords + 3 - k] = Pushed(k)
    BY <1>c DEF PushLoop
  <2> QED
    BY <1>a, <1>b, <1>c, <2>1
<1>e. /\ Len(stack') = StackWords + 3 /\ DOMAIN stack' = 1..Len(stack')
      /\ \A j \in 1..Len(stack) : stack'[j] = stack[j]
  BY <1>b, <1>c, <1>d, StackIsSequence
<1>7. PushLoop'
  <2>1. captured' = captured /\ arch' = arch /\ StackWords' = StackWords /\ \A k : Pushed(k)' = Pushed(k)
    BY DEF CallRoutine, StackWords, Pushed, WordSize
  <2>2. arch = "x64" => \A k \in 1..4 : registers'[k] = stack[StackWords + 3 - k]
    BY <1>b, <1>c, <1>d DEF CallRoutine
  <2>3. \A k \in 1..Len(captured) : StackWords + 3 - k \in 1..Len(stack)
    BY <1>a, <1>b, <1>d
  <2>4. \A k \in 1..Len(captured) : stack'[StackWords' + 3 - k] = Pushed(k)'
    BY <1>d, <1>e, <2>1, <2>3
  <2>5. arch' = "x64" => \A k \in 1..4 : registers'[k] = stack'[StackWords' + 3 - k]
    <3>1. arch = "x64" => \A k \in 1..4 : StackWords + 3 - k \in 1..Len(stack)
      BY <1>b, <1>d
    <3> QED
      BY <1>e, <2>1, <2>2, <3>1
  <2>6. stack'[1] = Return /\ stack'[2] = Saved
    BY <1>b, <1>d, <1>e
  <2>7. \A k \in (index' + 1)..Len(captured') : stack'[StackWords' + 3 - k] = Pushed(k)'
    <3>1. index' + 1 = 1 /\ captured' = captured
      BY <1>c, <2>1
    <3> QED
      BY <2>4, <3>1
  <2>8. DOMAIN stack' = 1..Len(stack') /\ Len(stack') = StackWords' + 3
    BY <1>e, <2>1
  <2> QED
    BY <1>c, <2>5, <2>6, <2>7, <2>8 DEF PushLoop
<1>8. StackExact'
  BY <1>a, <1>b, <1>c, <1>e DEF StackExact
<1> QED
  BY <1>1, <1>3, <1>4, <1>5, <1>6, <1>7, <1>8

(* The routine returns.                                                    *)
LEMMA RoutineReturnsInv == PathInv /\ RoutineReturns => PathInv'
<1> SUFFICES ASSUME PathInv, RoutineReturns PROVE PathInv'
  OBVIOUS
<1> USE DEF PathInv, Capturing, Works, Calls, Statuses, Undefined, memory, capture, connection
<1>a. /\ pc \in Works /\ pc' \in Works /\ Len(captured) \in Nat /\ index \in Nat
      /\ UNCHANGED <<arch, caller, memory, capture, service, connection>>
  BY ListFacts DEF RoutineReturns, TypeOK
<1>1. CaptureLoop' /\ RegisterLoop' /\ CallLoop' /\ CompareLoop'
      /\ FaultsExact' /\ RefusalsExact' /\ ServesRegistered'
  BY <1>a, CallerPart
<1>2. index' \in Nat
  BY <1>a DEF RoutineReturns
<1>3. TypeOK'
  BY <1>a, <1>2 DEF TypeOK
<1>4. Turns'
  BY <1>a DEF RoutineReturns, Turns
<1>5. NarrowLoop' /\ StackExact'
  BY DEF RoutineReturns, NarrowLoop, StackExact
<1>6. MappedExact'
  BY DEF RoutineReturns, MappedExact, Arrived
<1>7. PushLoop'
  <2>1. /\ StackWords \in Nat /\ StackWords >= Len(captured)
        /\ arch = "x86" => StackWords = Len(captured)
    BY <1>a, StackWordsEnough
  <2>2. /\ pc = "routine" /\ pc' = "returned" /\ Len(stack) = StackWords + 3
        /\ DOMAIN stack = 1..Len(stack) /\ stack[1] = Return /\ stack[2] = Saved
    BY DEF RoutineReturns, PushLoop
  <2>3. arch' = arch /\ captured' = captured /\ StackWords' = StackWords
    BY DEF RoutineReturns, StackWords
  <2>4. CASE arch = "x86"
    <3>1. stack' = SubSeq(stack, 1, 2)
      BY <1>a, <2>1, <2>2, <2>4 DEF RoutineReturns
    <3>2. Len(stack') = 2 /\ DOMAIN stack' = 1..2 /\ stack'[1] = stack[1] /\ stack'[2] = stack[2]
      BY <2>1, <2>2, <3>1, StackIsSequence
    <3> QED
      BY <2>2, <2>3, <2>4, <3>2 DEF PushLoop
  <2>5. CASE arch # "x86"
    <3>1. stack' = [k \in 1..(StackWords + 2) |-> IF k <= 2 THEN stack[k] ELSE Reserved]
      BY <2>1, <2>2, <2>5 DEF RoutineReturns
    <3>2. Len(stack') = StackWords + 2 /\ DOMAIN stack' = 1..(StackWords + 2)
          /\ stack'[1] = stack[1] /\ stack'[2] = stack[2]
      BY <2>1, <3>1
    <3> QED
      BY <2>2, <2>3, <2>5, <3>2 DEF PushLoop
  <2> QED
    BY <2>4, <2>5
<1> QED
  BY <1>1, <1>3, <1>4, <1>5, <1>6, <1>7

(* The thunk returns with its stack as it was.                             *)
LEMMA LeaveThunkInv == PathInv /\ LeaveThunk => PathInv'
<1> SUFFICES ASSUME PathInv, LeaveThunk PROVE PathInv'
  OBVIOUS
<1> USE DEF PathInv, Capturing, Works, Calls, Statuses, Undefined, memory, capture, connection
<1>a. /\ pc \in Works /\ pc' \in Works /\ Len(captured) \in Nat /\ index \in Nat
      /\ UNCHANGED <<arch, caller, memory, capture, service, connection>>
  BY ListFacts DEF LeaveThunk, TypeOK
<1>1. CaptureLoop' /\ RegisterLoop' /\ CallLoop' /\ CompareLoop'
      /\ FaultsExact' /\ RefusalsExact' /\ ServesRegistered'
  BY <1>a, CallerPart
<1>2. index' \in Nat
  BY <1>a DEF LeaveThunk
<1>3. TypeOK'
  BY <1>a, <1>2 DEF TypeOK
<1>4. Turns'
  BY <1>a DEF LeaveThunk, Turns
<1>5. NarrowLoop' /\ PushLoop'
  BY DEF LeaveThunk, NarrowLoop, PushLoop
<1>6. MappedExact'
  BY DEF LeaveThunk, MappedExact, Arrived
<1>7. StackExact'
  <2>1. StackWords \in Nat
    BY <1>a, StackWordsEnough
  <2>2. /\ pc = "returned" /\ pc' = "done" /\ DOMAIN stack = 1..Len(stack)
        /\ stack[1] = Return /\ stack[2] = Saved
        /\ Len(stack) = IF arch = "x86" THEN 2 ELSE StackWords + 2
    BY DEF LeaveThunk, PushLoop
  <2>3. registers' = <<stack[2]>> /\ stack' = SubSeq(stack, 1, 1)
    BY <2>1, <2>2 DEF LeaveThunk
  <2>4. SubSeq(stack, 1, 1) = [k \in 1..1 |-> stack[k]]
    BY <2>1, <2>2
  <2>5. [k \in 1..1 |-> stack[k]] = <<stack[1]>>
    OBVIOUS
  <2> QED
    BY <2>2, <2>3, <2>4, <2>5 DEF StackExact
<1> QED
  BY <1>1, <1>3, <1>4, <1>5, <1>6, <1>7

-----------------------------------------------------------------------------
(* The invariant holds at first, and when nothing changes.                 *)
LEMMA InitInv == Init => PathInv
<1> SUFFICES ASSUME Init PROVE PathInv
  OBVIOUS
<1> USE DEF Init, Capturing, Works, Calls, Statuses, Undefined, Callers
<1>1. TypeOK /\ Turns
  <2>1. <<>> \in Seq(SUBSET Bits)
    OBVIOUS
  <2>2. TypeOK
    BY <2>1 DEF TypeOK
  <2>3. Turns
    BY DEF Turns
  <2> QED
    BY <2>2, <2>3
<1>2. CaptureLoop
  <2>1. LengthModulus > 0 /\ Len(service) = 0
    BY PathAssumption
  <2> QED
    BY <2>1 DEF CaptureLoop
<1>3. RegisterLoop /\ CallLoop /\ CompareLoop /\ NarrowLoop /\ MappedExact /\ PushLoop
  BY DEF RegisterLoop, CallLoop, CompareLoop, NarrowLoop, MappedExact, PushLoop
<1>4. FaultsExact /\ RefusalsExact /\ ServesRegistered /\ StackExact
  BY DEF FaultsExact, RefusalsExact, ServesRegistered, StackExact
<1> QED
  BY <1>1, <1>2, <1>3, <1>4 DEF PathInv

LEMMA StutterInv == PathInv /\ UNCHANGED vars => PathInv'
<1> SUFFICES ASSUME PathInv, UNCHANGED vars PROVE PathInv'
  OBVIOUS
<1> USE DEF vars, memory, capture, connection, worker, PathInv
<1>1. TypeOK' /\ Turns'
  BY DEF TypeOK, Turns
<1>2. Arrived' = Arrived /\ StackWords' = StackWords
  BY DEF Arrived, StackWords
<1>3. \A n : InSize(n)' = InSize(n)
  BY DEF InSize
<1>4. CaptureLoop' /\ RegisterLoop' /\ FaultsExact'
  BY <1>3 DEF CaptureLoop, RegisterLoop, FaultsExact
<1>5. CallLoop' /\ NarrowLoop' /\ StackExact' /\ ServesRegistered'
  BY DEF CallLoop, NarrowLoop, StackExact, ServesRegistered
<1>6. MappedExact' /\ RefusalsExact'
  BY <1>2 DEF MappedExact, RefusalsExact
<1>7. PushLoop'
  BY <1>2 DEF PushLoop, Pushed, WordSize
<1>8. CompareLoop'
  BY DEF CompareLoop
<1> QED
  BY <1>1, <1>4, <1>5, <1>6, <1>7, <1>8

(* Every step keeps the invariant, whatever lists service and client use,  *)
(* however many parameters arrive or fit into lm, wherever lengths wrap,   *)
(* whatever lies behind lm, and however often the lists are rewritten.     *)
THEOREM PathInvariance == Spec => []PathInv
<1>1. PathInv /\ Next => PathInv'
  BY RewriteInv, AllocateInv, CaptureMaskInv, CopyParameterInv, ProbeRegisterInv, RegisterInv,
     ProbeCallInv, CheckMaskInv, CheckNullInv, ClientCapturedInv, ConnectInv, OpenClientInv,
     CompareInv, ArrivedCapturedInv, NarrowStepInv, MapInv, EnterThunkInv, PushInv,
     CallRoutineInv, RoutineReturnsInv, LeaveThunkInv, StutterInv DEF Next, Finished
<1> QED
  BY <1>1, InitInv, StutterInv, PTL DEF Spec

(* A list is read where it was not probed, and a block is overrun, only in *)
(* the cases that FaultsExact names.                                       *)
THEOREM FaultsStayExact == Spec => []FaultsExact
  BY PathInvariance, PTL DEF PathInv

(* Nobody is refused, but in the cases that RefusalsExact names.           *)
THEOREM RefusalsStayExact == Spec => []RefusalsExact
  BY PathInvariance, PTL DEF PathInv

(* The thunks align their stack and leave it as it was.                    *)
THEOREM StackStaysExact == Spec => []StackExact
  BY PathInvariance, PTL DEF PathInv

(* Up to the end of lm, a worker's list has the registered masks.          *)
THEOREM OnlyRegisteredServed == Spec => []ServesRegistered
  BY PathInvariance, PTL DEF PathInv

(* On the entry of the routine its arguments are the mapped words.         *)
LEMMA ArgumentIsPushed ==
  ASSUME PathInv, pc = "routine", NEW k \in DOMAIN service
  PROVE  Argument(k) = Pushed(k) /\ k \in 1..Len(captured) /\ k \in Nat
<1> USE DEF PathInv, Works, Calls
<1>1. Len(captured) = Len(service) /\ Len(captured) \in Nat /\ k \in 1..Len(captured)
  BY ListFacts DEF ServesRegistered
<1>2. /\ index = 0 /\ Len(stack) = StackWords + 3
      /\ \A j \in (index + 1)..Len(captured) : stack[StackWords + 3 - j] = Pushed(j)
      /\ arch = "x64" => \A j \in 1..4 : registers[j] = stack[StackWords + 3 - j]
  BY DEF PushLoop
<1>3. stack[StackWords + 3 - k] = Pushed(k)
  BY <1>1, <1>2
<1>4. StackWords \in Nat
  BY <1>1, StackWordsEnough
<1>5. Len(stack) - k = StackWords + 3 - k
  BY <1>1, <1>2, <1>4
<1>6. Argument(k) = stack[StackWords + 3 - k]
  BY <1>1, <1>2, <1>5 DEF Argument
<1> QED
  BY <1>1, <1>3, <1>6

(* What has arrived is what the client passed, and all of it arrives if the*)
(* connection information holds it and nobody rewrites it.                 *)
THEOREM ArgumentsStayExact == Spec => []ArgumentsExact
<1>1. PathInv => ArgumentsExact
  <2> SUFFICES ASSUME PathInv, pc = "routine" PROVE ArgumentsExact
    BY DEF ArgumentsExact
  <2> USE DEF Works, Calls
  <2>1. Len(service) \in Nat /\ sent \in Nat /\ MaxInfo \in Nat /\ MaxInfo <= MaxMessage /\ MaxMessage \in Nat
    BY ListFacts, PathAssumption DEF PathInv, TypeOK
  <2>2. Arrived \in Nat /\ Arrived <= MaxMessage
    BY <2>1 DEF Arrived, Smaller
  <2>3. ASSUME NEW k \in DOMAIN service
        PROVE  Argument(k).of = k /\ Argument(k).kind = value[k].kind /\ k \in 1..Len(captured) /\ k \in Nat
               /\ value[k].kind \in
                    IF "PT" \notin captured[k] THEN IF k <= Arrived THEN {"value"} ELSE {"garbage"}
                    ELSE IF "NL" \in captured[k] THEN {"buffer", "null"} ELSE {"buffer"}
    <3>1. Argument(k) = Pushed(k) /\ k \in 1..Len(captured) /\ k \in Nat
      BY ArgumentIsPushed
    <3> QED
      BY <3>1 DEF Pushed, Word, PathInv, MappedExact
  <2>4. ASSUME NEW k \in DOMAIN service, k <= Arrived
        PROVE  Argument(k).kind \in IF "PT" \notin service[k] THEN {"value"}
                                   ELSE IF "NL" \in service[k] THEN {"buffer", "null"} ELSE {"buffer"}
    <3>1. k <= MaxMessage
      BY <2>1, <2>2, <2>3, <2>4
    <3>2. captured[k] = service[k]
      BY <3>1 DEF PathInv, ServesRegistered
    <3> QED
      BY <2>3, <2>4, <3>2
  <2>5. ASSUME Len(service) <= MaxInfo, "ScServiceCallW" \notin rewritten
        PROVE  Arrived = Len(service)
    <3>1. sent = Len(service) % LengthModulus
      BY <2>5 DEF PathInv, CompareLoop, Turns
    <3>2. Len(service) < LengthModulus
      BY <2>1, <2>5, PathAssumption
    <3>3. sent = Len(service)
      BY <2>1, <3>1, <3>2, ModFacts
    <3> QED
      BY <2>1, <2>5, <3>3 DEF Arrived, Smaller
  <2> QED
    BY <2>3, <2>4, <2>5 DEF ArgumentsExact
<1> QED
  BY <1>1, PathInvariance, PTL

(* Arguments have the size that ServiceCall.h promises, of a valid type    *)
(* that does not ask for two sizes.                                        *)
THEOREM SizesStayExact == Spec => []SizesExact
<1>1. PathInv => SizesExact
  <2> SUFFICES ASSUME PathInv, pc = "routine", NEW k \in DOMAIN service, ~ (k > MaxMessage),
                      ~ Invalid(service[k]), ~ (arch = "x86" /\ QwordWithSmaller(service[k]))
               PROVE  Argument(k).bytes = IF arch = "x86" /\ "VL" \in service[k]
                                          THEN SizeOf(service[k]) ELSE WordSize
    BY DEF SizesExact
  <2>1. k \in 1..Len(captured) /\ k \in Nat /\ Argument(k).bytes = Smaller(value[k].bytes, WordSize)
    BY ArgumentIsPushed DEF Pushed, Word
  <2>2. captured[k] = service[k]
    <3>1. k <= MaxMessage
      BY <2>1, PathAssumption
    <3> QED
      BY <3>1 DEF PathInv, ServesRegistered, Works, Calls
  <2>3. value[k].bytes = IF arch = "x86" /\ "PT" \notin service[k] THEN Narrow(service[k]) ELSE 8
    BY <2>1, <2>2 DEF PathInv, MappedExact, Calls
  <2>4. "VL" \in service[k] <=> "PT" \notin service[k]
    BY DEF Invalid
  <2>5. "VL" \in service[k] => service[k] \cap {"QW", "DW", "WO", "BY"} # {}
    BY DEF Invalid
  <2> QED
    BY <2>1, <2>3, <2>4, <2>5 DEF Smaller, WordSize, SizeOf, Narrow, QwordWithSmaller
<1> QED
  BY <1>1, PathInvariance, PTL
=============================================================================
