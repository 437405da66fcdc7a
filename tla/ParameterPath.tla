---------------------------- MODULE ParameterPath ----------------------------
(***************************************************************************)
(* The way of one parameter list from the client into the arguments of the *)
(* routine: registered and probed, checked by ScServiceCallW, sent as      *)
(* connection information, compared and captured by WaitThread, narrowed   *)
(* and mapped by WorkerThread, and pushed by __x64ServiceCall or           *)
(* __x86ServiceCall.  Loops go step by step, and the other threads of who  *)
(* passed the list may rewrite it at each step that reads it.  A mask is   *)
(* the set of its bits, memory is counted in dwords and the stack in words *)
(* of the machine.                                                         *)
(***************************************************************************)
EXTENDS Integers, Sequences

CONSTANTS
  Lists,         (* the parameter lists of services and clients, as masks  *)
  Readable,      (* the dwords at its address that may be readable         *)
  Stale,         (* the masks that memory behind a list may happen to hold *)
  MaxInfo,       (* the parameters that the connection information holds   *)
  MaxMessage,    (* the parameters that the block lm has room for          *)
  LengthModulus, (* the parameters at which 32-bit lengths wrap: 2^28      *)
  MaxRewrites    (* bounds how often lists are rewritten under a call      *)

Bits == {"VL", "PT", "NL", "U", "QW", "DW", "WO", "BY"}

ASSUME PathAssumption ==
  /\ Lists \subseteq Seq(SUBSET Bits) /\ Readable \subseteq Nat /\ Stale \subseteq SUBSET Bits /\ Stale # {}
  /\ MaxInfo \in Nat /\ MaxMessage \in Nat /\ LengthModulus \in Nat /\ MaxRewrites \in Nat
  /\ MaxInfo <= MaxMessage /\ MaxInfo < LengthModulus

VARIABLES
  arch,        (* the build of client and service: "x64" or "x86"          *)
  pc,          (* which loop or call runs, or what ends it                 *)
  caller,      (* the function that reads the list at hand                 *)
  rewritten,   (* those of them under which other threads changed it       *)
  rewrites,    (* and how often                                            *)
  index,       (* the counter of a loop                                    *)
  masks,       (* the list at hand: the caller's memory, then lm           *)
  nulls,       (* its pointers that are 0                                  *)
  accessible,  (* its dwords that can be read                              *)
  capacity,    (* the parameters that the block of a capture has room for  *)
  captured,    (* those it holds; its length is dwParameters of the block  *)
  service,     (* the registered list                                      *)
  sent,        (* the parameters that length counts                        *)
  opened,      (* whether OpenProcess of the client succeeded              *)
  width,       (* the low bytes of each captured ulParameter that are left *)
  value,       (* the words of the mapped list                             *)
  stack,       (* the stack of the thunk, the top last                     *)
  registers    (* rcx, rdx, r8 and r9 on the call; rbx at the end          *)

memory == <<masks, nulls, accessible, rewritten, rewrites>>
capture == <<capacity, captured>>
connection == <<sent, opened>>
worker == <<width, value, stack, registers>>
vars == <<arch, pc, caller, index, memory, capture, service, connection, worker>>

Smaller(a, b) == IF a < b THEN a ELSE b
Larger(a, b) == IF a < b THEN b ELSE a

-----------------------------------------------------------------------------
(* Memory.  The header of a list is two dwords, and a parameter four: its  *)
(* mask, its size, and two of ulParameter.                                 *)

Dwords(k) == 4 * k + 2
MaskDword(k) == 4 * k - 1

(* A number of parameters whose bytes are counted in a size_t.             *)
InSize(n) == IF arch = "x86" THEN n % LengthModulus ELSE n

(* The masks that a read of parameter k may find.  Behind the list of the  *)
(* caller lies what its memory holds, and what is behind lm in the heap    *)
(* changes with the other threads of the service.                          *)
MaskAt(k) ==
  IF k <= (IF caller = "WaitThread" THEN Smaller(MaxMessage, Len(masks)) ELSE Len(masks))
  THEN {masks[k]} ELSE Stale

Pointers(list) == {k \in DOMAIN list : "PT" \in list[k]}

(* Another thread of the client, or of the service that registers, fills   *)
(* the list in again after its probe: the count, masks and pointers.       *)
Rewrite ==
  /\ caller # "WaitThread" /\ pc \in {"check", "null", "allocate", "mask", "copy", "connect"}
  /\ masks' \in Lists /\ nulls' \in SUBSET Pointers(masks')
  /\ rewritten' = rewritten \cup {caller} /\ rewrites < MaxRewrites /\ rewrites' = rewrites + 1
  /\ UNCHANGED <<arch, pc, caller, index, accessible, capture, service, connection, worker>>

-----------------------------------------------------------------------------
(* RtlCaptureParameters, which reads the count for its allocation, again   *)
(* before each parameter, and each mask again when it copies the parameter.*)

Invalid(mask) ==
  \/ "U" \in mask
  \/ "VL" \in mask /\ ("PT" \in mask \/ "NL" \in mask \/ mask \cap {"QW", "DW", "WO", "BY"} = {})
  \/ "VL" \notin mask /\ "PT" \notin mask

(* What becomes of a capture that is null: WaitThread does not look at it. *)
NullCapture ==
  CASE caller = "ScRegisterServiceRoutineW" -> "STATUS_INVALID_PARAMETER_3"
    [] caller = "ScServiceCallW" -> "STATUS_INVALID_PARAMETER_2"
    [] caller = "WaitThread" -> "null dereferenced"

Allocate ==
  /\ pc = "allocate" /\ pc' = "mask"
  /\ capacity' = InSize(Len(masks)) /\ captured' = <<>>
  /\ UNCHANGED <<arch, caller, index, memory, service, connection, worker>>

CaptureMask ==
  /\ pc = "mask" /\ Len(captured) < Len(masks)
  /\ \E mask \in MaskAt(Len(captured) + 1) :
       pc' = IF accessible < MaskDword(Len(captured) + 1) THEN "fault"
             ELSE IF Invalid(mask) THEN NullCapture ELSE "copy"
  /\ UNCHANGED <<arch, caller, index, memory, capture, service, connection, worker>>

(* A parameter more than the block has room for overruns the heap.         *)
CopyParameter ==
  /\ pc = "copy"
  /\ IF accessible < Dwords(Len(captured) + 1) THEN pc' = "fault" /\ UNCHANGED captured
     ELSE IF Len(captured) >= capacity THEN pc' = "overrun" /\ UNCHANGED captured
     ELSE /\ \E mask \in MaskAt(Len(captured) + 1) : captured' = Append(captured, mask)
          /\ pc' = "mask"
  /\ UNCHANGED <<arch, caller, index, memory, capacity, service, connection, worker>>

(* It returns to its caller.                                               *)
Captures(who) == caller = who /\ pc = "mask" /\ Len(captured) >= Len(masks)

-----------------------------------------------------------------------------
(* ScRegisterServiceRoutineW.                                              *)

ProbeRegister ==
  /\ pc = "register"
  /\ \E list \in Lists : \E readable \in Readable :
       /\ masks' = list /\ accessible' = readable /\ nulls' = {}
       /\ pc' = IF readable < Larger(2, 4 * InSize(Len(list)) + 1)
                THEN "STATUS_ACCESS_VIOLATION" ELSE "allocate"
  /\ UNCHANGED <<arch, caller, index, rewritten, rewrites, capture, service, connection, worker>>

Register ==
  /\ Captures("ScRegisterServiceRoutineW") /\ pc' = "call"
  /\ service' = captured /\ captured' = <<>> /\ capacity' = 0
  /\ UNCHANGED <<arch, caller, index, memory, connection, worker>>

-----------------------------------------------------------------------------
(* ScServiceCallW.                                                         *)

(* Mutant: a dword too little is probed.                                   *)
ProbeCallShort ==
  /\ pc = "call" /\ caller' = "ScServiceCallW"
  /\ \E list \in Lists : \E readable \in Readable :
       /\ masks' = list /\ accessible' = readable /\ nulls' \in SUBSET Pointers(list)
       /\ sent' = Len(list) % LengthModulus
       /\ pc' = IF readable < Dwords(sent') - 1 THEN "STATUS_ACCESS_VIOLATION" ELSE "check"
  /\ UNCHANGED <<arch, index, rewritten, rewrites, capture, service, opened, worker>>

(* length is a ULONG, on x64 as well.                                      *)
ProbeCall ==
  /\ pc = "call" /\ caller' = "ScServiceCallW"
  /\ \E list \in Lists : \E readable \in Readable :
       /\ masks' = list /\ accessible' = readable /\ nulls' \in SUBSET Pointers(list)
       /\ sent' = Len(list) % LengthModulus
       /\ pc' = IF readable < Dwords(sent') THEN "STATUS_ACCESS_VIOLATION" ELSE "check"
  /\ UNCHANGED <<arch, index, rewritten, rewrites, capture, service, opened, worker>>

(* Mutant: no pointer may be null.                                         *)
MustPointAll(mask) == "PT" \in mask

(* Pointers that may not be null.                                          *)
MustPoint(mask) == "PT" \in mask /\ "NL" \notin mask

CheckMask ==
  /\ pc = "check"
  /\ IF index > Len(masks) THEN pc' = "allocate" /\ index' = 1
     ELSE IF accessible < MaskDword(index) THEN pc' = "fault" /\ UNCHANGED index
     ELSE IF MustPoint(masks[index]) THEN pc' = "null" /\ UNCHANGED index
     ELSE index' = index + 1 /\ UNCHANGED pc
  /\ UNCHANGED <<arch, caller, memory, capture, service, connection, worker>>

(* What is no pointer any more, after a Rewrite, may be 0 or not.          *)
CheckNull ==
  /\ pc = "null"
  /\ \/ accessible < Dwords(index) /\ pc' = "fault" /\ UNCHANGED index
     \/ /\ accessible >= Dwords(index) /\ (index \in Pointers(masks) => index \in nulls)
        /\ pc' = "STATUS_INVALID_PARAMETER_2" /\ UNCHANGED index
     \/ accessible >= Dwords(index) /\ index \notin nulls /\ pc' = "check" /\ index' = index + 1
  /\ UNCHANGED <<arch, caller, memory, capture, service, connection, worker>>

(* The capture has only checked the masks; it is deleted.                  *)
ClientCaptured ==
  /\ Captures("ScServiceCallW") /\ pc' = "connect"
  /\ captured' = <<>> /\ capacity' = 0
  /\ UNCHANGED <<arch, caller, index, memory, service, connection, worker>>

(* NtConnectPort sends the client's own memory, not what was captured: the *)
(* count, and as many parameters of those probed as the port has room for. *)
Arrived == Smaller(sent, MaxInfo)

(* NtListenPort puts them into lm.  Behind lm the heap may end.            *)
Connect ==
  /\ pc = "connect" /\ pc' = "open" /\ caller' = "WaitThread"
  /\ nulls' = {k \in nulls : k <= Arrived}
  /\ accessible' \in Dwords(Smaller(MaxMessage, Len(masks)))..Dwords(Len(masks))
  /\ UNCHANGED <<arch, index, masks, rewritten, rewrites, capture, service, connection, worker>>

-----------------------------------------------------------------------------
(* WaitThread.  A connection that it refuses is an error in parameter 2.   *)

OpenClient ==
  /\ pc = "open" /\ opened' \in BOOLEAN
  /\ pc' = IF opened' THEN "compare" ELSE "STATUS_INVALID_PARAMETER_2"
  /\ UNCHANGED <<arch, caller, index, memory, capture, service, sent, worker>>

(* Mutant: only the kind of a parameter is compared.                       *)
AgreeOnKind(mask, k) == "VL" \in mask <=> "VL" \in service[k]

(* RtlEqualParameterType on parameter k.                                   *)
Agree(mask, k) == mask = service[k]

(* Mutant: a longer list will do.                                          *)
LongEnough == Len(masks) >= Len(service)

SameCount == Len(masks) = Len(service)

(* What lies in lm behind the parameters that have arrived is left from    *)
(* earlier messages, and stays as it is once it has been looked at.        *)
Compare ==
  /\ pc = "compare"
  /\ \/ ~ SameCount /\ pc' = "STATUS_INVALID_PARAMETER_2" /\ UNCHANGED <<index, masks>>
     \/ SameCount /\ index > Len(service) /\ pc' = "allocate" /\ index' = 1 /\ UNCHANGED masks
     \/ /\ SameCount /\ index <= Len(service) /\ accessible < MaskDword(index)
        /\ pc' = "fault" /\ UNCHANGED <<index, masks>>
     \/ /\ SameCount /\ index <= Len(service) /\ accessible >= MaskDword(index)
        /\ \E mask \in IF index <= Arrived THEN {masks[index]} ELSE Stale :
             /\ masks' = [masks EXCEPT ![index] = mask]
             /\ IF Agree(mask, index) THEN index' = index + 1 /\ UNCHANGED pc
                ELSE pc' = "STATUS_INVALID_PARAMETER_2" /\ UNCHANGED index
  /\ UNCHANGED <<arch, caller, nulls, accessible, rewritten, rewrites, capture, service, connection, worker>>

(* The list is the worker's.                                               *)
ArrivedCaptured ==
  /\ Captures("WaitThread") /\ pc' = IF arch = "x86" THEN "narrow" ELSE "map"
  /\ width' = [k \in 1..Len(captured) |-> 8]
  /\ UNCHANGED <<arch, caller, index, memory, capture, service, connection, value, stack, registers>>

-----------------------------------------------------------------------------
(* WorkerThread.                                                           *)

(* Mutant: the smallest size first.                                        *)
NarrowSmallest(mask) ==
  IF "VL" \notin mask THEN 4
  ELSE IF "BY" \in mask THEN 1 ELSE IF "WO" \in mask THEN 2 ELSE IF "DW" \in mask THEN 4 ELSE 8

(* The bytes that &= leaves.                                               *)
Narrow(mask) ==
  IF "VL" \notin mask THEN 4
  ELSE IF "DW" \in mask THEN 4 ELSE IF "WO" \in mask THEN 2 ELSE IF "BY" \in mask THEN 1 ELSE 8

NarrowStep ==
  /\ pc = "narrow"
  /\ IF index > Len(captured) THEN pc' = "map" /\ index' = 1 /\ UNCHANGED width
     ELSE /\ width' = [width EXCEPT ![index] = Smaller(@, Narrow(captured[index]))]
          /\ index' = index + 1 /\ UNCHANGED pc
  /\ UNCHANGED <<arch, caller, memory, capture, service, connection, value, stack, registers>>

Word(kind, k, bytes) == [kind |-> kind, of |-> k, bytes |-> bytes]

WordSize == IF arch = "x64" THEN 8 ELSE 4

(* Pointers that are null in the capture; behind what has arrived any may  *)
(* be.                                                                     *)
NullsCaptured == {zeros \in SUBSET Pointers(captured) : \A k \in 1..Arrived : k \in zeros <=> k \in nulls}

(* What RtlMapPtrParameters leaves in ulParameter of parameter k.  Only a  *)
(* pointer that may be null is looked at: of another that is null, nothing *)
(* is read if its buffer has no bytes.                                     *)
Mapped(k, zeros) ==
  IF "PT" \notin captured[k] THEN Word(IF k <= Arrived THEN "value" ELSE "garbage", k, width[k])
  ELSE Word(IF "NL" \in captured[k] /\ k \in zeros THEN "null" ELSE "buffer", k, 8)

Map ==
  /\ pc = "map"
  /\ \E zeros \in NullsCaptured :
       \/ value' = [k \in 1..Len(captured) |-> Mapped(k, zeros)] /\ pc' = "thunk"
       \/ /\ \E k \in 1..Len(captured) : Mapped(k, zeros).kind = "buffer"
          /\ pc' = "STATUS_INVALID_PARAMETER" /\ UNCHANGED value
  /\ UNCHANGED <<arch, caller, index, memory, capture, service, connection, width, stack, registers>>

-----------------------------------------------------------------------------
(* __x64ServiceCall and __x86ServiceCall.                                  *)

(* Mutant: an odd number of words is not rounded up.                       *)
StackWordsUneven == IF arch = "x86" THEN Len(captured) ELSE Larger(Len(captured), 4)

(* dwStack: at least the four home words of the callee, and an even number *)
(* of words, so that the stack is aligned to 16 bytes.                     *)
StackWords ==
  IF arch = "x86" THEN Len(captured) ELSE Larger(Len(captured), 4) + (Larger(Len(captured), 4) % 2)

Return == Word("return address", 0, 8)
Saved == Word("rbx", 0, 8)
Reserved == Word("reserved", 0, 8)

EnterThunk ==
  /\ pc = "thunk" /\ pc' = "push"
  /\ stack' = <<Return, Saved>> \o [k \in 1..(StackWords - Len(captured)) |-> Reserved]
  /\ index' = Len(captured)
  /\ UNCHANGED <<arch, caller, memory, capture, service, connection, width, value, registers>>

(* push qword ptr or, on x86, dword ptr.                                   *)
Pushed(k) == Word(value[k].kind, value[k].of, Smaller(value[k].bytes, WordSize))

(* Mutant: the first parameter is pushed first.                            *)
PushFirst ==
  /\ pc = "push" /\ index > 0
  /\ stack' = Append(stack, Pushed(Len(captured) + 1 - index))
  /\ index' = index - 1
  /\ UNCHANGED <<arch, pc, caller, memory, capture, service, connection, width, value, registers>>

(* From the last parameter to the first.                                   *)
Push ==
  /\ pc = "push" /\ index > 0
  /\ stack' = Append(stack, Pushed(index))
  /\ index' = index - 1
  /\ UNCHANGED <<arch, pc, caller, memory, capture, service, connection, width, value, registers>>

(* rcx, rdx, r8 and r9 are loaded from the top, on x64, and the routine is *)
(* called.                                                                 *)
CallRoutine ==
  /\ pc = "push" /\ index = 0 /\ pc' = "routine"
  /\ registers' = IF arch = "x64" THEN [k \in 1..4 |-> stack[Len(stack) + 1 - k]] ELSE <<>>
  /\ stack' = Append(stack, Return)
  /\ UNCHANGED <<arch, caller, index, memory, capture, service, connection, width, value>>

(* A routine of the registered type: it is __stdcall on x86 and takes its  *)
(* arguments off the stack, and on x64 it may use their words.             *)
RoutineReturns ==
  /\ pc = "routine" /\ pc' = "returned"
  /\ stack' = IF arch = "x86" THEN SubSeq(stack, 1, Len(stack) - 1 - Len(captured))
              ELSE [k \in 1..(Len(stack) - 1) |-> IF k <= 2 THEN stack[k] ELSE Reserved]
  /\ UNCHANGED <<arch, caller, index, memory, capture, service, connection, width, value, registers>>

(* add rsp, rbx on x64; then rbx is popped.                                *)
LeaveThunk ==
  /\ pc = "returned" /\ pc' = "done"
  /\ LET top == IF arch = "x86" THEN Len(stack) ELSE Len(stack) - StackWords
     IN  registers' = <<stack[top]>> /\ stack' = SubSeq(stack, 1, top - 1)
  /\ UNCHANGED <<arch, caller, index, memory, capture, service, connection, width, value>>

-----------------------------------------------------------------------------
Init ==
  /\ arch \in {"x64", "x86"} /\ pc = "register" /\ caller = "ScRegisterServiceRoutineW" /\ index = 1
  /\ masks = <<>> /\ nulls = {} /\ accessible = 0 /\ rewritten = {} /\ rewrites = 0
  /\ capacity = 0 /\ captured = <<>> /\ service = <<>> /\ sent = 0 /\ opened = FALSE
  /\ width = <<>> /\ value = <<>> /\ stack = <<>> /\ registers = <<>>

(* Returned, or undefined.                                                 *)
Statuses == {"STATUS_ACCESS_VIOLATION", "STATUS_INVALID_PARAMETER", "STATUS_INVALID_PARAMETER_2",
             "STATUS_INVALID_PARAMETER_3"}
Undefined == {"fault", "overrun", "null dereferenced"}

Finished == pc \in Statuses \cup Undefined \cup {"done"} /\ UNCHANGED vars

Next ==
  \/ Rewrite \/ Allocate \/ CaptureMask \/ CopyParameter
  \/ ProbeRegister \/ Register
  \/ ProbeCall \/ CheckMask \/ CheckNull \/ ClientCaptured \/ Connect
  \/ OpenClient \/ Compare \/ ArrivedCaptured
  \/ NarrowStep \/ Map \/ EnterThunk \/ Push \/ CallRoutine \/ RoutineReturns \/ LeaveThunk
  \/ Finished

Spec == Init /\ [][Next]_vars

-----------------------------------------------------------------------------
Capturing == {"allocate", "mask", "copy"}
Calls == {"thunk", "push", "routine", "returned", "done"}
Works == {"narrow", "map", "STATUS_INVALID_PARAMETER"} \cup Calls
Callers == {"ScRegisterServiceRoutineW", "ScServiceCallW"}

TypeOK ==
  /\ arch \in {"x64", "x86"} /\ opened \in BOOLEAN
  /\ pc \in {"register", "call", "check", "null", "connect", "open", "compare"}
            \cup Capturing \cup Works \cup Statuses \cup Undefined
  /\ caller \in Callers \cup {"WaitThread"} /\ rewritten \subseteq Callers
  /\ index \in Nat /\ accessible \in Nat /\ capacity \in Nat /\ sent \in Nat /\ rewrites \in Nat
  /\ masks \in Seq(SUBSET Bits) /\ service \in Seq(SUBSET Bits) /\ captured \in Seq(SUBSET Bits)
  /\ nulls \subseteq 1..Len(masks)

(* No list is read where it was not probed, and no block is written behind *)
(* its end, but in these cases.  The registration: other threads rewrite   *)
(* the list, its last dword cannot be read, or its length wraps, as it does*)
(* on x86.  The call: other threads rewrite the list, or its length wraps. *)
(* WaitThread: the list is longer than lm.                                 *)
FaultsExact ==
  /\ pc = "fault" =>
       CASE caller = "ScRegisterServiceRoutineW" ->
              caller \in rewritten \/ accessible = Dwords(Len(masks)) - 1 \/ InSize(Len(masks)) < Len(masks)
         [] caller = "ScServiceCallW" -> caller \in rewritten \/ Len(masks) >= LengthModulus
         [] caller = "WaitThread" -> Len(masks) > MaxMessage
  /\ pc = "overrun" => caller \in rewritten \/ (caller \in Callers /\ InSize(Len(masks)) < Len(masks))

(* Who is refused, unless other threads rewrote the list: a registration   *)
(* or a call with a list that RtlCaptureParameters rejects; a call with a  *)
(* null where none may be, of a client that cannot be opened, with another *)
(* list than the registered one, or with a list that has not all arrived.  *)
(* What is registered has been checked.                                    *)
RefusalsExact ==
  /\ pc = "STATUS_INVALID_PARAMETER_3" => \E k \in DOMAIN masks : Invalid(masks[k])
  /\ pc = "STATUS_INVALID_PARAMETER_2" =>
       IF caller = "ScServiceCallW"
       THEN \/ caller \in rewritten
            \/ \E k \in DOMAIN masks : Invalid(masks[k]) \/ (k \in nulls /\ "NL" \notin masks[k])
       ELSE ~ opened \/ Len(masks) > Arrived \/ masks # service
  /\ "ScRegisterServiceRoutineW" \in rewritten \/ \A k \in DOMAIN service : ~ Invalid(service[k])

(* Whatever a client sends, and however its threads rewrite it meanwhile,  *)
(* the worker's list, which is not looked at again, has the registered     *)
(* masks as far as lm reaches; and it is null only where a list goes on    *)
(* behind lm, or the service rewrote the list that it registered.          *)
ServesRegistered ==
  /\ pc \in Works => /\ Len(captured) = Len(service)
                     /\ \A k \in DOMAIN service : k <= MaxMessage => captured[k] = service[k]
  /\ pc = "null dereferenced" => Len(service) > MaxMessage \/ "ScRegisterServiceRoutineW" \in rewritten

(* The bytes of a value that ServiceCall.h promises: those of the first    *)
(* size bit that is set from QW down, where QW is a DWORD on 32 bits.      *)
SizeOf(mask) ==
  Smaller(WordSize, IF "QW" \in mask THEN 8 ELSE IF "DW" \in mask THEN 4 ELSE IF "WO" \in mask THEN 2 ELSE 1)

(* What argument k of the routine is on its entry.                         *)
Argument(k) == IF arch = "x64" /\ k <= 4 THEN registers[k] ELSE stack[Len(stack) - k]

(* Masks for which the code, which looks for a DWORD first, leaves fewer   *)
(* bytes than that on x86.                                                 *)
QwordWithSmaller(mask) == "QW" \in mask /\ "DW" \notin mask /\ mask \cap {"WO", "BY"} # {}

(* Each argument is that of its parameter.  Those that have arrived are    *)
(* what the client sent: its value, or a buffer, and null only where the   *)
(* registered type allows it; and of a list that the connection information*)
(* holds, and that nobody rewrites, all arrive.  Of a longer list the code *)
(* passes what was left in lm.                                             *)
ArgumentsExact ==
  pc = "routine" =>
    /\ \A k \in DOMAIN service : Argument(k).of = k
    /\ \A k \in DOMAIN service : k <= Arrived =>
         Argument(k).kind \in IF "PT" \notin service[k] THEN {"value"}
                             ELSE IF "NL" \in service[k] THEN {"buffer", "null"} ELSE {"buffer"}
    /\ Len(service) <= MaxInfo /\ "ScServiceCallW" \notin rewritten => Arrived = Len(service)

(* On x64 an argument has all bytes of its word, and on x86 those of its   *)
(* size and no others.                                                     *)
SizesExact ==
  pc = "routine" => \A k \in DOMAIN service :
    ~ (k > MaxMessage \/ Invalid(service[k]) \/ (arch = "x86" /\ QwordWithSmaller(service[k]))) =>
      Argument(k).bytes = IF arch = "x86" /\ "VL" \in service[k] THEN SizeOf(service[k]) ELSE WordSize

(* On its call the routine's stack is aligned, and has the home words; on  *)
(* return the thunk has its caller's rbx and return address.               *)
StackExact ==
  /\ pc = "routine" /\ arch = "x64" => Len(stack) % 2 = 1 /\ Len(stack) >= 7
  /\ pc = "done" => stack = <<Return>> /\ registers = <<Saved>>

(* The loops, each up to its counter.                                      *)

(* Who reads the list, and where the counter starts again.                 *)
Turns ==
  /\ pc = "register" => rewritten = {}
  /\ pc \in {"register", "call"} => caller = "ScRegisterServiceRoutineW"
  /\ pc \in {"check", "null", "connect"} => caller = "ScServiceCallW"
  /\ pc \in {"open", "compare"} \cup Works => caller = "WaitThread"
  /\ caller = "ScRegisterServiceRoutineW" => "ScServiceCallW" \notin rewritten
  /\ pc \in {"register", "call", "connect", "open", "map"} \cup Capturing => index = 1
  /\ pc \in {"check", "null", "compare"} => index >= 1

(* A block never holds more than it has room for.                          *)
CaptureLoop ==
  /\ arch = "x86" => capacity < LengthModulus /\ Len(service) < LengthModulus
  /\ pc \in {"mask", "copy"} => Len(captured) <= capacity
  /\ pc \in {"mask", "copy"} /\ caller \notin rewritten =>
       capacity = InSize(Len(masks)) /\ Len(captured) <= Len(masks)
  /\ pc = "copy" /\ caller \notin rewritten => Len(captured) < Len(masks)

(* The list that is registered was probed, and is checked as it is copied. *)
RegisterLoop ==
  pc \in Capturing /\ caller = "ScRegisterServiceRoutineW" /\ caller \notin rewritten =>
    /\ accessible >= 4 * InSize(Len(masks)) + 1
    /\ pc # "allocate" => \A k \in DOMAIN captured : ~ Invalid(captured[k])
    /\ pc = "copy" => ~ Invalid(masks[Len(captured) + 1])

(* What is sent was probed, whoever rewrites the list.                     *)
CallLoop ==
  /\ pc \in {"check", "null", "connect"} \cup Capturing /\ caller = "ScServiceCallW" =>
       accessible >= Dwords(sent) /\ (caller \notin rewritten => sent = Len(masks) % LengthModulus)
  /\ pc = "null" /\ caller \notin rewritten => index <= Len(masks) /\ MustPoint(masks[index])

(* The masks in lm agree as far as they have been compared, and all of them*)
(* when the list is captured.  As many have been sent as lm counts.        *)
CompareLoop ==
  /\ pc \in {"open", "compare"} \cup Capturing /\ caller = "WaitThread" =>
       accessible >= Dwords(Smaller(MaxMessage, Len(masks)))
  /\ caller = "WaitThread" /\ "ScServiceCallW" \notin rewritten => sent = Len(masks) % LengthModulus
  /\ pc = "compare" => /\ index > 1 => Len(masks) = Len(service)
                       /\ index <= Len(service) + 1
                       /\ \A k \in 1..(index - 1) : masks[k] = service[k]
  /\ pc \in Capturing \cup Works /\ caller = "WaitThread" => masks = service
  /\ pc \in {"mask", "copy"} /\ caller = "WaitThread" =>
       \A k \in DOMAIN captured : k <= MaxMessage => captured[k] = service[k]

(* Before the index, and after the loop on x86, the values are narrowed.   *)
NarrowLoop ==
  /\ pc = "narrow" => arch = "x86" /\ index \in 1..(Len(captured) + 1)
  /\ pc \in {"narrow", "map"} =>
       width = [k \in 1..Len(captured) |->
                  IF arch = "x86" /\ (pc = "map" \/ k < index) THEN Narrow(captured[k]) ELSE 8]

(* A mapped word is the one its parameter calls for.                       *)
MappedExact ==
  pc \in Calls => \A k \in 1..Len(captured) :
    /\ value[k].of = k
    /\ value[k].kind \in IF "PT" \notin captured[k] THEN IF k <= Arrived THEN {"value"} ELSE {"garbage"}
                         ELSE IF "NL" \in captured[k] THEN {"buffer", "null"} ELSE {"buffer"}
    /\ value[k].bytes = IF arch = "x86" /\ "PT" \notin captured[k] THEN Narrow(captured[k]) ELSE 8

(* Where each parameter goes on the stack does not depend on the counter.  *)
PushLoop ==
  /\ pc \in {"push", "routine", "returned"} =>
       DOMAIN stack = 1..Len(stack) /\ stack[1] = Return /\ stack[2] = Saved
  /\ pc = "push" => index \in 0..Len(captured) /\ Len(stack) = StackWords + 2 - index
  /\ pc = "routine" => index = 0 /\ Len(stack) = StackWords + 3
  /\ pc \in {"push", "routine"} =>
       \A k \in (index + 1)..Len(captured) : stack[StackWords + 3 - k] = Pushed(k)
  /\ pc = "routine" /\ arch = "x64" =>
       \A k \in 1..4 : registers[k] = stack[StackWords + 3 - k]
  /\ pc = "returned" => Len(stack) = IF arch = "x86" THEN 2 ELSE StackWords + 2

PathInv ==
  /\ TypeOK /\ Turns /\ CaptureLoop /\ RegisterLoop /\ CallLoop /\ CompareLoop
  /\ NarrowLoop /\ MappedExact /\ PushLoop
  /\ FaultsExact /\ RefusalsExact /\ ServesRegistered /\ StackExact
=============================================================================
