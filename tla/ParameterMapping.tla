-------------------------- MODULE ParameterMapping --------------------------
(***************************************************************************)
(* The memory of one call in WorkerThread: the blocks of the service's     *)
(* heap that belong to it, and the client's bytes, under                   *)
(* RtlMapPtrParameters, the routine, RtlSyncMappedPtrParameters and        *)
(* RtlUnmapPtrParameters, parameter by parameter, each of which may fail.  *)
(* The counters are those of the three loops, from 1.                      *)
(***************************************************************************)
EXTENDS Integers, Sequences

CONSTANTS
  Arg,          (* the parameters that may arrive, after any rewriting of  *)
                (* the client's list behind the checks of ScServiceCallW   *)
  MaxArgs,      (* the longest list (a bound)                              *)
  ClientBytes   (* the addresses of the client (a bound)                   *)

ASSUME ArgAssumption ==
  /\ Arg \subseteq [type : {"VL", "PT", "PT_NO_MAP"}, ulParameter : Nat, dwMaxBufferSize : Nat]
  /\ MaxArgs \in Nat

VARIABLES
  lpParameters,  (* the captured list                                      *)
  pc,            (* which loop runs                                        *)
  mapAt, syncAt, unmapAt,
  tmp,           (* the kind of value in each ulParameter of the new list  *)
  blocks,        (* the call's blocks in the heap, without the buffers     *)
  buffers,       (* the parameters whose buffers are in the heap           *)
  corrupt,       (* delete[] was given what it must not be                 *)
  wrote,         (* the parameters whose buffers the routine has changed   *)
  memory,        (* each byte of the client: 0 as it was, or the parameter *)
                 (* whose output it holds                                  *)
  partly,        (* bytes written of the parameter that could not be       *)
  status         (* the status for the client                              *)

heap == <<blocks, buffers, corrupt>>
result == <<wrote, memory, partly, status>>
vars == <<lpParameters, pc, mapAt, syncAt, unmapAt, tmp, heap, result>>

n == Len(lpParameters)
IsPointer(k) == lpParameters[k].type # "VL"
Size(k) == lpParameters[k].dwMaxBufferSize
IsNull(k) == lpParameters[k].ulParameter = 0
(* Every pointer has a buffer, but those that may be null and are: of the  *)
(* others RtlMapPtrParameters does not ask.                                *)
Mapped(k) == lpParameters[k].type = "PT" \/ (IsPointer(k) /\ ~ IsNull(k))
(* Pointers that are not null are written back.                            *)
WrittenBack(k) == IsPointer(k) /\ ~ IsNull(k)
(* The first len bytes of such a parameter in the client.                  *)
Bytes(k, len) == lpParameters[k].ulParameter .. (lpParameters[k].ulParameter + len - 1)

-----------------------------------------------------------------------------
(* RtlMapPtrParameters.                                                    *)

AllocateList ==
  /\ pc = "start" /\ pc' = "map"
  /\ blocks' = blocks \cup {"tmp"}
  /\ tmp' = [k \in 1..n |-> "uninitialized"]
  /\ UNCHANGED <<lpParameters, mapAt, syncAt, unmapAt, buffers, corrupt, result>>

(* A value, or a pointer that may be null and is.                          *)
CopyValue ==
  /\ pc = "map" /\ mapAt <= n /\ ~ Mapped(mapAt)
  /\ tmp' = [tmp EXCEPT ![mapAt] = IF IsPointer(mapAt) THEN "null" ELSE "value"]
  /\ mapAt' = mapAt + 1
  /\ UNCHANGED <<lpParameters, pc, syncAt, unmapAt, heap, result>>

(* new(std::nothrow) and NtReadVirtualMemory, which can read no bytes at 0.*)
CopyBuffer ==
  /\ pc = "map" /\ mapAt <= n /\ Mapped(mapAt) /\ (IsNull(mapAt) => Size(mapAt) = 0)
  /\ tmp' = [tmp EXCEPT ![mapAt] = "buffer"]
  /\ buffers' = buffers \cup {mapAt}
  /\ mapAt' = mapAt + 1
  /\ UNCHANGED <<lpParameters, pc, syncAt, unmapAt, blocks, corrupt, result>>

(* One of them fails: the blobs behind this one are as new char[] left them*)
(* when RtlUnmapPtrParameters gets the list.                               *)
MapFails ==
  /\ pc = "map" /\ mapAt <= n /\ Mapped(mapAt)
  /\ \/ tmp' = [tmp EXCEPT ![mapAt] = "null"] /\ UNCHANGED buffers
     \/ Size(mapAt) > 0 /\ tmp' = [tmp EXCEPT ![mapAt] = "buffer"] /\ buffers' = buffers \cup {mapAt}
  /\ status' = "STATUS_INVALID_PARAMETER"
  /\ pc' = "unmap"
  /\ UNCHANGED <<lpParameters, mapAt, syncAt, unmapAt, blocks, corrupt, wrote, memory, partly>>

(* __ServiceCall: the routine changes the buffers it likes.                *)
CallRoutine ==
  /\ pc = "map" /\ mapAt > n /\ pc' = "sync"
  /\ wrote' \in SUBSET {k \in 1..n : Mapped(k)}
  /\ status' = "routine's"
  /\ UNCHANGED <<lpParameters, mapAt, syncAt, unmapAt, tmp, heap, memory, partly>>

-----------------------------------------------------------------------------
(* RtlSyncMappedPtrParameters.                                             *)

Output(k) == IF k \in wrote THEN k ELSE 0

Write(k, len) == memory' = [b \in ClientBytes |-> IF b \in Bytes(k, len) THEN Output(k) ELSE memory[b]]

SkipValue ==
  /\ pc = "sync" /\ syncAt <= n /\ ~ WrittenBack(syncAt)
  /\ syncAt' = syncAt + 1
  /\ UNCHANGED <<lpParameters, pc, mapAt, unmapAt, tmp, heap, result>>

(* Mutant: the buffer is deleted once it has been written back.            *)
WriteAndDeleteBuffer ==
  /\ pc = "sync" /\ syncAt <= n /\ WrittenBack(syncAt)
  /\ Write(syncAt, Size(syncAt))
  /\ syncAt' = syncAt + 1
  /\ buffers' = buffers \ {syncAt}
  /\ UNCHANGED <<lpParameters, pc, mapAt, unmapAt, tmp, blocks, corrupt, wrote, partly, status>>

(* NtWriteVirtualMemory of the whole buffer.                               *)
WriteBuffer ==
  /\ pc = "sync" /\ syncAt <= n /\ WrittenBack(syncAt)
  /\ Write(syncAt, Size(syncAt))
  /\ syncAt' = syncAt + 1
  /\ UNCHANGED <<lpParameters, pc, mapAt, unmapAt, tmp, heap, wrote, partly, status>>

(* NtWriteVirtualMemory fails, some way into the buffer.                   *)
CannotWrite ==
  /\ pc = "sync" /\ syncAt <= n /\ WrittenBack(syncAt)
  /\ \E len \in 0..(Size(syncAt) - 1) : partly' = len /\ Write(syncAt, len)
  /\ status' = "STATUS_ACCESS_DENIED"
  /\ UNCHANGED <<lpParameters, mapAt, unmapAt, tmp, heap, wrote>>

(* Mutant: the loop goes on.                                               *)
WriteFailsAndGoesOn == CannotWrite /\ syncAt' = syncAt + 1 /\ UNCHANGED pc

(* return false.                                                           *)
WriteFails == CannotWrite /\ pc' = "unmap" /\ UNCHANGED syncAt

SyncReturns ==
  /\ pc = "sync" /\ syncAt > n /\ pc' = "unmap"
  /\ UNCHANGED <<lpParameters, mapAt, syncAt, unmapAt, tmp, heap, result>>

-----------------------------------------------------------------------------
(* RtlUnmapPtrParameters.                                                  *)

UnmapAt(k) == pc = "unmap" /\ unmapAt = k /\ k <= n /\ unmapAt' = k + 1

KeepBlob(k) ==
  /\ tmp[k] \in {"value", "null"} \/ (tmp[k] = "buffer" /\ Size(k) = 0)
  /\ UNCHANGED <<pc, heap>>

(* Mutant: a buffer is kept if the routine has not changed it.             *)
DeleteChangedBuffer(k) ==
  /\ tmp[k] = "buffer" /\ Size(k) > 0
  /\ buffers' = IF k \in wrote THEN buffers \ {k} ELSE buffers
  /\ UNCHANGED <<pc, blocks, corrupt>>

DeleteBuffer(k) ==
  /\ tmp[k] = "buffer" /\ Size(k) > 0
  /\ buffers' = buffers \ {k}
  /\ corrupt' = (corrupt \/ k \notin buffers)
  /\ UNCHANGED <<pc, blocks>>

(* A blob that was never filled: what its bytes happen to be decides       *)
(* whether it is passed over, whether delete[] ends the process, or which  *)
(* of the call's own blocks, if any, it takes away.                        *)
DeleteGarbage(k) ==
  /\ tmp[k] = "uninitialized"
  /\ \/ UNCHANGED <<pc, heap>>
     \/ pc' = "crashed" /\ corrupt' = TRUE /\ UNCHANGED <<blocks, buffers>>
     \/ /\ corrupt' = TRUE /\ UNCHANGED pc
        /\ \/ UNCHANGED <<blocks, buffers>>
           \/ \E b \in blocks : blocks' = blocks \ {b} /\ UNCHANGED buffers
           \/ \E j \in buffers : buffers' = buffers \ {j} /\ UNCHANGED blocks

UnmapStep ==
  /\ \E k \in 1..n : UnmapAt(k) /\ (KeepBlob(k) \/ DeleteBuffer(k) \/ DeleteGarbage(k))
  /\ UNCHANGED <<lpParameters, mapAt, syncAt, tmp, result>>

DeleteBlocks(from, to, deleted) ==
  /\ pc = from /\ pc' = to
  /\ blocks' = blocks \ deleted
  /\ corrupt' = (corrupt \/ ~ deleted \subseteq blocks)
  /\ UNCHANGED <<lpParameters, mapAt, syncAt, unmapAt, tmp, buffers, result>>

DeleteList == unmapAt > n /\ DeleteBlocks("unmap", "reply", {"tmp"})

(* Mutant: the captured list is deleted in place of the message.           *)
DeleteCallAndList == DeleteBlocks("reply", "done", {"lpParameters", "param"})

(* The reply is sent, and WorkerThread deletes lm and lpService.           *)
DeleteCall == DeleteBlocks("reply", "done", {"lm", "param"})

-----------------------------------------------------------------------------
(* What WaitThread has allocated for the call, before CreateThread.        *)
Init ==
  /\ lpParameters \in UNION {[1..m -> Arg] : m \in 0..MaxArgs}
  /\ pc = "start" /\ mapAt = 1 /\ syncAt = 1 /\ unmapAt = 1 /\ tmp = <<>>
  /\ blocks = {"param", "lm", "lpParameters"} /\ buffers = {} /\ corrupt = FALSE
  /\ wrote = {} /\ memory = [b \in ClientBytes |-> 0] /\ partly = 0 /\ status = "none"

Finished == pc \in {"done", "crashed"} /\ UNCHANGED vars

Next ==
  \/ AllocateList \/ CopyValue \/ CopyBuffer \/ MapFails \/ CallRoutine
  \/ SkipValue \/ WriteBuffer \/ WriteFails \/ SyncReturns
  \/ UnmapStep \/ DeleteList \/ DeleteCall
  \/ Finished

Spec == Init /\ [][Next]_vars

-----------------------------------------------------------------------------
TypeOK ==
  /\ lpParameters \in Seq(Arg)
  /\ pc \in {"start", "map", "sync", "unmap", "reply", "done", "crashed"}
  /\ mapAt \in 1..(n + 1) /\ syncAt \in 1..(n + 1) /\ unmapAt \in 1..(n + 1)
  /\ pc # "start" => tmp \in [1..n -> {"uninitialized", "value", "null", "buffer"}]
  /\ blocks \subseteq {"param", "lm", "lpParameters", "tmp"} /\ buffers \subseteq 1..n
  /\ corrupt \in BOOLEAN /\ wrote \subseteq 1..n
  /\ memory \in [ClientBytes -> 0..n] /\ partly \in Nat
  /\ status \in {"none", "routine's", "STATUS_INVALID_PARAMETER", "STATUS_ACCESS_DENIED"}

(* What each blob of the mapped list holds: those before mapAt are mapped, *)
(* the one at mapAt may have failed, those behind it have never been       *)
(* written; and the failure of the last parameter leaves none.             *)
BlobsFilled ==
  /\ pc = "start" => mapAt = 1
  /\ status = "none" <=> pc \in {"start", "map"}
  /\ status = "STATUS_INVALID_PARAMETER" => mapAt <= n /\ pc # "sync"
  /\ status \in {"routine's", "STATUS_ACCESS_DENIED"} => mapAt = n + 1
  /\ pc # "start" => \A k \in 1..n :
       /\ k < mapAt => tmp[k] = IF Mapped(k) THEN "buffer" ELSE IF IsPointer(k) THEN "null" ELSE "value"
       /\ k > mapAt => tmp[k] = "uninitialized"
       /\ k = mapAt => IF status = "none" THEN tmp[k] = "uninitialized" ELSE tmp[k] \in {"null", "buffer"}

(* Nothing but a mapping that fails before the last parameter can corrupt  *)
(* the heap: no buffer is deleted twice, and none that is not the call's.  *)
CorruptOnlyByEarlyFailure == corrupt => status = "STATUS_INVALID_PARAMETER" /\ mapAt < n

(* Every block of the call is in the heap from its allocation to its       *)
(* deletion.  What is left at the end is the captured list, which nobody   *)
(* deletes, and the buffers of size 0, which RtlUnmapPtrParameters skips.  *)
HeapExact == ~ corrupt =>
  /\ pc # "crashed"
  /\ blocks = {"lpParameters"} \cup (IF pc = "done" THEN {} ELSE {"param", "lm"})
                               \cup (IF pc \in {"map", "sync", "unmap"} THEN {"tmp"} ELSE {})
  /\ buffers = {k \in 1..n : /\ pc # "start" /\ tmp[k] = "buffer"
                             /\ k < unmapAt => Size(k) = 0}
  /\ pc \in {"start", "map", "sync"} => unmapAt = 1
  /\ pc \in {"reply", "done"} => unmapAt = n + 1

(* How many bytes of parameter k have been written back.                   *)
Written(k) ==
  IF ~ WrittenBack(k) \/ k > syncAt THEN 0
  ELSE IF k < syncAt THEN Size(k)
  ELSE IF status = "STATUS_ACCESS_DENIED" THEN partly ELSE 0

(* How far the parameters have been written back, by the status: a call    *)
(* that could not be mapped has changed nothing, one that reports the      *)
(* routine's own status has written everything, and a parameter that could *)
(* not be written stops the rest.                                          *)
SyncExact ==
  /\ status \in {"none", "STATUS_INVALID_PARAMETER"} => syncAt = 1
  /\ status = "STATUS_ACCESS_DENIED" => pc # "sync" /\ syncAt <= n /\ partly < Size(syncAt)
  /\ status = "routine's" => pc = "sync" \/ syncAt = n + 1

(* A byte of the client is as it was, or as the last parameter that has    *)
(* been written back over it has it.                                       *)
WriteBackExact ==
  \A b \in ClientBytes :
    LET over == {k \in 1..n : b \in Bytes(k, Written(k))}
    IN  IF over = {} THEN memory[b] = 0
        ELSE \E k \in over : memory[b] = Output(k) /\ \A j \in over : j <= k

MappingInv == TypeOK /\ BlobsFilled /\ CorruptOnlyByEarlyFailure /\ HeapExact /\ SyncExact /\ WriteBackExact

(* ServiceCall.cpp:218-219: when a parameter cannot be mapped, the client  *)
(* is answered STATUS_INVALID_PARAMETER, and the service goes on.          *)
MapFailureAnswered == ~ corrupt
=============================================================================
