----------------------- MODULE ParameterMappingProofs -----------------------
(* The memory of a call, for every list of parameters and every client.    *)
EXTENDS ParameterMapping, SequenceTheorems, TLAPS

LEMMA ListFacts ==
  ASSUME TypeOK
  PROVE  /\ n \in Nat
         /\ \A k \in 1..n : Size(k) \in Nat /\ lpParameters[k].ulParameter \in Nat
<1>1. n \in Nat /\ \A k \in 1..n : lpParameters[k] \in Arg
  BY DEF TypeOK, n
<1> QED
  BY <1>1, ArgAssumption DEF Size

(* Nothing changes the captured list, or what it says.                     *)
LEMMA SameList ==
  ASSUME [Next]_vars
  PROVE  /\ lpParameters' = lpParameters /\ n' = n
         /\ \A k : /\ Mapped(k)' <=> Mapped(k)
                   /\ WrittenBack(k)' <=> WrittenBack(k)
                   /\ IsPointer(k)' <=> IsPointer(k)
                   /\ Size(k)' = Size(k)
         /\ \A k, len : Bytes(k, len)' = Bytes(k, len)
<1>1. lpParameters' = lpParameters
  BY DEF Next, AllocateList, CopyValue, CopyBuffer, MapFails, CallRoutine, SkipValue, WriteBuffer,
     WriteFails, CannotWrite, SyncReturns, UnmapStep, DeleteList, DeleteCall, DeleteBlocks, Finished, vars
<1> QED
  BY <1>1 DEF n, Mapped, WrittenBack, IsPointer, IsNull, Size, Bytes

(* A step that leaves the write-back alone.                                *)
LEMMA SameResult ==
  ASSUME WriteBackExact, [Next]_vars, UNCHANGED <<syncAt, wrote, memory, partly, status>>
  PROVE  WriteBackExact'
<1>1. n' = n /\ \A k : Bytes(k, Written(k))' = Bytes(k, Written(k)) /\ Output(k)' = Output(k)
  BY SameList DEF Written, Output
<1> QED
  BY <1>1 DEF WriteBackExact

(* Before the sync loop nothing has been written.                          *)
LEMMA NothingWritten ==
  ASSUME TypeOK, syncAt = 1, status # "STATUS_ACCESS_DENIED"
  PROVE  \A k \in 1..n : Bytes(k, Written(k)) = {}
<1>1. \A k \in 1..n : Written(k) = 0
  BY ListFacts DEF Written
<1> QED
  BY <1>1, ListFacts DEF Bytes

-----------------------------------------------------------------------------
(* RtlMapPtrParameters.                                                    *)

LEMMA AllocateListInv ==
  ASSUME MappingInv, AllocateList, [Next]_vars
  PROVE  MappingInv'
<1> USE DEF MappingInv
<1>1. n' = n /\ n \in Nat /\ UNCHANGED result
  BY ListFacts, SameList DEF AllocateList
<1>2. TypeOK'
  BY <1>1 DEF AllocateList, TypeOK, result
<1>3. status = "none" /\ mapAt = 1
  BY DEF AllocateList, BlobsFilled, TypeOK
<1>4. BlobsFilled'
  BY <1>1, <1>3 DEF AllocateList, BlobsFilled, TypeOK, result
<1>5. CorruptOnlyByEarlyFailure'
  BY <1>1 DEF AllocateList, CorruptOnlyByEarlyFailure, result
<1>6. HeapExact'
  BY <1>1 DEF AllocateList, HeapExact, TypeOK
<1>7. SyncExact' /\ WriteBackExact'
  BY <1>1, <1>3, SameResult DEF AllocateList, SyncExact, result
<1> QED
  BY <1>2, <1>4, <1>5, <1>6, <1>7

(* A turn of the loop that fills one blob.                                 *)
Fills(kind, failed) ==
  /\ pc = "map" /\ mapAt <= n
  /\ tmp' = [tmp EXCEPT ![mapAt] = kind]
  /\ kind \in {"value", "null", "buffer"}
  /\ buffers' = IF kind = "buffer" THEN buffers \cup {mapAt} ELSE buffers
  /\ IF failed
     THEN /\ pc' = "unmap" /\ mapAt' = mapAt /\ status' = "STATUS_INVALID_PARAMETER"
          /\ kind \in {"null", "buffer"}
     ELSE /\ pc' = pc /\ mapAt' = mapAt + 1 /\ status' = status
          /\ kind = IF Mapped(mapAt) THEN "buffer" ELSE IF IsPointer(mapAt) THEN "null" ELSE "value"
  /\ UNCHANGED <<syncAt, unmapAt, blocks, corrupt, wrote, memory, partly>>

LEMMA MapSteps ==
  ASSUME CopyValue \/ CopyBuffer \/ MapFails
  PROVE  \E kind \in {"value", "null", "buffer"}, failed \in BOOLEAN : Fills(kind, failed)
<1>1. CASE CopyValue
  <2>1. Fills(IF IsPointer(mapAt) THEN "null" ELSE "value", FALSE)
    BY <1>1 DEF CopyValue, Fills, heap, result
  <2> QED
    BY <2>1
<1>2. CASE CopyBuffer
  <2>1. Fills("buffer", FALSE)
    BY <1>2 DEF CopyBuffer, Fills, result
  <2> QED
    BY <2>1
<1>3. CASE MapFails
  <2>1. Fills("null", TRUE) \/ Fills("buffer", TRUE)
    BY <1>3 DEF MapFails, Fills
  <2> QED
    BY <2>1
<1> QED
  BY <1>1, <1>2, <1>3

LEMMA FillsInv ==
  ASSUME MappingInv, [Next]_vars, NEW kind, NEW failed \in BOOLEAN, Fills(kind, failed)
  PROVE  MappingInv'
<1> USE DEF MappingInv
<1>1. /\ n' = n /\ n \in Nat /\ lpParameters' = lpParameters /\ mapAt \in 1..n
      /\ \A k : (Mapped(k)' <=> Mapped(k)) /\ (IsPointer(k)' <=> IsPointer(k)) /\ Size(k)' = Size(k)
  BY ListFacts, SameList DEF Fills, TypeOK
<1>2. /\ pc = "map" /\ status = "none" /\ kind \in {"value", "null", "buffer"}
      /\ tmp \in [1..n -> {"uninitialized", "value", "null", "buffer"}]
      /\ tmp' = [tmp EXCEPT ![mapAt] = kind]
      /\ UNCHANGED <<syncAt, unmapAt, blocks, corrupt, wrote, memory, partly>>
      /\ ~ corrupt
  BY DEF Fills, TypeOK, BlobsFilled, CorruptOnlyByEarlyFailure
<1>3. TypeOK'
  <2>1. tmp' \in [1..n -> {"uninitialized", "value", "null", "buffer"}]
    BY <1>2
  <2>2. /\ buffers' \subseteq 1..n /\ mapAt' \in 1..(n + 1) /\ pc' \in {"map", "unmap"}
        /\ status' \in {"none", "STATUS_INVALID_PARAMETER"}
    BY <1>1, <1>2 DEF Fills, TypeOK
  <2> QED
    BY <1>1, <1>2, <2>1, <2>2 DEF TypeOK
<1>4. BlobsFilled'
  <2>1. \A k \in 1..n : /\ k < mapAt => tmp'[k] = tmp[k] /\ tmp[k] = IF Mapped(k) THEN "buffer" ELSE IF IsPointer(k) THEN "null" ELSE "value"
                        /\ k > mapAt => tmp'[k] = "uninitialized"
                        /\ k = mapAt => tmp'[k] = kind
    BY <1>1, <1>2 DEF BlobsFilled
  <2>2. CASE failed
    BY <1>1, <1>2, <2>1, <2>2 DEF Fills, BlobsFilled
  <2>3. CASE ~ failed
    BY <1>1, <1>2, <2>1, <2>3 DEF Fills, BlobsFilled
  <2> QED
    BY <2>2, <2>3
<1>5. CorruptOnlyByEarlyFailure'
  BY <1>2 DEF CorruptOnlyByEarlyFailure
<1>6. HeapExact'
  <2>1. tmp[mapAt] = "uninitialized"
    BY <1>1, <1>2 DEF BlobsFilled
  <2>2. buffers' = {k \in 1..n : tmp'[k] = "buffer" /\ (k < unmapAt => Size(k) = 0)}
    BY <1>1, <1>2, <2>1 DEF Fills, HeapExact
  <2>3. pc' \in {"map", "unmap"}
    BY <1>2 DEF Fills
  <2> QED
    BY <1>1, <1>2, <2>2, <2>3 DEF HeapExact
<1>7. SyncExact'
  BY <1>1, <1>2 DEF Fills, SyncExact
<1>8. WriteBackExact'
  <2>1. status' # "STATUS_ACCESS_DENIED" /\ syncAt = 1
    BY <1>2 DEF Fills, SyncExact
  <2>2. \A k \in 1..n : Bytes(k, Written(k)) = {}
    BY <1>2, <2>1, NothingWritten
  <2>3. \A k \in 1..n : Bytes(k, Written(k))' = {}
    BY <1>1, <1>2, <2>1, ListFacts, SameList DEF Written, Bytes
  <2> QED
    BY <1>1, <1>2, <2>2, <2>3 DEF WriteBackExact
<1> QED
  BY <1>3, <1>4, <1>5, <1>6, <1>7, <1>8

LEMMA CallRoutineInv ==
  ASSUME MappingInv, [Next]_vars, CallRoutine
  PROVE  MappingInv'
<1> USE DEF MappingInv
<1>1. /\ n' = n /\ n \in Nat /\ lpParameters' = lpParameters
      /\ \A k : (Mapped(k)' <=> Mapped(k)) /\ (IsPointer(k)' <=> IsPointer(k)) /\ Size(k)' = Size(k)
  BY ListFacts, SameList
<1>2. /\ pc = "map" /\ pc' = "sync" /\ mapAt = n + 1 /\ status = "none" /\ status' = "routine's"
      /\ UNCHANGED <<mapAt, syncAt, unmapAt, tmp, blocks, buffers, corrupt, memory, partly>>
      /\ wrote' \subseteq 1..n /\ syncAt = 1
  BY <1>1 DEF CallRoutine, TypeOK, BlobsFilled, heap, SyncExact
<1>3. TypeOK' /\ CorruptOnlyByEarlyFailure'
  BY <1>1, <1>2 DEF TypeOK, CorruptOnlyByEarlyFailure
<1>4. BlobsFilled'
  BY <1>1, <1>2 DEF BlobsFilled
<1>5. HeapExact'
  BY <1>1, <1>2 DEF HeapExact
<1>6. SyncExact'
  BY <1>2 DEF SyncExact
<1>7. WriteBackExact'
  <2>1. \A k \in 1..n : Bytes(k, Written(k)) = {}
    BY <1>2, NothingWritten
  <2>2. \A k \in 1..n : Bytes(k, Written(k))' = {}
    BY <1>1, <1>2, ListFacts, SameList DEF Written, Bytes
  <2> QED
    BY <1>1, <1>2, <2>1, <2>2 DEF WriteBackExact
<1> QED
  BY <1>3, <1>4, <1>5, <1>6, <1>7

-----------------------------------------------------------------------------
(* RtlSyncMappedPtrParameters.                                             *)

(* The parts that only the heap and the mapping are about.                 *)
LEMMA SameHeap ==
  ASSUME MappingInv, [Next]_vars, TypeOK', UNCHANGED <<mapAt, unmapAt, tmp, blocks, buffers, corrupt>>,
         pc \in {"sync"}, pc' \in {"sync", "unmap"},
         status' = status \/ status' = "STATUS_ACCESS_DENIED", status # "STATUS_INVALID_PARAMETER"
  PROVE  BlobsFilled' /\ CorruptOnlyByEarlyFailure' /\ HeapExact'
<1> USE DEF MappingInv
<1>1. /\ n' = n /\ \A k : (Mapped(k)' <=> Mapped(k)) /\ (IsPointer(k)' <=> IsPointer(k)) /\ Size(k)' = Size(k)
  BY SameList
<1>2. status \in {"routine's", "STATUS_ACCESS_DENIED"} /\ mapAt = n + 1 /\ n \in Nat
  BY ListFacts DEF TypeOK, BlobsFilled
<1>3. BlobsFilled'
  BY <1>1, <1>2 DEF BlobsFilled
<1>4. CorruptOnlyByEarlyFailure'
  BY <1>1, <1>2 DEF CorruptOnlyByEarlyFailure
<1>5. HeapExact'
  BY <1>1 DEF HeapExact
<1> QED
  BY <1>3, <1>4, <1>5

LEMMA SkipValueInv ==
  ASSUME MappingInv, [Next]_vars, SkipValue
  PROVE  MappingInv'
<1> USE DEF MappingInv
<1>1. /\ n' = n /\ n \in Nat /\ lpParameters' = lpParameters
      /\ \A k : (WrittenBack(k)' <=> WrittenBack(k)) /\ Size(k)' = Size(k)
  BY ListFacts, SameList
<1>2. /\ pc = "sync" /\ syncAt \in 1..n /\ ~ WrittenBack(syncAt) /\ syncAt' = syncAt + 1
      /\ UNCHANGED <<pc, mapAt, unmapAt, tmp, blocks, buffers, corrupt, wrote, memory, partly, status>>
  BY <1>1 DEF SkipValue, TypeOK, heap, result
<1>3. status = "routine's"
  BY <1>2 DEF BlobsFilled, SyncExact, TypeOK
<1>4. TypeOK'
  BY <1>1, <1>2 DEF TypeOK
<1>5. BlobsFilled' /\ CorruptOnlyByEarlyFailure' /\ HeapExact'
  BY <1>2, <1>3, <1>4, SameHeap
<1>6. SyncExact'
  BY <1>2, <1>3 DEF SyncExact
<1>7. WriteBackExact'
  <2>1. \A k \in 1..n : Written(k)' = Written(k) /\ Output(k)' = Output(k)
    BY <1>1, <1>2, <1>3 DEF Written, Output
  <2>2. \A k \in 1..n : Bytes(k, Written(k))' = Bytes(k, Written(k))
    BY <1>1, <2>1 DEF Bytes
  <2> QED
    BY <1>1, <1>2, <2>1, <2>2 DEF WriteBackExact
<1> QED
  BY <1>4, <1>5, <1>6, <1>7

(* Some bytes of the parameter at syncAt are written: it is the last one   *)
(* over them, whatever was over them before.                               *)
LEMMA WriteExact ==
  ASSUME MappingInv, [Next]_vars, pc = "sync", syncAt \in 1..n, NEW len \in Nat, Write(syncAt, len),
         wrote' = wrote,
         \A k \in 1..n : Written(k)' = IF k = syncAt THEN len ELSE Written(k)
  PROVE  WriteBackExact'
<1> USE DEF MappingInv
<1>1. /\ n' = n /\ n \in Nat /\ lpParameters' = lpParameters
      /\ \A k : (WrittenBack(k)' <=> WrittenBack(k)) /\ Size(k)' = Size(k)
      /\ \A k \in 1..n : lpParameters[k].ulParameter \in Nat /\ Size(k) \in Nat
  BY ListFacts, SameList
<1>2. \A k : Output(k)' = Output(k)
  BY DEF Output
<1>3. status = "routine's"
  BY DEF BlobsFilled, SyncExact, TypeOK
<1>4. \A k \in 1..n : k >= syncAt => Written(k) = 0
  BY <1>1, <1>3 DEF Written, TypeOK
<1>5. \A k \in 1..n : k >= syncAt => Bytes(k, Written(k)) = {}
  BY <1>1, <1>4 DEF Bytes
<1>6. /\ \A k \in 1..n : k # syncAt => Bytes(k, Written(k))' = Bytes(k, Written(k))
      /\ \A k \in 1..n : k = syncAt => Bytes(k, Written(k))' = Bytes(k, len)
  <2>1. ASSUME NEW k \in 1..n, k # syncAt PROVE Bytes(k, Written(k))' = Bytes(k, Written(k))
    <3>1. Written(k)' = Written(k)
      BY <2>1
    <3> QED
      BY <1>1, <3>1 DEF Bytes
  <2>2. ASSUME NEW k \in 1..n, k = syncAt PROVE Bytes(k, Written(k))' = Bytes(k, len)
    <3>1. Written(k)' = len
      BY <2>2
    <3> QED
      BY <1>1, <3>1 DEF Bytes
  <2> QED
    BY <2>1, <2>2
<1> DEFINE over(b) == {k \in 1..n : b \in Bytes(k, Written(k))}
           overNow(b) == {k \in 1..n : b \in Bytes(k, Written(k))'}
<1>7. ASSUME NEW b \in ClientBytes
      PROVE  IF overNow(b) = {} THEN memory'[b] = 0
             ELSE \E k \in overNow(b) : memory'[b] = Output(k) /\ \A j \in overNow(b) : j <= k
  <2>1. CASE b \in Bytes(syncAt, len)
    <3>1. memory'[b] = Output(syncAt)
      BY <2>1 DEF Write
    <3>2. syncAt \in overNow(b)
      BY <1>6, <2>1
    <3>3. \A j \in overNow(b) : j <= syncAt
      <4>1. ASSUME NEW j \in 1..n, j > syncAt PROVE j \notin overNow(b)
        BY <1>5, <1>6, <4>1
      <4> QED
        BY <4>1
    <3> QED
      BY <3>1, <3>2, <3>3
  <2>2. CASE b \notin Bytes(syncAt, len)
    <3>1. memory'[b] = memory[b]
      BY <2>2 DEF Write
    <3>2. overNow(b) = over(b)
      <4>1. ASSUME NEW k \in 1..n PROVE b \in Bytes(k, Written(k))' <=> b \in Bytes(k, Written(k))
        <5>1. CASE k = syncAt
          BY <1>5, <1>6, <2>2, <5>1
        <5>2. CASE k # syncAt
          BY <1>6, <5>2
        <5> QED
          BY <5>1, <5>2
      <4> QED
        BY <4>1
    <3>3. IF over(b) = {} THEN memory[b] = 0
          ELSE \E k \in over(b) : memory[b] = Output(k) /\ \A j \in over(b) : j <= k
      BY DEF WriteBackExact
    <3> QED
      BY <3>1, <3>2, <3>3
  <2> QED
    BY <2>1, <2>2
<1> QED
  BY <1>1, <1>2, <1>7 DEF WriteBackExact

LEMMA WriteBufferInv ==
  ASSUME MappingInv, [Next]_vars, WriteBuffer
  PROVE  MappingInv'
<1> USE DEF MappingInv
<1>1. /\ n' = n /\ n \in Nat /\ lpParameters' = lpParameters
      /\ \A k : (WrittenBack(k)' <=> WrittenBack(k)) /\ Size(k)' = Size(k)
      /\ \A k \in 1..n : Size(k) \in Nat
  BY ListFacts, SameList
<1>2. /\ pc = "sync" /\ syncAt \in 1..n /\ WrittenBack(syncAt) /\ syncAt' = syncAt + 1
      /\ Write(syncAt, Size(syncAt))
      /\ UNCHANGED <<pc, mapAt, unmapAt, tmp, blocks, buffers, corrupt, wrote, partly, status>>
  BY <1>1 DEF WriteBuffer, TypeOK, heap
<1>3. status = "routine's"
  BY <1>2 DEF BlobsFilled, SyncExact, TypeOK
<1>4. TypeOK'
  <2>1. memory' \in [ClientBytes -> 0..n]
    BY <1>1, <1>2 DEF Write, Output, TypeOK
  <2> QED
    BY <1>1, <1>2, <2>1 DEF TypeOK
<1>5. BlobsFilled' /\ CorruptOnlyByEarlyFailure' /\ HeapExact'
  BY <1>2, <1>3, <1>4, SameHeap
<1>6. SyncExact'
  BY <1>2, <1>3 DEF SyncExact
<1>7. WriteBackExact'
  <2>1. \A k \in 1..n : Written(k)' = IF k = syncAt THEN Size(syncAt) ELSE Written(k)
    BY <1>1, <1>2, <1>3 DEF Written
  <2> QED
    BY <1>1, <1>2, <2>1, WriteExact
<1> QED
  BY <1>4, <1>5, <1>6, <1>7

LEMMA WriteFailsInv ==
  ASSUME MappingInv, [Next]_vars, WriteFails
  PROVE  MappingInv'
<1> USE DEF MappingInv
<1>1. /\ n' = n /\ n \in Nat /\ lpParameters' = lpParameters
      /\ \A k : (WrittenBack(k)' <=> WrittenBack(k)) /\ Size(k)' = Size(k)
      /\ \A k \in 1..n : Size(k) \in Nat
  BY ListFacts, SameList
<1>2. /\ pc = "sync" /\ pc' = "unmap" /\ syncAt \in 1..n /\ WrittenBack(syncAt) /\ syncAt' = syncAt
      /\ status' = "STATUS_ACCESS_DENIED"
      /\ UNCHANGED <<mapAt, unmapAt, tmp, blocks, buffers, corrupt, wrote>>
  BY <1>1 DEF WriteFails, CannotWrite, TypeOK, heap
<1>3. PICK len \in 0..(Size(syncAt) - 1) : partly' = len /\ Write(syncAt, len)
  BY DEF WriteFails, CannotWrite
<1>4. len \in Nat /\ len < Size(syncAt) /\ status = "routine's"
  BY <1>1, <1>2, <1>3 DEF BlobsFilled, SyncExact, TypeOK
<1>5. TypeOK'
  <2>1. memory' \in [ClientBytes -> 0..n]
    BY <1>1, <1>2, <1>3 DEF Write, Output, TypeOK
  <2> QED
    BY <1>1, <1>2, <1>3, <1>4, <2>1 DEF TypeOK
<1>6. BlobsFilled' /\ CorruptOnlyByEarlyFailure' /\ HeapExact'
  BY <1>2, <1>4, <1>5, SameHeap
<1>7. SyncExact'
  BY <1>1, <1>2, <1>3, <1>4 DEF SyncExact
<1>8. WriteBackExact'
  <2>1. \A k \in 1..n : Written(k)' = IF k = syncAt THEN len ELSE Written(k)
    BY <1>1, <1>2, <1>3, <1>4 DEF Written
  <2> QED
    BY <1>1, <1>2, <1>3, <1>4, <2>1, WriteExact
<1> QED
  BY <1>5, <1>6, <1>7, <1>8

LEMMA SyncReturnsInv ==
  ASSUME MappingInv, [Next]_vars, SyncReturns
  PROVE  MappingInv'
<1> USE DEF MappingInv
<1>1. /\ n' = n /\ n \in Nat /\ lpParameters' = lpParameters
  BY ListFacts, SameList
<1>2. /\ pc = "sync" /\ pc' = "unmap" /\ syncAt = n + 1
      /\ UNCHANGED <<mapAt, syncAt, unmapAt, tmp, blocks, buffers, corrupt, wrote, memory, partly, status>>
  BY <1>1 DEF SyncReturns, TypeOK, heap, result
<1>3. status = "routine's"
  BY <1>2 DEF BlobsFilled, SyncExact, TypeOK
<1>4. TypeOK' /\ SyncExact'
  BY <1>1, <1>2, <1>3 DEF TypeOK, SyncExact
<1>5. BlobsFilled' /\ CorruptOnlyByEarlyFailure' /\ HeapExact'
  BY <1>2, <1>3, <1>4, SameHeap
<1>6. WriteBackExact'
  BY <1>2, SameResult
<1> QED
  BY <1>4, <1>5, <1>6

-----------------------------------------------------------------------------
(* RtlUnmapPtrParameters, and the end of WorkerThread.                     *)

LEMMA UnmapStepInv ==
  ASSUME MappingInv, [Next]_vars, UnmapStep
  PROVE  MappingInv'
<1> USE DEF MappingInv
<1>1. /\ n' = n /\ n \in Nat /\ lpParameters' = lpParameters
      /\ \A k : (Mapped(k)' <=> Mapped(k)) /\ (IsPointer(k)' <=> IsPointer(k)) /\ Size(k)' = Size(k)
      /\ \A k \in 1..n : Size(k) \in Nat
  BY ListFacts, SameList
<1>2. PICK k \in 1..n : UnmapAt(k) /\ (KeepBlob(k) \/ DeleteBuffer(k) \/ DeleteGarbage(k))
  BY DEF UnmapStep
<1>3. /\ pc = "unmap" /\ unmapAt = k /\ unmapAt' = k + 1
      /\ UNCHANGED <<lpParameters, mapAt, syncAt, tmp, wrote, memory, partly, status>>
      /\ pc' \in {"unmap", "crashed"} /\ blocks' \subseteq blocks /\ buffers' \subseteq buffers
      /\ corrupt' \in BOOLEAN
  BY <1>2 DEF UnmapStep, UnmapAt, KeepBlob, DeleteBuffer, DeleteGarbage, heap, result, TypeOK
<1>4. TypeOK'
  BY <1>1, <1>3 DEF TypeOK
<1>5. status # "none"
  BY <1>3 DEF BlobsFilled
<1>6. BlobsFilled'
  BY <1>1, <1>3, <1>5 DEF BlobsFilled
<1>7. SyncExact' /\ WriteBackExact'
  BY <1>1, <1>3, SameResult DEF SyncExact
<1>8. CASE KeepBlob(k) \/ DeleteBuffer(k)
  <2>1. ~ corrupt => k \in buffers \/ tmp[k] # "buffer"
    BY <1>3 DEF HeapExact
  <2>2. corrupt' = corrupt /\ pc' = pc /\ blocks' = blocks
    BY <1>3, <1>8, <2>1 DEF KeepBlob, DeleteBuffer, heap, TypeOK
  <2>3. ~ corrupt => buffers' = {j \in 1..n : tmp[j] = "buffer" /\ (j < k + 1 => Size(j) = 0)}
    <3>1. ~ corrupt => buffers = {j \in 1..n : tmp[j] = "buffer" /\ (j < k => Size(j) = 0)}
      BY <1>3 DEF HeapExact
    <3>2. \A j \in 1..n : j < k + 1 <=> j < k \/ j = k
      OBVIOUS
    <3>3. CASE KeepBlob(k)
      BY <3>1, <3>2, <3>3 DEF KeepBlob, heap
    <3>4. CASE DeleteBuffer(k)
      BY <1>1, <3>1, <3>2, <3>4 DEF DeleteBuffer
    <3> QED
      BY <1>8, <3>3, <3>4
  <2>4. CorruptOnlyByEarlyFailure'
    BY <1>1, <1>3, <2>2 DEF CorruptOnlyByEarlyFailure
  <2>5. HeapExact'
    BY <1>1, <1>3, <2>2, <2>3 DEF HeapExact
  <2> QED
    BY <1>4, <1>6, <1>7, <2>4, <2>5
<1>9. CASE DeleteGarbage(k)
  <2>1. tmp[k] = "uninitialized"
    BY <1>9 DEF DeleteGarbage
  <2>2. status = "STATUS_INVALID_PARAMETER" /\ mapAt < n
    <3>1. k > mapAt
      BY <1>1, <1>3, <1>5, <2>1 DEF BlobsFilled, TypeOK
    <3> QED
      BY <1>1, <1>5, <3>1 DEF BlobsFilled, TypeOK
  <2>3. CorruptOnlyByEarlyFailure'
    BY <1>1, <1>3, <2>2 DEF CorruptOnlyByEarlyFailure
  <2>4. HeapExact'
    <3>1. CASE corrupt'
      BY <3>1 DEF HeapExact
    <3>2. CASE ~ corrupt'
      <4>1. UNCHANGED <<pc, blocks, buffers, corrupt>>
        BY <1>9, <3>2 DEF DeleteGarbage, heap
      <4>2. \A j \in 1..n : tmp[j] = "buffer" => (j < k + 1 <=> j < k)
        BY <2>1
      <4> QED
        BY <1>1, <1>3, <3>2, <4>1, <4>2 DEF HeapExact
    <3> QED
      BY <3>1, <3>2
  <2> QED
    BY <1>4, <1>6, <1>7, <2>3, <2>4
<1> QED
  BY <1>2, <1>8, <1>9

LEMMA DeleteBlocksInv ==
  ASSUME MappingInv, [Next]_vars, DeleteList \/ DeleteCall
  PROVE  MappingInv'
<1> USE DEF MappingInv
<1>1. /\ n' = n /\ n \in Nat /\ lpParameters' = lpParameters
      /\ \A k : (Mapped(k)' <=> Mapped(k)) /\ (IsPointer(k)' <=> IsPointer(k)) /\ Size(k)' = Size(k)
  BY ListFacts, SameList
<1>2. /\ pc \in {"unmap", "reply"} /\ pc' \in {"reply", "done"} /\ blocks' \subseteq blocks /\ corrupt' \in BOOLEAN
      /\ UNCHANGED <<mapAt, syncAt, unmapAt, tmp, buffers, wrote, memory, partly, status>>
  BY DEF DeleteList, DeleteCall, DeleteBlocks, result, TypeOK
<1>3. TypeOK'
  BY <1>1, <1>2 DEF TypeOK
<1>4. BlobsFilled'
  BY <1>1, <1>2 DEF BlobsFilled
<1>5. SyncExact' /\ WriteBackExact'
  BY <1>1, <1>2, SameResult DEF SyncExact
<1>6. ~ corrupt => ~ corrupt'
  BY DEF DeleteList, DeleteCall, DeleteBlocks, HeapExact
<1>7. CorruptOnlyByEarlyFailure'
  BY <1>1, <1>2, <1>6 DEF CorruptOnlyByEarlyFailure, TypeOK
<1>8. HeapExact'
  <2>1. CASE DeleteList
    BY <1>1, <1>2, <2>1 DEF DeleteList, DeleteBlocks, HeapExact, TypeOK
  <2>2. CASE DeleteCall
    BY <1>1, <1>2, <2>2 DEF DeleteCall, DeleteBlocks, HeapExact, TypeOK
  <2> QED
    BY <2>1, <2>2
<1> QED
  BY <1>3, <1>4, <1>5, <1>7, <1>8

-----------------------------------------------------------------------------
(* For every list of parameters, of any length and sizes, over buffers that*)
(* overlap or not: the heap and the client's memory are exact.             *)
(* Code: RtlMapPtrParameters 101-128, RtlUnmapPtrParameters 129-136,       *)
(* RtlSyncMappedPtrParameters 137-148, WorkerThread 218-227 and 244-245.   *)
THEOREM MappingInvariance == Spec => []MappingInv
<1>1. Init => MappingInv
  <2> SUFFICES ASSUME Init PROVE MappingInv
    OBVIOUS
  <2>1. lpParameters \in Seq(Arg)
    <3>1. PICK m \in 0..MaxArgs : lpParameters \in [1..m -> Arg]
      BY DEF Init
    <3>2. m \in Nat
      BY ArgAssumption
    <3>3. [1..m -> Arg] \in {[1..k -> Arg] : k \in Nat}
      BY <3>2, Zenon
    <3>4. Seq(Arg) = UNION {[1..k -> Arg] : k \in Nat}
      BY SeqDef, Zenon
    <3> QED
      BY <3>1, <3>3, <3>4, Zenon
  <2>2. n \in Nat
    BY <2>1 DEF n
  <2>3. TypeOK
    <3>1. memory \in [ClientBytes -> 0..n]
      BY <2>2 DEF Init
    <3>2. 1 \in 1..(n + 1)
      BY <2>2
    <3> HIDE DEF n
    <3> QED
      BY <2>1, <3>1, <3>2 DEF Init, TypeOK
  <2>4. BlobsFilled /\ CorruptOnlyByEarlyFailure /\ SyncExact
    BY DEF Init, BlobsFilled, CorruptOnlyByEarlyFailure, SyncExact
  <2>5. HeapExact
    BY DEF Init, HeapExact
  <2>6. WriteBackExact
    <3>1. \A k \in 1..n : Bytes(k, Written(k)) = {}
      BY <2>3, NothingWritten DEF Init
    <3> QED
      BY <3>1 DEF Init, WriteBackExact
  <2> QED
    BY <2>3, <2>4, <2>5, <2>6 DEF MappingInv
<1>2. MappingInv /\ [Next]_vars => MappingInv'
  <2> SUFFICES ASSUME MappingInv, [Next]_vars PROVE MappingInv'
    OBVIOUS
  <2>1. CASE CopyValue \/ CopyBuffer \/ MapFails
    BY <2>1, MapSteps, FillsInv
  <2>2. CASE UNCHANGED vars
    <3>1. n' = n /\ \A k : /\ (Mapped(k)' <=> Mapped(k)) /\ (IsPointer(k)' <=> IsPointer(k))
                           /\ Size(k)' = Size(k)
      BY SameList
    <3>2. TypeOK' /\ BlobsFilled' /\ CorruptOnlyByEarlyFailure' /\ HeapExact' /\ SyncExact'
      BY <2>2, <3>1 DEF vars, heap, result, MappingInv, TypeOK, BlobsFilled,
         CorruptOnlyByEarlyFailure, HeapExact, SyncExact
    <3>3. WriteBackExact'
      BY <2>2, SameResult DEF vars, result, MappingInv
    <3> QED
      BY <3>2, <3>3 DEF MappingInv
  <2> QED
    BY <2>1, <2>2, AllocateListInv, CallRoutineInv, SkipValueInv, WriteBufferInv, WriteFailsInv,
       SyncReturnsInv, UnmapStepInv, DeleteBlocksInv DEF Next, Finished
<1> QED
  BY <1>1, <1>2, PTL DEF Spec

(* Blocks of a call leave the heap once and completely, but for the two    *)
(* kinds the code forgets, unless an early mapping fails.                  *)
THEOREM HeapStaysExact == Spec => []HeapExact
<1>1. MappingInv => HeapExact
  BY DEF MappingInv
<1> QED
  BY <1>1, MappingInvariance, PTL

(* The client finds in every byte what the last parameter over it left.    *)
THEOREM WriteBackStaysExact == Spec => []WriteBackExact
<1>1. MappingInv => WriteBackExact
  BY DEF MappingInv
<1> QED
  BY <1>1, MappingInvariance, PTL

(* The status tells how far the parameters have been written back: not at  *)
(* all, completely, or up to the one that could not be.                    *)
THEOREM SyncStaysExact == Spec => []SyncExact
<1>1. MappingInv => SyncExact
  BY DEF MappingInv
<1> QED
  BY <1>1, MappingInvariance, PTL

(* RtlUnmapPtrParameters corrupts the heap only after a mapping that       *)
(* failed before the last parameter: with the fix of that one path no list *)
(* of parameters, however long, could corrupt it.                          *)
THEOREM OnlyEarlyFailuresCorrupt == Spec => []CorruptOnlyByEarlyFailure
<1>1. MappingInv => CorruptOnlyByEarlyFailure
  BY DEF MappingInv
<1> QED
  BY <1>1, MappingInvariance, PTL
=============================================================================
