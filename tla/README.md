# ServiceCall in TLA+

ServiceCall is a Windows library for calling functions of another process. A
*service* registers a routine under a name with a list of parameter types; a
*client* calls it by name with a list of parameters, which travel over NT LPC
ports; pointer parameters are copied from the client's memory and back. This
directory holds a TLA+ model of the library, TLC runs and TLAPS proofs.

Paths such as `ServiceCall.cpp:279` are relative to `src/ServiceCall/`.

## Inventory

| Component | State | Operations | Correct when |
|---|---|---|---|
| Registration API (`ScRegisterServiceRoutineW`, `ScUnregisterServiceRoutine`) | a `SERVICE_ROUTINE`: `hPort`, `lpRoutine`, `lpParameters`, `CloseEvent` | create port, start wait thread; set `CloseEvent`, close port | the `SERVICE_ROUTINE` is not freed while it is read; a closed service serves nobody |
| Wait thread (`WaitThread`, one per registration) | message buffer `lm`, pointer `callparam` into it, the `SERVICE_ROUTINE` copy `param` | listen, open client process, compare lists, refuse or accept, complete, receive, capture, start worker | a worker gets what was checked; handles are kept or closed; the loop ends |
| Worker thread (`WorkerThread`, one per call) | its `SERVICE_ROUTINE` copy, mapped parameters, reply | enter list, map, run, sync, reply, leave list, close | the client gets the status of its own run; its handle is closed after the routine |
| Client id list (`client_id_list`, `RtlClientId`) | vector of (process handle, thread id) under a critical section | push, find, erase | a routine finds exactly its caller, with a valid handle |
| Client call (`ScServiceCallW`) | `hPort`, `lm`, `status` | check, connect, request, reply, close | it returns; what it returns is true |
| LPC ports and handles (`NtPort.cpp`, the kernel) | handle table, connections | the `Nt...` calls | external |
| Initialization (`ScInitializeService`) | `lpCriticalSection`, `client_id_list`, `system_lpc_message_length` | one-time set-up | once, and complete before use |
| Parameter marshalling (`RtlCaptureParameters`, `RtlMapPtrParameters`, `RtlUnmapPtrParameters`, `RtlSyncMappedPtrParameters`, `RtlEqualParameterType`) | parameter lists and buffers | validate, copy in, copy out, free | every buffer freed once, nothing else |
| Call thunks (`x64.asm`, `__x86ServiceCall`) | registers, stack | spread parameters, call | stack balanced, arguments in order |
| ANSI variants, string helpers, native wrappers, status codes, example programs | none | forward | - |

**How they interact.** The registration API creates the port and the wait
thread, and later closes the port; it and the wait thread share the
`SERVICE_ROUTINE` with no lock. A wait thread hands a copy to each worker.
Workers share `client_id_list` under a critical section. All threads share the
handle table of the process: a handle closed by one may be another's by the
time a third uses the number. Clients meet the service only in LPC messages.

**What is hard.** Registering, waiting, working and calling interleave at every
kernel call. `CloseEvent` and the port are changed in two steps while the wait
thread looks at both. Initialization publishes its statics one by one. A list of
parameters is checked in one place, sent from another and captured in a third.
Handle values are reused. The wait thread's one buffer holds the connection
request and then the request message while a pointer into it stays in use.
Clients die in the middle of the handshake. Their other threads rewrite a list
while it is read, and a list can be longer than what carries it. Listening, thread creation, and
every allocation and copy of a parameter can fail. `PROJECT.json` lists these
hazards at their lines.

## Modules

The library falls into four specifications, which meet at narrow places.

| Module | Models |
|---|---|
| `HandleTable` | the kernel's handle table (external): which object a handle value names, which values are free, whether closed values come back (`Recycle`) and which one is picked (`Alloc`) |
| `ServiceState` | constants, the variables all threads share, types, closing of handles and its effect on LPC connections |
| `Registration` | `CreatePort`, `StartWaitThread`; `SetCloseEvent`, `ClosePort` |
| `WaitThread` | the loop of `WaitThread`, one action per kernel call or branch |
| `WorkerThread` | `WorkerThread` and `RtlClientId`, with the client list as a set and each access to it one step |
| `ClientCall` | `ScServiceCallW` and the death of a client |
| `ServiceCall` | the composition: `Init`, `Next`, `Spec`, `FairSpec`, and the properties |
| `ServiceContract` | the abstract specification: services that open and close, calls that run at most one routine and report what happened |
| `ClientIdList` | the client list itself: `ScInitializeService` statement by statement, the critical section, the vector and the two loops over it |
| `ClientIds` | the abstract specification of that list: the set that `WorkerThread` works with |
| `ParameterMapping` | the memory of one call: heap blocks and client bytes under `RtlMapPtrParameters`, `RtlSyncMappedPtrParameters` and `RtlUnmapPtrParameters` |
| `ParameterPath` | one parameter list from the client into the routine's registers and stack: probes, `RtlCaptureParameters`, connection information, `RtlEqualParameterType`, the x86 narrowing, `__x64ServiceCall` and `__x86ServiceCall` |
| `MCServiceCall`, `MCClientIdList`, `MCParameterMapping`, `MCParameterPath` | values for TLC |
| `ServiceCallProofs` | types, handles, the life of a `SERVICE_ROUTINE` |
| `CallProofs` | a call from its wait thread to its worker |
| `HandleProofs` | the client that `RtlClientId` finds; who holds which handle |
| `ContractProofs` | `ServiceCall` implements `ServiceContract` |
| `ProgressProofs` | every call is in some thread's care |
| `ClientIdListProofs` | the vector and its lock; `ClientIdList` implements `ClientIds` |
| `ParameterMappingProofs`, `ParameterPathProofs` | the loops over parameters, for lists of any length |

`ServiceCall` composes `Registration`, `WaitThread`, `WorkerThread` and
`ClientCall`. What it takes as one step, the others take apart: its
`client_id_list` is `ClientIds`, which `ClientIdList` implements; its parameter
list is one value, compared and captured as a whole, which `ParameterPath` goes
through parameter by parameter (the one value stands for a list that the connection
information holds and that nobody rewrites under the call: what becomes of the
others is in `ServesRegistered` and `ArgumentsExact`); its steps `map` and `sync`, each of which
succeeds or fails, are the loops of `ParameterMapping`.

A few definitions are commented *Mutant*: each is a plausible bug in the code,
used to see that a property fails when that bug is put in place of the
definition that follows. The specifications do not use them.

### State and code: the system

- A *registration* `r` is one call of `ScRegisterServiceRoutineW` with its
  `SERVICE_ROUTINE` and wait thread. `api[r]` is its progress through register
  and unregister and ends in the status last returned; `hPort`, `CloseEvent`
  are fields of the `SERVICE_ROUTINE`; `wait[r]` names the wait thread's next
  kernel call; `current[r]` and `lmData[r]` say whose message is in `lm` and
  which parameter list its data area holds.
- A *call* `c` is one `ScServiceCallW` in a client process of its own, together
  with its connection, the copy `param` made for it (`routine`,
  `hClientProcess`, `hServerPort`, `lpParameters`) and its worker
  (`worker[c]`, `reply[c]`). The worker's thread id is `c`.
- `conn[c]` is the state of the LPC connection: `pending` in the port's queue,
  `received` by the wait thread, `accepted`, `connected`, `requested`,
  `serving`, `replied`, `acked`; or `refused`, `closed`.
- A parameter list is one value (`Shapes`) that stands for its count and masks;
  `ValidShapes` are those `RtlCaptureParameters` accepts. Two lists are of
  equal type iff they are equal values. A routine's status is named by its
  registration, so a status that reaches the wrong client shows.
- `ran[c]` is a history variable: the routine entered for the call.

Where a handler makes several kernel calls with no branch in between whose
order nobody else can see, they are one step: the refusal with the `NtClose`
after it, and a worker's two `NtClose` calls.

### State and code: the parts

**`ClientIdList`.** *Callers* are the threads that call `ScInitializeService`
(289-295) and then `ScRegisterServiceRoutineW`, of which the check of lines
323-325 is modelled here. A critical section and a vector are named by the
caller that made them, so two of each are told apart; `initialized` are those
`InitializeCriticalSection` has been called for. *Workers* are thread ids: an id
is free again when its thread ends. `Acquire`, `Release` are
`EnterCriticalSection` and `LeaveCriticalSection`; `pos` is the loop's iterator,
and every turn of the loop of `RtlSafeThreadServiceClientId` (`FindStep`) and of
the one that erases (`EraseStep`) is a step. The iterator is a position in the
vector: that nobody else changes the vector while one is in use is `OneInside`.

**`ParameterMapping`.** `lpParameters` is the captured list, of which only the
kind, the address and the size of each parameter matter. `mapAt`, `syncAt` and
`unmapAt` are the counters of the three loops, `tmp` what the new list holds in
each `ulParameter` (nothing yet: `uninitialized`), `blocks` and `buffers` what of
the call is in the heap. A pointer that may not be null (`PT`) may be null all the
same: only the client checks it (397-405), in memory that its other threads can
change, and the service compares masks alone. `RtlMapPtrParameters` does not look
either (117-119): reading bytes at 0 fails, and of a size of 0 nothing is read, so
that the parameter gets a buffer. A byte of the client is 0, or names the parameter that
was last written over it. Each allocation, read and write can fail, a write
after some of its bytes. What `delete[]` does with a pointer that was never set
is undefined: it may do nothing, end the process, or take one of the call's own
blocks.

**`ParameterPath`.** A mask is the set of its bits. Readable memory is counted
in dwords (`accessible`): two for the header of a list, then four for each
parameter. A list may be shorter in memory than it says. The code reads the
caller's own memory again and again: the count for the probe (328, 390), for the
turns of the loop over the pointers (397) and for an allocation (88), again before
each parameter (89), each mask to check it (90) and again to copy it (96), and at
last the whole list to send it (412). `Rewrite` lets another thread of the service or of
the client fill the list in again, count, masks and pointers, before each of these
reads that follows the probe; `rewritten` says under whom that happened. `capacity` is
the room in the block that line 88 allocates, whose size wraps on x86
(`InSize`) as the length of 390 does on both (`sent`); a parameter copied
behind it is an `overrun`.

`NtConnectPort` carries `Arrived` parameters: no more than length counts, and no
more than the connection information holds (`MaxInfo`; 31 on x64 and 15 on x86).
They lie in `lm`, which has room for `MaxMessage` parameters (36 and 20). Between
the two is what earlier messages left, which stays as it is while `lm` is in use:
`Compare` settles it when it is looked at. Behind `lm` is the heap, which may end
(`accessible` in `Connect`) and changes with the other threads of the service, so
each read there finds any mask of `Stale` (`MaskAt`), the capture of 278 another one
than the comparison of 263. A capture that is null there is dereferenced (`NullCapture`).
`OpenClient` is the other half of the condition of 260-264. The thunks go push by
push on `stack`, which ends with what they leave for their caller.

### The contract

`ServiceContract` has no threads, ports or handles. `ServiceCall` implements it
(`ImplementsContract`, `INSTANCE ServiceContract WITH ...`): a service is open
from `NtCreatePort` to `NtClose`, and a call has returned when `ScServiceCallW`
has. The contract says: a name has one open service; a call runs a routine at
most once, never after it has returned, and only the routine offered under its
name with its parameter list; success carries the status of that run (or says
that parameters could not be read, and nothing ran, or could not be written
back); an error means that nothing ran; `STATUS_INVALID_PARAMETER_1` is
returned only when no such service is open, and `STATUS_UNSUCCESSFUL` only when
one has been closed. It does not say that a closed service runs nothing more:
the code does not keep to that (see Findings). Nor does the code keep to names where
closed handle values come back (finding 2). The contract's constant `StaleRuns`,
which is `Recycle`, then lets a *closed* service run its routine for a call to
another name, with the same parameter list; open services are as strict as ever.

`ClientIds`, the contract of `RtlClientId`, says: from entering to leaving the
list a worker's thread finds its own client and no other; a thread that has not
entered, or has left, finds nothing.

## Assumptions about what is outside src/

- The kernel delivers to a server communication port the messages of that
  connection. (`NtReplyWaitReceivePort` takes no filter, and
  `ServiceCall.cpp:272` never looks at the message type; the code relies on it.)
- `NtListenPort`, on a value that is an open connection port, blocks until a
  request comes; on any other value it fails. It takes any queued request.
  With `SpuriousListen` it may also fail on an open port.
- Closing a connection port fails the requests queued at it and leaves accepted
  connections alone; closing one end of a connection ends it for the other.
- `NtAcceptConnectPort`, `NtCompleteConnectPort` and `NtReplyWaitReceivePort`
  (270-272) fail only when the client has died. Should one fail for a living client,
  the code takes the same path (`DropParam`), and that client, connected to a server port
  that nobody holds any more, waits as it does in finding 3.
- A dead client's connection is closed; a connection request it left in a queue
  can still be received, but not accepted. Its process number may be another
  process's.
- `OpenProcess`, reading and writing the client's memory may fail at any time.
  `CreateThread` fails only with `ThreadFailures`.
- `NtCreatePort` fails only when the name is taken.
- A thread id is given out again only when its thread has ended, and a handle
  value only when it was closed. `InitializeCriticalSection`, and `new` without
  `std::nothrow`, do not fail.
- Which memory of a list can be read does not change during the call, only what it
  holds. `NtConnectPort` reads only what `length` counts, which was probed. Nothing
  can be read at address 0, and an address that is not 0 is not 0 in its low half.
- A routine has the registered type: on x86 it takes its arguments off the
  stack, and on x64 it may change their words but nothing above them.

## Runs

| Run | Instance | States | Shows |
|---|---|---|---|
| `contract` | 2 registrations, 1 call, 2 names, 3 lists, failing `CreateThread` | 381 000 | `NoUseAfterFree`, `OnlyNamedServiceRuns`, `ContractInv`, `NoneForgotten`, `NoneTakenLate`, `ImplementsContract` |
| `one_service` | 1 registration, 2 calls, 2 names, 3 lists, recycling | 107 000 | `CapturedAsChecked`, `ClientIdsExact`, `HandlesAccounted`, `HeldHandlesValid`, `IInv`, `CallInv`, `IdInv`, `AccountInv`, `NoneForgotten`, `ImplementsContract` |
| `faults` | 3 registrations, 1 call, 1 name, 2 lists, failing `CreateThread` and `NtListenPort` | 539 000 | `CallInv`, `HeldInv`, `ClientIdsExact` |
| `liveness` | 2 registrations, 1 call, 1 name, 2 lists, recycling, under `FairSpec` | 26 000 | `CallReturns`, `ClientHandleInvalidated`, `WaitThreadExits` |
| `client_list` | 1 initializing thread, 3 workers, 3 processes, 3 calls, under `FairSpec` | 209 000 | `ListInv`, `FindsClient`, `ImplementsClientIds`, `WorkersLeave` |
| `mapping` | every list of up to 3 parameters over 3 client bytes | 212 000 | `MappingInv`, `HeapExact`, `SyncExact`, `WriteBackExact`, `CorruptOnlyByEarlyFailure` |
| `parameters` | 10 lists, each rewritten once to any other, x64 and x86 | 412 000 | `PathInv`, `FaultsExact`, `RefusalsExact`, `ServesRegistered`, `ArgumentsExact`, `SizesExact`, `StackExact` |
| `run_after_unregister`, `stale_port`, `lost_worker`, `init_not_supported`, `map_failure` | the smallest that shows it | | the findings below |

**Bounds of the system.** `Regs` and `Calls` bound the number of registrations
and calls. Threads of two registrations meet only in the handle table, at a
port's name and in the client list, and each of these takes two to go wrong; the
calls of one registration meet in its one message buffer and its queue, again
two. Each run has several of one kind and one of the other, with more kinds of data
than would fit with several of both: a name with no service, an invalid list, and a
valid one that is not the registered one. `faults` has three registrations, so that a
freed `SERVICE_ROUTINE` can be taken for either of two others. The six handle values
are all that these instances need, so the table never refuses a call. Handle values
are numbers and the lowest free one is picked: with `Recycle` a closed value comes
back at once, which is when a stale one does harm. `one_service` recycles; `contract`
does not, so that its contract is the strict one and `OnlyNamedServiceRuns` and
`NoneTakenLate` hold; `stale_port` recycles with two registrations, and finds the
first of them violated. `liveness` recycles with two registrations too, so that a wait
thread can meet its old number as the other's port; that two clients of one wait thread
both get on is `NoneForgotten` in `one_service`. Several registrations with several calls, and every other way
to pick handle values, are covered by the proofs, which bound nothing. Symmetry
(registrations, calls, names, valid lists) is used in runs of safety properties
only. Each registration goes once through register and unregister and each call
is made once; registering again is another registration.

**Bounds of the parts.** `client_list`: three workers are one before, one at and
one behind an element of the vector, and `MaxCalls` 3 lets an id be used three
times; a routine calls `RtlClientId` once or not at all. `mapping`: three
parameters are one before, one at and one behind a failure; sizes 0 to 2 at
addresses 1 and 2 overlap fully, partly and not at all, and pointers of both kinds can
be null. `parameters`: `MaxInfo` 2, `MaxMessage` 4 and `LengthModulus` 6 stand
for 31, 36 and 2^28 (15, 20 and 2^28 on x86). The lists have up to two parameters of each kind,
valid and not, and 3 to 6 parameters: behind the connection information, at the
end of `lm`, behind `lm`, and with a length that wraps to none; 3, 4 and 5 are odd and even
stacks and the step beyond the registers. `Readable` has every number of dwords up to 6, and above
that the ones at and just before the end of a parameter. `MaxRewrites` 1: one list takes
the place of any other at any read, in the service or in the client. `Stale` has a mask that
agrees with the lists, one that does not and one that is rejected. The proofs have
none of these bounds.

Deadlock is checked in every run: the only states that stop are `Finished`,
where every call is over, and in `ServiceCall` every registration closed.

**Fairness.** `FairSpec` of `ServiceCall` assumes weak fairness of each thread:
of the steps of a wait thread, a worker, a client inside its call, and of the
API calls that have been begun. The code's threads run unconditionally between
blocking kernel calls, and Windows schedules every ready thread. It includes
that a routine returns. Nobody is obliged to register, unregister, call or die.
`FairSpec` of `ClientIdList` assumes the same of each worker. A critical section
is not handed over in the order of arrival: that a waiting worker gets it
(`WorkersLeave`) rests also on every other worker leaving for good after three
accesses, with no more than `MaxCalls` calls. A service under endless load would
need strong fairness, which Windows does not promise.

## Properties

The system:

- `CapturedAsChecked`: a worker's parameter list is the registered one and the
  client's, though `callparam` points into a buffer that is overwritten between
  comparison (263) and capture (278). It holds because the client sends its
  request with no data (421-424), and fails in a mutant that sends some.
- `ClientIdsExact`: a routine finds exactly the live handle of its own client;
  before it enters and after it leaves the list, nothing is found.
- `OnlyNamedServiceRuns`: the routine that runs was registered under the call's name,
  where closed handle values do not come back.
- `NoneTakenLate`: once a service is unregistered its wait thread takes no call, though
  it listens once more. It bounds finding 1: what still runs had been taken before.
- `HeldHandlesValid`, `HandlesAccounted`: no thread closes another's handle,
  and no handle is lost, with the one exception the code has: the server port
  of a client that dies before its request is served (273-275).
- `NoUseAfterFree`: the `SERVICE_ROUTINE` is freed after the last read.
- `ImplementsContract`: above.
- `CallReturns`, `ClientHandleInvalidated`: progress of calls and workers.
- `WaitThreadExits`: the wait thread of an unregistered service leaves its loop, unless
  its closed port's number is another registration's port again and again, or for good. The exception
  is finding 2's: `NtListenPort` on that number then blocks or serves, and need never
  fail. Without it the property is violated by the same instance, as soon as the other registration
  keeps its port.
- `NoneForgotten`: the part of progress that is an invariant. Whoever waits, queued
  at a port, taken by a wait thread or for an answer, has a thread with a step left
  to take for it; only a thread that could not be created forgets a call.
- `IInv`, `HeldInv`, `CallInv`, `IdInv`, `AccountInv`, `ContractInv`: the inductive invariants
  of the proofs, described there. Their parts say why the code is right, and each
  of them is a claim about several threads that a run can refute.

The parts:

- `ListInv`, `ImplementsClientIds`: one worker at a time inside, one exact element
  for each listed thread though ids are reused, and walks that have missed
  nothing; so `FindsClient`. `WorkersLeave`: nobody waits at the lock for ever.
- `HeapExact`: every block of a call leaves the heap once; what is left over is
  the captured list (278, freed nowhere) and buffers of size 0 (132).
  `CorruptOnlyByEarlyFailure`: what breaks the heap is finding 5 and nothing else.
- `SyncExact`, `WriteBackExact`: what the client finds in its memory: nothing has
  changed when a parameter could not be mapped; everything was written when the status
  is left to the routine; or the parameters up to the first one that could not be written. (The
  model keeps the library's two statuses apart from the routine's. A client cannot,
  if its routine returns `STATUS_ACCESS_DENIED` itself.)
- `FaultsExact`: where memory is read that was not probed, or written behind a block:
  only if other threads rewrite the list, a length wraps, the last dword of a
  registered list cannot be read, or a registered list is longer than `lm`. Every other
  unreadable list is answered. `RefusalsExact`: who is refused, unless other threads rewrite
  the list: one with an error in it, a client that cannot be opened, another list than the
  registered one, and one that has not all arrived.
- `ServesRegistered`: the worker's list, which is not looked at again, has the registered
  masks as far as `lm` reaches, whatever the client's threads rewrite before it is sent;
  and its capture (278), which is not checked, is null only where a list goes on
  behind `lm`, or where the service rewrote the list it registered.
- `ArgumentsExact`: argument k of the routine is made from parameter k, in its register or
  on its place of the stack. Those that have arrived are the client's, a value, a
  buffer, or a null that the type allows; and a list that the connection information holds
  arrives whole unless it is rewritten. What a longer list's other arguments hold is
  left from earlier messages: an observation below, and no claim of the property.
- `SizesExact`, `StackExact`: the bytes of each argument, an aligned stack, and the
  thunk gives the stack back.

## Findings

1. `run_after_unregister`: after `ScUnregisterServiceRoutine` has succeeded, calls
   already received, and workers already started, still enter the routine and
   succeed; README.md:65 says that the routine stops immediately and the calls
   fail.
2. `stale_port`: the wait thread listens once more on the closed port *number*. If
   it has become another service's port, the old thread takes a client of
   that service and runs the unregistered routine for it.
3. `lost_worker`: `CreateThread` failing in the wait thread is not noticed
   (279); the client hangs.
4. `init_not_supported`: `ScInitializeService` tells a second thread that the
   library is initialized as soon as `lpCriticalSection` is set (290-294). Until
   `client_id_list` is set too, that thread's `ScRegisterServiceRoutineW` returns
   `STATUS_NOT_SUPPORTED`, "No initialization function called"
   (ServiceCall.h:180-182).
5. `map_failure`: when a parameter that is not the last cannot be mapped,
   `RtlUnmapPtrParameters` also walks the blobs behind it, which nobody has
   initialized, and deletes what they point to. The code means to answer
   `STATUS_INVALID_PARAMETER` and go on (218-219).

Observations. They have no run of their own: the properties named allow for them.
These are at odds with what a comment or the repository's README says:

- Of a list that is longer than the connection information (31 parameters on x64, 15 on x86)
  the rest does not arrive. If what earlier messages left in `lm` has the registered
  masks, the routine runs with those values and pointers (`ArgumentsExact`); if not,
  a correct call is refused (`RefusalsExact`). ServiceCall.h:30-31 says that values are copied and
  pointers mapped, and README.md:85-86 the same; no limit is documented.
- A registered list whose last four bytes are unreadable, one whose length wraps, and lists that
  are rewritten after the probe, are walked into (`FaultsExact`). ServiceCall.h:168-170 and
  README.md:34-36 promise `STATUS_ACCESS_VIOLATION` for inaccessible memory. The probe of 328 counts
  four bytes for a header of eight; the one of `ScUnregisterServiceRoutine` (357) is of
  one byte, because the `||` is inside the size argument.
- A client that cannot be opened is told that its parameter 2 is wrong (262, 416), which
  README.md:103-105 keeps for an error of parameter 2.
- On x86 a `QW` parameter that also has `WO` or `BY` and no `DW` is narrowed to
  fewer bytes (202-209) than ServiceCall.h:37 and 47 say, by which the first size bit from `QW`
  on counts and `QW` is a `DWORD` there; `SizesExact` leaves it out.
- A null for a pointer that must not be null, rewritten behind the client's check, is
  not refused with `STATUS_INVALID_PARAMETER` if its size is 0: the routine gets a buffer,
  which is never freed (ServiceCall.h:32-33; `HeapExact`).
- A buffer that cannot be written back replaces the routine's status by
  `STATUS_ACCESS_DENIED` (224) when earlier buffers have been changed already, while
  lpServiceStatus is the service's own (README.md:110-112).

And these contradict no line of the repository:

- A registered list longer than `lm` (36 parameters on x64, 20 on x86) is compared and captured
  out of `lm`'s bounds (152-154, 89-96). The read can fault, and if the memory changes between
  263 and 278 the captured list can have other masks or be null, which `WorkerThread`
  dereferences (`FaultsExact`, `ServesRegistered`).
- On x86 the allocation of line 88 wraps with the length of 390, and the copies of
  96 overrun the block; so they do on either machine if the count grows between 88 and
  89 (`FaultsExact`).
- Two threads in `ScInitializeService` at once can replace each other's critical
  section and list (290-292); `ListInv` is stated for one initializing thread.
- Should `NtListenPort` fail between `CloseEvent = TRUE` and `NtClose`
  (`SpuriousListen`), the `SERVICE_ROUTINE` is read after it was freed (361-362).
- Buffers that overlap overwrite each other on the way back, also with bytes
  that the routine has not changed (142).

## Proofs

`ServiceCallProofs` proves, for all values of the constants (any number of
registrations, calls, handles; every allocation policy; `Recycle` and
`ThreadFailures` either way):

- `TypeCorrect`: `Spec => []TypeOK`, with no further assumption. The
  strengthening is `ServesCall`: between two listens a wait thread has a call.
- `Invariance`: `~SpuriousListen => (Spec => []IInv)`, and from it `NoEarlyFree`
  (`NoUseAfterFree`).
- `HeldInvariance`: `~Recycle => (Spec => []HeldInv)`, and from both
  `HandlesStayValid` (`HeldHandlesValid`), under `~SpuriousListen \/ ~Recycle`.

The parts of `IInv` need each other. That a wait thread does not free its
`SERVICE_ROUTINE` early rests on its listen not failing, so on its port being
open (`PortsHeld`), so on no other thread closing the value by mistake, so on
workers and wait threads holding handles of their own kind, singly
(`HeldHandlesValid`); and the port's own close hits no held handle because
`hPort` still names the port, which needs the `SERVICE_ROUTINE` not to have been
freed (`ListensWhileOpen`). With `SpuriousListen` the chain breaks, and the code
reads freed memory (see the observations): `ScUnregisterServiceRoutine` may then
close any number that was ever in an `hPort`. `HeldInv` breaks the chain elsewhere:
if values are not given out again, such a number names a port or nothing
(`PortNumbers`), so what a call holds is still safe. The proofs meet in
`ClosesPorts`, which either invariant implies: the API calls close ports only. The
proofs use the named assumptions `HandleAssumption` and `ServiceAssumption`: the
kernel picks a free value, and `None` is none of the other constants.

The invariant's preservation is proved per component (`RegistrationInv`,
`WaitThreadInv`, `WorkerInv`, `ClientInv`), one step per action and under it one
per conjunct, on top of small lemmas on the handle table.

`CallProofs` proves, with no assumption on `SpuriousListen`:

- `CallInvariance`: `Spec => []CallInv`, and from it `CapturedStaysChecked`
  (`CapturedAsChecked`).

`CapturedAsChecked` speaks of workers only; `CallInv` follows the parameter list
on its way there. A call's arguments are settled before it connects
(`ConnectedOnce`); one wait thread takes it, once, and has it until the worker
starts (`ServedOnce`); in between nobody else writes that thread's `lm` and no
other thread the call's copy, so `lm` holds the client's list, and from the
comparison on the registered one (`BufferChecked`), which is a valid list and
does not change any more (`ShapesFixed`), so that the capture succeeds and
returns it (`WorkerChecked`). None of this depends on which handles are open:
it survives failing
listens, freed memory and recycled handles.

`HandleProofs` adds to both. `Held` is what `IInv` and `HeldInv` have in common, with
`CallInv`; `Base == IInv /\ CallInv`.

- `IdInvariance` and `ClientIdsStayExact`: `~SpuriousListen \/ ~Recycle => (Spec =>
  []IdInv)`, and `ClientIdsExact`. A process opened by number may be a stranger's;
  but then the client is dead (`DeadClosed`) and the accept fails, so a call that
  goes on owns its client's process (`WaitOwns`, `WorkerOwns`) and enters the list
  with it (`EntriesExact`).
- `AccountInvariance` and `HandlesStayAccounted`: `~SpuriousListen /\
  ~ThreadFailures => (Spec => []AccountInv)`, and `HandlesAccounted`. A call opens
  its handles in turn (`HeldInTurn`), and its connection ends while it is taken
  only with its client (`CallOrder`, `TakenAlive`), so a server port that is given
  up is a dead client's (`ServerPortsHeld`). With `ThreadFailures` finding 3 loses
  the handles of a living client.

`ContractProofs`:

- `ContractInvariance`: `~SpuriousListen => (Spec => []ContractInv)`. It says how far
  client, connection and worker of a call are together (`InStep`), that a port has
  one registration (`PortsRegistered`) and, without `Recycle`, that its number names
  nothing else later (`PortsOwn`), that calls stay with the registration they asked
  for (`RoutedByName`), and that replies tell what ran (`AnswersTell`). With
  `Recycle`, `RoutedByName` makes the one exception finding 2 needs: a registration
  that is unregistered.
- `Implementation`: `~SpuriousListen => (Spec => ImplementsContract)`: initial states
  map to initial states, and each step to one of the contract or to none.
- `OnlyNamedRuns` and `NoLateCalls`: `~SpuriousListen /\ ~Recycle => (Spec =>
  []OnlyNamedServiceRuns)`, and `NoneTakenLate`. What `stale_port` violates holds
  unless handle values come back: reuse is the whole cause of finding 2.

`ProgressProofs`:

- `NoCallForgotten`: `~SpuriousListen => (Spec => []NoneForgotten)`, from `IInv`,
  `CallInv`, `IdInv` and `ContractInv`. An open port has a wait thread that cannot
  exit, because its listen cannot fail; a port that closes takes its queue with it; a
  wait thread leaves a call only refused, closed or with its worker; and a worker
  that waits for its client's answer waits for one that will give it or has died
  (231). That each of these threads then takes its step is fairness, and stays with
  `CallReturns`.

`ClientIdListProofs`, where at most one thread initializes (`OneCaller`):

- `ListInvariance`: `Spec => []ListInv`, for any number of workers and calls. That
  walks miss nothing (`WalksExact`) needs that nobody else changes the vector
  (`OneInside`), which needs that initialization is over (`InitializedFirst`).
- `AlwaysFound`: `FindsClient`; `ListImplementsClientIds`: `Spec =>
  ImplementsClientIds`, where a turn of a loop is a stutter and the turn that
  finds or erases is the abstract step.

`ParameterMappingProofs` and `ParameterPathProofs`, for lists of any length,
buffers of any size and place, any `MaxInfo`, `MaxMessage`, `LengthModulus` and number of
rewritings, any memory behind a list, and (`PathAssumption`) no more than that `lm` has room for what
the port carries and that lengths do not wrap before that:

- `MappingInvariance`, with `HeapStaysExact`, `WriteBackStaysExact`, `SyncStaysExact`
  and `OnlyEarlyFailuresCorrupt`: each loop's invariant says what it has done up to
  its counter. Nothing is assumed of a pointer's value.
- `PathInvariance`, with `FaultsStayExact`, `RefusalsStayExact`,
  `OnlyRegisteredServed`, `ArgumentsStayExact`, `SizesStayExact` and
  `StackStaysExact`. `RegisterLoop` and `CallLoop` keep what was probed until the list is
  rewritten, `CaptureLoop` that no block holds more than it has room for;
  `CompareLoop` that what has been compared is what lies in `lm` until it is captured,
  and `PushLoop` each parameter's place on the stack independently of the counter.

Every invariant and every action property that a passing run checks is proved, and so
are the refinements `ImplementsContract` and `ImplementsClientIds`. Only model-checked: liveness under
fairness (`CallReturns`, `ClientHandleInvalidated`, `WaitThreadExits`,
`WorkersLeave`), which is outside what the prover can do. Where `NtListenPort`
fails at will *and* handle values come back, nothing that depends on handles is
claimed: a number read from freed memory may then name anything. The findings are
counterexamples TLC prints.

## Not modelled

- `ScRegisterServiceRoutineA` and `ScServiceCallA` convert the name and call the
  `W` function; `str.cpp` holds the conversions. No state.
- `Native.cpp`, `NtPort.cpp` and their headers: each function looks up the one of
  the same name in ntdll and passes its arguments on. What the kernel does behind
  them is modelled, as external.
- `ntstatus.h`: 23286 lines of constants. With the declarations of `Native.h`
  it is the reason why the map names only a small share of the lines of the
  repository: ServiceCall.cpp and x64.asm hold the library's logic, and most of
  their lines are mapped.
- The example client and server use the API.
- Thread handles and the memory of wait threads; calls before initialization,
  other than what two initializing threads can see; unregistering a handle twice,
  which reads freed memory (357); the death of the service process, after which
  the kernel ends its connections and nothing of the library is left.

## Plan

The first plan (the core, its contract, the client list, initialization,
marshalling, thunks, and their proofs) is carried out. What could be added:

1. Several initializing threads and workers together: which properties of
   `ClientIdList` survive two critical sections.
2. A kernel with one message queue for all ports of a service, and messages of
   other types, against the assumption on `NtReplyWaitReceivePort` (272).
3. A service process that dies and is started again, as seen by clients.
4. `HeapExact`, `ArgumentsExact` and their neighbours as refinements of one
   abstract call that copies values in and out, as `ServiceContract` is for the
   threads.
