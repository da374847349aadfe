# crazyflie-lib-cpp in TLA+

Specifications of the library under `src/src` and `src/include`: the receive thread and
its callbacks, the request/answer call built on them, the cache of log blocks, named log
blocks, the table of contents with the parameters, and the file transfer over the app
channel. TLC checks each on small instances; TLAPS proves for every instance
the safety of every layer, and that the call implements its abstract specification. File
names below are relative to `src/src` (`.cpp`) and `src/include` (`.h`).

## The system

```
  Crazyflie (facade)      LoggingCrazyflieWrapper (file transfer)
     |        \                 |
    Log    TocWrapper/Toc       |            state: caches, tables, names
     |        |                 |
  ConnectionWrapper: send, sendRecvData      state: one stack frame per call
     |
  ConnectionWorker: receive thread, list of callbacks, one detached thread per call
     |
  Connection (crazyflie-link-cpp, external) ~~~ radio or USB ~~~ firmware (external)
```

| Part | State | Operations | What is hard | What makes it right |
|---|---|---|---|---|
| ConnectionWorker | list of callbacks, `_deactivateThread`, `_conAtomicPtr`; per packet a frame with an iterator, a mutex, a flag and a condition variable | constructor, destructor, start, stop, addCallback, send; the receive loop; one detached thread per (packet, callback) | callback threads point into the loop's frame; hand-rolled wait/notify; erases from many threads | a thread works with the node it was spawned for; a node leaves the list only by its own refusal; no lost wake-up; every dispatch ends |
| ConnectionWrapper | one stack frame per call: mutex, condition variable, flag, result | send, sendRecvData | a callback writes to its caller's frame from another thread; timeouts; answers matched by channel only | a call returns the answer to its own request; nothing writes to a dead frame |
| Log | `idsOccupied`, `_logBlocks` | create (next free id, or a given id), append, delete, start, stop, reset; addLogCallback and the decoding of values | the cache follows answers, while the Crazyflie may refuse, hold blocks of an earlier session, or reboot; threads decode with a list that the client changes and frees | ids and lists agree with the Crazyflie's; a value is given to its own item |
| Crazyflie, log blocks | `_logBlockNames` | create, delete, start, stop, reset, addLogCallback by name | a create is many requests; 0 is an id and a success code | a name owns an entire block |
| Toc, TocWrapper | `_tocItems`, `_tocItemsCache` | initToc, getItem by name and id, clearCache, clearToc, setIsParam | a cache in front of a table; the table may be older than the firmware | lookups give the Crazyflie's items |
| Crazyflie, parameters | none | setParamByName, getUIntByName, getFloatByName; printParamToc, csvParamToc, getTocAndValues | only a number goes over the link | a name reaches its own parameter; a listing shows each item with its own value |
| LoggingCrazyflieWrapper | `start()`'s frame: address, size, file, finished flag | start and its callback | one thread per packet on one frame; losses, repetitions; the end of the transfer | the file is the Crazyflie's file |
| Crazyflie, rest | none | init, console, parameter and app channel callbacks | `addParamReceivedCallback` listens on the log data channel | - |

## Modules

| Module | Models | Abstractions |
|---|---|---|
| `Dispatcher` | what the worker promises: a packet goes to all callbacks of its channel in one step, each is called at most once, and with it if it starts before the next reception | ends with the first undefined step |
| `ConnectionWorker` | `ConnectionWorker.cpp/.h`, each step between two synchronisation points of lines 42-104 | a callback is registered once; a packet is a value with a channel |
| `Rpc` | what `sendRecvData` promises: calls that begin, finish with their own answer, or give up if they have a timeout | a client with a late callback thread may get any packet of its channel |
| `SendRecv` | `ConnectionWrapper.h` 31-91 and its callback, over the worker | a dispatch is one step |
| `Log` | `Log.cpp` 86-234 and the firmware's blocks | a request and its answer are steps of their own; running blocks are not told apart |
| `LogData` | `Log.cpp` 39-83 over `Log`: running blocks, packets of values, the callbacks and their threads | a value is known by its item; nothing is said of what a packet that is older than its list, of an earlier session, or torn decodes to |
| `CrazyflieLog` | `Crazyflie.cpp` 166-177 and 202-274, extends `Log` | one client thread |
| `TocTypes` | type numbering, sizes and conversion, `Toc.h` 44-100, `Toc.cpp` 101-215 | - |
| `Toc` | `Toc.cpp`, `TocWrapper.cpp`, extends `TocTypes` | a name is a number that says how the keys of the maps sort |
| `Param` | parameters by name, with the types of the getters, extends `Toc` | a request and its answer are one step; a value read by a getter that does not suit its type is any value |
| `ParamListing` | the listings with values, `Crazyflie.cpp` 38-77 and 120-141, `Toc.cpp` 296-318, extends `Param` | a value that is not read as its type says is any value |
| `AppChannelTransfer` | `LoggingCrazyflieWrapper.cpp` 20-141 | chunks are counted, not measured |
| `ConnectionWorkerProofs`, `SendRecvProofs`, `LogProofs`, `LogDataProofs`, `CrazyflieLogProofs`, `TocProofs`, `ListingProofs`, `TransferProofs` | invariants and proofs | - |
| `MC...` | constants for TLC | - |

One action is one operation, or one step between two points where another thread can
interfere. Program counters (`wpc`, `tpc`, `cpc`, `main`, `handler`) name the points in
the code; the other variables bear the code's names.

Undefined behaviour - a pointer into a frame that is gone, the erase of an erased list
node, a null connection - puts the thread that meets it in the state `"wild"`. No step
follows (`UB`): nothing is claimed of the program afterwards, and the properties say
*when* it can be reached where that is the question. The memory of the ConnectionWorker
object itself is taken to stay readable after its destructor; otherwise nothing could be
said of the thread that outlives it.

### How the layers fit

* `SendRecv` and `LogData` take a dispatch as one step. That is `DispatchIsAtomic`, proved
  for `ConnectionWorker`: the loop, the handshake and the threads together implement
  `Dispatcher`, whose `Dispatch(p)` makes a call due for every callback that is registered
  for p's channel at that moment. The moment is the one in which the loop takes
  `_callbackMutex`; a `stop()` between line 63 and then comes too late for the packet. A
  call is due from that step on, although its thread may be spawned later or be between
  lines 86 and 91 (`Stage`), and a packet waits until then, although the loop may already
  have received it (`Undispatched`).
* `Dispatcher` has the worker's `p_recv` as its `buffer`: a call copies the buffer when it
  starts (line 91), so a late one is given the next packet, the empty one of a `recv` that
  found nothing, or a torn one. `SendRecv` and `LogData` have the same buffer
  (`CallCallback`/`ReceiveAgain`, `CallFunction`/`ReceiveAgain`), and a second match of a
  packet, which line 98 does not wait for, may go wild there.
* `Log`, `Toc` and `Param` take the answer they read for the answer to their own request;
  that is `KeepsPromise` of `SendRecv` for callers that have timeout 0, as all of the
  library's have, and no late thread.

## Runs

| Run | Instance | Shows |
|---|---|---|
| `worker_safety` | two callbacks on one channel (symmetric) and one on another, a packet for each channel, spurious wake-ups, start/stop/destroy any time | `TypeOK`, `OwnIterator`, `ErasedOnlyIfRefused`, `NoMissedStart`, `BlockedHasWaker`, `FrameOutlivesHandshake`, `UndefinedHasCause`; implements `Dispatcher` (`DispatchIsAtomic`) |
| `worker_liveness` | a callback with two packets, a callback of another channel, finitely many spurious wake-ups of line 98, fair | `UndefinedHasCause`, `DispatchEnds`, `RefusedIsRemoved` |
| `worker_second_match` | two callbacks on one channel | violates `SpawnedFindsFrame` |
| `worker_late_argument` | two channels | violates `CalledWithOwnChannel` |
| `worker_destructor` | fair | violates `DestructorStopsThread` |
| `send_recv` | two clients, three calls, losses, spurious wake-ups, timeouts of the client that calls twice, fair | refines `Rpc` (`KeepsPromise`), `TypeOK`, `WildOnlyIfAstray`, `NoLostNotification`, `NoLeakedCallback`, `CallReturns` |
| `send_recv_reuse` | neither losses nor timeouts | violates `RefusedNotCalled` |
| `log_data` | two ids, two items of different widths, blocks left over, refusals, a reboot or failing resets, one callback, one packet to decode beside one whose callback is to be erased | `LogTypeOK`, `OccupiedIsOnFirmware`, `FreeIsNotOnFirmware`, `ListMatchesFirmware`, `CreateFailsOnlyIfFull`, `ValuesAreOfTheirItems`, `WildOnlyIfMisused` |
| `crazyflie_log` | two names, three ids, a reboot, fair | `TypeOK`, `NameOwnsItsBlock`, `NamedBlockIsEntire`, `CallEnds` |
| `log_delete_zero` | two names, two ids | violates `DeletedNameIsGone` |
| `param` | two firmwares with three keys in other orders, one flash | `TypeOK`, `CacheIsPartOfToc`, `LookupsAgree`, `ConversionKeepsType`, `WrittenIsStored`, `ReadIsNamed`, `RowsAreOfTheirItems` |
| `transfer` | three chunks, windows of two, two losses, one early repetition or other packet, two handler threads that overlap, fair | `TypeOK`, `FileIsPrefix`, `AckedIsWritten`, `FinishedIsComplete`, `TransferEnds` |

### Bounds, and why they are enough

* `worker_safety` has a packet that two callbacks are for, and a callback and a packet of
  another channel, which the loop must pass by (`SkipCallback`); `worker_liveness` has two
  packets for one callback, so that its threads overlap, and again a callback to pass by.
  These are the relations two threads of the worker can have: same packet and other
  callback, same callback and other packet, neither. The proofs remove the bound for safety.
  The symmetry of `worker_safety` exchanges the two callbacks of one channel, which no
  definition tells apart.
* Two clients, one of which calls twice, give `sendRecvData` a neighbour on another channel
  and a successor on its own; a third call could only meet callbacks of the same kinds. The
  client with timeouts (`OnlyK1`) is the one with a successor to go astray; the other has
  timeout 0, as the library's callers have.
* Two ids have a next and a last; three in `crazyflie_log` leave an id free beside id 0 and
  a second name's block. `MaxItems` is where the firmware refuses an append. `MaxFaults` = 1
  means a reboot or refused resets, not both, in one behaviour of a run; that both together
  break no more of `ListMatchesFirmware` and `ValuesAreOfTheirItems` than they say is left
  to their proofs, which allow any number.
* One callback and one packet at a time (`MaxActive` = 1) already give a decoding thread the
  client as its rival: appends, deletions, resets, and a block made anew under the same id.
  `MaxPackets` = 2 lets a packet come before a callback that has refused is erased. That a
  second callback shares the data channel does not happen in this run; it is in the model,
  and the theorems of `LogDataProofs` hold for any number of callbacks. `MCView`
  (here and in `MCParam`) leaves out of the state what no later step reads and no property
  judges; the comments there say what that is.
* The two TOCs of `MCParam` differ in length, order and types and share keys, so a stale
  number means another parameter, and one key is missing from one of them. `MaxFlash` = 1:
  a second flash is a first flash to a library that has fetched again.
* Three chunks in windows of two have a full and a partial window. `MaxLosses` = 2 loses
  two of size, chunk, request and answer in every combination. `MaxExtra` = 1 puts one
  request behind a delayed one, or lets one packet of another kind come at any moment; when
  nothing is on its way the firmware may always repeat.
  `MaxHandlers` = 2 is the number of callback threads under way at a time.
* Deadlock is not checked where the system may stop: all calls made, the transfer ended,
  the object destroyed, or undefined behaviour met.

### Fairness

The threads are preemptive and the operating system runs each of them again and again, so
each gets weak fairness for its steps (`worker_liveness`, `transfer`). In `send_recv` the
steps of a call are finitely many and every contention is for a mutex that its holder
releases without waiting, so weak fairness of progress as a whole is enough. `Progress`
includes the link and the firmware: they answer what the link does not lose. No client
is made to call, and no packet is made to be lost; `CallReturns` says which call does
not return (no timeout, answer lost). `crazyflie_log` needs an answer for every request.

C++ lets a wait on a condition variable wake up without a notification. All waits of the
worker and of `sendRecvData` may do so, in every state (`SpuriousUnpark`,
`SpuriousHandshake`, `WakeSpuriously`). The fair specifications only say that the waits of
line 98 and of `sendRecvData` do so finitely often: a wait that wakes again and again could
keep the mutex from the thread it waits for.

### Premises that the code does not enforce

They are premises of the properties or exceptions that these name, so that they can be seen:

* `woken` (`ConnectionWorker`): the packets whose wait of line 98 has woken without a
  notification. The flag of line 89 is set without the mutex. So the waiter may find it set
  and leave before line 90, whose condition variable is then gone; or find it unset, be
  notified before it sleeps again, and sleep for ever, with `_callbackMutex` held
  (`Overslept`). `BlockedHasWaker`, `FrameOutlivesHandshake`, `UndefinedHasCause`,
  `DispatchEnds` and `RefusedIsRemoved` say that nothing else leads there.
* `late` (`SendRecv`, `LogData`): a callback thread that copied another packet than its own,
  because the receive thread was at line 58 again before line 91, or that had not erased its
  callback (line 94) by the next packet of its channel. A round trip over the radio is far
  longer than these few instructions, but nothing enforces it; `worker_late_argument` and
  `send_recv_reuse` show what happens otherwise. Of other clients' calls `KeepsPromise` and
  `WildOnlyIfAstray` claim what they claim all the same. In `LogData` a torn copy is a packet
  of no items (`Outdated`).
* `SendRecv` and `LogData` take it that the worker lives and that line 98 is not woken
  spuriously: the other two causes of `UndefinedHasCause`.
* `Crowded` (`LogData`): a second callback on the data channel. The loop does not wait for
  its thread (`worker_second_match`), so every callback but the first may go wild.
* `AppChannelTransfer` has the thread of a packet work with that packet; it has a channel to
  itself, so a late one would be given the next packet, or a torn one.
* Layouts: the status of a reset is taken to be where `Log.cpp:226` reads it (byte 2) and a
  parameter's value where `Crazyflie.h:76` does (byte 3). The protocol descriptions in
  `README.md` have them in byte 1 (lines 830-857) and byte 2 (lines 128-156). The firmware is
  not in the repository, so which is right cannot be told here.
* `Suits` (`Param`, `ParamListing`): the types that a getter or a listing reads as they are.
  `getParamValFromCrazyflie` copies up to `sizeof` its own result; for other types nothing is
  claimed of the value. `setParamByName` is taken to be called with a value of the
  parameter's own type.
* `pulled` (`LogData`): the client added a callback for a block that is not there, or
  deleted or reset a block whose callback was in use. `Log.cpp:41` keeps a bare pointer to
  the list, so a thread may then walk a freed one. An append under an iteration is no such
  case: the list is a `std::list`, and an iterator reads it as it is at its step. That the
  two are not synchronised is a data race all the same, of which only the orders are modelled.
* `raced` (`AppChannelTransfer`): a handler read the address while another was between
  reading it (line 77) and writing its chunk (line 84). Handlers overlap freely otherwise.
  After a race TLC finds the second of two chunks written first (`FileIsPrefix`), or the
  file closed (line 122) before its last chunk is written (`FinishedIsComplete`). The
  specification ends with the race, so `TransferEnds` claims nothing of such a transfer.
* `early` (`AppChannelTransfer`): a packet of another kind was handled before the size was
  known. Address and size are both 0 at line 120 then: the file is closed empty, as
  `FinishedIsComplete` says, and the chunks that follow are acknowledged without being
  written, so `AckedIsWritten` excludes the case.
* `fresh` (`Toc`): a fetch began on an empty table and the Crazyflie has not been flashed
  since. `insert()` (`Toc.cpp:250`) keeps old entries, so a fetch alone does not make a
  table current.
* `strayed` (`Param`): a name that is not in the table was used. `getItemId` returns an
  uninitialized number, and the write may go to any parameter.
* `faults` (`Log`): a reboot, or a reset that the Crazyflie refused, has happened.
* `wasReset` and id 0 (`CrazyflieLog`): names are not cleared by a reset, and deleting
  block 0 leaves its name.

### What the violations show

* `worker_second_match`: `isIteratorFinished` (`ConnectionWorker.cpp:77`) is per packet and
  never reset; the second callback that matches is not waited for and finds its frame gone.
* `worker_late_argument`: the packet is copied for the callback at line 91, after the
  receive thread was released and may have overwritten it at line 58, or left its function.
* `worker_destructor`: the destructor's `stop()` parks the thread at line 52, where it does
  not see the cleared pointer that should end it.
* `send_recv_reuse`: a callback that has returned false is called once more if the next
  answer of its channel overtakes line 94.
* `log_delete_zero`: `res > 0` at `Crazyflie.cpp:240` takes the id 0 for a failure.

Further observations have no run, since no document claims the contrary:

* A `createLogBlock` whose append fails leaves its block on the Crazyflie under no name
  (`Crazyflie.cpp:223`).
* A log item loses the NOACC it is given at `Toc.cpp:20`: the lines that follow are not
  its else branch, and the item is shown as RW or RO.
* The listings read every value as a `uint32_t` or a `float`: signed, 64-bit, double and
  FP16 values are shown wrong (`Crazyflie.cpp:45-48`); `getTocAndValues` puts a `uint32_t`
  into `_floatVal` and leaves all other integers unset (lines 129-136).
  `RowsAreOfTheirItems` claims the values of the other types only.
* `"? " + (int)self._type` (`Toc.cpp:122`) points behind the literal.
* `addParamReceivedCallback` listens on the log data channel (`Crazyflie.cpp:163`).

## Proofs

Every safety property of the runs that pass is proved. Each proof module proves an
inductive invariant (`IInv`, `DInv`, `VInv`, `LInv`, and `CfInv`, which contains that of
`LogProofs`) and derives the properties. Nothing is assumed beyond the named assumptions
on the constants.

**ConnectionWorkerProofs.** `OwnIterator` is not inductive: a callback thread reads the
iterator through a pointer, and only the handshake stops the loop from having moved it on.
`IInv` adds `ListOK` (registered nodes are distinct), `PacketsFresh` (a packet just
received has no threads) and `Handshake`: until some thread has finished its iterator, the
frame has at most one thread, the one of the node the loop stands at. Spurious wake-ups and
any number of callbacks on one channel are allowed. From `StepInv` follow type correctness,
`OwnIterator`, `ErasedOnlyIfRefused` and `NoMissedStart`.
For `BlockedHasWaker` and `FrameOutlivesHandshake` there is a second invariant, `HInv`
(`HandshakeStep`): a thread between lines 87 and 90 has its waiter asleep, or the wait of
its packet has woken without a notification.
A third, `CInv`, gives `UndefinedHasCause`. It follows
a thread that waits for its frame's mutex: either the loop is blocked for it, or the frame
has another thread, a `Rival`, which stays one for ever (`Spawning`); and the connection is
gone, or the receive thread with its `p_recv`, only once the destructor has begun
(`Destroying`).

That the worker implements `Dispatcher` (`WorkerDispatchIsAtomic`) needs `IInv` and one fact
more, `InOrder`: the loop has spawned threads only for nodes it has passed, and has spawned
one for the node it waits at. Then the nodes ahead of the iterator are exactly the calls that
are due and have no thread, a spawn changes nothing that clients can see, and no step of the
iterator passes a due call by (`LoopUnseen`). `DispatchBegin` is the abstract `Dispatch`; a
reception is `BeginReceive` and `EndReceive`; a
callback thread's steps are stutters up to line 91 and `Call`, `Keep` or `Refuse`, and `Erase`
after it. Nothing is needed of the handshake: without the undefined steps, which end the
promise, the order of the loop alone is enough.

**LogProofs.** While a request is under way the cache is behind the Crazyflie by exactly
that request. `IInv` adds `Served` (what an unread answer tells of the Crazyflie), `Asked`
(what was checked before the request was sent), `Backed` (lists are of blocks held for
taken) and `Probed` (the search for an id leaves only ids with blocks behind). It gives
`LogTypeOK`, `OccupiedIsOnFirmware`, `FreeIsNotOnFirmware`, `ListMatchesFirmware` and, as
an action property, `CreateFailsOnlyIfFull`, for any number of ids, items and faults.

`StepKinds` says what a step can do to the lists of both sides, in six cases, and is what
the proofs about values go by.

**LogDataProofs.** `DataImplementsLog`: a step of `LogData` is a step of `Log` or leaves its
variables alone, so the theorems of `Log` hold with callbacks and data packets around
the cache (`DataLists`, `DataOccupied`, `DataFree`, `DataFull`). `DInv` adds `Dangling` (a
list that is gone was taken away by the client, or no thread will use it) and what becomes
of a callback that has refused (`ToErase`), which give `WildOnlyIfMisused` for any number of
callbacks and threads.
`ValuesAreOfTheirItems` has an invariant of its own, `VInv`: the library lists the
blocks of this session from the first item to the last (`OwnMatches`), where `Log` alone
only knows the end of a block that was left over; a packet that is not out of date begins
with the values of the list it is decoded with (`PacketsFit`), which may be one item behind;
an iterator is where a list is (`ListsThere`, `ThreadsOK`); and a thread has decoded the
values before its iterator, which stands where the next value begins (`Decoding`). That
values are found at the sum of the sizes before them is a count of bytes (`BytesBefore`):
`OffsetNext` and `OffsetInjective` follow from what is known of cardinalities.

**CrazyflieLogProofs.** A step of the facade is a step of `Log` or sets nothing of `Log`'s but
the result. `CfInv` adds which operation of `Log` a job may be inside (`Agree`), that the
block a create works on is no name's (`Held`), and that what is listed of it, what is
asked for and what is left make the whole list (`Partial`). That a search never ends at
a name's block needs `Asked` of `LogProofs`; that insert finds no old list needs `Backed`.
They give `TypeOK`, `NameOwnsItsBlock` and `NamedBlockIsEntire`.

**SendRecvProofs.** A request is answered, and its answer dispatched, at most once (`Once`); a
client that has never timed out has nothing of an older call on its way (`OnlyCurrent`); a
thread that was not late has copied its own packet (`Copied`). So what is stored in the frame
of a client that is not astray, where astray is who has timed out or has had a packet
exchanged for another, is its own answer (`OwnAnswer`). A frame's mutex has one holder
(`OneInside`), and the flag, the answer and the callback of a live frame belong together
(`Stored`). This gives `NoLostNotification`, `NoLeakedCallback` and the refinement
`KeepsPromise`: a call that begins is `Begin`, its return is `Finish` or, of a call with a
timeout, `GiveUp`, a thread that comes to line 91 too late for its packet is `Delay`, and
every other step stutters. `WildOnlyIfAstray` needs a further part, `PInv`: a frame that is
gone of a client not astray has had its answer (`Answered`), and the one thread that has a
callback of such a client is that of its own answer (`OneThread`).

**TocProofs.** For any firmwares, names and number of flashes. A fresh table holds what has
arrived and nothing that is not the Crazyflie's (`FreshTable`); what was written is forgotten
with the table (`Forgotten`). From these and the cache being part of the table follow
`CacheIsPartOfToc`, `LookupsAgree`, `WrittenIsStored` and `ReadIsNamed`.

**ListingProofs.** `ParamTypeOK`, for outdated tables too, on which a lookup by number takes
the first of the items it finds; `TocConversionKeepsType`, from what each byte becomes in
the other table (`Conversion`); and `ListingRows`, from the invariant that the rows listed and
the items left to list are together the Crazyflie's items in their order (`Listed`). That the
sorted sequence of a set of items numbered 0, 1, ... has each at its place (`SortedItems`)
would be an induction; it is shown by the least place where it fails. `LeastNatural` gives
that place, and is also what makes `Min` of the type table and of the map a member of its set.

**TransferProofs.** For any length, window, number of handlers, losses and repetitions. Between
reading the address and writing its chunk a thread is alone (`OneWriter`) and brings the
chunk that the address asks for (`Brings`), so the address is the length of the file, or
one more while a chunk is about to be written (`FileLength`). The file is closed at its
full length (`ClosedAtEnd`), or empty when the address was tested before the size was there
(`NotBegun`, `AllOrNothing`); what was answered stays written (`AnswersWritten`). They give `TypeOK`,
`FileIsPrefix`, `AckedIsWritten` and `FinishedIsComplete`.

Only model-checked:

* everything under fairness (`DispatchEnds`, `RefusedIsRemoved`, `CallReturns`, `CallEnds`,
  `TransferEnds`), which is beyond this prover;
* the five violations, which are counterexamples.

The library's induction theorems take an operator as a parameter, which these provers cannot
instantiate. What needs induction is therefore stated of sets: a least counterexample
(`LeastNatural`, from the well-foundedness of the numbers), or a cardinality.

## Not modelled

* Connection and the driver, the firmware: external, modelled as the library's code uses
  them. The firmware's side of the file transfer is not in the repository: that it sends
  windows and goes on from the address answered is read off the callback.
* The console callback, `addParamReceivedCallback`, printing and the .csv file: they pass
  on or format what they are given and keep no state.
* A second `start()` on one `LoggingCrazyflieWrapper`, a second client thread of `Crazyflie`.
* Lengths of packets: an id of 255 (`Log.cpp:138`), a data packet shorter than its header
  (`LoggingCrazyflieWrapper.cpp:84`).
* `Debug`, `WrapperTemplate`, `utilsPlus` and the examples have no behaviour of their own.

## Plan

In the order of what matters most. Done:

1. `ConnectionWorker` with its invariants, liveness and proofs.
2. `Log` with the firmware and its proofs; 3. `CrazyflieLog` over it.
4. `Rpc`, and `SendRecv` shown to implement it, by TLC and by proof.
5. `TocTypes`, `Toc`, `Param`, `ParamListing`. 6. `AppChannelTransfer`.
7. `LogData`: callbacks of log blocks over `Log`'s lists.
8. Proofs of `SendRecv`, `Toc` and `Param`, `AppChannelTransfer`, `CrazyflieLog`, `LogData`.
9. Proofs of the values of log data, of the listings and of the types of tables.
10. `Dispatcher`, and `ConnectionWorker` shown to implement it, by TLC and by proof.

Left: a second client thread on one `Crazyflie`, which no document promises to be safe; and a
second `start()` on one `LoggingCrazyflieWrapper`.
