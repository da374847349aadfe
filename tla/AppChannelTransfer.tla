--------------------------- MODULE AppChannelTransfer ---------------------------
(***************************************************************************)
(* LoggingCrazyflieWrapper::start: the Crazyflie sends a file over the app *)
(* channel, chunk by chunk, and asks for acknowledgements; the library     *)
(* writes the chunks to a file.  start() registers one callback and sleeps *)
(* until a call of it declares the transfer finished.                      *)
(*                                                                         *)
(* Every packet is handled by a thread of its own, and all share the       *)
(* address, the size and the file in start()'s frame.  A thread that       *)
(* touches the frame after start() has returned, or erases the callback    *)
(* twice, goes "wild"; one that reads the address while another is between *)
(* reading it and writing its chunk has "raced".  Nothing is claimed       *)
(* afterwards.  A thread has the packet it was started for: that line 91   *)
(* of ConnectionWorker.cpp may copy a later one is left to Dispatcher,     *)
(* SendRecv and LogData.                                                   *)
(*                                                                         *)
(* Addresses are counted in chunks, and chunk i of the Crazyflie's file    *)
(* is the number i.  The connection and the firmware are external: the     *)
(* firmware sends its size until that is acknowledged, then Window chunks  *)
(* and a request for an acknowledgement, and goes on from the address in   *)
(* the answer.                                                             *)
(***************************************************************************)
EXTENDS Naturals, Sequences, FiniteSetsExt

CONSTANTS
  Chunks,      \* length of the file
  Window,      \* chunks sent before a request
  MaxHandlers, \* bound: handler threads at a time
  MaxLosses,   \* bound: packets that the link loses
  MaxExtra,    \* bound: packets of another kind, and requests sent again on a busy link
  NoHandler    \* no thread

VARIABLES
  main,            \* control point of start()
  currMemAddress,  \* the frame: the next address it wants
  dataSize,        \* the frame: the size of the file
  isFinished,      \* the frame
  outputFile,      \* the chunks in the file
  closed,          \* has the file been closed?
  registered,      \* is the callback in the worker's list?
  handler,         \* handler threads: the packet, and the control point
  up, down,        \* packets on their way to the library, and to the Crazyflie
  fw,              \* firmware: what it does
  base,            \* firmware: where its window begins
  cursor,          \* firmware: the next chunk it sends
  losses, extra,   \* counters of the bounds
  raced,           \* ghost: a thread has read the address while another was between reading
                   \* it and writing its chunk
  early            \* ghost: a packet of another kind was handled before the size was known

frameVars == <<currMemAddress, dataSize, isFinished, outputFile, closed>>
fwVars    == <<fw, base, cursor>>
linkVars  == <<up, down>>
counters  == <<losses, extra>>
ghosts    == <<raced, early>>
vars      == <<main, frameVars, registered, handler, linkVars, fwVars, counters, ghosts>>

Handlers == 1..MaxHandlers

Size        == [code |-> 0, address |-> Chunks]
Data(a)     == [code |-> 1, address |-> a]
Request(a)  == [code |-> 2, address |-> a]
Other       == [code |-> 3, address |-> 0]

Packets     == {Size, Other} \cup {Data(a) : a \in 0..Chunks - 1} \cup {Request(a) : a \in 0..Chunks}
Answers     == [kind : {"size", "success", "notAll", "unknown"}, address : 0..Chunks]
Running     == [packet : Packets,
                pc : {"begin", "advance", "write", "success", "notAll", "test", "finish", "erase",
                      "wild"}]

ASSUME TransferAssumption ==
  /\ Chunks \in Nat \ {0} /\ Window \in Nat \ {0} /\ MaxHandlers \in Nat \ {0}
  /\ MaxLosses \in Nat /\ MaxExtra \in Nat /\ NoHandler \notin Running

UB == \E h \in Handlers : handler[h] # NoHandler /\ handler[h].pc = "wild"

Init ==
  /\ main = "idle" /\ currMemAddress = 0 /\ dataSize = 0 /\ isFinished = FALSE
  /\ outputFile = <<>> /\ closed = FALSE /\ registered = FALSE
  /\ handler = [h \in Handlers |-> NoHandler]
  /\ up = <<>> /\ down = <<>> /\ fw = "off" /\ base = 0 /\ cursor = 0
  /\ losses = 0 /\ extra = 0 /\ raced = FALSE /\ early = FALSE

-----------------------------------------------------------------------------
(* start().                                                                *)

\* Lines 28-29: the parameter makes the Crazyflie send; nobody listens yet.
setParam ==
  /\ main = "idle" /\ main' = "asked"
  /\ fw' = "size" /\ up' = Append(up, Size)
  /\ UNCHANGED <<frameVars, registered, handler, down, base, cursor, counters, ghosts>>

\* start() holds mu until it waits.
addAppChannelCallback ==
  /\ main = "asked" /\ main' = "registered" /\ registered' = TRUE
  /\ UNCHANGED <<frameVars, handler, linkVars, fwVars, counters, ghosts>>

Wait ==
  /\ main = "registered" /\ main' = "waiting"
  /\ UNCHANGED <<frameVars, registered, handler, linkVars, fwVars, counters, ghosts>>

\* Line 140: the frame dies.
Return ==
  /\ main = "waiting" /\ isFinished /\ main' = "returned"
  /\ UNCHANGED <<frameVars, registered, handler, linkVars, fwVars, counters, ghosts>>

Start == setParam \/ addAppChannelCallback \/ Wait \/ Return

-----------------------------------------------------------------------------
(* The handler threads.                                                    *)

Free == {h \in Handlers : handler[h] = NoHandler}

\* The worker gives the packet to the callback, if it is there; threads are alike.
Dispatch ==
  /\ up # <<>> /\ up' = Tail(up)
  /\ IF registered
     THEN /\ Free # {}
          /\ LET h == CHOOSE h \in Free : TRUE
             IN  handler' = [handler EXCEPT ![h] = [packet |-> Head(up), pc |-> "begin"]]
     ELSE UNCHANGED handler
  /\ UNCHANGED <<main, frameVars, registered, down, fwVars, counters, ghosts>>

Go(h, pc) == handler' = [handler EXCEPT ![h].pc = pc]

\* Thread h takes a step at pc, with the frame alive.
At(h, pc) == handler[h] # NoHandler /\ handler[h].pc = pc /\ main # "returned"

\* Thread h reads currMemAddress, which no lock protects: another thread may be about to
\* advance it, or to write the chunk it has advanced it for.
ReadsAddress(h) ==
  /\ raced' = (raced \/ \E g \in Handlers \ {h} :
                 handler[g] # NoHandler /\ handler[g].pc \in {"advance", "write"})
  /\ UNCHANGED early

Sends(answer) == down' = Append(down, answer)

\* Lines 64-71.
SizeMsg(h) ==
  /\ At(h, "begin") /\ handler[h].packet.code = 0
  /\ dataSize' = handler[h].packet.address
  /\ Sends([kind |-> "size", address |-> 0]) /\ Go(h, "test")
  /\ UNCHANGED <<main, currMemAddress, isFinished, outputFile, closed, registered, up, fwVars, counters, ghosts>>

\* Mutated form: every chunk is taken.
DataMsgUnchecked(h) ==
  /\ At(h, "begin") /\ handler[h].packet.code = 1 /\ Go(h, "advance")
  /\ ReadsAddress(h)
  /\ UNCHANGED <<main, frameVars, registered, linkVars, fwVars, counters>>

\* Lines 73-79: only the chunk at the current address is taken.
DataMsg(h) ==
  /\ At(h, "begin") /\ handler[h].packet.code = 1
  /\ Go(h, IF handler[h].packet.address = currMemAddress THEN "advance" ELSE "test")
  /\ ReadsAddress(h)
  /\ UNCHANGED <<main, frameVars, registered, linkVars, fwVars, counters>>

Advance(h) ==
  /\ At(h, "advance") /\ currMemAddress' = currMemAddress + 1 /\ Go(h, "write")
  /\ UNCHANGED <<main, dataSize, isFinished, outputFile, closed, registered, linkVars, fwVars, counters, ghosts>>

\* Line 84: writing to a closed file does nothing.
Write(h) ==
  /\ At(h, "write") /\ Go(h, "test")
  /\ outputFile' = IF closed THEN outputFile ELSE Append(outputFile, handler[h].packet.address)
  /\ UNCHANGED <<main, currMemAddress, dataSize, isFinished, closed, registered, linkVars, fwVars, counters, ghosts>>

\* Lines 88-106: has all before the requested address arrived?  The thread keeps the result.
AckRequest(h) ==
  /\ At(h, "begin") /\ handler[h].packet.code = 2
  /\ Go(h, IF handler[h].packet.address = currMemAddress THEN "success" ELSE "notAll")
  /\ ReadsAddress(h)
  /\ UNCHANGED <<main, frameVars, registered, linkVars, fwVars, counters>>

\* Mutated forms: the answer repeats the address of the request; there is no answer to a
\* request for another address.
ReplyEcho(h) ==
  \E result \in {"success", "notAll"} :
    /\ At(h, result) /\ Go(h, "test")
    /\ Sends([kind |-> result, address |-> handler[h].packet.address])
    /\ ReadsAddress(h)
    /\ UNCHANGED <<main, frameVars, registered, up, fwVars, counters>>

ReplySilent(h) ==
  \E result \in {"success", "notAll"} :
    /\ At(h, result) /\ Go(h, "test")
    /\ IF result = "success"
       THEN Sends([kind |-> result, address |-> currMemAddress]) ELSE UNCHANGED down
    /\ ReadsAddress(h)
    /\ UNCHANGED <<main, frameVars, registered, up, fwVars, counters>>

\* Lines 108-110: the address is read again, so that the answer may name a later one than the
\* result is about.
Reply(h) ==
  \E result \in {"success", "notAll"} :
    /\ At(h, result) /\ Go(h, "test")
    /\ Sends([kind |-> result, address |-> currMemAddress])
    /\ ReadsAddress(h)
    /\ UNCHANGED <<main, frameVars, registered, up, fwVars, counters>>

\* Lines 112-118: the packet is answered, and the test of line 120 follows all the same.
OtherMsg(h) ==
  /\ At(h, "begin") /\ handler[h].packet.code = 3 /\ Go(h, "test")
  /\ Sends([kind |-> "unknown", address |-> 0])
  /\ early' = (early \/ dataSize = 0)
  /\ UNCHANGED <<main, frameVars, registered, up, fwVars, counters, raced>>

\* Mutated form: finished one chunk early.
TestEarly(h) ==
  /\ At(h, "test")
  /\ IF currMemAddress + 1 >= dataSize
     THEN closed' = TRUE /\ Go(h, "finish")
     ELSE handler' = [handler EXCEPT ![h] = NoHandler] /\ UNCHANGED closed
  /\ ReadsAddress(h)
  /\ UNCHANGED <<main, currMemAddress, dataSize, isFinished, outputFile, registered, linkVars, fwVars, counters>>

\* Lines 120-122 and 138: the file is closed before isFinished is set.
Test(h) ==
  /\ At(h, "test")
  /\ IF currMemAddress >= dataSize
     THEN closed' = TRUE /\ Go(h, "finish")
     ELSE handler' = [handler EXCEPT ![h] = NoHandler] /\ UNCHANGED closed
  /\ ReadsAddress(h)
  /\ UNCHANGED <<main, currMemAddress, dataSize, isFinished, outputFile, registered, linkVars, fwVars, counters>>

\* Lines 133-136: mu is free while start() sleeps.
Finish(h) ==
  /\ At(h, "finish") /\ main = "waiting" /\ isFinished' = TRUE /\ Go(h, "erase")
  /\ UNCHANGED <<main, currMemAddress, dataSize, outputFile, closed, registered, linkVars, fwVars, counters, ghosts>>

\* The callback has returned false: the worker's thread erases it.
Erase(h) ==
  /\ handler[h] # NoHandler /\ handler[h].pc = "erase"
  /\ registered' = FALSE
  /\ IF registered THEN handler' = [handler EXCEPT ![h] = NoHandler] ELSE Go(h, "wild")
  /\ UNCHANGED <<main, frameVars, linkVars, fwVars, counters, ghosts>>

\* The frame that the callback's pointers lead to is dead.
Stray(h) ==
  /\ handler[h] # NoHandler /\ handler[h].pc # "erase" /\ main = "returned" /\ Go(h, "wild")
  /\ UNCHANGED <<main, frameVars, registered, linkVars, fwVars, counters, ghosts>>

Handle(h) ==
  \/ SizeMsg(h) \/ DataMsg(h) \/ Advance(h) \/ Write(h) \/ AckRequest(h) \/ Reply(h)
  \/ OtherMsg(h) \/ Test(h) \/ Finish(h) \/ Erase(h) \/ Stray(h)

-----------------------------------------------------------------------------
(* The firmware and the link (external).                                   *)

WindowEnd == Min({base + Window, Chunks})

FwSendData ==
  /\ fw = "send" /\ cursor < WindowEnd /\ cursor' = cursor + 1
  /\ up' = Append(up, Data(cursor))
  /\ UNCHANGED <<main, frameVars, registered, handler, down, fw, base, counters, ghosts>>

FwRequestAck ==
  /\ fw = "send" /\ cursor = WindowEnd /\ fw' = "wait"
  /\ up' = Append(up, Request(cursor))
  /\ UNCHANGED <<main, frameVars, registered, handler, down, base, cursor, counters, ghosts>>

\* An answer to nothing it has asked is ignored.
FwGoOn(address) ==
  /\ base' = address /\ cursor' = address
  /\ fw' = IF address >= Chunks THEN "done" ELSE "send"

FwAnswered ==
  /\ down # <<>> /\ down' = Tail(down)
  /\ LET answer == Head(down)
     IN  CASE fw = "size" /\ answer.kind = "size" -> FwGoOn(0)
           [] fw = "wait" /\ answer.kind \in {"success", "notAll"} -> FwGoOn(answer.address)
           [] OTHER -> UNCHANGED fwVars
  /\ UNCHANGED <<main, frameVars, registered, handler, up, counters, ghosts>>

Silent == up = <<>> /\ down = <<>> /\ Free = Handlers

Extra == extra < MaxExtra /\ extra' = extra + 1

\* It asks again when it has waited too long; how long that is, is not known here.
FwResend ==
  /\ fw \in {"size", "wait"}
  /\ IF Silent THEN UNCHANGED extra ELSE Extra
  /\ up' = Append(up, IF fw = "size" THEN Size ELSE Request(cursor))
  /\ UNCHANGED <<main, frameVars, registered, handler, down, fwVars, losses, ghosts>>

\* The app of the Crazyflie sends something else.
FwSendOther ==
  /\ fw # "off" /\ Extra
  /\ up' = Append(up, Other)
  /\ UNCHANGED <<main, frameVars, registered, handler, down, fwVars, losses, ghosts>>

Lose ==
  /\ losses < MaxLosses /\ losses' = losses + 1
  /\ \/ up # <<>> /\ up' = Tail(up) /\ UNCHANGED down
     \/ down # <<>> /\ down' = Tail(down) /\ UNCHANGED up
  /\ UNCHANGED <<main, frameVars, registered, handler, fwVars, extra, ghosts>>

Firmware == FwSendData \/ FwRequestAck \/ FwAnswered \/ (Silent /\ FwResend)

\* A race is undefined behaviour too.
Defined == ~UB /\ ~raced

Next ==
  /\ Defined
  /\ \/ Start \/ Dispatch \/ \E h \in Handlers : Handle(h)
     \/ Firmware \/ FwResend \/ FwSendOther \/ Lose

Spec == Init /\ [][Next]_vars

\* Threads are scheduled, the link carries what it does not lose, and the firmware goes on.
FairSpec ==
  /\ Spec
  /\ WF_vars(Defined /\ Start) /\ WF_vars(Defined /\ Dispatch) /\ WF_vars(Defined /\ Firmware)
  /\ \A h \in Handlers : WF_vars(Defined /\ Handle(h))

-----------------------------------------------------------------------------

TypeOK ==
  /\ main \in {"idle", "asked", "registered", "waiting", "returned"}
  /\ currMemAddress \in 0..Chunks /\ dataSize \in {0, Chunks} /\ isFinished \in BOOLEAN
  /\ outputFile \in Seq(0..Chunks - 1) /\ closed \in BOOLEAN /\ registered \in BOOLEAN
  /\ handler \in [Handlers -> Running \cup {NoHandler}]
  /\ up \in Seq(Packets) /\ down \in Seq(Answers)
  /\ fw \in {"off", "size", "send", "wait", "done"}
  /\ base \in 0..Chunks /\ cursor \in 0..Chunks
  /\ losses \in 0..MaxLosses /\ extra \in 0..MaxExtra
  /\ raced \in BOOLEAN /\ early \in BOOLEAN

\* Whatever is lost, sent again or handled in another order, the file holds the chunks of
\* the Crazyflie's file in their order, without a gap and without a repetition (the test of
\* LoggingCrazyflieWrapper.cpp:77), up to the first race.
FileIsPrefix == outputFile = [i \in 1..Len(outputFile) |-> i - 1]

\* The Crazyflie forgets what lies before the address it was answered (line 108): all of that
\* is in the file, up to the first race, unless a packet of another kind has closed it early.
AckedIsWritten == ~early => base <= Len(outputFile)

\* The file is never cut short: when it is closed, or a thread goes wild, all of the
\* Crazyflie's file is in it, and neither a size that is still 0 (line 120) nor a late packet
\* has ended the transfer in the midst.  Only a packet of another kind that comes before the
\* size ends it early, and then the file is empty, as the address and the size are both 0.
\* Nothing is claimed after a race: a thread that tests the address after line 81 of the last
\* chunk may close the file before its line 84.
FinishedIsComplete ==
  (closed \/ UB) /\ ~raced => Len(outputFile) = Chunks \/ (early /\ outputFile = <<>>)

\* start() returns, if the link loses only so many packets.  Nothing is claimed of a transfer
\* in which a thread has read the address while another was about to advance it or to write
\* its chunk, nor of one whose callback two threads have erased before start() has returned.
TransferEnds == (main = "asked") ~> (main = "returned" \/ ~Defined)
=============================================================================
