----------------------------- MODULE TransferProofs -----------------------------
(***************************************************************************)
(* The file transfer is right for files, windows and numbers of threads of *)
(* any size and any number of losses and repetitions, up to the first race *)
(* and, as to what is acknowledged, without a packet of another kind       *)
(* before the size.                                                        *)
(*                                                                         *)
(* The reason is that between reading the address and writing its chunk a  *)
(* thread is alone (OneWriter), so that the address is the length of the   *)
(* file, or one more while a chunk is about to be written (FileLength).    *)
(* The file is closed at its full length (ClosedAtEnd), or empty           *)
(* (AllOrNothing), because nobody but a packet of another kind tests the   *)
(* address before the size is there (NotBegun), and what was answered      *)
(* stays written (AnswersWritten).                                         *)
(***************************************************************************)
EXTENDS AppChannelTransfer, TLAPS, SequenceTheorems

IsAt(h, S) == handler[h] # NoHandler /\ handler[h].pc \in S

\* What a thread knows of the chunk it brings.
Brings ==
  \A h \in Handlers :
    /\ IsAt(h, {"advance", "write"}) => handler[h].packet.code = 1
    /\ ~raced /\ IsAt(h, {"advance"}) => handler[h].packet.address = currMemAddress
    /\ ~raced /\ IsAt(h, {"write"}) => handler[h].packet.address + 1 = currMemAddress

OneWriter ==
  ~raced => \A g, h \in Handlers :
    IsAt(g, {"advance", "write"}) /\ IsAt(h, {"advance", "write"}) => g = h

FileLength ==
  ~raced /\ ~(closed /\ early) =>
    /\ (\E h \in Handlers : IsAt(h, {"write"})) => Len(outputFile) + 1 = currMemAddress
    /\ (\A h \in Handlers : ~IsAt(h, {"write"})) => Len(outputFile) = currMemAddress

ClosedAtEnd ==
  closed /\ ~early =>
    /\ currMemAddress = Chunks /\ dataSize # 0
    /\ ~raced => \A h \in Handlers : ~IsAt(h, {"advance", "write"})

\* Before the size is handled the Crazyflie waits for its acknowledgement.
NotBegun ==
  dataSize = 0 =>
    /\ fw \in {"off", "size"}
    /\ \A i \in 1..Len(up) : up[i].code \in {0, 3}
    /\ \A i \in 1..Len(down) : down[i].kind # "size"
    /\ \A h \in Handlers : handler[h] # NoHandler =>
         handler[h].packet.code \in {0, 3} /\ (early \/ handler[h].pc = "begin")

AnswersWritten ==
  ~raced /\ ~early => \A i \in 1..Len(down) :
    down[i].kind \in {"success", "notAll"} => down[i].address <= Len(outputFile)

\* The file is closed whole, or empty when no size was known.
AllOrNothing ==
  /\ dataSize = 0 => outputFile = <<>>
  /\ closed /\ ~raced => Len(outputFile) = Chunks \/ (early /\ outputFile = <<>>)

\* The file is closed before anybody is told that the transfer is finished.
ClosedFirst ==
  /\ (isFinished \/ main = "returned") => closed
  /\ \A h \in Handlers : IsAt(h, {"finish", "erase", "wild"}) => closed

IInv ==
  /\ TypeOK /\ Brings /\ OneWriter /\ FileLength /\ ClosedAtEnd /\ NotBegun
  /\ AnswersWritten /\ AllOrNothing /\ ClosedFirst /\ FileIsPrefix /\ AckedIsWritten

-----------------------------------------------------------------------------
(* Queues and threads.                                                     *)

LEMMA AppendElements ==
  ASSUME NEW S, NEW s \in Seq(S), NEW x \in S
  PROVE  /\ Append(s, x) \in Seq(S) /\ Len(s) \in Nat /\ Len(Append(s, x)) = Len(s) + 1
         /\ \A i \in 1..Len(s) + 1 : (Append(s, x)[i] = s[i] /\ i <= Len(s)) \/ Append(s, x)[i] = x
BY AppendProperties, LenProperties

LEMMA TailElements ==
  ASSUME NEW S, NEW s \in Seq(S), s # <<>>
  PROVE  /\ Tail(s) \in Seq(S) /\ Head(s) \in S /\ Head(s) = s[1]
         /\ Len(s) \in Nat \ {0} /\ Len(Tail(s)) = Len(s) - 1
         /\ \A i \in 1..Len(s) - 1 : Tail(s)[i] = s[i + 1]
BY HeadTailProperties, LenProperties, EmptySeq

\* A thread that goes on.
LEMMA Went ==
  ASSUME TypeOK, NEW h \in Handlers, handler[h] # NoHandler,
         NEW pc \in {"begin", "advance", "write", "success", "notAll", "test", "finish", "erase",
                     "wild"},
         Go(h, pc)
  PROVE  /\ handler' \in [Handlers -> Running \cup {NoHandler}]
         /\ handler'[h] # NoHandler /\ handler'[h].pc = pc
         /\ handler'[h].packet = handler[h].packet /\ handler[h].packet \in Packets
         /\ \A g \in Handlers \ {h} : handler'[g] = handler[g]
<1>1. handler[h] \in Running
  BY DEF TypeOK
<1>2. [handler[h] EXCEPT !.pc = pc] \in Running
  BY <1>1 DEF Running
<1>3. handler'[h] = [handler[h] EXCEPT !.pc = pc]
  BY DEF Go, TypeOK
<1>4. /\ handler'[h].pc = pc /\ handler'[h].packet = handler[h].packet
      /\ handler[h].packet \in Packets
  BY <1>1, <1>3 DEF Running
<1> QED BY <1>2, <1>3, <1>4, TransferAssumption DEF Go, TypeOK

\* A thread that ends.
LEMMA Gone ==
  ASSUME TypeOK, NEW h \in Handlers, handler' = [handler EXCEPT ![h] = NoHandler]
  PROVE  /\ handler' \in [Handlers -> Running \cup {NoHandler}]
         /\ handler'[h] = NoHandler /\ \A g \in Handlers \ {h} : handler'[g] = handler[g]
BY DEF TypeOK

\* What a step leaves alone, it keeps.
LEMMA Kept ==
  ASSUME IInv
  PROVE  /\ UNCHANGED <<handler, raced, currMemAddress>> => Brings'
         /\ UNCHANGED <<handler, raced>> => OneWriter'
         /\ UNCHANGED <<handler, raced, closed, early, outputFile, currMemAddress>> => FileLength'
         /\ UNCHANGED <<closed, early, currMemAddress, dataSize, handler, raced>> => ClosedAtEnd'
         /\ UNCHANGED <<dataSize, fw, up, down, handler, early>> => NotBegun'
         /\ UNCHANGED <<raced, early, down, outputFile>> => AnswersWritten'
         /\ UNCHANGED <<isFinished, main, closed, handler>> => ClosedFirst'
         /\ UNCHANGED outputFile => FileIsPrefix'
         /\ UNCHANGED <<early, base, outputFile>> => AckedIsWritten'
         /\ UNCHANGED <<outputFile, closed>> /\ (early => early') /\ (raced => raced')
              /\ (dataSize' # 0 \/ UNCHANGED dataSize) => AllOrNothing'
<1> USE DEF IInv, IsAt
<1>1. UNCHANGED <<handler, raced, currMemAddress>> => Brings'
  BY DEF Brings
<1>2. UNCHANGED <<handler, raced>> => OneWriter'
  BY DEF OneWriter
<1>3. UNCHANGED <<handler, raced, closed, early, outputFile, currMemAddress>> => FileLength'
  BY DEF FileLength
<1>4. UNCHANGED <<closed, early, currMemAddress, dataSize, handler, raced>> => ClosedAtEnd'
  BY DEF ClosedAtEnd
<1>5. UNCHANGED <<dataSize, fw, up, down, handler, early>> => NotBegun'
  BY DEF NotBegun
<1>6. UNCHANGED <<raced, early, down, outputFile>> => AnswersWritten'
  BY DEF AnswersWritten
<1>7. UNCHANGED <<isFinished, main, closed, handler>> => ClosedFirst'
  BY DEF ClosedFirst
<1>8. UNCHANGED outputFile => FileIsPrefix'
  BY DEF FileIsPrefix
<1>9. UNCHANGED <<early, base, outputFile>> => AckedIsWritten'
  BY DEF AckedIsWritten
<1>10. ASSUME UNCHANGED <<outputFile, closed>>, early => early', raced => raced',
              dataSize' # 0 \/ UNCHANGED dataSize
       PROVE  AllOrNothing'
  <2>1. dataSize' = 0 => outputFile' = <<>>
    BY <1>10 DEF AllOrNothing
  <2>2. ASSUME closed', ~raced'
        PROVE  Len(outputFile') = Chunks \/ (early' /\ outputFile' = <<>>)
    BY <1>10, <2>2 DEF AllOrNothing
  <2> QED BY <2>1, <2>2 DEF AllOrNothing
<1> QED BY <1>1, <1>2, <1>3, <1>4, <1>5, <1>6, <1>7, <1>8, <1>9, <1>10

\* The kinds of packets.
LEMMA PacketKinds ==
  /\ Size \in Packets /\ Other \in Packets /\ Size.code = 0 /\ Other.code = 3
  /\ \A a \in 0..Chunks : Request(a) \in Packets /\ Request(a).code = 2
  /\ \A a \in 0..Chunks - 1 : Data(a) \in Packets /\ Data(a).code = 1
  /\ \A p \in Packets :
       /\ p.address \in 0..Chunks /\ p.code \in {0, 1, 2, 3}
       /\ p.code = 0 => p.address = Chunks
       /\ p.code = 1 => p.address \in 0..Chunks - 1
<1>1. /\ Size \in Packets /\ Other \in Packets /\ Size.code = 0 /\ Other.code = 3
      /\ \A a \in 0..Chunks : Request(a) \in Packets /\ Request(a).code = 2
      /\ \A a \in 0..Chunks - 1 : Data(a) \in Packets /\ Data(a).code = 1
  BY DEF Packets, Size, Other, Request, Data
<1>2. ASSUME NEW p \in Packets
      PROVE  /\ p.address \in 0..Chunks /\ p.code \in {0, 1, 2, 3}
             /\ p.code = 0 => p.address = Chunks
             /\ p.code = 1 => p.address \in 0..Chunks - 1
  <2>1. CASE p \in {Size, Other}
    BY <2>1, TransferAssumption DEF Size, Other
  <2>2. CASE \E a \in 0..Chunks - 1 : p = Data(a)
    BY <2>2, TransferAssumption DEF Data
  <2>3. CASE \E a \in 0..Chunks : p = Request(a)
    BY <2>3, TransferAssumption DEF Request
  <2> QED BY <2>1, <2>2, <2>3 DEF Packets
<1> QED BY <1>1, <1>2

\* A thread that is not about to write, and a thread that no longer is.
LEMMA NoWriterMore ==
  ASSUME IInv, ~raced, NEW h \in Handlers,
         \A g \in Handlers \ {h} : handler'[g] = handler[g],
         handler'[h] = NoHandler \/ handler'[h].pc \notin {"advance", "write"},
         currMemAddress' = currMemAddress
  PROVE  /\ Brings' /\ OneWriter'
         /\ ~IsAt(h, {"write"}) /\ UNCHANGED outputFile /\ (closed /\ early => closed' /\ early')
              => FileLength'
         /\ UNCHANGED <<closed, early>> /\ (dataSize' # 0 \/ UNCHANGED dataSize) => ClosedAtEnd'
<1>1. ~IsAt(h, {"advance", "write"})' /\ ~IsAt(h, {"advance"})' /\ ~IsAt(h, {"write"})'
  BY DEF IsAt
<1>2. \A g \in Handlers \ {h} :
        /\ (IsAt(g, {"advance", "write"})' <=> IsAt(g, {"advance", "write"}))
        /\ (IsAt(g, {"advance"})' <=> IsAt(g, {"advance"}))
        /\ (IsAt(g, {"write"})' <=> IsAt(g, {"write"}))
  BY DEF IsAt
<1>3. Brings'
  BY <1>1, <1>2 DEF IInv, Brings
<1>4. OneWriter'
  BY <1>1, <1>2 DEF IInv, OneWriter
<1>5. ASSUME ~IsAt(h, {"write"}), UNCHANGED outputFile, closed /\ early => closed' /\ early'
      PROVE  FileLength'
  <2>1. \A g \in Handlers : (IsAt(g, {"write"})' <=> IsAt(g, {"write"}))
    BY <1>1, <1>2, <1>5
  <2> QED BY <2>1, <1>5 DEF IInv, FileLength
<1>6. ASSUME UNCHANGED <<closed, early>>, dataSize' # 0 \/ UNCHANGED dataSize
      PROVE  ClosedAtEnd'
  BY <1>1, <1>2, <1>6 DEF IInv, ClosedAtEnd
<1> QED BY <1>3, <1>4, <1>5, <1>6

-----------------------------------------------------------------------------
(* start().                                                                *)

LEMMA StartKeeps ==
  ASSUME IInv, Start
  PROVE  IInv'
<1>1. /\ UNCHANGED <<handler, raced, currMemAddress, closed, early, outputFile, down, base, dataSize>>
      /\ isFinished' = isFinished
  BY DEF Start, setParam, addAppChannelCallback, Wait, Return, frameVars, fwVars, linkVars, ghosts
<1>2. TypeOK'
  <2>1. CASE setParam
    <3>1. up' \in Seq(Packets) /\ main' = "asked" /\ fw' = "size"
      BY <2>1, AppendElements, PacketKinds DEF IInv, TypeOK, setParam
    <3>2. UNCHANGED <<registered, cursor, losses, extra>>
      BY <2>1 DEF setParam, counters
    <3> QED BY <1>1, <3>1, <3>2 DEF IInv, TypeOK
  <2>2. CASE ~setParam
    <3>1. main' \in {"registered", "waiting", "returned"} /\ registered' \in BOOLEAN
      BY <2>2 DEF IInv, TypeOK, Start, addAppChannelCallback, Wait, Return
    <3>2. UNCHANGED <<up, fw, cursor, losses, extra>>
      BY <2>2 DEF Start, addAppChannelCallback, Wait, Return, fwVars, linkVars, counters
    <3> QED BY <1>1, <3>1, <3>2 DEF IInv, TypeOK
  <2> QED BY <2>1, <2>2
<1>3. NotBegun'
  <2>1. CASE setParam
    <3>1. up \in Seq(Packets) /\ up' = Append(up, Size) /\ fw' = "size"
      BY <2>1 DEF setParam, IInv, TypeOK
    <3>2. ASSUME dataSize = 0, NEW i \in 1..Len(up')
          PROVE  up'[i].code \in {0, 3}
      BY <3>1, <3>2, AppendElements, PacketKinds DEF IInv, NotBegun
    <3> QED BY <3>1, <3>2, <1>1 DEF IInv, NotBegun
  <2>2. CASE ~setParam
    BY <2>2, <1>1, Kept DEF Start, addAppChannelCallback, Wait, Return, fwVars, linkVars
  <2> QED BY <2>1, <2>2
<1>4. ClosedFirst'
  BY <1>1 DEF Start, setParam, addAppChannelCallback, Wait, Return, IInv, ClosedFirst, IsAt
<1> QED BY <1>1, <1>2, <1>3, <1>4, Kept DEF IInv

-----------------------------------------------------------------------------
(* The handler threads.                                                    *)

LEMMA DispatchKeeps ==
  ASSUME IInv, Dispatch, ~raced
  PROVE  IInv'
<1>1. /\ UNCHANGED <<main, currMemAddress, dataSize, isFinished, outputFile, closed, registered,
                     down, fw, base, cursor, losses, extra, raced, early>>
      /\ up # <<>> /\ up' = Tail(up) /\ up \in Seq(Packets)
  BY DEF Dispatch, frameVars, fwVars, counters, ghosts, IInv, TypeOK
<1>2. /\ up' \in Seq(Packets) /\ Head(up) \in Packets /\ Head(up) = up[1] /\ 1 \in 1..Len(up)
      /\ \A i \in 1..Len(up') : up'[i] = up[i + 1] /\ i + 1 \in 1..Len(up)
  BY <1>1, TailElements
<1>3. dataSize = 0 => \A i \in 1..Len(up') : up'[i].code \in {0, 3}
  BY <1>2 DEF IInv, NotBegun
<1>4. CASE UNCHANGED handler
  <2>1. TypeOK'
    BY <1>1, <1>2, <1>4 DEF IInv, TypeOK
  <2>2. NotBegun'
    BY <1>1, <1>3, <1>4 DEF IInv, NotBegun
  <2> QED BY <1>1, <1>4, <2>1, <2>2, Kept DEF IInv
<1>5. CASE ~UNCHANGED handler
  <2>1. PICK h \in Handlers :
          handler[h] = NoHandler
          /\ handler' = [handler EXCEPT ![h] = [packet |-> Head(up), pc |-> "begin"]]
    BY <1>5 DEF Dispatch, Free
  <2>2. [packet |-> Head(up), pc |-> "begin"] \in Running
    BY <1>2 DEF Running
  <2>3. /\ handler' \in [Handlers -> Running \cup {NoHandler}]
        /\ handler'[h] = [packet |-> Head(up), pc |-> "begin"]
        /\ \A g \in Handlers \ {h} : handler'[g] = handler[g]
    BY <2>1, <2>2 DEF IInv, TypeOK
  <2>4. TypeOK'
    BY <1>1, <1>2, <2>3 DEF IInv, TypeOK
  <2>5. /\ handler'[h].pc = "begin" /\ handler'[h].packet = up[1]
        /\ ~IsAt(h, {"write"}) /\ ~IsAt(h, {"finish", "erase", "wild"})'
    BY <2>1, <2>3, <1>2 DEF IsAt
  <2>6. Brings' /\ OneWriter' /\ FileLength' /\ ClosedAtEnd'
    BY <1>1, <2>3, <2>5, NoWriterMore
  <2>7. NotBegun'
    BY <1>1, <1>2, <1>3, <2>3, <2>5 DEF IInv, NotBegun
  <2>8. ClosedFirst'
    BY <1>1, <2>3, <2>5 DEF IInv, ClosedFirst, IsAt
  <2> QED BY <1>1, <2>4, <2>6, <2>7, <2>8, Kept DEF IInv
<1> QED BY <1>4, <1>5

LEMMA SizeMsgKeeps ==
  ASSUME IInv, ~raced, NEW h \in Handlers, SizeMsg(h)
  PROVE  IInv'
<1>1. /\ UNCHANGED <<main, currMemAddress, isFinished, outputFile, closed, registered, up,
                     fw, base, cursor, losses, extra, raced, early>>
      /\ handler[h] # NoHandler /\ handler[h].pc = "begin" /\ handler[h].packet.code = 0
      /\ dataSize' = handler[h].packet.address /\ Go(h, "test")
      /\ down' = Append(down, [kind |-> "size", address |-> 0])
  BY DEF SizeMsg, At, Sends, fwVars, counters, ghosts
<1>2. /\ handler' \in [Handlers -> Running \cup {NoHandler}] /\ handler'[h].pc = "test"
      /\ handler[h].packet \in Packets /\ \A g \in Handlers \ {h} : handler'[g] = handler[g]
  BY <1>1, Went DEF IInv
<1>3. dataSize' = Chunks /\ Chunks \in Nat \ {0}
  BY <1>1, <1>2, PacketKinds, TransferAssumption
<1>4. [kind |-> "size", address |-> 0] \in Answers
  BY TransferAssumption DEF Answers
<1>5. down' \in Seq(Answers)
  BY <1>1, <1>4, AppendElements DEF IInv, TypeOK
<1>6. TypeOK'
  BY <1>1, <1>2, <1>3, <1>5 DEF IInv, TypeOK
<1>7. ~IsAt(h, {"write"}) /\ ~IsAt(h, {"finish", "erase", "wild"})'
  BY <1>1, <1>2 DEF IsAt
<1>8. Brings' /\ OneWriter' /\ FileLength' /\ ClosedAtEnd'
  BY <1>1, <1>2, <1>3, <1>7, NoWriterMore
<1>9. NotBegun'
  BY <1>3 DEF NotBegun
<1>10. AnswersWritten'
  <2>1. ASSUME NEW i \in 1..Len(down'), down'[i].kind \in {"success", "notAll"}
        PROVE  i \in 1..Len(down) /\ down'[i] = down[i]
    BY <1>1, <1>4, <2>1, AppendElements DEF IInv, TypeOK
  <2> QED BY <1>1, <2>1 DEF IInv, AnswersWritten
<1>11. ClosedFirst'
  BY <1>1, <1>2, <1>7 DEF IInv, ClosedFirst, IsAt
<1>12. dataSize' # 0
  BY <1>3
<1> QED BY <1>1, <1>6, <1>8, <1>9, <1>10, <1>11, <1>12, Kept DEF IInv

LEMMA DataMsgKeeps ==
  ASSUME IInv, ~raced, NEW h \in Handlers, DataMsg(h)
  PROVE  IInv'
<1>1. /\ UNCHANGED <<main, currMemAddress, dataSize, isFinished, outputFile, closed, registered,
                     up, down, fw, base, cursor, losses, extra, early>>
      /\ handler[h] # NoHandler /\ handler[h].pc = "begin" /\ handler[h].packet.code = 1
      /\ ~raced' => \A g \in Handlers \ {h} : ~IsAt(g, {"advance", "write"})
      /\ raced' \in BOOLEAN
  BY DEF DataMsg, At, ReadsAddress, IsAt, frameVars, linkVars, fwVars, counters
<1>2. dataSize # 0
  BY <1>1 DEF IInv, NotBegun
<1>3. NotBegun' /\ AnswersWritten' /\ AllOrNothing' /\ FileIsPrefix' /\ AckedIsWritten'
  <2>1. NotBegun' /\ AnswersWritten' /\ FileIsPrefix' /\ AckedIsWritten'
    BY <1>1, <1>2 DEF NotBegun, AnswersWritten, FileIsPrefix, AckedIsWritten, IInv
  <2>2. AllOrNothing'
    BY <1>1, Kept
  <2> QED BY <2>1, <2>2
<1>4. CASE Go(h, "test")
  <2>1. /\ handler' \in [Handlers -> Running \cup {NoHandler}] /\ handler'[h].pc = "test"
        /\ \A g \in Handlers \ {h} : handler'[g] = handler[g]
    BY <1>1, <1>4, Went DEF IInv
  <2>2. TypeOK'
    BY <1>1, <2>1 DEF IInv, TypeOK
  <2>3. ~IsAt(h, {"write"}) /\ ~IsAt(h, {"finish", "erase", "wild"})'
    BY <1>1, <2>1 DEF IsAt
  <2>4. Brings' /\ OneWriter' /\ FileLength' /\ ClosedAtEnd'
    BY <1>1, <2>1, <2>3, NoWriterMore
  <2>5. ClosedFirst'
    BY <1>1, <2>1, <2>3 DEF IInv, ClosedFirst, IsAt
  <2> QED BY <1>3, <2>2, <2>4, <2>5 DEF IInv
<1>5. CASE ~Go(h, "test")
  <2>1. handler[h].packet.address = currMemAddress /\ Go(h, "advance")
    BY <1>5 DEF DataMsg
  <2>2. /\ handler' \in [Handlers -> Running \cup {NoHandler}] /\ handler'[h].pc = "advance"
        /\ handler'[h].packet = handler[h].packet /\ handler[h].packet \in Packets
        /\ handler'[h] # NoHandler
        /\ \A g \in Handlers \ {h} : handler'[g] = handler[g]
    BY <1>1, <2>1, Went DEF IInv
  <2>3. TypeOK'
    BY <1>1, <2>2 DEF IInv, TypeOK
  <2>4. /\ ~IsAt(h, {"write"}) /\ ~IsAt(h, {"finish", "erase", "wild"})'
        /\ ~IsAt(h, {"write"})' /\ ~IsAt(h, {"advance", "write"})
        /\ \A g \in Handlers \ {h} :
             /\ IsAt(g, {"advance", "write"})' <=> IsAt(g, {"advance", "write"})
             /\ IsAt(g, {"write"})' <=> IsAt(g, {"write"})
             /\ IsAt(g, {"advance"})' <=> IsAt(g, {"advance"})
             /\ IsAt(g, {"finish", "erase", "wild"})' <=> IsAt(g, {"finish", "erase", "wild"})
    BY <1>1, <2>2 DEF IsAt
  <2>5. Brings'
    <3>1. ~raced' => \A g \in Handlers \ {h} : ~IsAt(g, {"advance"}) /\ ~IsAt(g, {"write"})
      BY <1>1 DEF IsAt
    <3>2. \A g \in Handlers \ {h} :
            IsAt(g, {"advance", "write"})' => handler'[g].packet.code = 1
      BY <2>2, <2>4 DEF IInv, Brings
    <3> QED BY <1>1, <2>1, <2>2, <2>4, <3>1, <3>2 DEF Brings
  <2>6. OneWriter'
    BY <1>1, <2>4 DEF OneWriter
  <2>7. FileLength'
    <3>1. \A g \in Handlers : IsAt(g, {"write"})' <=> IsAt(g, {"write"})
      BY <2>4
    <3> QED BY <1>1, <3>1 DEF IInv, FileLength
  <2>8. currMemAddress # Chunks
    BY <1>1, <2>1, <2>2, PacketKinds, TransferAssumption
  <2>9. ClosedAtEnd'
    BY <1>1, <2>8 DEF IInv, ClosedAtEnd
  <2>10. ClosedFirst'
    BY <1>1, <2>4 DEF IInv, ClosedFirst
  <2> QED BY <1>3, <2>3, <2>5, <2>6, <2>7, <2>9, <2>10 DEF IInv
<1> QED BY <1>4, <1>5

LEMMA AdvanceKeeps ==
  ASSUME IInv, ~raced, NEW h \in Handlers, Advance(h)
  PROVE  IInv'
<1>1. /\ UNCHANGED <<main, dataSize, isFinished, outputFile, closed, registered,
                     up, down, fw, base, cursor, losses, extra, raced, early>>
      /\ handler[h] # NoHandler /\ handler[h].pc = "advance" /\ Go(h, "write")
      /\ currMemAddress' = currMemAddress + 1
  BY DEF Advance, At, linkVars, fwVars, counters, ghosts
<1>2. /\ handler' \in [Handlers -> Running \cup {NoHandler}] /\ handler'[h].pc = "write"
      /\ handler'[h] # NoHandler
      /\ handler'[h].packet = handler[h].packet /\ handler[h].packet \in Packets
      /\ \A g \in Handlers \ {h} : handler'[g] = handler[g]
  BY <1>1, Went DEF IInv
<1>3. IsAt(h, {"advance"}) /\ IsAt(h, {"advance", "write"})
  BY <1>1 DEF IsAt
<1>4. handler[h].packet.code = 1 /\ handler[h].packet.address = currMemAddress
  BY <1>3 DEF IInv, Brings
<1>5. currMemAddress \in 0..Chunks - 1 /\ Chunks \in Nat
  BY <1>2, <1>4, PacketKinds, TransferAssumption
<1>6. \A g \in Handlers \ {h} :
        /\ ~IsAt(g, {"advance", "write"})
        /\ ~IsAt(g, {"advance", "write"})' /\ ~IsAt(g, {"advance"})' /\ ~IsAt(g, {"write"})'
  <2>1. \A g \in Handlers \ {h} : ~IsAt(g, {"advance", "write"})
    BY <1>3 DEF IInv, OneWriter
  <2> QED BY <2>1, <1>2 DEF IsAt
<1>7. IsAt(h, {"write"})' /\ ~IsAt(h, {"advance"})' /\ ~IsAt(h, {"finish", "erase", "wild"})'
      /\ \A g \in Handlers : ~IsAt(g, {"write"})
  <2>1. \A g \in Handlers \ {h} : ~IsAt(g, {"write"})
    BY <1>6 DEF IsAt
  <2> QED BY <1>1, <1>2, <2>1 DEF IsAt
<1>8. TypeOK'
  BY <1>1, <1>2, <1>5 DEF IInv, TypeOK
<1>9. Brings'
  BY <1>1, <1>2, <1>4, <1>6, <1>7 DEF Brings
<1>10. OneWriter'
  BY <1>6 DEF OneWriter
<1>11. FileLength'
  BY <1>1, <1>7 DEF IInv, FileLength
<1>12. ClosedAtEnd'
  BY <1>1, <1>3 DEF IInv, ClosedAtEnd
<1>13. NotBegun'
  BY <1>1, <1>2, <1>4 DEF IInv, NotBegun
<1>14. ClosedFirst'
  BY <1>1, <1>2, <1>7 DEF IInv, ClosedFirst, IsAt
<1> QED BY <1>1, <1>8, <1>9, <1>10, <1>11, <1>12, <1>13, <1>14, Kept DEF IInv

LEMMA WriteKeeps ==
  ASSUME IInv, ~raced, NEW h \in Handlers, Write(h)
  PROVE  IInv'
<1>1. /\ UNCHANGED <<main, currMemAddress, dataSize, isFinished, closed, registered,
                     up, down, fw, base, cursor, losses, extra, raced, early>>
      /\ handler[h] # NoHandler /\ handler[h].pc = "write" /\ Go(h, "test")
      /\ outputFile' = IF closed THEN outputFile ELSE Append(outputFile, handler[h].packet.address)
  BY DEF Write, At, linkVars, fwVars, counters, ghosts
<1>2. /\ handler' \in [Handlers -> Running \cup {NoHandler}] /\ handler'[h].pc = "test"
      /\ handler'[h] # NoHandler
      /\ handler'[h].packet = handler[h].packet /\ handler[h].packet \in Packets
      /\ \A g \in Handlers \ {h} : handler'[g] = handler[g]
  BY <1>1, Went DEF IInv
<1>3. IsAt(h, {"write"}) /\ IsAt(h, {"advance", "write"})
  BY <1>1 DEF IsAt
<1>4. /\ handler[h].packet.code = 1 /\ handler[h].packet.address + 1 = currMemAddress
      /\ closed => early
      /\ ~closed => Len(outputFile) + 1 = currMemAddress
  BY <1>3 DEF IInv, Brings, ClosedAtEnd, FileLength
<1>5. handler[h].packet.address \in 0..Chunks - 1 /\ Chunks \in Nat
  BY <1>2, <1>4, PacketKinds, TransferAssumption
<1>6. \A g \in Handlers : ~IsAt(g, {"write"})'
  <2>1. \A g \in Handlers \ {h} : ~IsAt(g, {"advance", "write"})
    BY <1>3 DEF IInv, OneWriter
  <2> QED BY <2>1, <1>2 DEF IsAt
<1>7. /\ outputFile \in Seq(0..Chunks - 1) /\ outputFile' \in Seq(0..Chunks - 1)
      /\ Len(outputFile) \in Nat /\ Len(outputFile') \in Nat
      /\ Len(outputFile') >= Len(outputFile)
      /\ ~closed => Len(outputFile') = currMemAddress
  <2>1. outputFile \in Seq(0..Chunks - 1) /\ Len(outputFile) \in Nat
    BY LenProperties DEF IInv, TypeOK
  <2>2. CASE closed
    BY <1>1, <2>1, <2>2
  <2>3. CASE ~closed
    <3>1. /\ outputFile' \in Seq(0..Chunks - 1)
          /\ Len(outputFile') = Len(outputFile) + 1
      BY <1>1, <1>5, <2>1, <2>3, AppendProperties
    <3> QED BY <1>4, <2>1, <2>3, <3>1
  <2> QED BY <2>2, <2>3
<1>8. TypeOK'
  BY <1>1, <1>2, <1>7 DEF IInv, TypeOK
<1>9. Brings' /\ OneWriter' /\ ClosedAtEnd'
  BY <1>1, <1>2, NoWriterMore
<1>10. FileLength'
  BY <1>1, <1>4, <1>6, <1>7 DEF FileLength
<1>11. NotBegun'
  BY <1>1, <1>2, <1>4 DEF IInv, NotBegun
<1>12. AnswersWritten' /\ AckedIsWritten'
  <2>1. AckedIsWritten'
    BY <1>1, <1>7 DEF IInv, TypeOK, AckedIsWritten
  <2>2. ASSUME ~early, NEW i \in 1..Len(down), down[i].kind \in {"success", "notAll"}
        PROVE  down[i].address <= Len(outputFile')
    <3>1. down[i] \in Answers
      BY ElementOfSeq DEF IInv, TypeOK
    <3>2. down[i].address \in Int
      BY <3>1, <1>5 DEF Answers
    <3> QED BY <2>2, <3>2, <1>7 DEF IInv, AnswersWritten
  <2> QED BY <1>1, <2>1, <2>2 DEF AnswersWritten
<1>13. ClosedFirst'
  BY <1>1, <1>2 DEF IInv, ClosedFirst, IsAt
<1>14. FileIsPrefix'
  <2>1. CASE closed
    BY <1>1, <2>1 DEF IInv, FileIsPrefix
  <2>2. CASE ~closed
    <3>1. outputFile' = Append(outputFile, handler[h].packet.address)
          /\ handler[h].packet.address = Len(outputFile)
      BY <1>1, <1>4, <1>5, <1>7, <2>2
    <3>2. Len(outputFile') = Len(outputFile) + 1
          /\ \A i \in 1..Len(outputFile) + 1 : outputFile'[i] = i - 1
      <4>1. \A i \in 1..Len(outputFile) : outputFile[i] = i - 1
        BY DEF IInv, FileIsPrefix
      <4> QED BY <3>1, <4>1, <1>5, <1>7, AppendProperties
    <3>3. outputFile' = [i \in 1..Len(outputFile') |-> outputFile'[i]]
      BY <1>7
    <3> QED BY <3>2, <3>3 DEF FileIsPrefix
  <2> QED BY <2>1, <2>2
<1>15. AllOrNothing'
  <2>1. dataSize # 0
    BY <1>1, <1>4 DEF IInv, NotBegun
  <2> QED BY <1>1, <2>1 DEF IInv, AllOrNothing
<1> QED BY <1>8, <1>9, <1>10, <1>11, <1>12, <1>13, <1>14, <1>15 DEF IInv

LEMMA AckRequestKeeps ==
  ASSUME IInv, ~raced, NEW h \in Handlers, AckRequest(h)
  PROVE  IInv'
<1>1. /\ UNCHANGED <<main, currMemAddress, dataSize, isFinished, outputFile, closed, registered,
                     up, down, fw, base, cursor, losses, extra, early>>
      /\ handler[h] # NoHandler /\ handler[h].pc = "begin" /\ handler[h].packet.code = 2
      /\ raced' \in BOOLEAN
      /\ \E pc \in {"success", "notAll"} : Go(h, pc)
  BY DEF AckRequest, At, ReadsAddress, frameVars, linkVars, fwVars, counters
<1>2. /\ handler' \in [Handlers -> Running \cup {NoHandler}]
      /\ handler'[h].pc \in {"success", "notAll"}
      /\ \A g \in Handlers \ {h} : handler'[g] = handler[g]
  BY <1>1, Went DEF IInv
<1>3. TypeOK'
  BY <1>1, <1>2 DEF IInv, TypeOK
<1>4. ~IsAt(h, {"write"}) /\ ~IsAt(h, {"finish", "erase", "wild"})'
  BY <1>1, <1>2 DEF IsAt
<1>5. Brings' /\ OneWriter' /\ FileLength' /\ ClosedAtEnd'
  BY <1>1, <1>2, <1>4, NoWriterMore
<1>6. NotBegun'
  BY <1>1 DEF IInv, NotBegun
<1>7. AnswersWritten'
  BY <1>1 DEF IInv, AnswersWritten
<1>8. ClosedFirst'
  BY <1>1, <1>2, <1>4 DEF IInv, ClosedFirst, IsAt
<1> QED BY <1>1, <1>3, <1>5, <1>6, <1>7, <1>8, Kept DEF IInv

LEMMA ReplyKeeps ==
  ASSUME IInv, ~raced, NEW h \in Handlers, Reply(h)
  PROVE  IInv'
<1>1. /\ UNCHANGED <<main, currMemAddress, dataSize, isFinished, outputFile, closed, registered,
                     up, fw, base, cursor, losses, extra, early>>
      /\ handler[h] # NoHandler /\ handler[h].pc \in {"success", "notAll"}
      /\ Go(h, "test") /\ raced' \in BOOLEAN
      /\ ~raced' => \A g \in Handlers \ {h} : ~IsAt(g, {"advance", "write"})
  BY DEF Reply, At, ReadsAddress, IsAt, frameVars, fwVars, counters
<1>2. PICK answer \in Answers :
        /\ down' = Append(down, answer)
        /\ answer.address = currMemAddress /\ answer.kind # "size"
  <2>1. currMemAddress \in 0..Chunks
    BY DEF IInv, TypeOK
  <2>2. \A k \in {"success", "notAll"} : [kind |-> k, address |-> currMemAddress] \in Answers
    BY <2>1 DEF Answers
  <2> QED BY <2>2 DEF Reply, Sends
<1>3. /\ handler' \in [Handlers -> Running \cup {NoHandler}] /\ handler'[h].pc = "test"
      /\ handler'[h] # NoHandler /\ handler'[h].packet = handler[h].packet
      /\ \A g \in Handlers \ {h} : handler'[g] = handler[g]
  BY <1>1, Went DEF IInv
<1>4. /\ down \in Seq(Answers) /\ down' \in Seq(Answers) /\ Len(down') = Len(down) + 1
      /\ Len(down) \in Nat
      /\ \A i \in 1..Len(down') : (i \in 1..Len(down) /\ down'[i] = down[i]) \/ down'[i] = answer
  BY <1>2, AppendElements DEF IInv, TypeOK
<1>5. TypeOK'
  BY <1>1, <1>3, <1>4 DEF IInv, TypeOK
<1>6. ~IsAt(h, {"write"}) /\ ~IsAt(h, {"finish", "erase", "wild"})'
  BY <1>1, <1>3 DEF IsAt
<1>7. Brings' /\ OneWriter' /\ FileLength' /\ ClosedAtEnd'
  BY <1>1, <1>3, <1>6, NoWriterMore
<1>8. NotBegun'
  BY <1>1, <1>2, <1>3, <1>4 DEF IInv, NotBegun
<1>9. AnswersWritten'
  <2>1. ASSUME ~raced', ~early
        PROVE  Len(outputFile) = currMemAddress
    <3>1. \A g \in Handlers : ~IsAt(g, {"write"})
      BY <1>1, <1>6, <2>1 DEF IsAt
    <3> QED BY <2>1, <3>1 DEF IInv, FileLength
  <2>2. ASSUME ~raced', ~early, NEW i \in 1..Len(down'), down'[i].kind \in {"success", "notAll"}
        PROVE  down'[i].address <= Len(outputFile)
    <3>1. CASE i \in 1..Len(down) /\ down'[i] = down[i]
      BY <2>2, <3>1 DEF IInv, AnswersWritten
    <3>2. CASE down'[i] = answer
      <4>1. currMemAddress \in Int
        BY TransferAssumption DEF IInv, TypeOK
      <4> QED BY <1>2, <2>1, <2>2, <3>2, <4>1
    <3> QED BY <1>4, <3>1, <3>2
  <2> QED BY <1>1, <2>2 DEF AnswersWritten
<1>10. ClosedFirst'
  BY <1>1, <1>3, <1>6 DEF IInv, ClosedFirst, IsAt
<1> QED BY <1>1, <1>5, <1>7, <1>8, <1>9, <1>10, Kept DEF IInv

LEMMA OtherMsgKeeps ==
  ASSUME IInv, ~raced, NEW h \in Handlers, OtherMsg(h)
  PROVE  IInv'
<1>1. /\ UNCHANGED <<main, currMemAddress, dataSize, isFinished, outputFile, closed, registered,
                     up, fw, base, cursor, losses, extra, raced>>
      /\ handler[h] # NoHandler /\ handler[h].pc = "begin" /\ handler[h].packet.code = 3
      /\ Go(h, "test") /\ early' = (early \/ dataSize = 0)
  BY DEF OtherMsg, At, frameVars, fwVars, counters
<1>2. PICK answer \in Answers : down' = Append(down, answer) /\ answer.kind = "unknown"
  <2>1. [kind |-> "unknown", address |-> 0] \in Answers
    BY TransferAssumption DEF Answers
  <2> QED BY <2>1 DEF OtherMsg, Sends
<1>3. /\ handler' \in [Handlers -> Running \cup {NoHandler}] /\ handler'[h].pc = "test"
      /\ handler'[h] # NoHandler /\ handler'[h].packet = handler[h].packet
      /\ \A g \in Handlers \ {h} : handler'[g] = handler[g]
  BY <1>1, Went DEF IInv
<1>4. /\ down \in Seq(Answers) /\ down' \in Seq(Answers) /\ Len(down') = Len(down) + 1
      /\ Len(down) \in Nat
      /\ \A i \in 1..Len(down') : (i \in 1..Len(down) /\ down'[i] = down[i]) \/ down'[i] = answer
  BY <1>2, AppendElements DEF IInv, TypeOK
<1>5. TypeOK'
  BY <1>1, <1>3, <1>4 DEF IInv, TypeOK
<1>6. ~IsAt(h, {"write"}) /\ ~IsAt(h, {"finish", "erase", "wild"})'
  BY <1>1, <1>3 DEF IsAt
<1>7. Brings' /\ OneWriter' /\ FileLength'
  BY <1>1, <1>3, <1>6, NoWriterMore
<1>8. ClosedAtEnd'
  <2>1. \A g \in Handlers : ~IsAt(g, {"advance", "write"}) => ~IsAt(g, {"advance", "write"})'
    BY <1>1, <1>3 DEF IsAt
  <2> QED BY <1>1, <2>1 DEF IInv, ClosedAtEnd
<1>9. NotBegun'
  BY <1>1, <1>2, <1>3, <1>4 DEF IInv, NotBegun
<1>10. AnswersWritten' /\ AckedIsWritten'
  BY <1>1, <1>2, <1>4 DEF IInv, AnswersWritten, AckedIsWritten
<1>11. ClosedFirst'
  BY <1>1, <1>3, <1>6 DEF IInv, ClosedFirst, IsAt
<1> QED BY <1>1, <1>5, <1>7, <1>8, <1>9, <1>10, <1>11, Kept DEF IInv

LEMMA TestKeeps ==
  ASSUME IInv, ~raced, NEW h \in Handlers, Test(h)
  PROVE  IInv'
<1>1. /\ UNCHANGED <<main, currMemAddress, dataSize, isFinished, outputFile, registered,
                     up, down, fw, base, cursor, losses, extra, early>>
      /\ handler[h] # NoHandler /\ handler[h].pc = "test" /\ raced' \in BOOLEAN
      /\ ~raced' => \A g \in Handlers \ {h} : ~IsAt(g, {"advance", "write"})
  BY DEF Test, At, ReadsAddress, IsAt, linkVars, fwVars, counters
<1>2. ~IsAt(h, {"write"}) /\ ~IsAt(h, {"advance", "write"})
  BY <1>1 DEF IsAt
<1>3. AnswersWritten' /\ AckedIsWritten' /\ FileIsPrefix'
  BY <1>1 DEF IInv, AnswersWritten, AckedIsWritten, FileIsPrefix
<1>4. CASE currMemAddress >= dataSize
  <2>1. closed' = TRUE /\ Go(h, "finish")
    BY <1>4 DEF Test
  <2>2. /\ handler' \in [Handlers -> Running \cup {NoHandler}] /\ handler'[h].pc = "finish"
        /\ handler'[h] # NoHandler /\ handler'[h].packet = handler[h].packet
        /\ \A g \in Handlers \ {h} : handler'[g] = handler[g]
    BY <1>1, <2>1, Went DEF IInv
  <2>3. TypeOK'
    BY <1>1, <2>1, <2>2 DEF IInv, TypeOK
  <2>4. Brings' /\ OneWriter' /\ FileLength'
    BY <1>1, <1>2, <2>1, <2>2, NoWriterMore
  <2>5. ClosedAtEnd'
    <3>1. ~early => dataSize # 0
      BY <1>1 DEF IInv, NotBegun
    <3>2. ~early => currMemAddress = Chunks
      BY <1>4, <3>1, TransferAssumption DEF IInv, TypeOK
    <3>3. ~raced' => \A g \in Handlers : ~IsAt(g, {"advance", "write"})'
      BY <1>1, <2>2 DEF IsAt
    <3> QED BY <1>1, <3>1, <3>2, <3>3 DEF ClosedAtEnd
  <2>6. NotBegun'
    BY <1>1, <2>2 DEF IInv, NotBegun
  <2>7. ClosedFirst'
    BY <2>1 DEF ClosedFirst
  <2>8. AllOrNothing'
    <3>1. CASE closed
      BY <1>1, <2>1, <3>1, Kept
    <3>2. CASE dataSize = 0
      BY <1>1, <3>2 DEF IInv, NotBegun, AllOrNothing
    <3>3. CASE ~closed /\ dataSize # 0
      <4>1. currMemAddress = Chunks
        BY <1>4, <3>3, TransferAssumption DEF IInv, TypeOK
      <4>2. ~raced' => \A g \in Handlers : ~IsAt(g, {"write"})
        BY <1>1, <1>2 DEF IsAt
      <4> QED BY <1>1, <3>3, <4>1, <4>2 DEF IInv, FileLength, AllOrNothing
    <3> QED BY <3>1, <3>2, <3>3
  <2> QED BY <1>3, <2>3, <2>4, <2>5, <2>6, <2>7, <2>8 DEF IInv
<1>5. CASE ~(currMemAddress >= dataSize)
  <2>1. closed' = closed /\ handler' = [handler EXCEPT ![h] = NoHandler]
    BY <1>5 DEF Test
  <2>2. /\ handler' \in [Handlers -> Running \cup {NoHandler}] /\ handler'[h] = NoHandler
        /\ \A g \in Handlers \ {h} : handler'[g] = handler[g]
    BY <2>1, Gone DEF IInv
  <2>3. TypeOK'
    BY <1>1, <2>1, <2>2 DEF IInv, TypeOK
  <2>4. Brings' /\ OneWriter' /\ FileLength' /\ ClosedAtEnd'
    BY <1>1, <1>2, <2>1, <2>2, NoWriterMore
  <2>5. NotBegun'
    BY <1>1, <2>2 DEF IInv, NotBegun
  <2>6. ClosedFirst'
    BY <1>1, <2>1, <2>2 DEF IInv, ClosedFirst, IsAt
  <2>7. AllOrNothing'
    BY <1>1, <2>1, Kept
  <2> QED BY <1>3, <2>3, <2>4, <2>5, <2>6, <2>7 DEF IInv
<1> QED BY <1>4, <1>5

\* A thread leaves for "erase" or "wild", or ends: nothing but its control point, isFinished
\* and the registration changes.
LEMMA LeavingKeeps ==
  ASSUME IInv, ~raced, NEW h \in Handlers, Finish(h) \/ Erase(h) \/ Stray(h)
  PROVE  IInv'
<1>1. /\ UNCHANGED <<main, currMemAddress, dataSize, outputFile, closed, up, down, fw, base,
                     cursor, losses, extra, raced, early>>
      /\ handler[h] # NoHandler
      /\ isFinished' \in BOOLEAN /\ registered' \in BOOLEAN
      /\ \/ handler' = [handler EXCEPT ![h] = NoHandler]
         \/ \E pc \in {"erase", "wild"} : Go(h, pc)
  BY DEF Finish, Erase, Stray, At, frameVars, linkVars, fwVars, counters, ghosts, IInv, TypeOK
<1>2. closed
  BY <1>1 DEF Finish, Erase, Stray, At, IInv, ClosedFirst, IsAt
<1>3. /\ handler' \in [Handlers -> Running \cup {NoHandler}]
      /\ \/ handler'[h] = NoHandler
         \/ handler'[h].pc \in {"erase", "wild"} /\ handler'[h].packet = handler[h].packet
      /\ \A g \in Handlers \ {h} : handler'[g] = handler[g]
  <2>1. CASE handler' = [handler EXCEPT ![h] = NoHandler]
    BY <2>1, Gone DEF IInv
  <2>2. CASE \E pc \in {"erase", "wild"} : Go(h, pc)
    BY <1>1, <2>2, Went DEF IInv
  <2> QED BY <1>1, <2>1, <2>2
<1>4. TypeOK'
  BY <1>1, <1>3 DEF IInv, TypeOK
<1>5. handler'[h] = NoHandler \/ handler'[h].pc \notin {"advance", "write"}
  BY <1>3
<1>6. Brings' /\ OneWriter' /\ ClosedAtEnd'
  BY <1>1, <1>3, <1>5, NoWriterMore
<1>7. FileLength'
  <2>1. CASE early
    BY <1>1, <1>2, <2>1 DEF FileLength
  <2>2. CASE ~early
    <3>1. ~IsAt(h, {"write"})
      BY <1>2, <2>2 DEF IInv, ClosedAtEnd, IsAt
    <3> QED BY <1>1, <1>3, <1>5, <3>1, NoWriterMore
  <2> QED BY <2>1, <2>2
<1>8. NotBegun'
  <2>1. dataSize = 0 => early
    BY <1>2 DEF IInv, ClosedAtEnd
  <2> QED BY <1>1, <1>3, <2>1 DEF IInv, NotBegun
<1>9. ClosedFirst'
  BY <1>1, <1>2 DEF ClosedFirst
<1> QED BY <1>1, <1>4, <1>6, <1>7, <1>8, <1>9, Kept DEF IInv

-----------------------------------------------------------------------------
(* The firmware and the link.                                              *)

LEMMA WindowEndIsInTheFile ==
  ASSUME TypeOK
  PROVE  WindowEnd \in 0..Chunks
<1>1. base + Window \in Nat /\ Chunks \in Nat
  BY TransferAssumption DEF TypeOK
<1>2. \E x \in {base + Window, Chunks} : \A y \in {base + Window, Chunks} : x <= y
  BY <1>1
<1>3. /\ WindowEnd \in {base + Window, Chunks}
      /\ \A y \in {base + Window, Chunks} : WindowEnd <= y
  BY <1>2 DEF WindowEnd, Min
<1> QED BY <1>1, <1>3

\* A packet that the firmware sends.
LEMMA SendingKeeps ==
  ASSUME IInv, NEW p \in Packets, up' = Append(up, p),
         p.code \notin {0, 3} => fw \notin {"off", "size"},
         fw' \in {"off", "size", "send", "wait", "done"}, fw' \in {"off", "size"} <=> fw \in {"off", "size"},
         cursor' \in 0..Chunks, extra' \in 0..MaxExtra,
         UNCHANGED <<main, currMemAddress, dataSize, isFinished, outputFile, closed, registered,
                     handler, down, base, losses, raced, early>>
  PROVE  IInv'
<1>1. /\ up \in Seq(Packets) /\ up' \in Seq(Packets)
      /\ \A i \in 1..Len(up') : (i \in 1..Len(up) /\ up'[i] = up[i]) \/ up'[i] = p
  BY AppendElements DEF IInv, TypeOK
<1>2. TypeOK'
  BY <1>1 DEF IInv, TypeOK
<1>3. NotBegun'
  BY <1>1 DEF IInv, NotBegun
<1> QED BY <1>2, <1>3, Kept DEF IInv

LEMMA FirmwareSendsKeeps ==
  ASSUME IInv, FwSendData \/ FwRequestAck \/ FwResend \/ FwSendOther
  PROVE  IInv'
<1>1. cursor \in 0..Chunks /\ extra \in 0..MaxExtra /\ Chunks \in Nat /\ MaxExtra \in Nat
      /\ WindowEnd \in 0..Chunks /\ fw \in {"off", "size", "send", "wait", "done"}
  BY TransferAssumption, WindowEndIsInTheFile DEF IInv, TypeOK
<1>2. CASE FwSendData
  <2>1. cursor \in 0..Chunks - 1 /\ cursor' \in 0..Chunks
    BY <1>1, <1>2 DEF FwSendData
  <2>2. Data(cursor) \in Packets /\ Data(cursor).code = 1
    BY <2>1, PacketKinds
  <2> QED BY <1>1, <1>2, <2>1, <2>2, SendingKeeps DEF FwSendData, frameVars, counters, ghosts
<1>3. CASE FwRequestAck
  <2>1. Request(cursor) \in Packets
    BY <1>1, PacketKinds
  <2> QED BY <1>1, <1>3, <2>1, SendingKeeps DEF FwRequestAck, frameVars, counters, ghosts
<1>4. CASE FwResend
  <2>1. extra' \in 0..MaxExtra
    BY <1>1, <1>4 DEF FwResend, Extra
  <2>2. CASE fw = "size"
    BY <1>1, <1>4, <2>1, <2>2, PacketKinds, SendingKeeps DEF FwResend, frameVars, fwVars, ghosts
  <2>3. CASE fw = "wait"
    <3>1. Request(cursor) \in Packets
      BY <1>1, PacketKinds
    <3> QED BY <1>1, <1>4, <2>1, <2>3, <3>1, SendingKeeps DEF FwResend, frameVars, fwVars, ghosts
  <2> QED BY <1>4, <2>2, <2>3 DEF FwResend
<1>5. CASE FwSendOther
  <2>1. extra' \in 0..MaxExtra
    BY <1>1, <1>5 DEF FwSendOther, Extra
  <2> QED BY <1>1, <1>5, <2>1, PacketKinds, SendingKeeps DEF FwSendOther, frameVars, fwVars, ghosts
<1> QED BY <1>2, <1>3, <1>4, <1>5

LEMMA FwAnsweredKeeps ==
  ASSUME IInv, ~raced, FwAnswered
  PROVE  IInv'
<1> DEFINE answer == Head(down)
<1>1. /\ UNCHANGED <<main, currMemAddress, dataSize, isFinished, outputFile, closed, registered,
                     handler, up, losses, extra, raced, early>>
      /\ down # <<>> /\ down' = Tail(down) /\ down \in Seq(Answers)
  BY DEF FwAnswered, frameVars, counters, ghosts, IInv, TypeOK
<1>2. /\ down' \in Seq(Answers) /\ answer \in Answers /\ answer = down[1] /\ 1 \in 1..Len(down)
      /\ \A i \in 1..Len(down') : i + 1 \in 1..Len(down) /\ down'[i] = down[i + 1]
  BY <1>1, TailElements
<1>3. AnswersWritten'
  <2>1. ASSUME ~early, NEW i \in 1..Len(down'), down'[i].kind \in {"success", "notAll"}
        PROVE  down'[i].address <= Len(outputFile)
    <3>1. PICK j \in 1..Len(down) : down'[i] = down[j]
      BY <1>2
    <3> QED BY <2>1, <3>1 DEF IInv, AnswersWritten
  <2> QED BY <1>1, <2>1 DEF AnswersWritten
<1>4. dataSize = 0 => \A i \in 1..Len(down') : down'[i].kind # "size"
  <2>1. ASSUME dataSize = 0, NEW i \in 1..Len(down')
        PROVE  down'[i].kind # "size"
    <3>1. PICK j \in 1..Len(down) : down'[i] = down[j]
      BY <1>2
    <3> QED BY <2>1, <3>1 DEF IInv, NotBegun
  <2> QED BY <2>1
<1>5. CASE UNCHANGED fwVars
  <2>1. UNCHANGED <<fw, base, cursor>>
    BY <1>5 DEF fwVars
  <2>2. TypeOK'
    BY <1>1, <1>2, <2>1 DEF IInv, TypeOK
  <2>3. NotBegun'
    BY <1>1, <1>4, <2>1 DEF IInv, NotBegun
  <2> QED BY <1>1, <1>3, <2>1, <2>2, <2>3, Kept DEF IInv
<1>6. CASE ~UNCHANGED fwVars
  <2>1. PICK address :
          /\ base' = address /\ cursor' = address /\ fw' \in {"done", "send"}
          /\ \/ fw = "size" /\ answer.kind = "size" /\ address = 0
             \/ fw = "wait" /\ answer.kind \in {"success", "notAll"} /\ address = answer.address
    BY <1>6 DEF FwAnswered, FwGoOn
  <2>2. address \in 0..Chunks
    BY <1>2, <2>1, TransferAssumption DEF Answers
  <2>3. TypeOK'
    BY <1>1, <1>2, <2>1, <2>2 DEF IInv, TypeOK
  <2>4. dataSize # 0
    BY <1>2, <2>1 DEF IInv, NotBegun
  <2>5. NotBegun'
    BY <1>1, <2>4 DEF NotBegun
  <2>6. AckedIsWritten'
    <3>1. ~early => address <= Len(outputFile)
      <4>1. Len(outputFile) \in Nat
        BY LenProperties DEF IInv, TypeOK
      <4> QED BY <1>2, <2>1, <4>1 DEF IInv, AnswersWritten
    <3> QED BY <1>1, <2>1, <3>1 DEF AckedIsWritten
  <2> QED BY <1>1, <1>3, <2>3, <2>5, <2>6, Kept DEF IInv
<1> QED BY <1>5, <1>6

LEMMA LoseKeeps ==
  ASSUME IInv, Lose
  PROVE  IInv'
<1>1. /\ UNCHANGED <<main, currMemAddress, dataSize, isFinished, outputFile, closed, registered,
                     handler, fw, base, cursor, extra, raced, early>>
      /\ up \in Seq(Packets) /\ down \in Seq(Answers) /\ losses' \in 0..MaxLosses
  BY TransferAssumption DEF Lose, frameVars, fwVars, ghosts, IInv, TypeOK
<1>2. /\ up' \in Seq(Packets) /\ \A i \in 1..Len(up') : \E j \in 1..Len(up) : up'[i] = up[j]
  <2>1. CASE up' = up
    BY <1>1, <2>1
  <2>2. CASE up # <<>> /\ up' = Tail(up)
    BY <1>1, <2>2, TailElements
  <2> QED BY <2>1, <2>2 DEF Lose
<1>3. /\ down' \in Seq(Answers)
      /\ \A i \in 1..Len(down') : \E j \in 1..Len(down) : down'[i] = down[j]
  <2>1. CASE down' = down
    BY <1>1, <2>1
  <2>2. CASE down # <<>> /\ down' = Tail(down)
    BY <1>1, <2>2, TailElements
  <2> QED BY <2>1, <2>2 DEF Lose
<1>4. TypeOK'
  BY <1>1, <1>2, <1>3 DEF IInv, TypeOK
<1>5. NotBegun'
  BY <1>1, <1>2, <1>3 DEF IInv, NotBegun
<1>6. AnswersWritten'
  BY <1>1, <1>3 DEF IInv, AnswersWritten
<1> QED BY <1>1, <1>4, <1>5, <1>6, Kept DEF IInv

-----------------------------------------------------------------------------
(* The theorems.                                                           *)

LEMMA InitHolds == Init => IInv
<1> SUFFICES ASSUME Init PROVE IInv
  OBVIOUS
<1> USE DEF Init
<1>1. TypeOK
  <2>1. <<>> \in Seq(0..Chunks - 1) /\ <<>> \in Seq(Packets) /\ <<>> \in Seq(Answers)
    BY EmptySeq
  <2>2. handler \in [Handlers -> Running \cup {NoHandler}]
    OBVIOUS
  <2>3. /\ Chunks \in Nat /\ MaxLosses \in Nat /\ MaxExtra \in Nat
        /\ 0 \in 0..Chunks /\ 0 \in 0..MaxLosses /\ 0 \in 0..MaxExtra
    BY TransferAssumption
  <2>4. /\ outputFile \in Seq(0..Chunks - 1) /\ up \in Seq(Packets) /\ down \in Seq(Answers)
    BY <2>1
  <2> HIDE DEF Init
  <2>5. /\ main = "idle" /\ currMemAddress = 0 /\ dataSize = 0 /\ isFinished = FALSE
        /\ closed = FALSE /\ registered = FALSE /\ fw = "off" /\ base = 0 /\ cursor = 0
        /\ losses = 0 /\ extra = 0 /\ raced = FALSE /\ early = FALSE
    BY DEF Init
  <2> QED BY <2>2, <2>3, <2>4, <2>5 DEF TypeOK
<1>2. \A h \in Handlers : handler[h] = NoHandler
  OBVIOUS
<1>3. Brings /\ OneWriter /\ ClosedAtEnd /\ ClosedFirst
  BY <1>2 DEF Brings, OneWriter, ClosedAtEnd, ClosedFirst, IsAt
<1>4. Len(outputFile) = 0 /\ Len(down) = 0 /\ Len(up) = 0
  BY EmptySeq
<1>5. FileLength /\ FileIsPrefix /\ AckedIsWritten /\ AllOrNothing
  BY <1>2, <1>4 DEF FileLength, FileIsPrefix, AckedIsWritten, AllOrNothing, IsAt
<1>6. NotBegun /\ AnswersWritten
  BY <1>2, <1>4 DEF NotBegun, AnswersWritten
<1> QED BY <1>1, <1>3, <1>5, <1>6 DEF IInv

LEMMA NextKeeps == IInv /\ [Next]_vars => IInv'
<1> SUFFICES ASSUME IInv, [Next]_vars PROVE IInv'
  OBVIOUS
<1>1. CASE UNCHANGED vars
  <2>1. UNCHANGED <<main, currMemAddress, dataSize, isFinished, outputFile, closed, registered,
                    handler, up, down, fw, base, cursor, losses, extra, raced, early>>
    BY <1>1 DEF vars, frameVars, linkVars, fwVars, counters, ghosts
  <2>2. TypeOK'
    BY <2>1 DEF IInv, TypeOK
  <2> QED BY <2>1, <2>2, Kept DEF IInv
<1>2. CASE Next
  <2>1. ~raced
    BY <1>2 DEF Next, Defined
  <2>2. CASE Start
    BY <2>2, StartKeeps
  <2>3. CASE Dispatch
    BY <2>1, <2>3, DispatchKeeps
  <2>4. ASSUME NEW h \in Handlers, Handle(h)
        PROVE  IInv'
    <3>1. CASE SizeMsg(h)
      BY <2>1, <3>1, SizeMsgKeeps
    <3>2. CASE DataMsg(h)
      BY <2>1, <3>2, DataMsgKeeps
    <3>3. CASE Advance(h)
      BY <2>1, <3>3, AdvanceKeeps
    <3>4. CASE Write(h)
      BY <2>1, <3>4, WriteKeeps
    <3>5. CASE AckRequest(h)
      BY <2>1, <3>5, AckRequestKeeps
    <3>6. CASE Reply(h)
      BY <2>1, <3>6, ReplyKeeps
    <3>7. CASE OtherMsg(h)
      BY <2>1, <3>7, OtherMsgKeeps
    <3>8. CASE Test(h)
      BY <2>1, <3>8, TestKeeps
    <3>9. CASE Finish(h) \/ Erase(h) \/ Stray(h)
      BY <2>1, <3>9, LeavingKeeps
    <3> QED BY <2>4, <3>1, <3>2, <3>3, <3>4, <3>5, <3>6, <3>7, <3>8, <3>9 DEF Handle
  <2>5. CASE FwSendData \/ FwRequestAck \/ FwResend \/ FwSendOther
    BY <2>5, FirmwareSendsKeeps
  <2>6. CASE FwAnswered
    BY <2>1, <2>6, FwAnsweredKeeps
  <2>7. CASE Lose
    BY <2>7, LoseKeeps
  <2> QED BY <1>2, <2>2, <2>3, <2>4, <2>5, <2>6, <2>7 DEF Next, Firmware
<1> QED BY <1>1, <1>2

LEMMA TransferInvariant == Spec => []IInv
BY InitHolds, NextKeeps, PTL DEF Spec

\* The variables have their types: the address never passes the end of the file, nor does the
\* firmware's cursor.
THEOREM TransferTypeOK == Spec => []TypeOK
<1>1. IInv => TypeOK
  BY DEF IInv
<1> QED BY <1>1, TransferInvariant, PTL

\* The file holds the chunks in their order, without a gap and without a repetition, whatever
\* is lost or repeated, up to the first race (LoggingCrazyflieWrapper.cpp:77-84).
THEOREM TransferFileIsPrefix == Spec => []FileIsPrefix
<1>1. IInv => FileIsPrefix
  BY DEF IInv
<1> QED BY <1>1, TransferInvariant, PTL

\* What the Crazyflie has been told has arrived is in the file (lines 88-110), up to the first
\* race, unless a packet of another kind has come before the size.
THEOREM TransferAckedIsWritten == Spec => []AckedIsWritten
<1>1. IInv => AckedIsWritten
  BY DEF IInv
<1> QED BY <1>1, TransferInvariant, PTL

\* Up to the first race the file is closed, and a thread goes wild, only when all chunks are
\* in it, or none because a packet of another kind has come before the size (lines 120-122).
THEOREM TransferFinishedIsComplete == Spec => []FinishedIsComplete
<1>1. IInv => FinishedIsComplete
  BY DEF UB, IInv, ClosedFirst, IsAt, AllOrNothing, FinishedIsComplete
<1> QED BY <1>1, TransferInvariant, PTL
=============================================================================
