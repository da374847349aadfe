-------------------------- MODULE CrazyflieLogProofs --------------------------
(***************************************************************************)
(* Named blocks, for every number of names, ids and requests.  Below them  *)
(* is the invariant of Log: every step of the facade is a step of Log, or  *)
(* sets nothing of Log's but the result.  Above it stands what a job knows *)
(* of the block it works on.                                               *)
(***************************************************************************)
EXTENDS CrazyflieLog, LogProofs

\* The facade's variables have their types.
FacadeOK ==
  /\ logBlockNames \in [Names -> Ids \cup {NoId}] /\ asked \in [Names -> ItemLists]
  /\ job \in Jobs \cup {NoJob} /\ wasReset \in BOOLEAN

\* The operation of Log under way is one that the job calls.
Agree ==
  /\ job = NoJob => op = NoOp \/ op.kind = "reset"
  /\ job # NoJob =>
       /\ job.kind = "create" =>
            IF op = NoOp THEN result >= 0 => result \in Ids ELSE op.kind \in {"createAny", "append"}
       /\ job.kind = "giveUp" => op = NoOp \/ op.kind = "delete"
       /\ job.kind = "delete" =>
            /\ logBlockNames[job.name] # NoId
            /\ op = NoOp \/ (op.kind = "delete" /\ op.id = logBlockNames[job.name])
       /\ job.kind = "pass" => op = NoOp \/ op.kind \in {"start", "stop"}

\* Resets are what wasReset says.
Traced == ~wasReset => /\ "reset" \notin faults
                       /\ op = NoOp \/ op.kind # "reset"

Named(n) == logBlockNames[n] \notin {NoId, 0}

\* The block that a create, or the delete after a failed one, works on.
Working(i) ==
  /\ job # NoJob
  /\ \/ job.kind = "create" /\ op = NoOp /\ result = i
     \/ job.kind \in {"create", "giveUp"} /\ op # NoOp /\ op.kind # "createAny" /\ op.id = i

\* The block of the name is deleted, the name is not yet.
Deleted(n) ==
  job # NoJob /\ job.kind = "delete" /\ job.name = n /\ op = NoOp /\ result = logBlockNames[n]

Held ==
  \A n \in Names : Named(n) =>
    /\ \A m \in Names : logBlockNames[m] = logBlockNames[n] => m = n
    /\ ~Working(logBlockNames[n])
    /\ Deleted(n) \/ (/\ idsOccupied[logBlockNames[n]] = "OCCUPIED"
                      /\ logBlocks[logBlockNames[n]] = asked[n])

\* The block under way and the items that are left make the list asked for.
Grows(i, made) ==
  /\ idsOccupied[i] = "OCCUPIED" /\ logBlocks[i] \in Seq(Items)
  /\ made \o job.rest = job.all

Partial ==
  (job # NoJob /\ job.kind = "create") =>
    /\ (op = NoOp /\ result >= 0) => Grows(result, logBlocks[result])
    /\ (op # NoOp /\ op.kind = "createAny") => <<op.item>> \o job.rest = job.all
    /\ (op # NoOp /\ op.kind = "append") => Grows(op.id, Append(logBlocks[op.id], op.item))

JobInv == FacadeOK /\ Agree /\ Traced /\ (~wasReset => Held /\ Partial)

CfInv == IInv /\ JobInv
-----------------------------------------------------------------------------
(* Lists, and the steps below the facade.                                  *)

\* The head of what is left goes to the end of what is made.
LEMMA ShiftList ==
  ASSUME NEW S, NEW s \in Seq(S), NEW t \in Seq(S), t # <<>>
  PROVE  /\ <<Head(t)>> \o Tail(t) = t
         /\ Append(s, Head(t)) \o Tail(t) = s \o t
<1>1. /\ Head(t) \in S /\ Tail(t) \in Seq(S) /\ Len(t) \in Nat /\ Len(t) > 0
      /\ Len(Tail(t)) = Len(t) - 1 /\ Head(t) = t[1]
      /\ \A i \in 1..Len(Tail(t)) : Tail(t)[i] = t[i + 1]
  BY HeadTailProperties, EmptySeq, LenProperties
<1> DEFINE h == <<Head(t)>>
           u == Tail(t)
           all == h \o u
<1>2. h \in Seq(S) /\ Len(h) = 1 /\ h[1] = Head(t) /\ u \in Seq(S)
  BY <1>1
<1>3. /\ Len(u) = Len(t) - 1 /\ \A i \in 1..Len(u) : u[i] = t[i + 1]
      /\ Append(s, Head(t)) = s \o h
  BY <1>1, AppendIsConcat
<1> HIDE DEF h, u
<1>4. /\ all \in Seq(S) /\ Len(all) = Len(h) + Len(u)
      /\ \A i \in 1..Len(h) + Len(u) : all[i] = IF i <= Len(h) THEN h[i] ELSE u[i - Len(h)]
  BY <1>2, ConcatProperties
<1>5. (s \o h) \o u = s \o all
  BY <1>2, ConcatAssociative
<1> HIDE DEF all
<1>6. all = t
  <2>1. Len(all) = Len(t) /\ \A i \in 1..Len(t) : all[i] = t[i]
    BY <1>1, <1>2, <1>3, <1>4
  <2> QED BY <1>4, <2>1, SeqEqual
<1> QED BY <1>3, <1>5, <1>6 DEF h, u, all

\* Outside the operations of Log, the result may become anything.
LEMMA ResultInv ==
  ASSUME IInv, op = NoOp, result' \in Int,
         UNCHANGED <<idsOccupied, logBlocks, op, msg, blocks, code, faults>>
  PROVE  IInv'
<1>1. LogTypeOK'
  BY DEF IInv, LogTypeOK
<1>2. Served' /\ Asked' /\ Backed' /\ Probed'
  BY DEF IInv, Served, Asked, Backed, Probed, Unread
<1>3. OccupiedIsOnFirmware' /\ FreeIsNotOnFirmware' /\ ListMatchesFirmware'
  BY DEF IInv, OccupiedIsOnFirmware, FreeIsNotOnFirmware, ListMatchesFirmware, Mine, Unread,
     Listed
<1> QED BY <1>1, <1>2, <1>3 DEF IInv

\* What a call to append, delete, start or stop does: it asks, or it knows the id to be free.
LEMMA AskEffect ==
  ASSUME IInv, NEW kind \in {"append", "delete", "start", "stop"}, NEW i \in Ids,
         NEW x \in Items \cup {NoItem}, kind = "append" => x \in Items,
         AskUnlessFree(kind, i, x)
  PROVE  /\ IInv' /\ op = NoOp /\ UNCHANGED <<idsOccupied, logBlocks, faults>>
         /\ \/ op' = NoOp /\ result' = -GENERIC /\ idsOccupied[i] = "NOT_OCCUPIED"
            \/ op' # NoOp /\ op'.kind = kind /\ op'.id = i /\ op'.item = x
<1>1. op = NoOp /\ IInv'
  <2>1. CASE kind = "append"
    BY <2>1, CallsInv DEF Calls, appendLogBlock, AskUnlessFree
  <2>2. op = NoOp /\ msg = "none" /\ -GENERIC \in Int
    BY DEF AskUnlessFree, IInv, LogTypeOK, GENERIC
  <2>3. CASE Request(kind, i, x)
    BY <2>2, <2>3, RequestInv DEF Kinds, Creates
  <2>4. CASE Refuse(-GENERIC)
    BY <2>2, <2>4, RefuseInv
  <2> QED BY <2>2, <2>3, <2>4 DEF AskUnlessFree
<1>2. CASE idsOccupied[i] # "NOT_OCCUPIED"
  <2>1. [kind |-> kind, id |-> i, item |-> x] \in Ops
    BY DEF Ops, Kinds
  <2> QED BY <1>1, <1>2, <2>1, LogAssumption DEF AskUnlessFree, Request
<1>3. CASE ~(idsOccupied[i] # "NOT_OCCUPIED")
  BY <1>1, <1>3 DEF AskUnlessFree, Refuse, Return
<1> QED BY <1>2, <1>3

\* What the search of createLogBlock does: it asks for an id, or there is none.
LEMMA TryEffect ==
  ASSUME IInv, NEW i \in 0..IdCount, NEW x \in Items, TryFrom(i, x)
  PROVE  /\ UNCHANGED <<idsOccupied, logBlocks, faults>>
         /\ \/ op' = NoOp /\ result' = -GENERIC
            \/ op' # NoOp /\ op'.kind = "createAny" /\ op'.item = x
<1>1. ASSUME NEW j \in i..(IdCount - 1), Request("createAny", j, x)
      PROVE  /\ UNCHANGED <<idsOccupied, logBlocks, faults>>
             /\ op' # NoOp /\ op'.kind = "createAny" /\ op'.item = x
  <2>1. j \in Ids
    BY LogAssumption DEF Ids
  <2>2. [kind |-> "createAny", id |-> j, item |-> x] \in Ops
    BY <2>1 DEF Ops, Kinds
  <2> QED BY <1>1, <2>2, LogAssumption DEF Request
<1>2. CASE Refuse(-GENERIC)
  BY <1>2 DEF Refuse, Return
<1> QED BY <1>1, <1>2 DEF TryFrom

-----------------------------------------------------------------------------
(* Steps of Log inside a job.                                              *)

\* The Crazyflie's steps: the library's state is what it was.
LEMMA FirmwareJob ==
  ASSUME CfInv, Firmware \/ Reboot, UNCHANGED cfVars
  PROVE  CfInv'
<1>1. IInv'
  BY FirmwareInv, RebootInv DEF CfInv
<1>2. /\ UNCHANGED <<idsOccupied, logBlocks, op, result, logBlockNames, job, asked, wasReset>>
      /\ "reset" \in faults' => "reset" \in faults \/ (op # NoOp /\ op.kind = "reset")
  BY DEF Firmware, FwCreate, FwAppend, FwDelete, FwStartStop, FwReset, FwRefuse, FwResetFails,
     Reboot, Fault, Answer, Sent, libVars, cfVars
<1>3. FacadeOK' /\ Agree' /\ Traced'
  BY <1>2 DEF CfInv, JobInv, FacadeOK, Agree, Traced
<1>4. Held <=> Held'
  BY <1>2 DEF Held, Named, Working, Deleted
<1>5. Partial <=> Partial'
  BY <1>2 DEF Partial, Grows
<1> QED BY <1>1, <1>2, <1>3, <1>4, <1>5 DEF CfInv, JobInv

\* What reading an answer does to the cache.
LEMMA ReturnEffect ==
  ASSUME IInv, Returns
  PROVE  /\ op # NoOp /\ op.id \in Ids /\ faults' = faults
         /\ op.kind = "createAny" => op.item \in Items /\ idsOccupied[op.id] # "OCCUPIED"
         /\ op.kind = "append" => op.item \in Items
         /\ \/ /\ op.kind = "createAny" /\ op' # NoOp /\ op'.kind = "createAny"
               /\ op'.item = op.item /\ UNCHANGED <<idsOccupied, logBlocks>>
            \/ /\ op' = NoOp /\ op.kind # "reset" /\ result' < 0 /\ UNCHANGED <<idsOccupied, logBlocks>>
            \/ /\ op' = NoOp /\ op.kind \in Creates /\ result' = op.id
               /\ Insert(op.id, <<op.item>>) /\ SetOccupied("OCCUPIED")
            \/ /\ op' = NoOp /\ op.kind = "append" /\ result' = op.id
               /\ logBlocks' = [logBlocks EXCEPT ![op.id] = Listed(op.id, op.item)]
               /\ SetOccupied("OCCUPIED")
            \/ /\ op' = NoOp /\ op.kind = "delete" /\ result' = op.id
               /\ logBlocks' = [logBlocks EXCEPT ![op.id] = NoBlock]
               /\ SetOccupied("NOT_OCCUPIED")
            \/ /\ op' = NoOp /\ op.kind \in {"start", "stop"} /\ UNCHANGED logBlocks
               /\ SetOccupied("OCCUPIED") \/ UNCHANGED idsOccupied
            \/ op' = NoOp /\ op.kind = "reset"
<1>0. /\ op # NoOp /\ op.id \in Ids /\ code \in {SUCCESS, ENOENT, ENOMEM, EEXIST}
      /\ op.kind = "createAny" => op.item \in Items /\ idsOccupied[op.id] # "OCCUPIED"
      /\ op.kind = "append" => op.item \in Items
      /\ code # SUCCESS => -code < 0
  BY DEF Returns, CreateReturn, CreateAtReturn, AppendReturn, DeleteReturn, StartReturn,
     StopReturn, ResetReturn, Answered, IInv, LogTypeOK, Ops, Asked, Creates, SUCCESS, ENOENT,
     ENOMEM, EEXIST
<1>1. CASE CreateReturn
  <2>1. CASE TryFrom(op.id + 1, op.item)
    <3> DEFINE next == op.id + 1
    <3>1. next \in 0..IdCount /\ op.item \in Items /\ TryFrom(next, op.item) /\ -GENERIC < 0
          /\ op.kind = "createAny"
      BY <1>0, <1>1, <2>1, LogAssumption DEF Ids, CreateReturn, Answered, GENERIC
    <3> HIDE DEF next
    <3> QED BY <1>0, <3>1, TryEffect
  <2> QED BY <1>0, <1>1, <2>1 DEF CreateReturn, Answered, Failed, Return, Creates
<1>2. CASE CreateAtReturn
  BY <1>0, <1>2 DEF CreateAtReturn, Answered, Failed, Return, Creates
<1>3. CASE AppendReturn
  BY <1>0, <1>3 DEF AppendReturn, Answered, Failed, Return
<1>4. CASE DeleteReturn
  BY <1>0, <1>4 DEF DeleteReturn, Answered, Failed, Return
<1>5. CASE StartReturn \/ StopReturn
  BY <1>0, <1>5 DEF StartReturn, StopReturn, Answered, Failed, Return
<1>6. CASE ResetReturn
  BY <1>0, <1>6 DEF ResetReturn, Answered, Return
<1> QED BY <1>1, <1>2, <1>3, <1>4, <1>5, <1>6 DEF Returns

\* A name's block is another than the one the answer is about, unless the job is about the
\* name.
LEMMA OthersKept ==
  ASSUME CfInv, ~wasReset, op # NoOp, op.id \in Ids, Held,
         op.kind = "createAny" => idsOccupied[op.id] # "OCCUPIED",
         op.kind \in {"createAny", "append", "delete"},
         NEW n \in Names, Named(n), job # NoJob => ~(job.kind = "delete" /\ job.name = n)
  PROVE  logBlockNames[n] # op.id
<1>1. job # NoJob
  BY DEF CfInv, JobInv, Agree
<1>2. CASE op.kind = "createAny"
  BY <1>1, <1>2 DEF Held, Deleted
<1>3. CASE job.kind \in {"create", "giveUp"} /\ op.kind # "createAny"
  BY <1>1, <1>3 DEF Held, Working
<1>4. CASE job.kind = "delete"
  <2>1. job.name \in Names /\ op.id = logBlockNames[job.name]
    BY <1>1, <1>4 DEF CfInv, JobInv, FacadeOK, Jobs, Agree
  <2> QED BY <1>1, <1>4, <2>1 DEF Held
<1> QED BY <1>1, <1>2, <1>3, <1>4 DEF CfInv, JobInv, Agree, FacadeOK, Jobs

\* The answer to the first item of a named block, or to a search: the block made is the
\* job's, and no name's.
LEMMA CreatedJob ==
  ASSUME CfInv, Returns, UNCHANGED cfVars, op.kind = "createAny", ~wasReset
  PROVE  Held' /\ Partial'
<1>1. /\ op # NoOp /\ op.id \in Ids /\ op.item \in Items /\ idsOccupied[op.id] # "OCCUPIED"
      /\ UNCHANGED <<logBlockNames, job, asked, wasReset>> /\ job # NoJob /\ job.kind = "create"
      /\ Held /\ Partial /\ op.id \in Int /\ <<op.item>> \in Seq(Items)
  <2>1. op # NoOp /\ op.id \in Ids /\ op.item \in Items /\ idsOccupied[op.id] # "OCCUPIED"
    BY ReturnEffect DEF CfInv
  <2>2. <<op.item>> \in Seq(Items)
    BY <2>1
  <2> QED BY <2>1, <2>2 DEF cfVars, CfInv, JobInv, Agree, FacadeOK, Jobs, Ids
<1>2. /\ \A n \in Names : Named(n) => logBlockNames[n] # op.id
      /\ \A n \in Names : ~Deleted(n)
  BY <1>1, OthersKept DEF Deleted
<1>3. \A n \in Names : Named(n) =>
        /\ idsOccupied[logBlockNames[n]] = "OCCUPIED" /\ logBlocks[logBlockNames[n]] = asked[n]
        /\ \A m \in Names : logBlockNames[m] = logBlockNames[n] => m = n
        /\ logBlockNames[n] \in Ids \ {0}
  BY <1>1, <1>2 DEF Held, Named, CfInv, JobInv, FacadeOK
<1>4. CASE op' # NoOp /\ op'.kind = "createAny" /\ op'.item = op.item
           /\ UNCHANGED <<idsOccupied, logBlocks>>
  <2>1. Held'
    BY <1>1, <1>3, <1>4 DEF Held, Named, Working
  <2> QED BY <1>1, <1>4, <2>1 DEF Partial
<1>5. CASE op' = NoOp /\ result' < 0 /\ UNCHANGED <<idsOccupied, logBlocks>>
  <2>1. Held'
    BY <1>1, <1>3, <1>5 DEF Held, Named, Working, Ids
  <2>2. result' \in Int
    BY ReturnsInv DEF CfInv, IInv, LogTypeOK
  <2> QED BY <1>1, <1>5, <2>1, <2>2 DEF Partial
<1>6. CASE op' = NoOp /\ result' = op.id /\ Insert(op.id, <<op.item>>) /\ SetOccupied("OCCUPIED")
  <2>1. logBlocks[op.id] = NoBlock
    BY <1>1 DEF CfInv, JobInv, Traced, IInv, Backed
  <2>2. /\ logBlocks' = [logBlocks EXCEPT ![op.id] = <<op.item>>]
        /\ idsOccupied' = [idsOccupied EXCEPT ![op.id] = "OCCUPIED"]
        /\ logBlocks \in [Ids -> BlockLists]
        /\ idsOccupied \in [Ids -> {"OCCUPIED", "NOT_OCCUPIED", "UNKNOWN"}]
    BY <1>6, <2>1 DEF Insert, SetOccupied, CfInv, IInv, LogTypeOK
  <2>3. Held'
    BY <1>1, <1>2, <1>3, <1>6, <2>2 DEF Held, Named, Working
  <2>4. <<op.item>> \o job.rest = job.all
    BY <1>1 DEF Partial
  <2>5. logBlocks'[op.id] = <<op.item>> /\ idsOccupied'[op.id] = "OCCUPIED"
    BY <1>1, <2>2
  <2>6. Partial'
    BY <1>1, <1>6, <2>4, <2>5 DEF Partial, Grows
  <2> QED BY <2>3, <2>6
<1> QED
  <2>1. \/ op' # NoOp /\ op'.kind = "createAny" /\ op'.item = op.item
           /\ UNCHANGED <<idsOccupied, logBlocks>>
        \/ op' = NoOp /\ result' < 0 /\ UNCHANGED <<idsOccupied, logBlocks>>
        \/ op' = NoOp /\ result' = op.id /\ Insert(op.id, <<op.item>>) /\ SetOccupied("OCCUPIED")
    BY ReturnEffect DEF CfInv
  <2> QED BY <1>4, <1>5, <1>6, <2>1

\* The answer to a further item.
LEMMA AppendedJob ==
  ASSUME CfInv, Returns, UNCHANGED cfVars, op.kind = "append", ~wasReset
  PROVE  Held' /\ Partial'
<1>1. /\ op # NoOp /\ op.id \in Ids /\ op.item \in Items
      /\ UNCHANGED <<logBlockNames, job, asked, wasReset>> /\ job # NoJob /\ job.kind = "create"
      /\ Held /\ Partial /\ op.id \in Int
  <2>1. op # NoOp /\ op.id \in Ids /\ op.item \in Items
    BY ReturnEffect DEF CfInv
  <2> QED BY <2>1 DEF cfVars, CfInv, JobInv, Agree, FacadeOK, Jobs, Ids
<1>2. /\ \A n \in Names : Named(n) => logBlockNames[n] # op.id
      /\ \A n \in Names : ~Deleted(n)
  BY <1>1, OthersKept DEF Deleted
<1>3. \A n \in Names : Named(n) =>
        /\ idsOccupied[logBlockNames[n]] = "OCCUPIED" /\ logBlocks[logBlockNames[n]] = asked[n]
        /\ \A m \in Names : logBlockNames[m] = logBlockNames[n] => m = n
        /\ logBlockNames[n] \in Ids \ {0}
  BY <1>1, <1>2 DEF Held, Named, CfInv, JobInv, FacadeOK
<1>4. CASE op' = NoOp /\ result' < 0 /\ UNCHANGED <<idsOccupied, logBlocks>>
  <2>1. Held'
    BY <1>1, <1>3, <1>4 DEF Held, Named, Working, Ids
  <2>2. result' \in Int
    BY ReturnsInv DEF CfInv, IInv, LogTypeOK
  <2> QED BY <1>1, <1>4, <2>1, <2>2 DEF Partial
<1>5. CASE op' = NoOp /\ result' = op.id /\ SetOccupied("OCCUPIED")
           /\ logBlocks' = [logBlocks EXCEPT ![op.id] = Listed(op.id, op.item)]
  <2> DEFINE new == Append(logBlocks[op.id], op.item)
  <2>1. Grows(op.id, new)
    BY <1>1 DEF Partial
  <2>2. logBlocks[op.id] \in Seq(Items) /\ logBlocks[op.id] # NoBlock /\ new \in Seq(Items)
    BY <1>1, <2>1, AppendProperties, LogAssumption DEF Grows
  <2>3. Listed(op.id, op.item) = new
    BY <2>2 DEF Listed
  <2> HIDE DEF new
  <2>4. /\ logBlocks' = [logBlocks EXCEPT ![op.id] = new]
        /\ idsOccupied' = [idsOccupied EXCEPT ![op.id] = "OCCUPIED"]
        /\ logBlocks \in [Ids -> BlockLists]
        /\ idsOccupied \in [Ids -> {"OCCUPIED", "NOT_OCCUPIED", "UNKNOWN"}]
    BY <1>5, <2>3 DEF SetOccupied, CfInv, IInv, LogTypeOK
  <2>5. Held'
    BY <1>1, <1>2, <1>3, <1>5, <2>4 DEF Held, Named, Working
  <2>6. logBlocks'[op.id] = new /\ idsOccupied'[op.id] = "OCCUPIED"
    BY <1>1, <2>4
  <2>7. Partial'
    BY <1>1, <1>5, <2>1, <2>2, <2>6 DEF Partial, Grows
  <2> QED BY <2>5, <2>7
<1> QED
  <2>1. \/ op' = NoOp /\ result' < 0 /\ UNCHANGED <<idsOccupied, logBlocks>>
        \/ /\ op' = NoOp /\ result' = op.id /\ SetOccupied("OCCUPIED")
           /\ logBlocks' = [logBlocks EXCEPT ![op.id] = Listed(op.id, op.item)]
    BY ReturnEffect DEF CfInv, Creates
  <2> QED BY <1>4, <1>5, <2>1

\* The answer to a delete: the block is the one of the job's name, or of a create given up.
LEMMA DeletedJob ==
  ASSUME CfInv, Returns, UNCHANGED cfVars, op.kind = "delete", ~wasReset
  PROVE  Held' /\ Partial'
<1>1. /\ op # NoOp /\ op.id \in Ids
      /\ UNCHANGED <<logBlockNames, job, asked, wasReset>> /\ job # NoJob
      /\ job.kind \in {"delete", "giveUp"}
      /\ Held /\ Partial /\ op.id \in Int /\ op' = NoOp
  <2>1. op # NoOp /\ op.id \in Ids /\ op' = NoOp
    BY ReturnEffect DEF CfInv
  <2> QED BY <2>1 DEF cfVars, CfInv, JobInv, Agree, FacadeOK, Jobs, Ids
<1>2. Partial' /\ \A i : ~Working(i)'
  BY <1>1 DEF Partial, Working
<1>3. \A n \in Names : Named(n) =>
        /\ idsOccupied[logBlockNames[n]] = "OCCUPIED" /\ logBlocks[logBlockNames[n]] = asked[n]
        /\ \A m \in Names : logBlockNames[m] = logBlockNames[n] => m = n
        /\ logBlockNames[n] \in Ids \ {0}
  BY <1>1 DEF Held, Named, Deleted, CfInv, JobInv, FacadeOK
<1>4. CASE UNCHANGED <<idsOccupied, logBlocks>>
  <2>1. Held'
    BY <1>1, <1>2, <1>3, <1>4 DEF Held, Named
  <2> QED BY <1>2, <2>1
<1>5. CASE result' = op.id /\ SetOccupied("NOT_OCCUPIED")
           /\ logBlocks' = [logBlocks EXCEPT ![op.id] = NoBlock]
  <2>1. \A n \in Names : (Named(n) /\ logBlockNames[n] = op.id) => Deleted(n)'
    BY <1>1, <1>5, OthersKept DEF Deleted, CfInv, JobInv, Agree
  <2>2. /\ idsOccupied' = [idsOccupied EXCEPT ![op.id] = "NOT_OCCUPIED"]
        /\ logBlocks \in [Ids -> BlockLists]
        /\ idsOccupied \in [Ids -> {"OCCUPIED", "NOT_OCCUPIED", "UNKNOWN"}]
    BY <1>5 DEF SetOccupied, CfInv, IInv, LogTypeOK
  <2>3. \A i \in Ids \ {op.id} : idsOccupied'[i] = idsOccupied[i] /\ logBlocks'[i] = logBlocks[i]
    BY <1>5, <2>2
  <2>4. Held'
    BY <1>1, <1>2, <1>3, <2>1, <2>3 DEF Held, Named
  <2> QED BY <1>2, <2>4
<1> QED
  <2>1. op.kind = "delete"
    OBVIOUS
  <2> QED BY <1>1, <1>4, <1>5, <2>1, ReturnEffect DEF CfInv, Creates

\* The answer to a start or stop.
LEMMA PassedJob ==
  ASSUME CfInv, Returns, UNCHANGED cfVars, op.kind \in {"start", "stop"}, ~wasReset
  PROVE  Held' /\ Partial'
<1>1. /\ op # NoOp /\ op.id \in Ids /\ UNCHANGED <<logBlockNames, job, asked, wasReset, logBlocks>>
      /\ job # NoJob /\ job.kind = "pass" /\ Held /\ Partial
      /\ SetOccupied("OCCUPIED") \/ UNCHANGED idsOccupied
  <2>1. /\ op # NoOp /\ op.id \in Ids /\ UNCHANGED logBlocks
        /\ SetOccupied("OCCUPIED") \/ UNCHANGED idsOccupied
    BY ReturnEffect DEF CfInv, Creates
  <2> QED BY <2>1 DEF cfVars, CfInv, JobInv, Agree, FacadeOK, Jobs
<1>2. \A i \in Ids : idsOccupied[i] = "OCCUPIED" => idsOccupied'[i] = "OCCUPIED"
  BY <1>1 DEF SetOccupied, CfInv, IInv, LogTypeOK
<1>3. Held'
  BY <1>1, <1>2 DEF Held, Named, Deleted, Working, CfInv, JobInv, FacadeOK
<1> QED BY <1>1, <1>3 DEF Partial

\* Whatever answer is read, the job's invariant holds again.
LEMMA ReturnJob ==
  ASSUME CfInv, Returns, UNCHANGED cfVars
  PROVE  CfInv'
<1>1. IInv' /\ op # NoOp /\ op.id \in Ids /\ op.kind \in Kinds /\ faults' = faults
  BY ReturnsInv, ReturnEffect DEF CfInv, IInv, LogTypeOK, Ops
<1>2. FacadeOK' /\ UNCHANGED <<logBlockNames, job, asked, wasReset>>
  BY DEF CfInv, JobInv, FacadeOK, cfVars
<1>3. \/ op.kind = "createAny" /\ op' # NoOp /\ op'.kind = "createAny"
      \/ op' = NoOp /\ (result' < 0 \/ result' \in Ids \/ op.kind \in {"start", "stop", "reset"})
  BY <1>1, ReturnEffect DEF CfInv
<1>4. Agree'
  <2>1. result' \in Int /\ \A i \in Ids : i \in Int
    BY <1>1 DEF IInv, LogTypeOK, Ids
  <2> QED BY <1>1, <1>2, <1>3, <2>1 DEF CfInv, JobInv, FacadeOK, Jobs, Agree
<1>5. Traced'
  BY <1>1, <1>2, <1>3 DEF CfInv, JobInv, Traced
<1>6. ASSUME ~wasReset' PROVE Held' /\ Partial'
  <2>1. ~wasReset /\ op.kind # "reset" /\ op.kind # "createAt"
    BY <1>1, <1>2, <1>6 DEF CfInv, JobInv, Traced, Agree, FacadeOK, Jobs
  <2> QED BY <1>1, <2>1, CreatedJob, AppendedJob, DeletedJob, PassedJob DEF Kinds
<1> QED BY <1>1, <1>2, <1>4, <1>5, <1>6 DEF CfInv, JobInv

-----------------------------------------------------------------------------
(* The facade's own steps.                                                 *)

\* A call or a return of the facade that leaves the cache alone.
LEMMA CacheStepInv ==
  ASSUME CfInv, op = NoOp, UNCHANGED <<idsOccupied, logBlocks, faults>>, IInv', Agree',
         FacadeOK', ~wasReset' => ~wasReset /\ (op' = NoOp \/ op'.kind # "reset"),
         ~wasReset => Held' /\ Partial'
  PROVE  CfInv'
BY DEF CfInv, JobInv, Traced

\* What an operation of the facade that has ended leaves of its job.
LEMMA DoneInv ==
  ASSUME CfInv, op = NoOp, NEW r \in Int, Done(r),
         FacadeOK', ~wasReset => Held'
  PROVE  CfInv'
<1>1. /\ UNCHANGED <<idsOccupied, logBlocks, op, msg, blocks, code, faults, wasReset>>
      /\ result' = r /\ job' = NoJob
  BY DEF Done, fwVars
<1>2. IInv'
  BY <1>1, ResultInv DEF CfInv
<1>3. Agree' /\ Partial'
  BY <1>1 DEF Agree, Partial
<1> QED BY <1>1, <1>2, <1>3 DEF CfInv, JobInv, Traced

\* A job is a job.
LEMMA JobIs ==
  ASSUME NEW kind \in {"create", "giveUp", "delete", "pass"}, NEW n \in Names,
         NEW rest \in ItemLists, NEW all \in ItemLists
  PROVE  /\ Job(kind, n, rest, all) \in Jobs /\ Job(kind, n, rest, all) # NoJob
         /\ Job(kind, n, rest, all).kind = kind /\ Job(kind, n, rest, all).name = n
         /\ Job(kind, n, rest, all).rest = rest /\ Job(kind, n, rest, all).all = all
<1> DEFINE j == [kind |-> kind, name |-> n, rest |-> rest, all |-> all]
<1>1. j \in Jobs /\ j.kind = kind /\ j.name = n /\ j.rest = rest /\ j.all = all
  BY DEF Jobs
<1>2. j # NoJob
  <2> HIDE DEF j
  <2> QED BY <1>1, FacadeAssumption
<1> QED BY <1>1, <1>2 DEF Job

\* When no job is under way every name's block is held.
LEMMA IdleHeld ==
  ASSUME CfInv, Held, op = NoOp, job # NoJob => job.kind # "delete", NEW n \in Names, Named(n)
  PROVE  /\ idsOccupied[logBlockNames[n]] = "OCCUPIED" /\ logBlocks[logBlockNames[n]] = asked[n]
         /\ \A m \in Names : logBlockNames[m] = logBlockNames[n] => m = n
         /\ logBlockNames[n] \in Ids \ {0} /\ logBlockNames[n] \in Int
BY DEF Held, Named, Deleted, CfInv, JobInv, FacadeOK, Ids

\* createLogBlock by name: it begins with the block of the first item.
LEMMA CreateCallInv ==
  ASSUME CfInv, NEW n \in Names, NEW req \in Requests, createLogBlockNamed(req, n)
  PROVE  CfInv'
<1>0. /\ req \in ItemLists /\ req # <<>> /\ Head(req) \in Items \cup {Missing}
      /\ Tail(req) \in ItemLists /\ op = NoOp /\ job = NoJob
      /\ UNCHANGED <<logBlockNames, asked, wasReset>>
  <2>1. req \in ItemLists /\ req # <<>>
    BY FacadeAssumption DEF ItemLists
  <2> QED BY <2>1, HeadTailProperties DEF ItemLists, createLogBlockNamed, Free, Done
<1>1. CASE Done(-GENERIC)
  <2>1. FacadeOK' /\ (~wasReset => Held')
    BY <1>0, <1>1 DEF Done, CfInv, JobInv, FacadeOK, Held, Named, Working, Deleted
  <2> QED BY <1>0, <1>1, <2>1, DoneInv DEF GENERIC
<1>2. CASE Head(req) # Missing /\ createLogBlock(Head(req))
           /\ job' = Job("create", n, Tail(req), req)
  <2>1. Head(req) \in Items /\ IInv'
    BY <1>0, <1>2, CallsInv DEF Calls, CfInv
  <2>2. TryFrom(0, Head(req)) /\ 0 \in 0..IdCount /\ -GENERIC < 0
    BY <1>2, LogAssumption DEF createLogBlock, GENERIC
  <2>3. /\ UNCHANGED <<idsOccupied, logBlocks, faults>>
        /\ \/ op' = NoOp /\ result' = -GENERIC
           \/ op' # NoOp /\ op'.kind = "createAny" /\ op'.item = Head(req)
    BY <2>1, <2>2, TryEffect DEF CfInv
  <2>4. /\ job' \in Jobs /\ job' # NoJob /\ job'.kind = "create"
        /\ job'.rest = Tail(req) /\ job'.all = req
    <3> DEFINE rest == Tail(req)
    <3>1. rest \in ItemLists /\ job' = Job("create", n, rest, req)
      BY <1>0, <1>2
    <3> HIDE DEF rest
    <3>2. /\ job' \in Jobs /\ job' # NoJob /\ job'.kind = "create"
          /\ job'.rest = rest /\ job'.all = req
      BY <1>0, <3>1, JobIs
    <3> QED BY <3>2 DEF rest
  <2>5. FacadeOK' /\ Agree'
    BY <1>0, <2>2, <2>3, <2>4 DEF CfInv, JobInv, FacadeOK, Agree, GENERIC
  <2>6. ~wasReset => Held'
    <3> SUFFICES ASSUME ~wasReset, NEW m \in Names, Named(m)'
                 PROVE  /\ \A k \in Names : logBlockNames'[k] = logBlockNames'[m] => k = m
                        /\ ~Working(logBlockNames[m])'
                        /\ idsOccupied'[logBlockNames[m]] = "OCCUPIED"
                        /\ logBlocks'[logBlockNames[m]] = asked'[m]
      BY <1>0 DEF Held
    <3>1. Named(m) /\ Held
      BY <1>0 DEF Named, CfInv, JobInv
    <3> QED BY <1>0, <2>3, <2>4, <3>1, IdleHeld DEF Working, GENERIC, Ids
  <2>7. Partial'
    <3>1. <<Head(req)>> \o Tail(req) = req
      BY <1>0, ShiftList DEF ItemLists
    <3> QED BY <2>3, <2>4, <3>1 DEF Partial, GENERIC
  <2> QED BY <1>0, <2>1, <2>3, <2>5, <2>6, <2>7, CacheStepInv
<1> QED BY <1>1, <1>2 DEF createLogBlockNamed

\* delete, start and stop by name: the one call that they make.
LEMMA PassCallInv ==
  ASSUME CfInv, NEW n \in Names,
         deleteLogBlockNamed(n) \/ startLogBlockNamed(n) \/ stopLogBlockNamed(n)
           \/ addLogCallbackNamed(n)
  PROVE  CfInv'
<1>0. /\ op = NoOp /\ job = NoJob /\ UNCHANGED <<logBlockNames, asked, wasReset>>
      /\ NoItem \in Items \cup {NoItem} /\ <<>> \in ItemLists
  BY EmptySeq DEF deleteLogBlockNamed, startLogBlockNamed, stopLogBlockNamed, addLogCallbackNamed,
     Unnamed, Done, Free, ItemLists
<1>1. ASSUME NEW r \in Int, Done(r) PROVE CfInv'
  <2>1. FacadeOK' /\ (~wasReset => Held')
    BY <1>0, <1>1 DEF Done, CfInv, JobInv, FacadeOK, Held, Named, Working, Deleted
  <2> QED BY <1>0, <1>1, <2>1, DoneInv
<1>2. ASSUME NEW kind \in {"delete", "start", "stop"}, logBlockNames[n] # NoId,
             AskUnlessFree(kind, logBlockNames[n], NoItem),
             job' = Job(IF kind = "delete" THEN "delete" ELSE "pass", n, <<>>, <<>>)
      PROVE  CfInv'
  <2> DEFINE i == logBlockNames[n]
  <2>1. i \in Ids
    BY <1>2 DEF CfInv, JobInv, FacadeOK
  <2>2. /\ IInv' /\ UNCHANGED <<idsOccupied, logBlocks, faults>>
        /\ \/ op' = NoOp /\ result' = -GENERIC
           \/ op' # NoOp /\ op'.kind = kind /\ op'.id = i
    BY <1>0, <1>2, <2>1, AskEffect DEF CfInv
  <2>3. /\ job' \in Jobs /\ job' # NoJob /\ job'.name = n
        /\ job'.kind = IF kind = "delete" THEN "delete" ELSE "pass"
    BY <1>0, <1>2, JobIs
  <2>4. FacadeOK' /\ Agree' /\ Partial'
    BY <1>0, <1>2, <2>2, <2>3 DEF CfInv, JobInv, FacadeOK, Agree, Partial
  <2>5. ~wasReset => Held'
    <3> SUFFICES ASSUME ~wasReset, NEW m \in Names, Named(m)'
                 PROVE  /\ \A k \in Names : logBlockNames'[k] = logBlockNames'[m] => k = m
                        /\ ~Working(logBlockNames[m])'
                        /\ idsOccupied'[logBlockNames[m]] = "OCCUPIED"
                        /\ logBlocks'[logBlockNames[m]] = asked'[m]
      BY <1>0 DEF Held
    <3>1. Named(m) /\ Held
      BY <1>0 DEF Named, CfInv, JobInv
    <3> QED BY <1>0, <2>2, <2>3, <3>1, IdleHeld DEF Working
  <2> QED BY <1>0, <2>2, <2>4, <2>5, CacheStepInv
<1>3. -GENERIC \in Int /\ (logBlockNames[n] # NoId => logBlockNames[n] \in Int)
  BY DEF GENERIC, CfInv, JobInv, FacadeOK, Ids
<1>4. CASE deleteLogBlockNamed(n)
  BY <1>1, <1>2, <1>3, <1>4 DEF deleteLogBlockNamed, Unnamed, deleteLogBlock
<1>5. CASE startLogBlockNamed(n)
  BY <1>1, <1>2, <1>3, <1>5 DEF startLogBlockNamed, Unnamed, startLogBlock
<1>6. CASE stopLogBlockNamed(n)
  BY <1>1, <1>2, <1>3, <1>6 DEF stopLogBlockNamed, Unnamed, stopLogBlock
<1>7. CASE addLogCallbackNamed(n)
  BY <1>1, <1>3, <1>7 DEF addLogCallbackNamed, Unnamed
<1> QED BY <1>4, <1>5, <1>6, <1>7

\* A reset voids what the names stand for.
LEMMA ResetCallInv ==
  ASSUME CfInv, resetLogBlocksAll
  PROVE  CfInv'
<1>1. IInv' /\ op = NoOp /\ job = NoJob /\ wasReset' /\ UNCHANGED <<logBlockNames, job, asked>>
  BY CallsInv DEF resetLogBlocksAll, Calls, CfInv, Free
<1>2. op' # NoOp /\ op'.kind = "reset"
  <2>1. [kind |-> "reset", id |-> 0, item |-> NoItem] \in Ops
    BY LogAssumption DEF Ops, Kinds, Ids
  <2> QED BY <2>1, LogAssumption DEF resetLogBlocksAll, resetLogBlocks, Request
<1>3. FacadeOK' /\ Agree' /\ Traced'
  BY <1>1, <1>2 DEF CfInv, JobInv, FacadeOK, Agree, Traced, resetLogBlocksAll
<1> QED BY <1>1, <1>3 DEF CfInv, JobInv

\* The next item of a create, or the delete after an item that is not in the TOC.
LEMMA AppendNextInv ==
  ASSUME CfInv, AppendNext
  PROVE  CfInv'
<1>0. /\ op = NoOp /\ job \in Jobs /\ job # NoJob /\ job.kind = "create" /\ result \in Ids
      /\ job.rest # <<>> /\ job.rest \in ItemLists /\ job.all \in ItemLists /\ job.name \in Names
      /\ Head(job.rest) \in Items \cup {Missing} /\ Tail(job.rest) \in ItemLists
      /\ UNCHANGED <<logBlockNames, asked, wasReset>> /\ (~wasReset => Held /\ Partial)
      /\ NoItem \in Items \cup {NoItem} /\ result >= 0
  <2>1. job.rest # <<>> /\ job.rest \in ItemLists
    BY DEF AppendNext, Resumed, CfInv, JobInv, FacadeOK, Jobs
  <2> QED BY <2>1, HeadTailProperties DEF AppendNext, Resumed, CfInv, JobInv, FacadeOK, Jobs, Agree,
        ItemLists
<1> DEFINE rest == Tail(job.rest)
           x == Head(job.rest)
<1>1. ASSUME ~wasReset
      PROVE  /\ Grows(result, logBlocks[result])
             /\ \A n \in Names : Named(n) => logBlockNames[n] # result
  BY <1>0, <1>1 DEF Partial, Held, Working
<1>2. ASSUME UNCHANGED <<idsOccupied, logBlocks, faults>>,
             job'.kind \in {"create", "giveUp"}, job' # NoJob,
             \/ op' = NoOp /\ (job'.kind = "create" => result' < 0)
             \/ op' # NoOp /\ op'.id = result,
             result' \in Int, ~wasReset
      PROVE  Held'
  <2> SUFFICES ASSUME NEW m \in Names, Named(m)'
               PROVE  /\ \A k \in Names : logBlockNames'[k] = logBlockNames'[m] => k = m
                      /\ ~Working(logBlockNames[m])'
                      /\ idsOccupied'[logBlockNames[m]] = "OCCUPIED"
                      /\ logBlocks'[logBlockNames[m]] = asked'[m]
    BY <1>0 DEF Held
  <2>1. Named(m) /\ Held
    BY <1>0, <1>2 DEF Named
  <2> QED BY <1>0, <1>1, <1>2, <2>1, IdleHeld DEF Working, Ids
<1>3. CASE x # Missing /\ appendLogBlock(result, x) /\ job' = [job EXCEPT !.rest = rest]
  <2>1. x \in Items /\ AskUnlessFree("append", result, x) /\ -GENERIC \in Int /\ -GENERIC < 0
        /\ SUCCESS \in Int
    BY <1>0, <1>3 DEF appendLogBlock, GENERIC, SUCCESS
  <2>2. /\ IInv' /\ UNCHANGED <<idsOccupied, logBlocks, faults>>
        /\ \/ op' = NoOp /\ result' = -GENERIC
              /\ idsOccupied[result] = "NOT_OCCUPIED"
           \/ op' # NoOp /\ op'.kind = "append" /\ op'.id = result /\ op'.item = x
    <3> HIDE DEF x
    <3> QED BY <1>0, <2>1, AskEffect DEF CfInv
  <2>3. /\ job' \in Jobs /\ job' # NoJob /\ job'.kind = "create"
        /\ job'.rest = rest /\ job'.all = job.all /\ job'.name = job.name
    <3> HIDE DEF rest
    <3>0. rest \in ItemLists
      BY <1>0 DEF rest
    <3>1. job' = Job("create", job.name, rest, job.all)
      BY <1>0, <1>3, <3>0 DEF Jobs, Job
    <3> QED BY <1>0, <3>0, <3>1, JobIs
  <2>4. FacadeOK' /\ Agree'
    BY <1>0, <2>1, <2>2, <2>3 DEF CfInv, JobInv, FacadeOK, Agree
  <2>5. ~wasReset => Held'
    BY <1>2, <2>1, <2>2, <2>3 DEF IInv, LogTypeOK
  <2>6. ASSUME ~wasReset PROVE Partial'
    <3>1. logBlocks[result] \in Seq(Items) /\ Grows(result, logBlocks[result])
      BY <1>1, <2>6 DEF Grows
    <3>2. logBlocks[result] \in ItemLists
      BY <3>1 DEF ItemLists
    <3>3. Append(logBlocks[result], x) \o rest = logBlocks[result] \o job.rest
      BY <1>0, <3>2, ShiftList DEF ItemLists
    <3>4. Append(logBlocks[result], x) \o rest = job.all
      BY <3>1, <3>3 DEF Grows
    <3> HIDE DEF x, rest
    <3> QED BY <2>1, <2>2, <2>3, <3>1, <3>4 DEF Partial, Grows
  <2> QED BY <1>0, <2>2, <2>4, <2>5, <2>6, CacheStepInv
<1>4. CASE deleteLogBlock(result) /\ job' = [job EXCEPT !.kind = "giveUp"]
  <2>1. AskUnlessFree("delete", result, NoItem) /\ -GENERIC \in Int
    BY <1>4 DEF deleteLogBlock, GENERIC
  <2>2. /\ IInv' /\ UNCHANGED <<idsOccupied, logBlocks, faults>>
        /\ \/ op' = NoOp
           \/ op' # NoOp /\ op'.kind = "delete" /\ op'.id = result
    BY <1>0, <2>1, AskEffect DEF CfInv
  <2>3. job' \in Jobs /\ job' # NoJob /\ job'.kind = "giveUp"
    <3>1. job' = Job("giveUp", job.name, job.rest, job.all)
      BY <1>0, <1>4 DEF Jobs, Job
    <3> QED BY <1>0, <3>1, JobIs
  <2>4. FacadeOK' /\ Agree' /\ Partial'
    BY <1>0, <2>2, <2>3 DEF CfInv, JobInv, FacadeOK, Agree, Partial
  <2>5. ~wasReset => Held'
    BY <1>2, <2>2, <2>3 DEF IInv, LogTypeOK
  <2> QED BY <1>0, <2>2, <2>4, <2>5, CacheStepInv
<1> QED BY <1>3, <1>4 DEF AppendNext

\* The end of a create: the block is complete, and no other name's.
LEMMA CreateDoneInv ==
  ASSUME CfInv, CreateDone
  PROVE  CfInv'
<1>0. /\ op = NoOp /\ job \in Jobs /\ job # NoJob /\ job.kind = "create" /\ result \in Ids
      /\ job.rest = <<>> /\ job.all \in ItemLists /\ job.name \in Names /\ Done(result)
      /\ (~wasReset => Held /\ Partial) /\ result \in Int /\ result >= 0
  BY DEF CreateDone, Resumed, CfInv, JobInv, FacadeOK, Jobs, Agree, Ids
<1>1. /\ UNCHANGED <<idsOccupied, logBlocks, op, wasReset>> /\ job' = NoJob
  BY <1>0 DEF Done
<1>2. FacadeOK'
  BY <1>0, <1>1 DEF CreateDone, CfInv, JobInv, FacadeOK
<1>3. ASSUME ~wasReset PROVE Held'
  <2>1. Grows(result, logBlocks[result]) /\ \A n \in Names : Named(n) => logBlockNames[n] # result
    BY <1>0, <1>3 DEF Partial, Held, Working
  <2>2. idsOccupied[result] = "OCCUPIED" /\ logBlocks[result] = job.all
    <3>1. logBlocks[result] \o <<>> = logBlocks[result]
      BY <2>1, ConcatEmptySeq DEF Grows
    <3> QED BY <1>0, <2>1, <3>1 DEF Grows
  <2> SUFFICES ASSUME NEW n \in Names, Named(n)'
               PROVE  /\ \A m \in Names : logBlockNames'[m] = logBlockNames'[n] => m = n
                      /\ idsOccupied'[logBlockNames'[n]] = "OCCUPIED"
                      /\ logBlocks'[logBlockNames'[n]] = asked'[n]
    BY <1>1 DEF Held, Working
  <2>3. /\ logBlockNames \in [Names -> Ids \cup {NoId}] /\ asked \in [Names -> ItemLists]
        /\ Held /\ \A k \in Names : Named(k) <=> logBlockNames[k] \notin {NoId, 0}
    BY <1>0, <1>3 DEF CfInv, JobInv, FacadeOK, Named
  <2>4. CASE logBlockNames[job.name] = NoId
    <3>1. /\ logBlockNames' = [logBlockNames EXCEPT ![job.name] = result]
          /\ asked' = [asked EXCEPT ![job.name] = job.all]
      BY <2>4 DEF CreateDone
    <3>2. logBlockNames'[n] \notin {NoId, 0}
      BY DEF Named
    <3>3. CASE n = job.name
      BY <1>0, <1>1, <2>1, <2>2, <2>3, <3>1, <3>2, <3>3
    <3>4. CASE n # job.name
      <4>1. Named(n) /\ logBlockNames'[n] = logBlockNames[n] /\ asked'[n] = asked[n]
        BY <1>0, <2>3, <3>1, <3>2, <3>4
      <4>2. \A m \in Names : logBlockNames'[m] = logBlockNames[n] => m = n
        BY <1>0, <2>1, <2>3, <3>1, <4>1, IdleHeld
      <4> QED BY <1>0, <1>1, <2>3, <4>1, <4>2, IdleHeld
    <3> QED BY <3>3, <3>4
  <2>5. CASE logBlockNames[job.name] # NoId
    <3>1. UNCHANGED <<logBlockNames, asked>>
      BY <2>5 DEF CreateDone
    <3>2. Named(n)
      BY <3>1 DEF Named
    <3> QED BY <1>0, <1>1, <2>3, <3>1, <3>2, IdleHeld
  <2> QED BY <2>4, <2>5
<1> QED BY <1>0, <1>2, <1>3, DoneInv

\* The end of a delete: the name goes with the block, or both stay.
LEMMA DeleteDoneInv ==
  ASSUME CfInv, DeleteDone
  PROVE  CfInv'
<1>0. /\ op = NoOp /\ job \in Jobs /\ job # NoJob /\ job.kind = "delete" /\ job.name \in Names
      /\ Done(result) /\ (~wasReset => Held) /\ result \in Int
      /\ logBlockNames \in [Names -> Ids \cup {NoId}] /\ asked \in [Names -> ItemLists]
      /\ <<>> \in ItemLists
  BY EmptySeq DEF DeleteDone, Resumed, CfInv, JobInv, FacadeOK, Jobs, IInv, LogTypeOK, ItemLists
<1>1. /\ UNCHANGED <<idsOccupied, logBlocks, op, wasReset>> /\ job' = NoJob
  BY <1>0 DEF Done
<1>2. FacadeOK'
  BY <1>0, <1>1 DEF DeleteDone, CfInv, JobInv, FacadeOK
<1>3. ASSUME ~wasReset PROVE Held'
  <2> SUFFICES ASSUME NEW n \in Names, Named(n)'
               PROVE  /\ \A m \in Names : logBlockNames'[m] = logBlockNames'[n] => m = n
                      /\ idsOccupied'[logBlockNames'[n]] = "OCCUPIED"
                      /\ logBlocks'[logBlockNames'[n]] = asked'[n]
    BY <1>1 DEF Held, Working
  <2>1. Held /\ logBlockNames'[n] \notin {NoId, 0}
    BY <1>0, <1>3 DEF Named
  <2>2. CASE result > 0
    <3>1. /\ logBlockNames' = [logBlockNames EXCEPT ![job.name] = NoId]
          /\ asked' = [asked EXCEPT ![job.name] = <<>>]
      BY <2>2 DEF DeleteDone
    <3>2. n # job.name /\ logBlockNames'[n] = logBlockNames[n] /\ asked'[n] = asked[n] /\ Named(n)
      BY <1>0, <2>1, <3>1 DEF Named
    <3>3. \A m \in Names : logBlockNames'[m] = logBlockNames[n] => m = n
      BY <1>0, <2>1, <3>1, <3>2 DEF Held, Named
    <3> QED BY <1>1, <2>1, <3>2, <3>3 DEF Held, Deleted
  <2>3. CASE ~(result > 0)
    <3>1. UNCHANGED <<logBlockNames, asked>>
      BY <2>3 DEF DeleteDone
    <3>2. Named(n) /\ logBlockNames[n] \in Ids \ {0}
      BY <1>0, <2>1, <3>1 DEF Named
    <3>3. result # logBlockNames[n]
      BY <1>0, <2>3, <3>2 DEF Ids
    <3> QED BY <1>1, <2>1, <3>1, <3>2, <3>3 DEF Held, Deleted
  <2> QED BY <2>2, <2>3
<1> QED BY <1>0, <1>2, <1>3, DoneInv

\* Operations that end and leave the names as they are.
LEMMA PassDoneInv ==
  ASSUME CfInv, CreateFailed \/ GiveUp \/ PassDone
  PROVE  CfInv'
<1>0. /\ op = NoOp /\ job # NoJob /\ job.kind # "delete" /\ UNCHANGED <<logBlockNames, asked>>
      /\ \E r \in Int : Done(r)
  BY DEF CreateFailed, GiveUp, PassDone, Resumed, GENERIC, CfInv, IInv, LogTypeOK
<1>1. PICK r \in Int : Done(r)
  BY <1>0
<1>2. job' = NoJob /\ UNCHANGED <<idsOccupied, logBlocks, wasReset>>
  BY <1>1 DEF Done
<1>3. FacadeOK' /\ (~wasReset => Held')
  BY <1>0, <1>2 DEF CfInv, JobInv, FacadeOK, Held, Named, Working, Deleted
<1> QED BY <1>0, <1>1, <1>3, DoneInv

\* Whatever the client calls, the Crazyflie answers and a reboot undoes, CfInv holds again.
THEOREM FacadeStepInv == CfInv /\ [Next]_vars => CfInv'
<1> SUFFICES ASSUME CfInv, [Next]_vars PROVE CfInv'
  OBVIOUS
<1>1. CASE UNCHANGED vars
  <2>1. UNCHANGED logVars /\ UNCHANGED <<logBlockNames, job, asked, wasReset>>
        /\ UNCHANGED <<idsOccupied, logBlocks, op, result, faults>>
    BY <1>1 DEF vars, cfVars, logVars, libVars
  <2>2. IInv'
    BY <2>1, LogStepInv DEF CfInv
  <2>3. FacadeOK' /\ Agree' /\ Traced'
    BY <2>1 DEF CfInv, JobInv, FacadeOK, Agree, Traced
  <2>4. (Held <=> Held') /\ (Partial <=> Partial')
    BY <2>1 DEF Held, Named, Working, Deleted, Partial, Grows
  <2> QED BY <2>1, <2>2, <2>3, <2>4 DEF CfInv, JobInv
<1>2. CASE CfCalls
  BY <1>2, ResetCallInv, PassCallInv, CreateCallInv DEF CfCalls
<1>3. CASE CfResumes
  BY <1>3, AppendNextInv, CreateDoneInv, DeleteDoneInv, PassDoneInv DEF CfResumes
<1>4. CASE (Returns \/ Firmware \/ Reboot) /\ UNCHANGED cfVars
  BY <1>4, ReturnJob, FirmwareJob
<1> QED BY <1>1, <1>2, <1>3, <1>4 DEF Next

\* The facade starts with no names and no job.
LEMMA FacadeInit == Init => CfInv
<1> SUFFICES ASSUME Init PROVE CfInv
  OBVIOUS
<1>1. IInv
  BY LogInitInv DEF Init
<1>2. FacadeOK /\ Agree /\ Traced
  BY EmptySeq DEF Init, LogInit, FacadeOK, Agree, Traced, ItemLists
<1>3. Held /\ Partial
  BY DEF Init, Held, Named, Partial
<1> QED BY <1>1, <1>2, <1>3 DEF CfInv, JobInv

\* The facade's variables have their types: a job goes on with an id and a list of items.
THEOREM FacadeTypeOK == Spec => []TypeOK
<1>1. CfInv => TypeOK
  BY DEF CfInv, IInv, JobInv, FacadeOK, TypeOK
<1> QED BY <1>1, FacadeInit, FacadeStepInv, PTL DEF Spec

\* Two names never share a block, and a name's block is held for taken: no create takes an
\* id that a name stands for (Crazyflie.cpp:202-246), short of resets and of id 0.
THEOREM FacadeNameOwnsItsBlock == Spec => []NameOwnsItsBlock
<1>1. CfInv => NameOwnsItsBlock
  BY DEF CfInv, JobInv, Held, Named, Deleted, NameOwnsItsBlock, Owned
<1> QED BY <1>1, FacadeInit, FacadeStepInv, PTL DEF Spec

\* A block gets its name when it has all the items asked for, and keeps them.
THEOREM FacadeNamedBlockIsEntire == Spec => []NamedBlockIsEntire
<1>1. CfInv => NamedBlockIsEntire
  BY DEF CfInv, JobInv, Held, Named, Deleted, NamedBlockIsEntire, Owned
<1> QED BY <1>1, FacadeInit, FacadeStepInv, PTL DEF Spec
=============================================================================
