----------------------------- MODULE CrazyflieLog -----------------------------
(***************************************************************************)
(* The log operations of Crazyflie.cpp: log blocks with names, built from  *)
(* the operations of Log.                                                  *)
(*                                                                         *)
(* A facade operation runs on the client thread as a job.  It calls an     *)
(* operation of Log, which may block, and goes on when that has returned:  *)
(* op = NoOp again, and the value in result.  A TOC lookup is a local      *)
(* read; a name that is not in the TOC is Missing.                         *)
(***************************************************************************)
EXTENDS Log

CONSTANTS
  Names,     \* the names clients give to blocks
  Requests,  \* the lists of item names clients create blocks from
  Missing,   \* an item name that is not in the log TOC
  NoId,      \* a name that _logBlockNames has no entry for
  NoJob      \* the client is outside the facade

ItemLists == Seq(Items \cup {Missing})

\* The frame of a facade operation: its kind, its name, and for a create the items left
\* and all of them.
Jobs == [kind : {"create", "giveUp", "delete", "pass"}, name : Names,
         rest : ItemLists, all : ItemLists]

ASSUME FacadeAssumption ==
  /\ Requests \subseteq ItemLists \ {<<>>}
  /\ Missing \notin Items /\ NoId \notin Int /\ NoJob \notin Jobs

VARIABLES
  logBlockNames, \* _logBlockNames: name -> id
  job,           \* the facade operation in progress and the item names it has left
  asked,         \* ghost: the items asked for under each name in the map
  wasReset       \* ghost: resetLogBlocks was called

cfVars == <<logBlockNames, job, asked, wasReset>>
vars   == <<logVars, cfVars>>

Init ==
  /\ LogInit
  /\ logBlockNames = [n \in Names |-> NoId] /\ job = NoJob
  /\ asked = [n \in Names |-> <<>>] /\ wasReset = FALSE

Free == job = NoJob /\ op = NoOp

Job(kind, n, rest, all) == [kind |-> kind, name |-> n, rest |-> rest, all |-> all]

\* The client thread is back inside the facade after a call to Log.
Resumed(kind) == job # NoJob /\ job.kind = kind /\ op = NoOp

Done(r) == job' = NoJob /\ result' = r
             /\ UNCHANGED <<idsOccupied, logBlocks, op, msg, fwVars, faults, wasReset>>

\* Crazyflie.cpp:204-211.
createLogBlockNamed(req, n) ==
  /\ Free
  /\ \/ Head(req) = Missing /\ Done(-GENERIC) /\ UNCHANGED <<logBlockNames, asked>>
     \/ /\ Head(req) # Missing /\ createLogBlock(Head(req))
        /\ job' = Job("create", n, Tail(req), req)
        /\ UNCHANGED <<logBlockNames, asked, wasReset>>

\* The next item of lines 213-225.  An append returns the id it was given, so
\* result is logBlockId here.
AppendNext ==
  /\ Resumed("create") /\ result >= 0 /\ job.rest # <<>>
  /\ \/ /\ Head(job.rest) # Missing
        /\ appendLogBlock(result, Head(job.rest))
        /\ job' = [job EXCEPT !.rest = Tail(@)]
     \/ /\ Head(job.rest) = Missing
        /\ deleteLogBlock(result)
        /\ job' = [job EXCEPT !.kind = "giveUp"]
  /\ UNCHANGED <<logBlockNames, asked, wasReset>>

\* Lines 210-211 and 223-224: an error of create or append is passed on as it is.
CreateFailed ==
  /\ Resumed("create") /\ result < 0
  /\ Done(result) /\ UNCHANGED <<logBlockNames, asked>>

\* Mutated form: the name is recorded before the items are appended.
CreateDoneEarly ==
  /\ Resumed("create") /\ result >= 0
  /\ logBlockNames' = [logBlockNames EXCEPT ![job.name] = IF @ = NoId THEN result ELSE @]
  /\ asked' = [asked EXCEPT ![job.name] = IF @ = <<>> THEN job.all ELSE @]
  /\ Done(result)

\* Lines 226-227: insert keeps the id of a name that is in use.
CreateDone ==
  /\ Resumed("create") /\ result >= 0 /\ job.rest = <<>>
  /\ IF logBlockNames[job.name] = NoId
     THEN /\ logBlockNames' = [logBlockNames EXCEPT ![job.name] = result]
          /\ asked' = [asked EXCEPT ![job.name] = job.all]
     ELSE UNCHANGED <<logBlockNames, asked>>
  /\ Done(result)

\* Line 220, after the delete of line 218 whatever it returned.
GiveUp ==
  /\ Resumed("giveUp")
  /\ Done(-GENERIC) /\ UNCHANGED <<logBlockNames, asked>>

Unnamed(n) ==
  /\ Free /\ logBlockNames[n] = NoId
  /\ Done(-GENERIC) /\ UNCHANGED <<logBlockNames, asked>>

deleteLogBlockNamed(n) ==
  \/ Unnamed(n)
  \/ /\ Free /\ logBlockNames[n] # NoId /\ deleteLogBlock(logBlockNames[n])
     /\ job' = Job("delete", n, <<>>, <<>>) /\ UNCHANGED <<logBlockNames, asked, wasReset>>

\* Mutated form: the name is dropped only when the delete failed.
DeleteDoneInverted ==
  /\ Resumed("delete")
  /\ IF result < 0
     THEN /\ logBlockNames' = [logBlockNames EXCEPT ![job.name] = NoId]
          /\ asked' = [asked EXCEPT ![job.name] = <<>>]
     ELSE UNCHANGED <<logBlockNames, asked>>
  /\ Done(result)

\* Lines 240-245.
DeleteDone ==
  /\ Resumed("delete")
  /\ IF result > 0
     THEN /\ logBlockNames' = [logBlockNames EXCEPT ![job.name] = NoId]
          /\ asked' = [asked EXCEPT ![job.name] = <<>>]
     ELSE UNCHANGED <<logBlockNames, asked>>
  /\ Done(result)

\* start and stop return what Log returns.
startLogBlockNamed(n) ==
  \/ Unnamed(n)
  \/ /\ Free /\ logBlockNames[n] # NoId /\ startLogBlock(logBlockNames[n])
     /\ job' = Job("pass", n, <<>>, <<>>) /\ UNCHANGED <<logBlockNames, asked, wasReset>>

stopLogBlockNamed(n) ==
  \/ Unnamed(n)
  \/ /\ Free /\ logBlockNames[n] # NoId /\ stopLogBlock(logBlockNames[n])
     /\ job' = Job("pass", n, <<>>, <<>>) /\ UNCHANGED <<logBlockNames, asked, wasReset>>

PassDone ==
  /\ Resumed("pass") /\ Done(result) /\ UNCHANGED <<logBlockNames, asked>>

\* The id that LogData's addLogCallback is called with; that touches none of this state.
addLogCallbackNamed(n) ==
  \/ Unnamed(n)
  \/ /\ Free /\ logBlockNames[n] # NoId
     /\ Done(logBlockNames[n]) /\ UNCHANGED <<logBlockNames, asked>>

resetLogBlocksAll ==
  /\ Free /\ resetLogBlocks
  /\ wasReset' = TRUE /\ UNCHANGED <<logBlockNames, job, asked>>

CfCalls ==
  \/ resetLogBlocksAll
  \/ \E n \in Names : \/ deleteLogBlockNamed(n)
                      \/ startLogBlockNamed(n) \/ stopLogBlockNamed(n)
                      \/ addLogCallbackNamed(n)
                      \/ \E req \in Requests : createLogBlockNamed(req, n)

CfResumes == AppendNext \/ CreateFailed \/ CreateDone \/ GiveUp \/ DeleteDone \/ PassDone

Next ==
  \/ CfCalls \/ CfResumes
  \/ (Returns \/ Firmware \/ Reboot) /\ UNCHANGED cfVars

Spec == Init /\ [][Next]_vars

\* The firmware answers what it is asked, and the client thread runs when it can;
\* nothing makes it call.
FairSpec ==
  /\ Spec
  /\ WF_vars(Firmware /\ UNCHANGED cfVars)
  /\ WF_vars((Returns /\ UNCHANGED cfVars) \/ CfResumes)

-----------------------------------------------------------------------------
(* Properties.                                                             *)

\* Types.
TypeOK ==
  /\ LogTypeOK
  /\ logBlockNames \in [Names -> Ids \cup {NoId}]
  /\ job \in Jobs \cup {NoJob}
  /\ wasReset \in BOOLEAN

\* The names clients can count on: no reset has happened, the id is not 0, and no
\* delete of the name is under way.
Owned == {n \in Names : /\ ~wasReset /\ logBlockNames[n] \notin {NoId, 0}
                        /\ ~(job # NoJob /\ job.kind = "delete" /\ job.name = n)}

\* A name stands for a block of its own, which the library holds for taken: no create,
\* failed create, delete or refusal in between lets two names share a block.
NameOwnsItsBlock ==
  \A n \in Owned :
    /\ idsOccupied[logBlockNames[n]] = "OCCUPIED"
    /\ \A m \in Owned : logBlockNames[m] = logBlockNames[n] => m = n

\* "Creates the entire log block" (Crazyflie.h:115): a block with a name has all the
\* items it was created from, in their order.
NamedBlockIsEntire ==
  \A n \in Owned : logBlocks[logBlockNames[n]] = asked[n]

\* Every operation returns: the search for an id and the appends come to an end.
CallEnds == (job # NoJob \/ op # NoOp) ~> Free

\* A delete that returns "non-negative integer representing the deleted logBlock id.
\* eg: id = 5 or id = 0" (Crazyflie.h:122) has deleted the name.
DeletedNameIsGone ==
  [][(Resumed("delete") /\ job' = NoJob /\ result >= 0)
       => logBlockNames'[job.name] = NoId]_vars
=============================================================================
