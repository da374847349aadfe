---------------------------------- MODULE Rpc ----------------------------------
(***************************************************************************)
(* What sendRecvData promises its callers: a call ends with the answer to  *)
(* its own request, and one without a timeout ends in no other way.  A     *)
(* call with a timeout may end with no packet; what the same client gets   *)
(* after that may be the answer to an older call.                          *)
(*                                                                         *)
(* A callback thread of a client that is delayed until the worker receives *)
(* or dispatches again may copy another packet than its own, one that is   *)
(* torn or empty: of such a client nothing is promised but that it is the  *)
(* only one to suffer.                                                     *)
(*                                                                         *)
(* A call is <<k, i>>: the i-th of client k; its answer has the same name. *)
(***************************************************************************)
EXTENDS Naturals

CONSTANTS
  Clients,   \* threads that call sendRecvData, each over a wrapper of its own
  MaxCalls,  \* bound: how often each client calls
  Timeouts,  \* the timeouts each client's calls may have; 0 is none
  Pending,   \* the result of a call that has not ended
  NoPacket,  \* the result of a call that timed out
  Torn       \* a result that is no packet of the Crazyflie's

VARIABLES
  calls,    \* how many calls each client has begun
  timeout,  \* the timeout of each client's last call
  busy,     \* the clients inside a call
  got,      \* the result of each call
  strayed,  \* the clients that a timeout has cut off from an answer
  late      \* the clients that have had a callback thread delayed

rpcVars == <<calls, timeout, busy, got, strayed, late>>

Calls == UNION {{k} \X (1..MaxCalls[k]) : k \in Clients}

RpcInit ==
  /\ calls = [k \in Clients |-> 0] /\ busy = {}
  /\ timeout = [k \in Clients |-> 0]
  /\ got = [f \in Calls |-> Pending] /\ strayed = {} /\ late = {}

Begin(k) ==
  /\ k \notin busy /\ calls[k] < MaxCalls[k]
  /\ calls' = [calls EXCEPT ![k] = @ + 1] /\ busy' = busy \cup {k}
  /\ \E to \in Timeouts[k] : timeout' = [timeout EXCEPT ![k] = to]
  /\ UNCHANGED <<got, strayed, late>>

End(k, packet) ==
  /\ k \in busy /\ busy' = busy \ {k}
  /\ got' = [got EXCEPT ![<<k, calls[k]>>] = packet]
  /\ UNCHANGED <<calls, timeout, late>>

Finish(k, packet) ==
  /\ End(k, packet) /\ UNCHANGED strayed
  /\ \/ packet = <<k, calls[k]>>
     \/ k \in strayed /\ \E i \in 1..calls[k] : packet = <<k, i>>
     \/ k \in late

GiveUp(k) ==
  /\ timeout[k] # 0
  /\ End(k, NoPacket) /\ strayed' = strayed \cup {k}

Delay(k) ==
  /\ late' = late \cup {k}
  /\ UNCHANGED <<calls, timeout, busy, got, strayed>>

RpcNext ==
  \E k \in Clients :
    \/ Begin(k) \/ GiveUp(k) \/ Delay(k)
    \/ \E packet \in Calls \cup {Torn} : Finish(k, packet)

RpcSpec == RpcInit /\ [][RpcNext]_rpcVars
=============================================================================
