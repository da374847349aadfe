----------------------------- MODULE SendRecvProofs -----------------------------
(***************************************************************************)
(* sendRecvData keeps the promise of Rpc for any number of clients, calls, *)
(* timeouts and losses, and only a client that has had a call time out or  *)
(* a callback thread that was late has callbacks that lead to a dead frame *)
(* or to an erased node.                                                   *)
(*                                                                         *)
(* The reason is that a request is answered and dispatched once (Once),    *)
(* that a client that has not strayed has nothing of an older call on its  *)
(* way (OnlyCurrent), and that a thread that was not late has copied its   *)
(* own packet (Copied), so that what is stored in the frame of a client    *)
(* that is not astray is its own answer (OwnAnswer).                       *)
(***************************************************************************)
EXTENDS SendRecv, TLAPS

InsidePcs == {"notify", "setFlag"}
Astray    == strayed \cup late

\* Packet p has been given to no callback.
Undelivered(p) == \A f \in Calls : tpc[<<p, f>>] = "none"

\* The request of call p is still to be sent.
Unsent(p) == p[2] > calls[p[1]] \/ (p[2] = calls[p[1]] /\ cpc[p[1]] = "registered")

Begun ==
  /\ \A k \in Clients : cpc[k] # "idle" => calls[k] # 0
  /\ \A k \in Clients : cpc[k] = "timedOut" => timeout[k] # 0
  /\ \A f \in list : f[2] <= calls[f[1]]
  /\ \A p, f \in Calls : tpc[<<p, f>>] # "none" => f[2] <= calls[f[1]]
  /\ \A f \in Calls : got[f] # Pending => f[2] <= calls[f[1]] /\ ~FrameAlive(f)

\* A frame's mutex has one holder, who has stored a packet.
OneInside ==
  \A p, f \in Calls : tpc[<<p, f>>] \in InsidePcs =>
    /\ res[f[1]] # NoPacket
    /\ tpc[<<p, f>>] = "setFlag" => cpc[f[1]] \in {"woken", "timedOut"}
    /\ \A q \in Calls : tpc[<<q, f>>] \in InsidePcs => p = q

\* A live frame's flag, answer and callback belong together.
Stored ==
  \A k \in Clients : cpc[k] # "idle" =>
    /\ returned[k] => res[k] # NoPacket
    /\ res[k] # NoPacket => returned[k] \/ Inside(Frame(k))
    /\ returned[k] /\ Frame(k) \in list =>
         \E p \in Calls : tpc[<<p, Frame(k)>>] \in {"refused", "wild"}

\* The flag is set while the client sleeps and is not to be notified again, and before the
\* callback is erased.
FlagFirst ==
  /\ \A k \in Clients : cpc[k] # "idle" =>
       /\ returned[k] => cpc[k] \in {"woken", "timedOut"}
       /\ Frame(k) \notin list => returned[k]
  /\ \A p, f \in Calls : tpc[<<p, f>>] = "refused" /\ FrameAlive(f) => returned[f[1]]

\* A request is answered once, and its answer dispatched once, to its own channel.
Once ==
  /\ requests \cap answers = {}
  /\ \A p \in Calls : Unsent(p) => p \notin requests \cup answers /\ Undelivered(p)
  /\ \A p \in requests \cup answers : Undelivered(p)
  /\ \A p, f \in Calls : tpc[<<p, f>>] # "none" => p[1] = f[1]

OnlyCurrent ==
  \A k \in Clients \ strayed :
    /\ \A p \in requests \cup answers : p[1] = k => p = Frame(k) /\ cpc[k] # "idle"
    /\ \A p, f \in Calls : tpc[<<p, f>>] # "none" /\ f[1] = k => f[2] <= p[2]

\* A thread that was not late gives its callback the packet it was spawned for.
Copied ==
  \A p, f \in Calls : tpc[<<p, f>>] = "called" => f[1] \in late \/ arg[<<p, f>>] = p

OwnAnswer ==
  \A k \in Clients : cpc[k] # "idle" /\ res[k] # NoPacket =>
    /\ k \notin strayed => ~Undelivered(Frame(k))
    /\ k \notin late => res[k] \in Calls /\ res[k][1] = k /\ ~Undelivered(res[k])
    /\ k \notin Astray => res[k] = Frame(k)

IInv ==
  /\ TypeOK /\ Begun /\ OneInside /\ Stored /\ FlagFirst
  /\ Once /\ OnlyCurrent /\ Copied /\ OwnAnswer /\ NoLeakedCallback

\* A client that is not astray has an answer to each of its ended calls.
Answered ==
  \A f \in Calls :
     f[1] \notin Astray /\ f[2] <= calls[f[1]] /\ ~FrameAlive(f) => got[f] \in Calls \cup {Torn}

\* The one thread that has a callback of a client that is not astray is that of its own
\* answer, and finds the frame alive and the callback listed.
OneThread ==
  \A p, f \in Calls : f[1] \notin Astray /\ tpc[<<p, f>>] # "none" =>
    /\ p = f
    /\ tpc[<<p, f>>] \in {"spawned", "called"} => FrameAlive(f) /\ res[f[1]] = NoPacket
    /\ tpc[<<p, f>>] # "erased" => f \in list
    /\ tpc[<<p, f>>] \notin {"wild", "unawaited"}

PInv == Answered /\ OneThread

-----------------------------------------------------------------------------
(* Calls, frames and threads.                                              *)

LEMMA CallsAre ==
  /\ \A f \in Calls : /\ f = <<f[1], f[2]>> /\ f[1] \in Clients
                      /\ f[2] \in 1..MaxCalls[f[1]] /\ f[2] \in Nat \ {0}
  /\ \A k \in Clients : MaxCalls[k] \in Nat /\ \A i \in 1..MaxCalls[k] : <<k, i>> \in Calls
  /\ {Pending, NoPacket, Torn} \cap Calls = {}
  /\ Pending # NoPacket /\ Torn # Pending /\ Torn # NoPacket
<1>1. \A k \in Clients : MaxCalls[k] \in Nat
  BY SendRecvAssumption
<1>2. \A f \in Calls : \E k \in Clients : \E i \in 1..MaxCalls[k] : f = <<k, i>>
  BY DEF Calls
<1>3. \A k \in Clients : \A i \in 1..MaxCalls[k] : <<k, i>> \in Calls
  BY DEF Calls
<1>4. Calls \subseteq Clients \X Nat
  BY <1>1, <1>2
<1> QED BY <1>1, <1>2, <1>3, <1>4, SendRecvAssumption

LEMMA ThreadsAre ==
  /\ \A t \in Threads : t = <<t[1], t[2]>> /\ t[1] \in Calls /\ t[2] \in Calls
  /\ \A p, f \in Calls : <<p, f>> \in Threads
BY DEF Threads

\* The live frames are the clients' current ones.
LEMMA LiveFrames ==
  ASSUME TypeOK, Begun
  PROVE  /\ \A k \in Clients :
              /\ calls[k] \in Nat /\ Frame(k)[1] = k /\ Frame(k)[2] = calls[k]
              /\ cpc[k] # "idle" => Frame(k) \in Calls /\ FrameAlive(Frame(k))
         /\ \A f \in Calls : FrameAlive(f) => f = Frame(f[1]) /\ cpc[f[1]] # "idle"
<1>1. \A k \in Clients : calls[k] \in Nat /\ Frame(k)[1] = k /\ Frame(k)[2] = calls[k]
  BY DEF TypeOK, Frame
<1>2. ASSUME NEW k \in Clients, cpc[k] # "idle"
      PROVE  Frame(k) \in Calls /\ FrameAlive(Frame(k))
  <2>1. calls[k] \in 1..MaxCalls[k]
    BY <1>1, <1>2, CallsAre DEF TypeOK, Begun
  <2> QED BY <1>2, <2>1, CallsAre DEF Frame, FrameAlive
<1>3. ASSUME NEW f \in Calls, FrameAlive(f)
      PROVE  f = Frame(f[1]) /\ cpc[f[1]] # "idle"
  BY <1>3, CallsAre DEF Frame, FrameAlive
<1> QED BY <1>1, <1>2, <1>3

\* A step of one callback thread.
LEMMA Stepped ==
  ASSUME TypeOK, NEW p \in Calls, NEW f \in Calls, NEW from, NEW to \in TPcs,
         Step(<<p, f>>, from, to)
  PROVE  /\ tpc' \in [Threads -> TPcs] /\ tpc[<<p, f>>] = from /\ tpc'[<<p, f>>] = to
         /\ \A q, g \in Calls : q # p \/ g # f => tpc'[<<q, g>>] = tpc[<<q, g>>]
BY ThreadsAre DEF Step, TypeOK

\* Who is inside a frame is inside a current one.
LEMMA InsideIsCurrent ==
  ASSUME TypeOK, Begun, NEW p \in Calls, NEW f \in Calls, tpc[<<p, f>>] \in InsidePcs
  PROVE  f = Frame(f[1]) /\ cpc[f[1]] \in Asleep /\ f[1] \in Clients /\ Inside(f)
<1>1. FrameAlive(f) /\ cpc[f[1]] \in Asleep
  BY ThreadsAre DEF TypeOK, InsidePcs
<1> QED BY <1>1, LiveFrames, CallsAre DEF Inside, InsidePcs

\* What is stored in the frames stays theirs in a step that leaves them alone.
LEMMA OwnAnswerStays ==
  ASSUME TypeOK, Begun, OwnAnswer, UNCHANGED <<calls, res>>,
         \A j \in Clients : cpc'[j] # "idle" => cpc[j] # "idle",
         strayed \subseteq strayed', late \subseteq late',
         \A q, g \in Calls : tpc[<<q, g>>] # "none" => tpc'[<<q, g>>] # "none"
  PROVE  OwnAnswer'
<1>1. \A q \in Calls : ~Undelivered(q) => ~Undelivered(q)'
  BY DEF Undelivered
<1>2. ASSUME NEW j \in Clients, cpc'[j] # "idle", res[j] # NoPacket
      PROVE  /\ Frame(j)' = Frame(j) /\ Frame(j) \in Calls
             /\ j \notin strayed' => ~Undelivered(Frame(j))'
             /\ j \notin late' => res[j] \in Calls /\ res[j][1] = j /\ ~Undelivered(res[j])'
             /\ j \notin Astray' => res[j] = Frame(j)
  <2>1. Frame(j)' = Frame(j) /\ Frame(j) \in Calls
    BY <1>2, LiveFrames DEF Frame
  <2>2. /\ j \notin strayed => ~Undelivered(Frame(j))
        /\ j \notin late => res[j] \in Calls /\ res[j][1] = j /\ ~Undelivered(res[j])
        /\ j \notin Astray => res[j] = Frame(j)
    BY <1>2 DEF OwnAnswer
  <2> QED BY <1>1, <2>1, <2>2 DEF Astray, Undelivered
<1>3. res' = res
  OBVIOUS
<1> QED BY <1>2, <1>3 DEF OwnAnswer, Undelivered, Astray, Frame

-----------------------------------------------------------------------------
(* The client.                                                             *)

LEMMA CallKeeps ==
  ASSUME IInv, NEW k \in Clients, call(k)
  PROVE  IInv' /\ (PInv => PInv')
<1> USE DEF IInv
<1>1. /\ UNCHANGED <<got, strayed, tpc, arg, buffer, late, requests, answers, lost>>
      /\ cpc[k] = "idle" /\ calls[k] < MaxCalls[k] /\ calls[k] \in Nat
      /\ calls' \in [Clients -> Nat] /\ calls'[k] = calls[k] + 1
      /\ cpc'[k] = "registered" /\ res'[k] = NoPacket /\ returned'[k] = FALSE
      /\ \A j \in Clients \ {k} :
           /\ calls'[j] = calls[j] /\ cpc'[j] = cpc[j] /\ timeout'[j] = timeout[j]
           /\ res'[j] = res[j] /\ returned'[j] = returned[j]
      /\ list' = list \cup {<<k, calls[k] + 1>>}
  BY DEF call, Move, bufferVars, linkVars, TypeOK
<1>2. calls[k] + 1 \in 1..MaxCalls[k] /\ <<k, calls[k] + 1>> \in Calls
  BY <1>1, CallsAre
<1>3. \A p, f \in Calls : tpc[<<p, f>>] \in InsidePcs => f[1] # k
  BY <1>1, InsideIsCurrent DEF Asleep
<1>4. \A f \in Calls : f[1] # k => FrameAlive(f)' = FrameAlive(f)
  BY <1>1, CallsAre DEF FrameAlive
<1>5. \A f \in Calls : f[1] = k => ~FrameAlive(f) /\ (FrameAlive(f)' <=> f[2] = calls[k] + 1)
  BY <1>1, CallsAre DEF FrameAlive
<1>6. \A j \in Clients \ {k} : Frame(j)' = Frame(j) /\ Inside(Frame(j))' = Inside(Frame(j))
  BY <1>1 DEF Frame, Inside
<1>7. TypeOK'
  <2>1. \A j \in Clients : calls'[j] <= MaxCalls[j]
    BY <1>1, <1>2 DEF TypeOK
  <2>2. cpc' \in [Clients -> {"idle", "registered", "sent"} \cup Asleep]
    BY DEF call, Move, TypeOK
  <2>3. /\ timeout' \in [Clients -> Nat] /\ res' \in [Clients -> Results]
        /\ returned' \in [Clients -> BOOLEAN]
    <3>1. \A to \in Timeouts[k] : to \in Nat
      BY SendRecvAssumption
    <3>2. timeout' \in [Clients -> Nat]
      BY <3>1 DEF call, TypeOK
    <3> QED BY <3>2 DEF call, TypeOK, Results
  <2>4. ASSUME NEW t \in Threads, tpc[t] \in {"notify", "setFlag"}
        PROVE  FrameAlive(t[2])' /\ cpc'[t[2][1]] \in Asleep
    <3>1. t[2] \in Calls /\ t[2][1] \in Clients \ {k}
      BY <1>3, <2>4, ThreadsAre, CallsAre DEF InsidePcs
    <3> QED BY <1>1, <1>4, <2>4, <3>1 DEF TypeOK
  <2> QED BY <1>1, <1>2, <2>1, <2>2, <2>3, <2>4 DEF TypeOK
<1>8. Begun'
  <2>1. \A f \in list' : f[2] <= calls'[f[1]]
    <3>1. \A f \in list : f[2] <= calls[f[1]] /\ f[1] \in Clients /\ f[2] \in Nat
                          /\ calls[f[1]] \in Nat
      BY CallsAre DEF Begun, TypeOK
    <3> QED BY <1>1, <3>1
  <2>2. \A f \in Calls : got[f] # Pending => f[2] <= calls'[f[1]] /\ ~FrameAlive(f)'
    BY <1>1, <1>4, <1>5, CallsAre DEF Begun, TypeOK
  <2>3. \A p, f \in Calls : tpc[<<p, f>>] # "none" => f[2] <= calls'[f[1]]
    BY <1>1, CallsAre DEF Begun, TypeOK
  <2>4. \A j \in Clients : cpc'[j] # "idle" => calls'[j] # 0
    BY <1>1 DEF Begun
  <2>5. \A j \in Clients : cpc'[j] = "timedOut" => timeout'[j] # 0
    BY <1>1 DEF Begun
  <2> QED BY <1>1, <2>1, <2>2, <2>3, <2>4, <2>5 DEF Begun
<1>9. OneInside'
  BY <1>1, <1>3, CallsAre DEF OneInside
<1>10. Stored' /\ FlagFirst'
  <2>1. Stored'
    BY <1>1, <1>2, <1>6, CallsAre, LiveFrames DEF Stored
  <2>2. \A j \in Clients : cpc'[j] # "idle" =>
          /\ returned'[j] => cpc'[j] \in {"woken", "timedOut"}
          /\ Frame(j)' \notin list' => returned'[j]
    BY <1>1, <1>6 DEF FlagFirst, Frame
  <2>3. \A p, f \in Calls : tpc[<<p, f>>] = "refused" /\ FrameAlive(f)' => returned'[f[1]]
    <3>1. ASSUME NEW p \in Calls, NEW f \in Calls, tpc[<<p, f>>] = "refused", FrameAlive(f)'
          PROVE  f[1] # k
      <4>1. f[2] <= calls[f[1]]
        BY <3>1 DEF Begun
      <4> QED BY <1>1, <1>5, <3>1, <4>1
    <3> QED BY <1>1, <1>4, <3>1, CallsAre DEF FlagFirst
  <2> QED BY <1>1, <2>1, <2>2, <2>3 DEF FlagFirst
<1>11. Once'
  <2>1. \A p \in Calls : Unsent(p)' => Unsent(p)
    BY <1>1, CallsAre DEF Unsent, TypeOK
  <2> QED BY <1>1, <2>1 DEF Once, Undelivered
<1>12. OnlyCurrent' /\ Copied'
  BY <1>1, <1>6 DEF OnlyCurrent, Copied
<1>13. OwnAnswer'
  BY <1>1, <1>6, CallsAre DEF OwnAnswer, Undelivered, Astray
<1>14. NoLeakedCallback'
  <2>1. got[<<k, calls[k] + 1>>] \notin Calls \cup {Torn}
    BY <1>1, <1>2, CallsAre DEF Begun
  <2> QED BY <1>1, <1>6, <2>1 DEF NoLeakedCallback
<1>15. ASSUME PInv PROVE PInv'
  <2>1. Answered'
    <3>1. \A f \in Calls : f[2] <= calls'[f[1]] /\ ~FrameAlive(f)' =>
            f[2] <= calls[f[1]] /\ ~FrameAlive(f)
      BY <1>1, <1>4, <1>5, CallsAre
    <3> QED BY <1>1, <1>15, <3>1 DEF PInv, Answered, Astray
  <2>2. OneThread'
    <3>1. \A f \in Calls : FrameAlive(f) => FrameAlive(f)' /\ res'[f[1]] = res[f[1]]
      BY <1>1, <1>4, <1>5, CallsAre
    <3> QED BY <1>1, <1>15, <3>1 DEF PInv, OneThread, Astray
  <2> QED BY <2>1, <2>2 DEF PInv
<1> QED BY <1>7, <1>8, <1>9, <1>10, <1>11, <1>12, <1>13, <1>14, <1>15

LEMMA SendKeeps ==
  ASSUME IInv, NEW k \in Clients, send(k)
  PROVE  IInv' /\ (PInv => PInv')
<1> USE DEF IInv
<1>1. /\ UNCHANGED <<calls, timeout, got, strayed, res, returned, list, tpc, arg, buffer, late,
                      answers, lost>>
      /\ cpc[k] = "registered" /\ cpc'[k] = "sent" /\ \A j \in Clients \ {k} : cpc'[j] = cpc[j]
      /\ cpc' \in [Clients -> {"idle", "registered", "sent"} \cup Asleep]
      /\ requests' = requests \cup {Frame(k)}
  BY DEF send, Move, frameVars, workerVars, bufferVars, TypeOK
<1>2. Frame(k) \in Calls /\ Frame(k)[1] = k /\ Frame(k)[2] = calls[k]
  BY <1>1, LiveFrames
<1>3. Unsent(Frame(k)) /\ Frame(k) \notin requests \cup answers /\ Undelivered(Frame(k))
  BY <1>1, <1>2 DEF Unsent, Once
<1>4. \A p, f \in Calls : tpc[<<p, f>>] \in InsidePcs => f[1] # k
  BY <1>1, InsideIsCurrent DEF Asleep
<1>5. \A f \in Calls : FrameAlive(f)' <=> FrameAlive(f)
  BY <1>1, CallsAre DEF FrameAlive
<1>6. \A j \in Clients : /\ Frame(j)' = Frame(j) /\ Inside(Frame(j))' = Inside(Frame(j))
                         /\ (cpc'[j] = "idle" <=> cpc[j] = "idle")
  BY <1>1 DEF Frame, Inside
<1>7. TypeOK'
  <2>1. ASSUME NEW t \in Threads, tpc[t] \in {"notify", "setFlag"}
        PROVE  FrameAlive(t[2])' /\ cpc'[t[2][1]] \in Asleep
    <3>1. t[2] \in Calls /\ t[2][1] \in Clients \ {k}
      BY <1>4, <2>1, ThreadsAre, CallsAre DEF InsidePcs
    <3> QED BY <1>1, <1>5, <2>1, <3>1 DEF TypeOK
  <2> QED BY <1>1, <1>2, <2>1 DEF TypeOK
<1>8. Begun'
  BY <1>1, <1>5, <1>6 DEF Begun
<1>9. OneInside'
  BY <1>1, <1>4, CallsAre DEF OneInside
<1>10. Stored' /\ FlagFirst'
  BY <1>1, <1>5, <1>6 DEF Stored, FlagFirst
<1>11. Once'
  <2>1. \A p \in Calls : Unsent(p)' => Unsent(p) /\ p # Frame(k)
    BY <1>1, <1>2, CallsAre DEF Unsent, TypeOK
  <2> QED BY <1>1, <1>3, <2>1 DEF Once, Undelivered
<1>12. OnlyCurrent' /\ Copied'
  BY <1>1, <1>2, <1>6 DEF OnlyCurrent, Copied
<1>13. OwnAnswer'
  BY <1>1, <1>6 DEF OwnAnswer, Undelivered, Astray
<1>14. NoLeakedCallback'
  BY <1>1, <1>6 DEF NoLeakedCallback
<1>15. ASSUME PInv PROVE PInv'
  BY <1>1, <1>5, <1>15 DEF PInv, Answered, OneThread, Astray
<1> QED BY <1>7, <1>8, <1>9, <1>10, <1>11, <1>12, <1>13, <1>14, <1>15

\* The client goes to sleep, wakes by itself, or gives up waiting for a notification.
LEMMA SleepKeeps ==
  ASSUME IInv, NEW k \in Clients, NEW pc \in {"waiting", "woken", "timedOut"}, Move(k, pc),
         cpc[k] \in {"sent", "woken", "waiting"},
         pc = "waiting" => ~returned[k] /\ ~Inside(Frame(k)),
         pc = "timedOut" => timeout[k] # 0,
         UNCHANGED <<calls, timeout, got, strayed, frameVars, workerVars, linkVars>>
  PROVE  IInv' /\ (PInv => PInv')
<1> USE DEF IInv
<1>1. /\ UNCHANGED <<calls, timeout, got, strayed, res, returned, list, tpc, arg, buffer, late,
                      requests, answers, lost>>
      /\ cpc'[k] = pc /\ \A j \in Clients \ {k} : cpc'[j] = cpc[j]
      /\ cpc' \in [Clients -> {"idle", "registered", "sent"} \cup Asleep]
  BY DEF Move, frameVars, workerVars, bufferVars, linkVars, TypeOK, Asleep
<1>2. \A f \in Calls : FrameAlive(f)' <=> FrameAlive(f)
  BY <1>1, CallsAre DEF FrameAlive
<1>3. \A j \in Clients : /\ Frame(j)' = Frame(j) /\ Inside(Frame(j))' = Inside(Frame(j))
                         /\ (cpc'[j] = "idle" <=> cpc[j] = "idle")
  BY <1>1 DEF Frame, Inside
<1>4. \A p, f \in Calls : tpc[<<p, f>>] \in InsidePcs /\ f[1] = k =>
        cpc'[k] \in {"woken", "timedOut"}
  BY <1>1, InsideIsCurrent
<1>5. TypeOK'
  <2>1. ASSUME NEW t \in Threads, tpc[t] \in {"notify", "setFlag"}
        PROVE  FrameAlive(t[2])' /\ cpc'[t[2][1]] \in Asleep
    BY <1>1, <1>2, <2>1, ThreadsAre, CallsAre DEF TypeOK, Asleep
  <2> QED BY <1>1, <2>1 DEF TypeOK
<1>6. Begun'
  BY <1>1, <1>2, <1>3 DEF Begun
<1>7. OneInside'
  BY <1>1, <1>4, CallsAre DEF OneInside, InsidePcs
<1>8. Stored' /\ FlagFirst'
  BY <1>1, <1>2, <1>3 DEF Stored, FlagFirst
<1>9. Once'
  <2>1. \A p \in Calls : Unsent(p)' => Unsent(p)
    BY <1>1, CallsAre DEF Unsent
  <2> QED BY <1>1, <2>1 DEF Once, Undelivered
<1>10. OnlyCurrent' /\ Copied'
  BY <1>1, <1>3 DEF OnlyCurrent, Copied
<1>11. OwnAnswer'
  BY <1>1, <1>3 DEF OwnAnswer, Undelivered, Astray
<1>12. NoLeakedCallback'
  BY <1>1, <1>3 DEF NoLeakedCallback
<1>13. ASSUME PInv PROVE PInv'
  BY <1>1, <1>2, <1>13 DEF PInv, Answered, OneThread, Astray
<1> QED BY <1>5, <1>6, <1>7, <1>8, <1>9, <1>10, <1>11, <1>12, <1>13

\* The client returns from its call; nobody holds its frame's mutex.
LEMMA ReturnKeeps ==
  ASSUME IInv, NEW k \in Clients, Return(k),
         cpc[k] \in {"sent", "woken", "timedOut"}, ~Inside(Frame(k)),
         UNCHANGED <<calls, timeout, frameVars, workerVars, linkVars>>
  PROVE  IInv' /\ (PInv => PInv')
<1> USE DEF IInv
<1>1. /\ UNCHANGED <<calls, timeout, res, returned, list, tpc, arg, buffer, late,
                      requests, answers, lost>>
      /\ cpc'[k] = "idle" /\ \A j \in Clients \ {k} : cpc'[j] = cpc[j]
      /\ cpc' \in [Clients -> {"idle", "registered", "sent"} \cup Asleep]
      /\ strayed' = strayed \cup (IF res[k] = NoPacket THEN {k} ELSE {})
      /\ got' = [got EXCEPT ![Frame(k)] = res[k]]
  BY DEF Return, Move, frameVars, workerVars, bufferVars, linkVars, TypeOK
<1>2. Frame(k) \in Calls /\ Frame(k)[1] = k /\ Frame(k)[2] = calls[k] /\ FrameAlive(Frame(k))
  BY LiveFrames
<1>3. res[k] \in Results /\ (res[k] # NoPacket => returned[k])
  BY DEF TypeOK, Stored
<1>4. /\ got' \in [Calls -> Results \cup {Pending}] /\ got'[Frame(k)] = res[k]
      /\ \A f \in Calls \ {Frame(k)} : got'[f] = got[f]
  BY <1>1, <1>2, <1>3 DEF TypeOK
<1>5. \A f \in Calls : FrameAlive(f)' <=> FrameAlive(f) /\ f # Frame(k)
  BY <1>1, <1>2, CallsAre, LiveFrames DEF FrameAlive
<1>6. \A j \in Clients \ {k} : cpc'[j] = cpc[j]
  BY <1>1
<1>7. \A j \in Clients : Frame(j)' = Frame(j) /\ Inside(Frame(j))' = Inside(Frame(j))
  BY <1>1 DEF Frame, Inside
<1>8. \A p, f \in Calls : tpc[<<p, f>>] \in InsidePcs => f[1] # k /\ FrameAlive(f)'
  <2>1. \A p, f \in Calls : tpc[<<p, f>>] \in InsidePcs => f[1] # k /\ FrameAlive(f)
    BY InsideIsCurrent, LiveFrames DEF Asleep
  <2> QED BY <1>2, <1>5, <2>1
<1>9. TypeOK'
  <2>1. ASSUME NEW t \in Threads, tpc[t] \in {"notify", "setFlag"}
        PROVE  FrameAlive(t[2])' /\ cpc'[t[2][1]] \in Asleep
    <3>1. t = <<t[1], t[2]>> /\ t[1] \in Calls /\ t[2] \in Calls /\ t[2][1] \in Clients
      BY ThreadsAre, CallsAre
    <3>2. FrameAlive(t[2])' /\ t[2][1] # k
      BY <1>8, <2>1, <3>1 DEF InsidePcs
    <3> QED BY <1>1, <2>1, <3>1, <3>2 DEF TypeOK
  <2> QED BY <1>1, <1>4, <2>1 DEF TypeOK
<1>10. Begun'
  BY <1>1, <1>2, <1>4, <1>5 DEF Begun, TypeOK
<1>11. OneInside'
  BY <1>1, <1>8, CallsAre DEF OneInside
<1>12. Stored' /\ FlagFirst'
  BY <1>1, <1>5, <1>7 DEF Stored, FlagFirst
<1>13. Once'
  <2>1. \A p \in Calls : Unsent(p)' => Unsent(p)
    BY <1>1, CallsAre DEF Unsent
  <2> QED BY <1>1, <2>1 DEF Once, Undelivered
<1>14. OnlyCurrent' /\ Copied'
  <2>1. k \notin strayed' => \A p \in requests \cup answers : p[1] # k
    BY <1>1, <1>3 DEF OnlyCurrent, OwnAnswer, Once
  <2> QED BY <1>1, <1>7, <2>1 DEF OnlyCurrent, Copied
<1>15. OwnAnswer'
  BY <1>1, <1>7 DEF OwnAnswer, Undelivered, Astray
<1>16. NoLeakedCallback'
  <2>2. got'[Frame(k)] \in Calls \cup {Torn} /\ Frame(k) \in list
          => \E p \in Calls : tpc[<<p, Frame(k)>>] \in {"refused", "wild"}
    BY <1>3, <1>4, CallsAre DEF Stored
  <2>3. \A f \in list : f \in Calls
    BY DEF TypeOK
  <2> QED BY <1>1, <1>4, <2>2, <2>3 DEF NoLeakedCallback
<1>17. ASSUME PInv PROVE PInv'
  <2>1. Answered'
    BY <1>1, <1>2, <1>3, <1>4, <1>5, <1>17 DEF PInv, Answered, Astray, Results
  <2>2. OneThread'
    <3>1. ASSUME NEW p \in Calls, NEW f \in Calls, f[1] \notin Astray',
                 tpc[<<p, f>>] \in {"spawned", "called"}
          PROVE  f # Frame(k)
      BY <1>1, <1>2, <1>17, <3>1 DEF PInv, OneThread, Astray
    <3> QED BY <1>1, <1>5, <1>17, <3>1 DEF PInv, OneThread, Astray
  <2> QED BY <2>1, <2>2 DEF PInv
<1> QED BY <1>9, <1>10, <1>11, <1>12, <1>13, <1>14, <1>15, <1>16, <1>17

LEMMA ClientKeeps ==
  ASSUME IInv, NEW k \in Clients, Client(k) \/ WakeSpuriously(k)
  PROVE  IInv' /\ (PInv => PInv')
<1>1. CASE send(k)
  BY <1>1, SendKeeps
<1>2. CASE CheckThenWait(k)
  <2>1. cpc[k] = "sent" /\ UNCHANGED <<calls, timeout, frameVars, workerVars, linkVars>>
    BY <1>2 DEF CheckThenWait
  <2>2. ~Inside(Frame(k))
    <3>1. \A p \in Calls : Frame(k) \in Calls /\ Frame(k)[1] = k
      BY <2>1, LiveFrames DEF IInv
    <3> QED BY <2>1, <3>1, InsideIsCurrent DEF IInv, Inside, InsidePcs, Asleep
  <2>3. CASE returned[k]
    BY <1>2, <2>1, <2>2, <2>3, ReturnKeeps DEF CheckThenWait
  <2>4. CASE ~returned[k]
    BY <1>2, <2>1, <2>2, <2>4, SleepKeeps DEF CheckThenWait
  <2> QED BY <2>3, <2>4
<1>3. CASE Recheck(k)
  <2>1. CASE returned[k]
    BY <1>3, <2>1, ReturnKeeps DEF Recheck
  <2>2. CASE ~returned[k]
    BY <1>3, <2>2, SleepKeeps DEF Recheck
  <2> QED BY <2>1, <2>2
<1>4. CASE Expire(k)
  BY <1>4, SleepKeeps DEF Expire
<1>5. CASE ReturnAfterTimeout(k)
  BY <1>5, ReturnKeeps DEF ReturnAfterTimeout
<1>6. CASE WakeSpuriously(k)
  BY <1>6, SleepKeeps DEF WakeSpuriously
<1> QED BY <1>1, <1>2, <1>3, <1>4, <1>5, <1>6 DEF Client

-----------------------------------------------------------------------------
(* The callback's thread.                                                  *)

\* What a step of the thread of packet p and callback f leaves alone.
LEMMA ThreadStep ==
  ASSUME TypeOK, Begun, NEW p \in Calls, NEW f \in Calls, NEW from \in TPcs \ {"none"},
         NEW to \in TPcs \ {"none"}, Step(<<p, f>>, from, to), UNCHANGED calls,
         \A j \in Clients : cpc'[j] = cpc[j] \/ (cpc[j] = "waiting" /\ cpc'[j] = "woken"),
         to \in InsidePcs => from \in InsidePcs
  PROVE  /\ tpc' \in [Threads -> TPcs] /\ tpc[<<p, f>>] = from /\ tpc'[<<p, f>>] = to
         /\ \A q, g \in Calls : q # p \/ g # f => tpc'[<<q, g>>] = tpc[<<q, g>>]
         /\ \A q, g \in Calls : tpc'[<<q, g>>] = "none" <=> tpc[<<q, g>>] = "none"
         /\ \A q \in Calls : /\ Undelivered(q)' <=> Undelivered(q)
                             /\ Unsent(q)' <=> Unsent(q)
                             /\ FrameAlive(q)' <=> FrameAlive(q)
         /\ \A j \in Clients : /\ Frame(j)' = Frame(j)
                               /\ cpc'[j] = "idle" <=> cpc[j] = "idle"
         /\ \A g \in Calls : f # g => (Inside(g)' <=> Inside(g))
         /\ \A q, g \in Calls : tpc'[<<q, g>>] \in InsidePcs =>
              /\ tpc[<<q, g>>] \in InsidePcs
              /\ FrameAlive(g)' /\ cpc'[g[1]] \in Asleep
<1>1. /\ tpc' \in [Threads -> TPcs] /\ tpc[<<p, f>>] = from /\ tpc'[<<p, f>>] = to
      /\ \A q, g \in Calls : q # p \/ g # f => tpc'[<<q, g>>] = tpc[<<q, g>>]
  BY Stepped
<1>2. \A q, g \in Calls : tpc'[<<q, g>>] = "none" <=> tpc[<<q, g>>] = "none"
  BY <1>1
<1>3. \A q \in Calls : /\ Undelivered(q)' <=> Undelivered(q)
                       /\ Unsent(q)' <=> Unsent(q)
                       /\ FrameAlive(q)' <=> FrameAlive(q)
  BY <1>2, CallsAre DEF Undelivered, Unsent, FrameAlive
<1>4. \A j \in Clients : Frame(j)' = Frame(j) /\ (cpc'[j] = "idle" <=> cpc[j] = "idle")
  BY DEF Frame
<1>5. \A g \in Calls : f # g => (Inside(g)' <=> Inside(g))
  BY <1>1 DEF Inside
<1>6. ASSUME NEW q \in Calls, NEW g \in Calls, tpc'[<<q, g>>] \in InsidePcs
      PROVE  tpc[<<q, g>>] \in InsidePcs /\ FrameAlive(g)' /\ cpc'[g[1]] \in Asleep
  <2>1. tpc[<<q, g>>] \in InsidePcs
    BY <1>1, <1>6
  <2>2. FrameAlive(g) /\ cpc[g[1]] \in Asleep /\ g[1] \in Clients
    BY <2>1, InsideIsCurrent, LiveFrames DEF Asleep
  <2> QED BY <1>3, <2>1, <2>2 DEF Asleep
<1> QED BY <1>1, <1>2, <1>3, <1>4, <1>5, <1>6

\* A callback whose thread has refused it stays refused until it is erased.
LEMMA RefusedStays ==
  ASSUME TypeOK, NoLeakedCallback, UNCHANGED got, list' \subseteq list,
         \A q \in Calls, g \in list' :
           tpc[<<q, g>>] \in {"refused", "wild"} => tpc'[<<q, g>>] \in {"refused", "wild"}
  PROVE  NoLeakedCallback'
<1> SUFFICES ASSUME NEW g \in list', got[g] \in Calls \cup {Torn}
             PROVE  \E q \in Calls : tpc'[<<q, g>>] \in {"refused", "wild"}
  BY DEF NoLeakedCallback
<1>1. PICK q \in Calls : tpc[<<q, g>>] \in {"refused", "wild"}
  BY DEF NoLeakedCallback
<1> QED BY <1>1

LEMMA CallCallbackKeeps ==
  ASSUME IInv, NEW p \in Calls, NEW f \in Calls, CallCallback(<<p, f>>)
  PROVE  IInv' /\ (PInv => PInv')
<1> USE DEF IInv
<1>1. /\ UNCHANGED <<calls, cpc, timeout, got, strayed, returned, res, list, buffer,
                      requests, answers, lost>>
      /\ Step(<<p, f>>, "spawned", "called")
      /\ arg' = [arg EXCEPT ![<<p, f>>] = buffer]
      /\ late' = late \cup (IF buffer # p THEN {f[1]} ELSE {})
  BY DEF CallCallback, clientVars, frameVars, linkVars
<1>2. /\ tpc' \in [Threads -> TPcs] /\ tpc[<<p, f>>] = "spawned" /\ tpc'[<<p, f>>] = "called"
      /\ \A q, g \in Calls : q # p \/ g # f => tpc'[<<q, g>>] = tpc[<<q, g>>]
      /\ \A q, g \in Calls : tpc'[<<q, g>>] = "none" <=> tpc[<<q, g>>] = "none"
      /\ \A q \in Calls : /\ Undelivered(q)' <=> Undelivered(q)
                          /\ Unsent(q)' <=> Unsent(q)
                          /\ FrameAlive(q)' <=> FrameAlive(q)
      /\ \A j \in Clients : Frame(j)' = Frame(j)
      /\ \A q, g \in Calls : tpc'[<<q, g>>] \in InsidePcs =>
           tpc[<<q, g>>] \in InsidePcs /\ FrameAlive(g)' /\ cpc'[g[1]] \in Asleep
  <2>1. "spawned" \in TPcs \ {"none"} /\ "called" \in TPcs \ {"none"} /\ "called" \notin InsidePcs
    BY DEF TPcs, InsidePcs
  <2>2. UNCHANGED calls /\ \A j \in Clients : cpc'[j] = cpc[j]
    BY <1>1
  <2> QED BY <1>1, <2>1, <2>2, ThreadStep
<1>3. /\ arg' \in [Threads -> Calls \cup {Torn}] /\ late' \subseteq Clients
      /\ late \subseteq late' /\ (f[1] \in late' \/ arg'[<<p, f>>] = p)
      /\ \A q, g \in Calls : q # p \/ g # f => arg'[<<q, g>>] = arg[<<q, g>>]
  BY <1>1, ThreadsAre, CallsAre DEF TypeOK
<1>4. \A g \in Calls : Inside(g)' <=> Inside(g)
  <2>1. \A q, g \in Calls :
          tpc'[<<q, g>>] \in {"notify", "setFlag"} <=> tpc[<<q, g>>] \in {"notify", "setFlag"}
    BY <1>2
  <2> QED BY <2>1 DEF Inside
<1>5. \A j \in Clients : cpc[j] # "idle" => (Inside(Frame(j))' <=> Inside(Frame(j)))
  <2>1. \A j \in Clients : Frame(j)' = Frame(j)
    BY <1>2
  <2>2. \A j \in Clients : cpc[j] # "idle" => Frame(j) \in Calls
    BY LiveFrames
  <2> QED BY <1>4, <2>1, <2>2 DEF Inside
<1>6. TypeOK'
  BY <1>1, <1>2, <1>3, ThreadsAre DEF TypeOK, InsidePcs
<1>7. Begun'
  BY <1>1, <1>2 DEF Begun
<1>8. OneInside'
  BY <1>1, <1>2, CallsAre DEF OneInside, InsidePcs
<1>9. \A q \in Calls, g \in list :
        tpc[<<q, g>>] \in {"refused", "wild"} => tpc'[<<q, g>>] \in {"refused", "wild"}
  BY <1>2 DEF TypeOK
<1>10. Stored' /\ FlagFirst'
  <2>1. ASSUME NEW j \in Clients, cpc[j] # "idle", returned[j] /\ Frame(j) \in list
        PROVE  \E q \in Calls : tpc'[<<q, Frame(j)>>] \in {"refused", "wild"}
    BY <1>9, <2>1 DEF Stored
  <2>2. Stored'
    BY <1>1, <1>2, <1>5, <2>1 DEF Stored
  <2>3. \A q, g \in Calls : tpc'[<<q, g>>] = "refused" => tpc[<<q, g>>] = "refused"
    BY <1>2
  <2>4. FlagFirst'
    BY <1>1, <1>2, <2>3 DEF FlagFirst
  <2> QED BY <2>2, <2>4
<1>11. Once'
  BY <1>1, <1>2 DEF Once, TypeOK
<1>12. OnlyCurrent' /\ Copied'
  BY <1>1, <1>2, <1>3 DEF OnlyCurrent, Copied
<1>13. OwnAnswer'
  BY <1>1, <1>2, <1>3, OwnAnswerStays
<1>14. NoLeakedCallback'
  BY <1>1, <1>9, RefusedStays
<1>15. ASSUME PInv PROVE PInv'
  <2>1. Answered'
    BY <1>1, <1>2, <1>3, <1>15 DEF PInv, Answered, Astray
  <2>2. OneThread'
    BY <1>1, <1>2, <1>3, <1>15 DEF PInv, OneThread, Astray
  <2> QED BY <2>1, <2>2 DEF PInv
<1> QED BY <1>6, <1>7, <1>8, <1>10, <1>11, <1>12, <1>13, <1>14, <1>15

LEMMA StoreAnswerKeeps ==
  ASSUME IInv, NEW p \in Calls, NEW f \in Calls, StoreAnswer(<<p, f>>)
  PROVE  IInv' /\ (PInv => PInv')
<1> USE DEF IInv
<1> DEFINE k == f[1]
<1>1. /\ UNCHANGED <<calls, cpc, timeout, got, strayed, returned, list, arg, buffer, late,
                      requests, answers, lost>>
      /\ FrameAlive(f) /\ MuIsFree(f) /\ Step(<<p, f>>, "called", "notify")
      /\ res' = [res EXCEPT ![k] = arg[<<p, f>>]]
  BY DEF StoreAnswer, clientVars, bufferVars, linkVars
<1>2. /\ tpc' \in [Threads -> TPcs] /\ tpc[<<p, f>>] = "called" /\ tpc'[<<p, f>>] = "notify"
      /\ \A q, g \in Calls : q # p \/ g # f => tpc'[<<q, g>>] = tpc[<<q, g>>]
  BY <1>1, Stepped DEF TPcs
<1>3. k \in Clients /\ f = Frame(k) /\ cpc[k] \in Asleep /\ cpc[k] # "idle"
  BY <1>1, LiveFrames, CallsAre DEF MuIsFree
<1>4. /\ res' \in [Clients -> Results] /\ res'[k] = arg[<<p, f>>] /\ res'[k] # NoPacket
      /\ k \notin late => res'[k] = p
      /\ \A j \in Clients \ {k} : res'[j] = res[j]
  <2>1. arg[<<p, f>>] \in Calls \cup {Torn} /\ arg[<<p, f>>] # NoPacket
    BY ThreadsAre, CallsAre DEF TypeOK
  <2>2. k \notin late => arg[<<p, f>>] = p
    BY <1>2 DEF Copied
  <2> QED BY <1>1, <1>3, <2>1, <2>2 DEF TypeOK, Results
<1>5. \A q, g \in Calls : tpc[<<q, g>>] \in InsidePcs => g # f /\ g[1] # k
  BY <1>1, <1>3, InsideIsCurrent DEF MuIsFree
<1>6. \A j \in Clients :
        /\ Frame(j)' = Frame(j)
        /\ j # k /\ cpc[j] # "idle" => (Inside(Frame(j))' <=> Inside(Frame(j)))
  <2>1. \A j \in Clients \ {k} : cpc[j] # "idle" => Frame(j) # f /\ Frame(j) \in Calls
    BY <1>3, LiveFrames
  <2>2. \A g \in Calls \ {f} : Inside(g)' <=> Inside(g)
    BY <1>2 DEF Inside
  <2>3. \A j \in Clients : Frame(j)' = Frame(j)
    BY <1>1 DEF Frame
  <2> QED BY <2>1, <2>2, <2>3 DEF Inside
<1>7. \A g \in Calls : FrameAlive(g)' = FrameAlive(g)
  BY <1>1 DEF FrameAlive
<1>8. \A q \in Calls : Undelivered(q)' => Undelivered(q)
  BY <1>2 DEF Undelivered
<1>9. TypeOK'
  <2>1. ASSUME NEW t \in Threads, tpc'[t] \in {"notify", "setFlag"}
        PROVE  FrameAlive(t[2])' /\ cpc'[t[2][1]] \in Asleep
    <3>1. t = <<t[1], t[2]>> /\ t[1] \in Calls /\ t[2] \in Calls
      BY ThreadsAre
    <3>2. CASE t = <<p, f>>
      BY <1>1, <1>3, <1>7, <3>1, <3>2
    <3>3. CASE t # <<p, f>>
      <4>1. tpc[t] = tpc'[t]
        BY <1>2, <3>1, <3>3
      <4> QED BY <1>1, <1>7, <2>1, <3>1, <4>1 DEF TypeOK
    <3> QED BY <3>2, <3>3
  <2> QED BY <1>1, <1>2, <1>4, <2>1 DEF TypeOK
<1>10. Begun'
  BY <1>1, <1>2, <1>7 DEF Begun
<1>11. OneInside'
  BY <1>1, <1>2, <1>4, <1>5, CallsAre DEF OneInside, InsidePcs
<1>12. Stored' /\ FlagFirst'
  <2>1. Inside(f)'
    BY <1>2 DEF Inside
  <2>2. returned[k] /\ f \in list => \E q \in Calls : tpc'[<<q, f>>] \in {"refused", "wild"}
    BY <1>2, <1>3 DEF Stored
  <2>3. ASSUME NEW j \in Clients \ {k}, cpc[j] # "idle", returned[j] /\ Frame(j) \in list
        PROVE  \E q \in Calls : tpc'[<<q, Frame(j)>>] \in {"refused", "wild"}
    BY <1>2, <2>3, LiveFrames DEF Stored
  <2>4. Stored'
    BY <1>1, <1>3, <1>4, <1>6, <2>1, <2>2, <2>3 DEF Stored
  <2>5. \A q, g \in Calls : tpc'[<<q, g>>] = "refused" => tpc[<<q, g>>] = "refused"
    BY <1>2
  <2>6. FlagFirst'
    BY <1>1, <1>6, <1>7, <2>5 DEF FlagFirst
  <2> QED BY <2>4, <2>6
<1>13. Once'
  <2>1. p[1] = f[1] /\ ~Undelivered(p)
    BY <1>2 DEF Once, Undelivered
  <2>2. \A q \in Calls : Unsent(q)' <=> Unsent(q)
    BY <1>1 DEF Unsent
  <2>3. \A q \in Calls : Undelivered(q) => Undelivered(q)'
    BY <1>2, <2>1 DEF Undelivered
  <2> QED BY <1>1, <1>2, <2>1, <2>2, <2>3 DEF Once, TypeOK
<1>14. OnlyCurrent' /\ Copied'
  BY <1>1, <1>2, <1>6 DEF OnlyCurrent, Copied
<1>15. OwnAnswer'
  <2>1. p[1] = k /\ ~Undelivered(p)'
    BY <1>2 DEF Once, Undelivered
  <2>2. k \notin strayed => p = f
    <3>1. ~Unsent(p)
      BY <1>2 DEF Once, Undelivered
    <3>2. p[2] <= calls[k] /\ f[2] = calls[k]
      BY <1>3, <2>1, <3>1, CallsAre, LiveFrames DEF Unsent
    <3>3. k \notin strayed => f[2] <= p[2]
      BY <1>2, <1>3 DEF OnlyCurrent
    <3> QED BY <2>1, <3>2, <3>3, CallsAre
  <2>3. ASSUME NEW j \in Clients \ {k}, cpc[j] # "idle", res[j] # NoPacket
        PROVE  /\ j \notin strayed => ~Undelivered(Frame(j))'
               /\ j \notin late => res[j] \in Calls /\ res[j][1] = j /\ ~Undelivered(res[j])'
               /\ j \notin Astray => res[j] = Frame(j)
    <3>1. Frame(j) \in Calls /\ Frame(j)' = Frame(j)
      BY <1>6, <2>3, LiveFrames
    <3>2. /\ j \notin strayed => ~Undelivered(Frame(j))
          /\ j \notin late => res[j] \in Calls /\ res[j][1] = j /\ ~Undelivered(res[j])
          /\ j \notin Astray => res[j] = Frame(j)
      BY <2>3 DEF OwnAnswer
    <3>3. \A q \in Calls : ~Undelivered(q) => \E g \in Calls : tpc'[<<q, g>>] # "none"
      BY <1>2 DEF Undelivered
    <3>4. j \notin strayed => ~Undelivered(Frame(j))'
      BY <3>1, <3>2, <3>3 DEF Undelivered
    <3>5. j \notin late => ~Undelivered(res[j])'
      <4>1. res'[j] = res[j]
        BY <1>4
      <4> QED BY <3>2, <3>3, <4>1 DEF Undelivered
    <3> QED BY <3>2, <3>4, <3>5
  <2>4. k \notin strayed => ~Undelivered(Frame(k))'
    BY <1>3, <1>6, <2>1, <2>2 DEF Undelivered
  <2>5. k \notin late => res'[k] \in Calls /\ res'[k][1] = k /\ \E g \in Calls : tpc'[<<res'[k], g>>] # "none"
    BY <1>4, <2>1 DEF Undelivered
  <2>6. k \notin Astray => res'[k] = Frame(k)
    BY <1>3, <1>4, <2>2 DEF Astray
  <2>7. ASSUME NEW j \in Clients, cpc'[j] # "idle", res'[j] # NoPacket
        PROVE  /\ j \notin strayed' => ~Undelivered(Frame(j))'
               /\ j \notin late' =>
                    res'[j] \in Calls /\ res'[j][1] = j /\ \E g \in Calls : tpc'[<<res'[j], g>>] # "none"
               /\ j \notin Astray' => res'[j] = Frame(j)'
    <3>1. CASE j = k
      BY <1>1, <1>6, <2>4, <2>5, <2>6, <3>1 DEF Astray
    <3>2. CASE j # k
      BY <1>1, <1>4, <1>6, <2>3, <2>7, <3>2 DEF Astray, Undelivered
    <3> QED BY <3>1, <3>2
  <2> QED BY <2>7 DEF OwnAnswer, Undelivered
<1>16. NoLeakedCallback'
  <2>1. \A g \in list : g \in Calls
    BY DEF TypeOK
  <2> QED BY <1>1, <1>2, <2>1 DEF NoLeakedCallback
<1>17. ASSUME PInv PROVE PInv'
  <2>1. Answered'
    BY <1>1, <1>7, <1>17 DEF PInv, Answered, Astray
  <2>2. ASSUME NEW q \in Calls, NEW g \in Calls, g[1] \notin Astray, tpc'[<<q, g>>] # "none"
        PROVE  /\ q = g
               /\ tpc'[<<q, g>>] \in {"spawned", "called"}
                    => FrameAlive(g) /\ res'[g[1]] = NoPacket
               /\ tpc'[<<q, g>>] # "erased" => g \in list
               /\ tpc'[<<q, g>>] \notin {"wild", "unawaited"}
    <3>1. CASE q = p /\ g = f
      BY <1>2, <1>17, <2>2, <3>1 DEF PInv, OneThread
    <3>2. CASE q # p \/ g # f
      <4>1. tpc'[<<q, g>>] = tpc[<<q, g>>]
        BY <1>2, <3>2
      <4>2. /\ q = g /\ (tpc[<<q, g>>] # "erased" => g \in list)
            /\ tpc[<<q, g>>] \notin {"wild", "unawaited"}
            /\ tpc[<<q, g>>] \in {"spawned", "called"} => FrameAlive(g) /\ res[g[1]] = NoPacket
        BY <1>17, <2>2, <4>1 DEF PInv, OneThread
      <4>3. tpc[<<q, g>>] \in {"spawned", "called"} => g[1] # k
        <5>1. g[1] = k /\ FrameAlive(g) => g = f
          BY <1>3, LiveFrames
        <5>2. k \notin Astray => p = f
          BY <1>2, <1>17 DEF PInv, OneThread
        <5> QED BY <2>2, <3>2, <4>2, <5>1, <5>2
      <4> QED BY <1>4, <4>1, <4>2, <4>3, CallsAre
    <3> QED BY <3>1, <3>2
  <2> QED BY <1>1, <1>7, <2>1, <2>2 DEF PInv, OneThread, Astray
<1> QED BY <1>9, <1>10, <1>11, <1>12, <1>13, <1>14, <1>15, <1>16, <1>17

\* A thread meets something that is gone.  If that is its callback, another thread has set
\* the flag of the frame before.
LEMMA GoWildKeeps ==
  ASSUME IInv, NEW p \in Calls, NEW f \in Calls, GoWild(<<p, f>>)
  PROVE  IInv' /\ (PInv => PInv')
<1> USE DEF IInv
<1>1. UNCHANGED <<calls, cpc, timeout, got, strayed, returned, res, list, arg, buffer, late,
                  requests, answers, lost>>
  BY DEF GoWild, clientVars, frameVars, bufferVars, linkVars
<1>2. PICK pc \in {"spawned", "unawaited", "called", "notify", "setFlag", "refused"} :
        /\ Step(<<p, f>>, pc, "wild")
        /\ f \notin list \/ pc = "unawaited" \/ (pc = "called" /\ ~FrameAlive(f))
  BY DEF GoWild
<1>3. /\ tpc' \in [Threads -> TPcs] /\ tpc[<<p, f>>] = pc /\ tpc'[<<p, f>>] = "wild"
      /\ \A q, g \in Calls : q # p \/ g # f => tpc'[<<q, g>>] = tpc[<<q, g>>]
      /\ \A q, g \in Calls : tpc'[<<q, g>>] = "none" <=> tpc[<<q, g>>] = "none"
      /\ \A q \in Calls : /\ Undelivered(q)' <=> Undelivered(q)
                          /\ Unsent(q)' <=> Unsent(q)
                          /\ FrameAlive(q)' <=> FrameAlive(q)
      /\ \A j \in Clients : Frame(j)' = Frame(j)
      /\ \A g \in Calls : f # g => (Inside(g)' <=> Inside(g))
      /\ \A q, g \in Calls : tpc'[<<q, g>>] \in InsidePcs =>
           tpc[<<q, g>>] \in InsidePcs /\ FrameAlive(g)' /\ cpc'[g[1]] \in Asleep
  <2>1. pc \in TPcs \ {"none"} /\ "wild" \in TPcs \ {"none"} /\ "wild" \notin InsidePcs
    BY DEF TPcs, InsidePcs
  <2>2. UNCHANGED calls /\ \A j \in Clients : cpc'[j] = cpc[j]
    BY <1>1
  <2> QED BY <1>2, <2>1, <2>2, ThreadStep
<1>4. ASSUME NEW j \in Clients, cpc[j] # "idle", Frame(j) # f
      PROVE  Inside(Frame(j))' <=> Inside(Frame(j))
  <2>1. Frame(j) \in Calls /\ Frame(j)' = Frame(j)
    BY <1>3, <1>4, LiveFrames
  <2>2. Inside(Frame(j))' <=> \E q \in Calls : tpc'[<<q, Frame(j)>>] \in {"notify", "setFlag"}
    BY <2>1 DEF Inside
  <2> QED BY <1>3, <1>4, <2>1, <2>2 DEF Inside
<1>5. ASSUME NEW j \in Clients, cpc[j] # "idle", Frame(j) = f, Inside(f)
      PROVE  returned[j] \/ Inside(Frame(j))'
  <2>1. CASE f \notin list
    BY <1>5, <2>1 DEF FlagFirst
  <2>2. CASE f \in list
    <3>1. pc \notin {"notify", "setFlag"}
      BY <1>2, <2>2
    <3>2. PICK q \in Calls : tpc[<<q, f>>] \in {"notify", "setFlag"}
      BY <1>5 DEF Inside
    <3>3. tpc'[<<q, f>>] \in {"notify", "setFlag"} /\ Frame(j)' = f
      BY <1>3, <1>5, <3>1, <3>2
    <3> QED BY <3>3 DEF Inside
  <2> QED BY <2>1, <2>2
<1>6. TypeOK'
  BY <1>1, <1>3, ThreadsAre DEF TypeOK, InsidePcs
<1>7. Begun'
  BY <1>1, <1>3 DEF Begun
<1>8. OneInside'
  BY <1>1, <1>3, CallsAre DEF OneInside, InsidePcs
<1>9. \A q \in Calls, g \in list :
        tpc[<<q, g>>] \in {"refused", "wild"} => tpc'[<<q, g>>] \in {"refused", "wild"}
  BY <1>3 DEF TypeOK
<1>10. Stored' /\ FlagFirst'
  <2>1. ASSUME NEW j \in Clients, cpc[j] # "idle", returned[j] /\ Frame(j) \in list
        PROVE  \E q \in Calls : tpc'[<<q, Frame(j)>>] \in {"refused", "wild"}
    BY <1>9, <2>1 DEF Stored
  <2>2. ASSUME NEW j \in Clients, cpc[j] # "idle", res[j] # NoPacket
        PROVE  returned[j] \/ Inside(Frame(j))'
    BY <1>4, <1>5, <2>2 DEF Stored
  <2>3. Stored'
    BY <1>1, <1>3, <2>1, <2>2 DEF Stored
  <2>4. \A q, g \in Calls : tpc'[<<q, g>>] = "refused" => tpc[<<q, g>>] = "refused"
    BY <1>3
  <2>5. FlagFirst'
    BY <1>1, <1>3, <2>4 DEF FlagFirst
  <2> QED BY <2>3, <2>5
<1>11. Once'
  BY <1>1, <1>3 DEF Once, TypeOK
<1>12. OnlyCurrent' /\ Copied'
  BY <1>1, <1>3 DEF OnlyCurrent, Copied
<1>13. OwnAnswer'
  BY <1>1, <1>3, OwnAnswerStays
<1>14. NoLeakedCallback'
  BY <1>1, <1>9, RefusedStays
<1>15. ASSUME PInv PROVE PInv'
  <2>1. f[1] \in Astray
    BY <1>2, <1>3, <1>15 DEF PInv, OneThread
  <2>2. Answered'
    BY <1>1, <1>3, <1>15 DEF PInv, Answered, Astray
  <2>3. OneThread'
    BY <1>1, <1>3, <1>15, <2>1 DEF PInv, OneThread, Astray
  <2> QED BY <2>2, <2>3 DEF PInv
<1> QED BY <1>6, <1>7, <1>8, <1>10, <1>11, <1>12, <1>13, <1>14, <1>15

LEMMA NotifyClientKeeps ==
  ASSUME IInv, NEW p \in Calls, NEW f \in Calls, NotifyClient(<<p, f>>)
  PROVE  IInv' /\ (PInv => PInv')
<1> USE DEF IInv
<1> DEFINE k == f[1]
<1>1. /\ UNCHANGED <<calls, timeout, got, strayed, returned, res, list, arg, buffer, late,
                      requests, answers, lost>>
      /\ Step(<<p, f>>, "notify", "setFlag")
      /\ cpc' = [cpc EXCEPT ![k] = IF @ = "waiting" THEN "woken" ELSE @]
  BY DEF NotifyClient, frameVars, bufferVars, linkVars
<1>2. f = Frame(k) /\ k \in Clients /\ cpc[k] \in Asleep /\ Inside(f) /\ tpc[<<p, f>>] = "notify"
  BY <1>1, InsideIsCurrent DEF Step, InsidePcs
<1>3. /\ cpc'[k] \in {"woken", "timedOut"} /\ \A j \in Clients \ {k} : cpc'[j] = cpc[j]
      /\ cpc' \in [Clients -> {"idle", "registered", "sent"} \cup Asleep]
      /\ \A j \in Clients : cpc'[j] = cpc[j] \/ (cpc[j] = "waiting" /\ cpc'[j] = "woken")
  BY <1>1, <1>2 DEF TypeOK, Asleep
<1>4. /\ tpc' \in [Threads -> TPcs] /\ tpc'[<<p, f>>] = "setFlag"
      /\ \A q, g \in Calls : q # p \/ g # f => tpc'[<<q, g>>] = tpc[<<q, g>>]
      /\ \A q, g \in Calls : tpc'[<<q, g>>] = "none" <=> tpc[<<q, g>>] = "none"
      /\ \A q \in Calls : /\ Undelivered(q)' <=> Undelivered(q)
                          /\ Unsent(q)' <=> Unsent(q)
                          /\ FrameAlive(q)' <=> FrameAlive(q)
      /\ \A j \in Clients : Frame(j)' = Frame(j) /\ (cpc'[j] = "idle" <=> cpc[j] = "idle")
      /\ \A g \in Calls : f # g => (Inside(g)' <=> Inside(g))
      /\ \A q, g \in Calls : tpc'[<<q, g>>] \in InsidePcs =>
           tpc[<<q, g>>] \in InsidePcs /\ FrameAlive(g)' /\ cpc'[g[1]] \in Asleep
  <2>1. "notify" \in TPcs \ {"none"} /\ "setFlag" \in TPcs \ {"none"} /\ "notify" \in InsidePcs
    BY DEF TPcs, InsidePcs
  <2>2. /\ UNCHANGED calls
        /\ \A j \in Clients : cpc'[j] = cpc[j] \/ (cpc[j] = "waiting" /\ cpc'[j] = "woken")
    BY <1>1, <1>3
  <2> QED BY <1>1, <2>1, <2>2, ThreadStep
<1>5. \A j \in Clients \ {k} : cpc[j] # "idle" => Frame(j) # f /\ Frame(j) \in Calls
  BY <1>2, LiveFrames
<1>6. Inside(f)'
  BY <1>4 DEF Inside
<1>7. \A j \in Clients : cpc[j] # "idle" => (Inside(Frame(j))' <=> Inside(Frame(j)))
  <2>1. \A g \in Calls : Inside(g)' <=> Inside(g)
    BY <1>2, <1>4, <1>6
  <2>2. \A j \in Clients : Frame(j)' = Frame(j)
    BY <1>4
  <2>3. \A j \in Clients : cpc[j] # "idle" => Frame(j) \in Calls
    BY LiveFrames
  <2> QED BY <2>1, <2>2, <2>3 DEF Inside
<1>8. TypeOK'
  BY <1>1, <1>3, <1>4, ThreadsAre DEF TypeOK, InsidePcs
<1>9. Begun'
  BY <1>1, <1>3, <1>4 DEF Begun
<1>10. OneInside'
  BY <1>1, <1>2, <1>3, <1>4, CallsAre DEF OneInside, InsidePcs
<1>11. Stored' /\ FlagFirst'
  <2>1. \A j \in Clients : cpc[j] # "idle" /\ returned[j] /\ Frame(j) \in list =>
          \E q \in Calls : tpc'[<<q, Frame(j)>>] \in {"refused", "wild"}
    <3>1. ASSUME NEW j \in Clients, cpc[j] # "idle", returned[j] /\ Frame(j) \in list
          PROVE  \E q \in Calls : tpc'[<<q, Frame(j)>>] \in {"refused", "wild"}
      <4>1. PICK q \in Calls : tpc[<<q, Frame(j)>>] \in {"refused", "wild"}
        BY <3>1 DEF Stored
      <4>2. tpc'[<<q, Frame(j)>>] = tpc[<<q, Frame(j)>>]
        BY <1>2, <1>4, <3>1, <4>1, LiveFrames
      <4> QED BY <4>1, <4>2
    <3> QED BY <3>1
  <2>2. Stored'
    BY <1>1, <1>4, <1>7, <2>1 DEF Stored
  <2>3. \A q, g \in Calls : tpc'[<<q, g>>] = "refused" => tpc[<<q, g>>] = "refused"
    BY <1>4
  <2>4. FlagFirst'
    BY <1>1, <1>3, <1>4, <2>3 DEF FlagFirst
  <2> QED BY <2>2, <2>4
<1>12. Once'
  BY <1>1, <1>4 DEF Once, TypeOK
<1>13. OnlyCurrent' /\ Copied'
  BY <1>1, <1>4 DEF OnlyCurrent, Copied
<1>14. OwnAnswer'
  BY <1>1, <1>4, OwnAnswerStays
<1>15. NoLeakedCallback'
  <2>1. \A q \in Calls, g \in list :
          tpc[<<q, g>>] \in {"refused", "wild"} => tpc'[<<q, g>>] \in {"refused", "wild"}
    BY <1>2, <1>4 DEF TypeOK
  <2> QED BY <1>1, <2>1, RefusedStays
<1>16. ASSUME PInv PROVE PInv'
  <2>1. Answered'
    BY <1>1, <1>4, <1>16 DEF PInv, Answered, Astray
  <2>2. OneThread'
    BY <1>1, <1>2, <1>4, <1>16 DEF PInv, OneThread, Astray
  <2> QED BY <2>1, <2>2 DEF PInv
<1> QED BY <1>8, <1>9, <1>10, <1>11, <1>12, <1>13, <1>14, <1>15, <1>16

LEMMA SetFlagKeeps ==
  ASSUME IInv, NEW p \in Calls, NEW f \in Calls, SetFlag(<<p, f>>)
  PROVE  IInv' /\ (PInv => PInv')
<1> USE DEF IInv
<1> DEFINE k == f[1]
<1>1. /\ UNCHANGED <<calls, cpc, timeout, got, strayed, res, list, arg, buffer, late,
                      requests, answers, lost>>
      /\ Step(<<p, f>>, "setFlag", "refused") /\ returned' = [returned EXCEPT ![k] = TRUE]
  BY DEF SetFlag, clientVars, bufferVars, linkVars
<1>2. f = Frame(k) /\ k \in Clients /\ Inside(f) /\ tpc[<<p, f>>] = "setFlag"
  BY <1>1, InsideIsCurrent DEF Step, InsidePcs
<1>3. /\ returned' \in [Clients -> BOOLEAN] /\ returned'[k] = TRUE
      /\ \A j \in Clients \ {k} : returned'[j] = returned[j]
      /\ cpc[k] \in {"woken", "timedOut"} /\ res[k] # NoPacket
  BY <1>1, <1>2 DEF TypeOK, OneInside, InsidePcs
<1>4. /\ tpc' \in [Threads -> TPcs] /\ tpc'[<<p, f>>] = "refused"
      /\ \A q, g \in Calls : q # p \/ g # f => tpc'[<<q, g>>] = tpc[<<q, g>>]
      /\ \A q, g \in Calls : tpc'[<<q, g>>] = "none" <=> tpc[<<q, g>>] = "none"
      /\ \A q \in Calls : /\ Undelivered(q)' <=> Undelivered(q)
                          /\ Unsent(q)' <=> Unsent(q)
                          /\ FrameAlive(q)' <=> FrameAlive(q)
      /\ \A j \in Clients : Frame(j)' = Frame(j)
      /\ \A g \in Calls : f # g => (Inside(g)' <=> Inside(g))
      /\ \A q, g \in Calls : tpc'[<<q, g>>] \in InsidePcs =>
           tpc[<<q, g>>] \in InsidePcs /\ FrameAlive(g)' /\ cpc'[g[1]] \in Asleep
  <2>1. "refused" \in TPcs \ {"none"} /\ "setFlag" \in TPcs \ {"none"} /\ "refused" \notin InsidePcs
    BY DEF TPcs, InsidePcs
  <2>2. UNCHANGED calls /\ \A j \in Clients : cpc'[j] = cpc[j]
    BY <1>1
  <2> QED BY <1>1, <2>1, <2>2, ThreadStep
<1>5. \A j \in Clients \ {k} : cpc[j] # "idle" => (Inside(Frame(j))' <=> Inside(Frame(j)))
  <2>1. \A g \in Calls \ {f} : Inside(g)' <=> Inside(g)
    BY <1>4
  <2>2. \A j \in Clients : Frame(j)' = Frame(j)
    BY <1>4
  <2>3. \A j \in Clients \ {k} : cpc[j] # "idle" => Frame(j) \in Calls \ {f}
    BY <1>2, LiveFrames
  <2> QED BY <2>1, <2>2, <2>3 DEF Inside
<1>6. TypeOK'
  BY <1>1, <1>3, <1>4, ThreadsAre DEF TypeOK, InsidePcs
<1>7. Begun'
  BY <1>1, <1>4 DEF Begun
<1>8. OneInside'
  BY <1>1, <1>2, <1>4, CallsAre DEF OneInside, InsidePcs
<1>9. \A q \in Calls, g \in list :
        tpc[<<q, g>>] \in {"refused", "wild"} => tpc'[<<q, g>>] \in {"refused", "wild"}
  BY <1>2, <1>4 DEF TypeOK
<1>10. Stored' /\ FlagFirst'
  <2>1. ASSUME NEW j \in Clients \ {k}, cpc[j] # "idle", returned[j] /\ Frame(j) \in list
        PROVE  \E q \in Calls : tpc'[<<q, Frame(j)>>] \in {"refused", "wild"}
    BY <1>9, <2>1 DEF Stored
  <2>2. \E q \in Calls : tpc'[<<q, Frame(k)>>] \in {"refused", "wild"}
    BY <1>2, <1>4
  <2>3. Stored'
    BY <1>1, <1>3, <1>4, <1>5, <2>1, <2>2 DEF Stored
  <2>4. \A q, g \in Calls : tpc'[<<q, g>>] = "refused" /\ g[1] # k => tpc[<<q, g>>] = "refused"
    BY <1>4
  <2>5. \A q, g \in Calls : tpc'[<<q, g>>] = "refused" /\ FrameAlive(g)' => returned'[g[1]]
    BY <1>1, <1>3, <1>4, <2>4, CallsAre DEF FlagFirst
  <2>6. FlagFirst'
    BY <1>1, <1>3, <1>4, <2>5 DEF FlagFirst
  <2> QED BY <2>3, <2>6
<1>11. Once'
  BY <1>1, <1>4 DEF Once, TypeOK
<1>12. OnlyCurrent' /\ Copied'
  BY <1>1, <1>4 DEF OnlyCurrent, Copied
<1>13. OwnAnswer'
  BY <1>1, <1>4, OwnAnswerStays
<1>14. NoLeakedCallback'
  BY <1>1, <1>9, RefusedStays
<1>15. ASSUME PInv PROVE PInv'
  <2>1. Answered'
    BY <1>1, <1>4, <1>15 DEF PInv, Answered, Astray
  <2>2. OneThread'
    BY <1>1, <1>2, <1>4, <1>15 DEF PInv, OneThread, Astray
  <2> QED BY <2>1, <2>2 DEF PInv
<1> QED BY <1>6, <1>7, <1>8, <1>10, <1>11, <1>12, <1>13, <1>14, <1>15

LEMMA EraseKeeps ==
  ASSUME IInv, NEW p \in Calls, NEW f \in Calls, Erase(<<p, f>>)
  PROVE  IInv' /\ (PInv => PInv')
<1> USE DEF IInv
<1>1. /\ UNCHANGED <<calls, cpc, timeout, got, strayed, returned, res, arg, buffer, late,
                      requests, answers, lost>>
      /\ f \in list /\ list' = list \ {f} /\ list \subseteq Calls
      /\ Step(<<p, f>>, "refused", "erased")
  BY DEF Erase, clientVars, frameVars, bufferVars, linkVars, TypeOK
<1>3. /\ tpc' \in [Threads -> TPcs] /\ tpc[<<p, f>>] = "refused" /\ tpc'[<<p, f>>] = "erased"
      /\ \A q, g \in Calls : q # p \/ g # f => tpc'[<<q, g>>] = tpc[<<q, g>>]
      /\ \A q, g \in Calls : tpc'[<<q, g>>] = "none" <=> tpc[<<q, g>>] = "none"
      /\ \A q \in Calls : /\ Undelivered(q)' <=> Undelivered(q)
                          /\ Unsent(q)' <=> Unsent(q)
                          /\ FrameAlive(q)' <=> FrameAlive(q)
      /\ \A j \in Clients : Frame(j)' = Frame(j)
      /\ \A g \in Calls : f # g => (Inside(g)' <=> Inside(g))
      /\ \A q, g \in Calls : tpc'[<<q, g>>] \in InsidePcs =>
           tpc[<<q, g>>] \in InsidePcs /\ FrameAlive(g)' /\ cpc'[g[1]] \in Asleep
  <2>1. "refused" \in TPcs \ {"none"} /\ "erased" \in TPcs \ {"none"} /\ "erased" \notin InsidePcs
    BY DEF TPcs, InsidePcs
  <2>2. UNCHANGED calls /\ \A j \in Clients : cpc'[j] = cpc[j]
    BY <1>1
  <2> QED BY <1>1, <2>1, <2>2, ThreadStep
<1>4. \A g \in Calls : Inside(g)' <=> Inside(g)
  <2>2. \A q, g \in Calls :
          tpc'[<<q, g>>] \in {"notify", "setFlag"} <=> tpc[<<q, g>>] \in {"notify", "setFlag"}
    BY <1>3
  <2> QED BY <2>2 DEF Inside
<1>5. \A j \in Clients : cpc[j] # "idle" => (Inside(Frame(j))' <=> Inside(Frame(j)))
  <2>1. \A j \in Clients : Frame(j)' = Frame(j)
    BY <1>3
  <2>2. \A j \in Clients : cpc[j] # "idle" => Frame(j) \in Calls
    BY LiveFrames
  <2> QED BY <1>4, <2>1, <2>2 DEF Inside
<1>6. TypeOK'
  BY <1>1, <1>3, ThreadsAre DEF TypeOK, InsidePcs
<1>7. Begun'
  BY <1>1, <1>3 DEF Begun
<1>8. OneInside'
  BY <1>1, <1>3, CallsAre DEF OneInside, InsidePcs
<1>9. \A q \in Calls, g \in list' :
        tpc[<<q, g>>] \in {"refused", "wild"} => tpc'[<<q, g>>] \in {"refused", "wild"}
  BY <1>1, <1>3
<1>10. Stored' /\ FlagFirst'
  <2>1. ASSUME NEW j \in Clients, cpc[j] # "idle", returned[j] /\ Frame(j) \in list'
        PROVE  \E q \in Calls : tpc'[<<q, Frame(j)>>] \in {"refused", "wild"}
    BY <1>1, <1>9, <2>1 DEF Stored
  <2>2. Stored'
    BY <1>1, <1>3, <1>5, <2>1 DEF Stored
  <2>3. \A q, g \in Calls : tpc'[<<q, g>>] = "refused" => tpc[<<q, g>>] = "refused"
    BY <1>3
  <2>4. ASSUME NEW j \in Clients, cpc[j] # "idle", Frame(j) \notin list'
        PROVE  returned[j]
    <3>1. CASE Frame(j) = f
      BY <1>3, <2>4, <3>1, LiveFrames DEF FlagFirst
    <3>2. CASE Frame(j) # f
      BY <1>1, <2>4, <3>2 DEF FlagFirst
    <3> QED BY <3>1, <3>2
  <2>5. FlagFirst'
    BY <1>1, <1>3, <2>3, <2>4 DEF FlagFirst
  <2> QED BY <2>2, <2>5
<1>11. Once'
  BY <1>1, <1>3 DEF Once, TypeOK
<1>12. OnlyCurrent' /\ Copied'
  BY <1>1, <1>3 DEF OnlyCurrent, Copied
<1>13. OwnAnswer'
  BY <1>1, <1>3, OwnAnswerStays
<1>14. NoLeakedCallback'
  BY <1>1, <1>9, RefusedStays
<1>15. ASSUME PInv PROVE PInv'
  <2>1. Answered'
    BY <1>1, <1>3, <1>15 DEF PInv, Answered, Astray
  <2>2. OneThread'
    <3>1. f[1] \notin Astray => p = f
      BY <1>3, <1>15 DEF PInv, OneThread
    <3>2. ASSUME NEW q \in Calls, NEW g \in Calls, g[1] \notin Astray, tpc'[<<q, g>>] # "none"
          PROVE  /\ q = g
                 /\ tpc'[<<q, g>>] \in {"spawned", "called"} => FrameAlive(g) /\ res[g[1]] = NoPacket
                 /\ tpc'[<<q, g>>] # "erased" => g \in list'
                 /\ tpc'[<<q, g>>] \notin {"wild", "unawaited"}
      <4>1. CASE q = p /\ g = f
        BY <1>3, <3>1, <3>2, <4>1
      <4>2. CASE q # p \/ g # f
        <5>1. tpc'[<<q, g>>] = tpc[<<q, g>>]
          BY <1>3, <4>2
        <5>2. /\ q = g /\ (tpc[<<q, g>>] # "erased" => g \in list)
              /\ tpc[<<q, g>>] \notin {"wild", "unawaited"}
              /\ tpc[<<q, g>>] \in {"spawned", "called"} => FrameAlive(g) /\ res[g[1]] = NoPacket
          BY <1>15, <3>2, <5>1 DEF PInv, OneThread
        <5> QED BY <1>1, <3>1, <3>2, <4>2, <5>1, <5>2
      <4> QED BY <4>1, <4>2
    <3> QED BY <1>1, <1>3, <3>2 DEF OneThread, Astray
  <2> QED BY <2>1, <2>2 DEF PInv
<1> QED BY <1>6, <1>7, <1>8, <1>10, <1>11, <1>12, <1>13, <1>14, <1>15

-----------------------------------------------------------------------------
(* The link, the firmware and the dispatch.                                *)

\* Requests and answers move on, or are lost, or the worker receives again.
LEMMA LinkKeeps ==
  ASSUME IInv, (\E f \in Calls : Answer(f) \/ Lose(f)) \/ ReceiveAgain
  PROVE  IInv' /\ (PInv => PInv')
<1> USE DEF IInv
<1>1. /\ UNCHANGED <<calls, cpc, timeout, got, strayed, returned, res, list, tpc, arg, late>>
      /\ buffer' \in Calls \cup {Torn} /\ lost' \subseteq Calls
      /\ requests' \subseteq Calls /\ answers' \subseteq Calls /\ requests' \cap answers' = {}
      /\ requests' \cup answers' \subseteq requests \cup answers
  BY DEF Answer, Lose, ReceiveAgain, clientVars, frameVars, workerVars, bufferVars, linkVars, TypeOK,
         Once
<1>2. /\ \A j \in Clients : Frame(j)' = Frame(j) /\ (Inside(Frame(j))' <=> Inside(Frame(j)))
      /\ \A q \in Calls : /\ Undelivered(q)' <=> Undelivered(q)
                          /\ Unsent(q)' <=> Unsent(q)
                          /\ FrameAlive(q)' <=> FrameAlive(q)
  BY <1>1 DEF Frame, Inside, Undelivered, Unsent, FrameAlive
<1>3. TypeOK'
  BY <1>1, <1>2, ThreadsAre DEF TypeOK
<1>4. Begun' /\ OneInside'
  BY <1>1, <1>2 DEF Begun, OneInside
<1>5. Stored' /\ FlagFirst'
  BY <1>1, <1>2 DEF Stored, FlagFirst
<1>6. Once'
  BY <1>1, <1>2 DEF Once
<1>7. OnlyCurrent' /\ Copied' /\ OwnAnswer'
  BY <1>1, <1>2, OwnAnswerStays DEF OnlyCurrent, Copied
<1>8. NoLeakedCallback'
  BY <1>1, <1>2 DEF NoLeakedCallback
<1>9. PInv => PInv'
  BY <1>1, <1>2 DEF PInv, Answered, OneThread, Astray
<1> QED BY <1>3, <1>4, <1>5, <1>6, <1>7, <1>8, <1>9

LEMMA DispatchKeeps ==
  ASSUME IInv, NEW p \in Calls, Dispatch(p), ~UB
  PROVE  IInv' /\ (PInv => PInv')
<1> USE DEF IInv
<1> DEFINE matched == list \cap OnChannelOf(p)
           first   == {f \in matched : \A g \in matched : f[2] <= g[2]}
<1>1. /\ UNCHANGED <<calls, cpc, timeout, got, strayed, returned, res, list, arg, requests, lost>>
      /\ p \in answers /\ answers' = answers \ {p} /\ buffer' = p
      /\ late' = late \cup (IF EraseIsDue(p) THEN {p[1]} ELSE {})
      /\ tpc' = [t \in Threads |-> IF t[1] = p /\ t[2] \in first THEN "spawned"
                                   ELSE IF t[1] = p /\ t[2] \in matched THEN "unawaited" ELSE tpc[t]]
  BY DEF Dispatch, Received, clientVars, frameVars
<1>2. /\ Undelivered(p) /\ ~Unsent(p) /\ p \notin requests
      /\ first \subseteq matched /\ \A f \in matched : f \in Calls /\ f[1] = p[1]
      /\ late \subseteq late' /\ late' \subseteq Clients
  BY <1>1, CallsAre DEF Once, OnChannelOf, TypeOK
<1>3. /\ tpc' \in [Threads -> TPcs]
      /\ \A q, g \in Calls :
           tpc'[<<q, g>>] = IF q = p /\ g \in first THEN "spawned"
                            ELSE IF q = p /\ g \in matched THEN "unawaited" ELSE tpc[<<q, g>>]
  BY <1>1, ThreadsAre DEF TypeOK, TPcs
<1> HIDE DEF first
<1>4. \A q, g \in Calls : tpc[<<q, g>>] # "none" => tpc'[<<q, g>>] = tpc[<<q, g>>]
  BY <1>2, <1>3 DEF Undelivered
<1>5. \A q, g \in Calls : tpc'[<<q, g>>] \notin {"spawned", "unawaited"} => tpc'[<<q, g>>] = tpc[<<q, g>>]
  BY <1>3
<1>6. \A g \in Calls : Inside(g)' <=> Inside(g)
  BY <1>4, <1>5 DEF Inside
<1>7. \A j \in Clients :
        /\ Frame(j)' = Frame(j)
        /\ cpc[j] # "idle" => (Inside(Frame(j))' <=> Inside(Frame(j)))
  <2>1. \A j \in Clients : Frame(j)' = Frame(j)
    BY <1>1 DEF Frame
  <2>2. \A j \in Clients : cpc[j] # "idle" => Frame(j) \in Calls
    BY LiveFrames
  <2> QED BY <1>6, <2>1, <2>2 DEF Inside
<1>8. \A q \in Calls : /\ Undelivered(q)' => Undelivered(q)
                       /\ q # p /\ Undelivered(q) => Undelivered(q)'
                       /\ Unsent(q)' <=> Unsent(q)
                       /\ FrameAlive(q)' <=> FrameAlive(q)
  BY <1>1, <1>3, <1>4 DEF Undelivered, Unsent, FrameAlive
<1>9. TypeOK'
  <2>1. ASSUME NEW t \in Threads, tpc'[t] \in {"notify", "setFlag"}
        PROVE  FrameAlive(t[2])' /\ cpc'[t[2][1]] \in Asleep
    <3>1. t = <<t[1], t[2]>> /\ t[1] \in Calls /\ t[2] \in Calls
      BY ThreadsAre
    <3>2. tpc[t] = tpc'[t]
      BY <1>5, <2>1, <3>1
    <3> QED BY <1>1, <1>8, <2>1, <3>1, <3>2 DEF TypeOK
  <2> QED BY <1>1, <1>2, <1>3, <2>1 DEF TypeOK
<1>10. Begun'
  <2>1. \A q, g \in Calls : tpc'[<<q, g>>] # "none" => g[2] <= calls[g[1]]
    <3>1. \A g \in matched : g[2] <= calls[g[1]]
      BY DEF Begun
    <3> QED BY <1>2, <1>3, <3>1 DEF Begun
  <2> QED BY <1>1, <1>8, <2>1 DEF Begun
<1>11. OneInside'
  BY <1>1, <1>4, <1>5 DEF OneInside, InsidePcs
<1>12. \A q \in Calls, g \in list :
        tpc[<<q, g>>] \in {"refused", "wild"} => tpc'[<<q, g>>] \in {"refused", "wild"}
  BY <1>4 DEF TypeOK
<1>13. Stored' /\ FlagFirst'
  <2>1. ASSUME NEW j \in Clients, cpc[j] # "idle", returned[j] /\ Frame(j) \in list
        PROVE  \E q \in Calls : tpc'[<<q, Frame(j)>>] \in {"refused", "wild"}
    BY <1>12, <2>1 DEF Stored
  <2>2. Stored'
    BY <1>1, <1>7, <2>1 DEF Stored
  <2>3. FlagFirst'
    BY <1>1, <1>5, <1>7, <1>8 DEF FlagFirst
  <2> QED BY <2>2, <2>3
<1>14. Once'
  <2>1. \A q, g \in Calls : tpc'[<<q, g>>] # "none" => q[1] = g[1]
    BY <1>2, <1>3 DEF Once
  <2> QED BY <1>1, <1>2, <1>8, <2>1 DEF Once, TypeOK
<1>15. OnlyCurrent' /\ Copied'
  <2>1. ASSUME NEW f \in matched, f[1] \notin strayed
        PROVE  f[2] <= p[2]
    <3>1. f[1] \in Clients /\ p[1] = f[1]
      BY <1>2, CallsAre
    <3>2. p = Frame(f[1])
      BY <1>1, <2>1, <3>1 DEF OnlyCurrent
    <3> QED BY <3>1, <3>2, LiveFrames DEF Begun
  <2>2. Copied'
    BY <1>1, <1>2, <1>5 DEF Copied
  <2>3. \A q, g \in Calls : tpc'[<<q, g>>] # "none" =>
          tpc[<<q, g>>] # "none" \/ (q = p /\ g \in matched)
    BY <1>2, <1>3
  <2>4. ASSUME NEW j \in Clients \ strayed
        PROVE  /\ \A q \in requests' \cup answers' : q[1] = j => q = Frame(j)' /\ cpc'[j] # "idle"
               /\ \A q, g \in Calls : tpc'[<<q, g>>] # "none" /\ g[1] = j => g[2] <= q[2]
    BY <1>1, <1>7, <2>1, <2>3 DEF OnlyCurrent
  <2> QED BY <1>1, <2>2, <2>4 DEF OnlyCurrent
<1>16. OwnAnswer'
  BY <1>1, <1>2, <1>4, OwnAnswerStays
<1>17. NoLeakedCallback'
  BY <1>1, <1>12, RefusedStays
<1>18. ASSUME PInv PROVE PInv'
  <2>1. Answered'
    BY <1>1, <1>2, <1>8, <1>18 DEF PInv, Answered, Astray
  <2>2. ASSUME NEW f \in matched, f[1] \notin Astray'
        PROVE  p = f /\ FrameAlive(f) /\ res[f[1]] = NoPacket /\ f \in list
    <3>1. f \in Calls /\ f[1] \in Clients /\ p[1] = f[1] /\ f \in list
      BY <1>2, CallsAre
    <3>2. p = Frame(f[1]) /\ cpc[f[1]] # "idle"
      BY <1>1, <2>2, <3>1 DEF OnlyCurrent, Astray
    <3>3. FrameAlive(f)
      <4> SUFFICES ASSUME ~FrameAlive(f) PROVE FALSE
        OBVIOUS
      <4>1. got[f] \in Calls \cup {Torn}
        BY <1>1, <1>2, <1>18, <2>2, <3>1 DEF PInv, Answered, Begun, Astray
      <4>2. PICK q \in Calls : tpc[<<q, f>>] \in {"refused", "wild"}
        BY <3>1, <4>1 DEF NoLeakedCallback
      <4>3. <<q, f>> \in Threads /\ <<q, f>>[2] \in OnChannelOf(p)
        BY <3>1, ThreadsAre DEF OnChannelOf
      <4>4. EraseIsDue(p)
        BY <4>2, <4>3 DEF EraseIsDue, UB
      <4> QED BY <1>1, <2>2, <3>1, <4>4 DEF Astray
    <3>4. p = f
      BY <3>1, <3>2, <3>3, LiveFrames
    <3>5. res[f[1]] = NoPacket
      <4>1. res[f[1]] # NoPacket => ~Undelivered(p)
        BY <1>1, <2>2, <3>1, <3>2 DEF OwnAnswer, Astray
      <4> QED BY <1>2, <4>1
    <3> QED BY <3>1, <3>3, <3>4, <3>5
  <2>3. ASSUME NEW f \in matched, f[1] \notin Astray'
        PROVE  f \in first
    <3>1. \A g \in matched : g = p
      BY <1>2, <2>2, <2>3
    <3> QED BY <2>3, <3>1, CallsAre DEF first
  <2>4. ASSUME NEW q \in Calls, NEW g \in Calls, g[1] \notin Astray', tpc'[<<q, g>>] # "none"
        PROVE  /\ q = g
               /\ tpc'[<<q, g>>] \in {"spawned", "called"} => FrameAlive(g) /\ res[g[1]] = NoPacket
               /\ tpc'[<<q, g>>] # "erased" => g \in list
               /\ tpc'[<<q, g>>] \notin {"wild", "unawaited"}
    <3>1. CASE q = p /\ g \in matched
      BY <1>3, <2>2, <2>3, <2>4, <3>1
    <3>2. CASE ~(q = p /\ g \in matched)
      <4>1. tpc'[<<q, g>>] = tpc[<<q, g>>] /\ g[1] \notin Astray
        BY <1>1, <1>2, <1>3, <2>4, <3>2 DEF first, Astray
      <4> QED BY <1>18, <2>4, <4>1 DEF PInv, OneThread
    <3> QED BY <3>1, <3>2
  <2>5. OneThread'
    BY <1>1, <1>8, <2>4 DEF OneThread
  <2> QED BY <2>1, <2>5 DEF PInv
<1> QED BY <1>9, <1>10, <1>11, <1>13, <1>14, <1>15, <1>16, <1>17, <1>18

-----------------------------------------------------------------------------
(* The theorems.                                                           *)

LEMMA InitHolds == Init => IInv /\ PInv
<1> SUFFICES ASSUME Init PROVE IInv /\ PInv
  OBVIOUS
<1>1. /\ \A k \in Clients : /\ calls[k] = 0 /\ cpc[k] = "idle" /\ returned[k] = FALSE
                            /\ res[k] = NoPacket
      /\ \A p, f \in Calls : tpc[<<p, f>>] = "none"
      /\ list = {} /\ requests = {} /\ answers = {} /\ strayed = {} /\ late = {}
      /\ \A f \in Calls : got[f] = Pending /\ f[1] \in Clients /\ f[2] # 0
  BY CallsAre, ThreadsAre DEF Init
<1>2. TypeOK
  <2>1. \A k \in Clients : calls[k] <= MaxCalls[k]
    BY <1>1, CallsAre
  <2> QED BY <2>1 DEF Init, TypeOK, TPcs, Results
<1>3. Begun /\ OneInside /\ Stored /\ FlagFirst
  BY <1>1, CallsAre DEF Begun, OneInside, Stored, FlagFirst, InsidePcs, FrameAlive
<1>4. Once /\ OnlyCurrent /\ Copied /\ OwnAnswer
  BY <1>1, CallsAre DEF Once, OnlyCurrent, Copied, OwnAnswer, Undelivered
<1>5. NoLeakedCallback
  BY <1>1 DEF NoLeakedCallback
<1>6. PInv
  <2>1. \A f \in Calls : ~(f[2] <= calls[f[1]])
    BY <1>1, CallsAre
  <2> QED BY <1>1, <2>1 DEF PInv, Answered, OneThread
<1> QED BY <1>2, <1>3, <1>4, <1>5, <1>6 DEF IInv

LEMMA NextKeeps == IInv /\ [Next]_vars => IInv' /\ (PInv => PInv')
<1> SUFFICES ASSUME IInv, [Next]_vars PROVE IInv' /\ (PInv => PInv')
  OBVIOUS
<1>1. ASSUME NEW k \in Clients, Client(k) \/ call(k) \/ WakeSpuriously(k)
      PROVE  IInv' /\ (PInv => PInv')
  BY <1>1, ClientKeeps, CallKeeps
<1>2. ASSUME NEW t \in Threads, Thread(t)
      PROVE  IInv' /\ (PInv => PInv')
  <2>1. PICK p \in Calls, f \in Calls : t = <<p, f>>
    BY ThreadsAre
  <2> QED BY <1>2, <2>1, CallCallbackKeeps, StoreAnswerKeeps, NotifyClientKeeps, SetFlagKeeps,
             EraseKeeps, GoWildKeeps DEF Thread
<1>3. ASSUME NEW f \in Calls, (~UB /\ Dispatch(f)) \/ Answer(f) \/ Lose(f)
      PROVE  IInv' /\ (PInv => PInv')
  BY <1>3, LinkKeeps, DispatchKeeps
<1>4. CASE ReceiveAgain
  BY <1>4, LinkKeeps
<1>5. CASE UNCHANGED vars
  <2>1. UNCHANGED <<calls, cpc, timeout, got, strayed, returned, res, list, tpc, arg, buffer, late,
                    requests, answers, lost>>
    BY <1>5 DEF vars, clientVars, frameVars, workerVars, bufferVars, linkVars
  <2>2. TypeOK' /\ Begun' /\ OneInside' /\ Stored' /\ FlagFirst'
    BY <2>1 DEF IInv, TypeOK, Begun, OneInside, Stored, FlagFirst, FrameAlive, Frame, Inside
  <2>3. Once' /\ OnlyCurrent' /\ Copied' /\ OwnAnswer' /\ NoLeakedCallback'
    BY <2>1 DEF IInv, Once, OnlyCurrent, Copied, OwnAnswer, NoLeakedCallback, Astray,
                Undelivered, Unsent, Frame
  <2>4. PInv => PInv'
    BY <2>1 DEF PInv, Answered, OneThread, Astray, FrameAlive
  <2> QED BY <2>2, <2>3, <2>4 DEF IInv
<1> QED BY <1>1, <1>2, <1>3, <1>4, <1>5 DEF Next, Link

LEMMA SendRecvInvariant == Spec => []IInv
<1>1. Init => IInv
  BY InitHolds
<1>2. IInv /\ [Next]_vars => IInv'
  BY NextKeeps
<1> QED BY <1>1, <1>2, PTL DEF Spec

\* The variables have their types, and a callback that holds the mutex of a frame is in a
\* live frame whose client is asleep (ConnectionWrapper.h:65-88).
THEOREM SendRecvTypeOK == Spec => []TypeOK
<1>1. IInv => TypeOK
  BY DEF IInv
<1> QED BY <1>1, SendRecvInvariant, PTL

\* A client that sleeps on a frame with a packet in it has a notification on its way: that of
\* line 67 cannot come before the wait of line 76 or 84.
THEOREM SendRecvNoLostNotification == Spec => []NoLostNotification
<1>1. IInv => NoLostNotification
  <2> SUFFICES ASSUME IInv, NEW k \in Clients, cpc[k] = "waiting", res[k] # NoPacket
               PROVE  \E p \in Calls : tpc[<<p, Frame(k)>>] = "notify"
    BY DEF NoLostNotification
  <2>1. Frame(k) \in Calls /\ Frame(k)[1] = k
    BY LiveFrames DEF IInv
  <2>2. ~returned[k]
    BY DEF IInv, FlagFirst
  <2>3. PICK p \in Calls : tpc[<<p, Frame(k)>>] \in InsidePcs
    BY <2>2 DEF IInv, Stored, Inside, InsidePcs
  <2>4. tpc[<<p, Frame(k)>>] # "setFlag"
    BY <2>1, <2>3 DEF IInv, OneInside
  <2> QED BY <2>3, <2>4 DEF InsidePcs
<1> QED BY <1>1, SendRecvInvariant, PTL

\* The callback of a call that has its answer is listed only until the thread that stored
\* the answer has erased it.
THEOREM SendRecvNoLeakedCallback == Spec => []NoLeakedCallback
<1>1. IInv => NoLeakedCallback
  BY DEF IInv
<1> QED BY <1>1, SendRecvInvariant, PTL

\* Only a client that has had a call time out, or a callback thread that was late, has a
\* callback that leads to a dead frame, is called for a packet that another is called for,
\* or is called or erased after it was erased.
THEOREM SendRecvWildOnlyIfAstray == Spec => []WildOnlyIfAstray
<1>1. Init => IInv /\ PInv
  BY InitHolds
<1>2. (IInv /\ PInv) /\ [Next]_vars => (IInv /\ PInv)'
  BY NextKeeps
<1>3. IInv /\ PInv => WildOnlyIfAstray
  BY ThreadsAre DEF PInv, OneThread, WildOnlyIfAstray, Astray
<1> QED BY <1>1, <1>2, <1>3, PTL DEF Spec

\* A call that returns ends as Rpc says.
LEMMA ReturnIsPromised ==
  ASSUME IInv, NEW k \in Clients, Return(k), cpc[k] # "idle", ~Inside(Frame(k)),
         returned[k] \/ cpc[k] = "timedOut", UNCHANGED <<calls, timeout, late>>
  PROVE  Promise!RpcNext
<1>1. /\ Frame(k) = <<k, calls[k]>> /\ k \in Busy /\ calls[k] \in Nat /\ Frame(k) \in Calls
      /\ res[k] \in Results
  BY LiveFrames DEF IInv, TypeOK, Frame, Busy
<1>2. Promise!End(k, res[k])
  <2>1. Busy' = Busy \ {k}
    BY DEF Return, Move, IInv, TypeOK, Busy
  <2> QED BY <1>1, <2>1 DEF Return, Promise!End
<1>3. CASE res[k] = NoPacket
  <2>1. timeout[k] # 0
    BY <1>3 DEF IInv, Stored, Begun
  <2>2. Promise!GiveUp(k)
    BY <1>2, <1>3, <2>1 DEF Return, Promise!GiveUp
  <2> QED BY <2>2 DEF Promise!RpcNext
<1>4. CASE res[k] # NoPacket
  <2>1. res[k] \in Promise!Calls \cup {Torn} /\ strayed' = strayed
    BY <1>1, <1>4 DEF Return, Results, Calls, Promise!Calls
  <2>2. CASE k \in late
    <3>1. Promise!Finish(k, res[k])
      BY <1>2, <2>1, <2>2 DEF Promise!Finish
    <3> QED BY <2>1, <3>1 DEF Promise!RpcNext
  <2>3. CASE k \notin late
    <3>1. PICK i : i = res[k][2]
      OBVIOUS
    <3>2. /\ res[k] = <<k, i>> /\ i \in Nat \ {0} /\ ~Unsent(res[k])
          /\ k \notin strayed => res[k] = <<k, calls[k]>>
      BY <1>1, <1>4, <2>3, <3>1, CallsAre DEF IInv, OwnAnswer, Once, Astray
    <3>3. i \in 1..calls[k]
      BY <1>1, <3>2 DEF Unsent
    <3>4. Promise!Finish(k, res[k])
      BY <1>2, <2>1, <3>2, <3>3 DEF Promise!Finish
    <3> QED BY <2>1, <3>4 DEF Promise!RpcNext
  <2> QED BY <2>2, <2>3
<1> QED BY <1>3, <1>4

\* sendRecvData implements Rpc, whatever is lost, times out or is late: a call ends with the
\* answer to its own request, or with none after its timeout; of the clients that had a
\* timeout or a late thread Rpc promises less, and of the others' calls nothing less.
THEOREM SendRecvKeepsPromise == Spec => KeepsPromise
<1>1. Init => Promise!RpcInit
  BY DEF Init, Promise!RpcInit, Busy, Calls, Promise!Calls
<1>2. IInv /\ [Next]_vars => [Promise!RpcNext]_(Promise!rpcVars)
  <2> DEFINE Stutter == UNCHANGED <<calls, timeout, Busy, got, strayed, late>>
  <2> SUFFICES ASSUME IInv, [Next]_vars
               PROVE  Promise!RpcNext \/ Stutter
    BY DEF Promise!rpcVars
  <2>1. ASSUME NEW k \in Clients, call(k)
        PROVE  Promise!RpcNext
    <3>1. k \notin Busy /\ Busy' = Busy \cup {k}
      BY <2>1 DEF call, Move, Busy, IInv, TypeOK
    <3>2. Promise!Begin(k)
      BY <2>1, <3>1 DEF call, bufferVars, Promise!Begin
    <3> QED BY <3>2 DEF Promise!RpcNext
  <2>2. ASSUME NEW k \in Clients, Client(k) \/ WakeSpuriously(k)
        PROVE  Promise!RpcNext \/ Stutter
    <3>1. ASSUME NEW pc \in {"sent", "waiting", "woken", "timedOut"}, Move(k, pc), cpc[k] # "idle",
                 UNCHANGED <<calls, timeout, got, strayed, late>>
          PROVE  Stutter
      BY <3>1 DEF Move, Busy, IInv, TypeOK
    <3>2. CASE send(k)
      BY <3>1, <3>2 DEF send, workerVars, bufferVars
    <3>3. CASE CheckThenWait(k)
      <4>1. ~Inside(Frame(k))
        <5>1. Frame(k) \in Calls /\ Frame(k)[1] = k
          BY <3>3, LiveFrames DEF IInv, CheckThenWait
        <5> QED BY <3>3, <5>1, InsideIsCurrent DEF IInv, Inside, InsidePcs, Asleep, CheckThenWait
      <4>2. UNCHANGED <<calls, timeout, late>> /\ cpc[k] # "idle"
        BY <3>3 DEF CheckThenWait, workerVars, bufferVars
      <4> QED BY <3>1, <3>3, <4>1, <4>2, ReturnIsPromised DEF CheckThenWait
    <3>4. CASE Recheck(k)
      <4>1. UNCHANGED <<calls, timeout, late>> /\ cpc[k] # "idle"
        BY <3>4 DEF Recheck, workerVars, bufferVars
      <4> QED BY <3>1, <3>4, <4>1, ReturnIsPromised DEF Recheck
    <3>5. CASE Expire(k)
      BY <3>1, <3>5 DEF Expire, workerVars, bufferVars
    <3>6. CASE ReturnAfterTimeout(k)
      BY <3>6, ReturnIsPromised DEF ReturnAfterTimeout, workerVars, bufferVars
    <3>7. CASE WakeSpuriously(k)
      BY <3>1, <3>7 DEF WakeSpuriously, workerVars, bufferVars
    <3> QED BY <2>2, <3>2, <3>3, <3>4, <3>5, <3>6, <3>7 DEF Client
  <2>3. ASSUME NEW k \in Clients, late' = late \cup {k}, UNCHANGED clientVars
        PROVE  Promise!RpcNext
    <3>1. Promise!Delay(k)
      BY <2>3 DEF clientVars, Busy, Promise!Delay
    <3> QED BY <3>1 DEF Promise!RpcNext
  <2>4. ASSUME NEW t \in Threads, Thread(t)
        PROVE  Promise!RpcNext \/ Stutter
    <3>1. CASE NotifyClient(t)
      BY <3>1 DEF NotifyClient, bufferVars, Busy, IInv, TypeOK
    <3>2. CASE CallCallback(t)
      <4>1. t[2][1] \in Clients /\ UNCHANGED clientVars
        BY <3>2, ThreadsAre, CallsAre DEF CallCallback
      <4>2. late' = late \cup {t[2][1]} \/ late' = late
        BY <3>2 DEF CallCallback
      <4> QED BY <2>3, <4>1, <4>2 DEF clientVars, Busy
    <3>3. CASE ~NotifyClient(t) /\ ~CallCallback(t)
      BY <2>4, <3>3 DEF Thread, StoreAnswer, GoWild, SetFlag, Erase, clientVars, bufferVars, Busy
    <3> QED BY <3>1, <3>2, <3>3
  <2>5. ASSUME NEW p \in Calls, Dispatch(p)
        PROVE  Promise!RpcNext \/ Stutter
    <3>1. p[1] \in Clients /\ UNCHANGED clientVars
      BY <2>5, CallsAre DEF Dispatch, Received
    <3>2. late' = late \cup {p[1]} \/ late' = late
      BY <2>5 DEF Dispatch, Received
    <3> QED BY <2>3, <3>1, <3>2 DEF clientVars, Busy
  <2>6. CASE ReceiveAgain \/ (\E f \in Calls : Answer(f) \/ Lose(f)) \/ UNCHANGED vars
    BY <2>6 DEF ReceiveAgain, Answer, Lose, vars, workerVars, bufferVars, clientVars, Busy
  <2> QED BY <2>1, <2>2, <2>4, <2>5, <2>6 DEF Next, Link
<1> QED BY <1>1, <1>2, SendRecvInvariant, PTL DEF Spec, KeepsPromise, Promise!RpcSpec
=============================================================================
