---------------------------- MODULE RpcCallsProofs ----------------------------
(***************************************************************************)
(* Proofs about RpcCalls, for any calls of any kinds and channels of any    *)
(* capacity: the client's loop panics on a response of a cancelled stream   *)
(* and on no other, responses are read in order, and a call fails for a     *)
(* reason.                                                                  *)
(***************************************************************************)
EXTENDS RpcCalls, SequenceTheorems, TLAPS

(* The call is registered: the loop will find its channel.                  *)
Waits(c) == rpcMap[c] = c

(* An id is registered for a call that was made with it, and its channel    *)
(* is open: whoever closes the channel removes the entry with it.           *)
Registration ==
  /\ \A id \in Ids : rpcMap[id] # None =>
       Id(rpcMap[id]) = id /\ call[rpcMap[id]].at # "idle"
  /\ \A c \in Calls : Waits(c) => c \in resOpen

(* The channel of a call that has an id is open only while the call is      *)
(* registered; a stream that was cancelled no longer is.                    *)
Cancels ==
  /\ \A c \in Calls : c \in resOpen /\ call[c].kind # "command" => Waits(c)
  /\ \A c \in canceled : call[c].kind = "stream" /\ call[c].at # "idle" /\ ~Waits(c)

(* A call the server has not heard of, or does not answer.                  *)
Unanswered(c) ==
  \/ call[c].at \in {"idle", "sending"}
  \/ call[c].kind = "command"
  \/ \E i \in 1 .. Len(outputCh) : outputCh[i] = c

(* A request is on its way once, and its handler then starts from nothing.  *)
Requested ==
  /\ \A c \in Calls : Unanswered(c) => server[c] = Handler
  /\ \A i \in 1 .. Len(outputCh) : call[outputCh[i]].at \notin {"idle", "sending"}
  /\ \A i, j \in 1 .. Len(outputCh) : outputCh[i] = outputCh[j] => i = j

(* A response the server sent: its number is one the handler has used.      *)
IsSent(m) == m.n \in 1 .. server[m.call].sent /\ m.error # "timeout"

Transit ==
  /\ \A i \in 1 .. Len(inputCh) : IsSent(inputCh[i])
  /\ \A i, j \in 1 .. Len(inputCh) :
       i < j /\ inputCh[i].call = inputCh[j].call => inputCh[i].n < inputCh[j].n
  /\ loop.at \in {"sending", "blocked"} =>
       IsSent(loop.msg) /\ (Waits(loop.msg.call) \/ loop.msg.call \in canceled)
  /\ loop.at = "unregister" => call[loop.msg.call].at \notin {"idle", "sending"}

Holds(c) == loop.at \in {"sending", "blocked"} /\ loop.msg.call = c

(* The responses of a call the transport holds are those from number lo on. *)
Pending(c, lo) ==
  /\ lo <= server[c].sent + 1
  /\ \A i \in 1 .. Len(inputCh) : inputCh[i].call = c => inputCh[i].n >= lo
  /\ \A n \in lo .. server[c].sent :
       \E i \in 1 .. Len(inputCh) : inputCh[i].call = c /\ inputCh[i].n = n

(* The number that follows those in the channel of a call.                  *)
Expected(c) == got[c] + Len(resCh[c]) + 1

(* While a call is registered, the channel, the loop and the transport hold *)
(* what it has not read yet, in this order and without a gap.               *)
InStep(c) ==
  /\ \A i \in 1 .. Len(resCh[c]) : resCh[c][i].n = got[c] + i /\ resCh[c][i].error # "timeout"
  /\ Holds(c) => loop.msg.n = Expected(c)
  /\ Pending(c, IF Holds(c) THEN Expected(c) + 1 ELSE Expected(c))

Numbered ==
  /\ \A c \in Calls : Waits(c) => InStep(c)
  /\ rpcMap[NoId] # None => resCh[rpcMap[NoId]] = << >>

(* The life of a call's context.                                            *)
Contexts ==
  /\ \A c \in Calls : call[c].at = "idle" <=> ctx[c] = "none"
  /\ \A c \in Calls : call[c].at = "idle" => got[c] = 0 /\ resCh[c] = << >> /\ result[c] = "none"
  /\ \A c \in expiry : ctx[c] # "none"
  /\ \A i \in 1 .. Len(ctxDoneCh) : ctxDoneCh[i] \in Calls => ctx[ctxDoneCh[i]] \notin {"none", "live"}

(* A call that wants one response gets at most one, and its caller closes   *)
(* the channel only after reading it.                                       *)
SingleServer(c) ==
  /\ server[c].left = 0 /\ server[c].waiter = "none"
  /\ server[c].producer # "data"
  /\ server[c].sent <= 1
  /\ server[c].producer # "ended" => server[c].sent = 0

SingleCaller(c) ==
  /\ call[c].at # "blocked"
  /\ call[c].at = "finalizing" /\ Waits(c) => got[c] >= 1
  /\ call[c].at \in {"sending", "reading"} => c \in resOpen \/ resCh[c] # << >>
  /\ ~(loop.at = "blocked" /\ loop.msg.call = c)
  /\ loop.at = "unregister" /\ loop.msg.call = c /\ call[c].at = "reading" => resCh[c] # << >>

SingleReasons(c) ==
  /\ Waits(c) \/ call[c].at = "sending" => ctx[c] \in {"live", "expired"}
  /\ \A i \in 1 .. Len(resCh[c]) : resCh[c][i].error = "timeout" => ctx[c] = "expired"
  /\ result[c] # "closed"
  /\ result[c] = "timeout" => ctx[c] = "expired"

IsSingle(c) == call[c].kind = "single" /\ call[c].at # "idle"

Singles ==
  /\ \A c \in Calls : call[c].at = "finalizing" => IsSingle(c)
  /\ \A c \in Calls : IsSingle(c) => SingleServer(c) /\ SingleCaller(c) /\ SingleReasons(c)

IInv ==
  /\ TypeOK
  /\ Registration
  /\ Cancels
  /\ Requested
  /\ Transit
  /\ Numbered
  /\ Contexts
  /\ Singles
  /\ ResponsesInOrder
  /\ LoopSurvives

-----------------------------------------------------------------------------
(* What the operators the actions share do.                                 *)

LEMMA AtEffect ==
  ASSUME TypeOK, NEW c \in Calls, NEW place, At(c, place)
  PROVE  /\ call'[c].at = place /\ call'[c].kind = call[c].kind
         /\ \A d \in Calls \ {c} : call'[d] = call[d]
         /\ \A d \in Calls : call'[d].kind = call[d].kind
  BY DEF TypeOK, At

LEMMA AtType ==
  ASSUME TypeOK, NEW c \in Calls, NEW place, At(c, place),
         place \in {"idle", "sending", "reading", "blocked", "finalizing", "ended"}
  PROVE  call' \in [Calls -> [kind : {"single", "stream", "command"},
                              at : {"idle", "sending", "reading", "blocked", "finalizing", "ended"}]]
  BY DEF TypeOK, At

(* An id that is registered for one of the calls is its own, or NoId.       *)
LEMMA WaitsIsRegistered ==
  ASSUME TypeOK, Registration, NEW id \in Ids, NEW c \in Calls, rpcMap[id] = c
  PROVE  /\ id = Id(c)
         /\ c # None
         /\ id \in Calls => id = c /\ Waits(c) /\ call[c].kind # "command"
         /\ id = NoId => ~Waits(c) /\ call[c].kind = "command"
  <1>1. c # None /\ NoId # c
    BY RpcCallsAssumption
  <1>2. id = Id(c)
    BY <1>1 DEF Registration
  <1>3. id = NoId => call[c].kind = "command"
    BY <1>1, <1>2 DEF Id
  <1>4. id = NoId => ~Waits(c)
    <2> SUFFICES ASSUME id = NoId, Waits(c) PROVE FALSE
      OBVIOUS
    <2>1. rpcMap[c] # None /\ c \in Ids
      BY <1>1 DEF Waits, Ids
    <2>2. Id(rpcMap[c]) = c
      BY <2>1 DEF Registration
    <2>3. Id(c) = c
      BY <2>2 DEF Waits
    <2>4. QED
      BY <1>1, <1>2, <2>3
  <1>5. id \in Calls => id = c /\ call[c].kind # "command"
    BY <1>1, <1>2, RpcCallsAssumption DEF Id
  <1>6. QED
    BY <1>1, <1>2, <1>3, <1>4, <1>5 DEF Waits

(* unregisterRpc takes the entry, and nothing from the other calls.         *)
LEMMA UnregisterEffect ==
  ASSUME TypeOK, Registration, NEW id \in Ids, NEW error, NEW self, UnregisterRpc(id, error, self)
  PROVE  /\ \A c \in Calls : Waits(c)' <=> Waits(c) /\ c # id
         /\ \A x \in Ids : rpcMap'[x] = IF x = id THEN None ELSE rpcMap[x]
         /\ \A c \in Calls : rpcMap[id] # c =>
              resCh'[c] = resCh[c] /\ (c \in resOpen' <=> c \in resOpen)
         /\ \A c \in Calls : rpcMap[id] # c /\ c \notin self => ctx'[c] = ctx[c]
         /\ \A c \in Calls : ctx[c] # "live" => ctx'[c] = ctx[c]
         /\ \A c \in Calls : ctx[c] = "live" => ctx'[c] \in {"live", "canceled"}
         /\ \A c \in Calls : Waits(c)' => rpcMap[id] # c
  <1>1. rpcMap' = [rpcMap EXCEPT ![id] = None]
    BY DEF UnregisterRpc
  <1>2. \A x \in Ids : rpcMap'[x] = IF x = id THEN None ELSE rpcMap[x]
    BY <1>1 DEF TypeOK
  <1>3. \A c \in Calls : Waits(c)' <=> Waits(c) /\ c # id
    <2> TAKE c \in Calls
    <2>1. c \in Ids /\ c # None
      BY RpcCallsAssumption DEF Ids
    <2>2. QED
      BY <1>2, <2>1 DEF Waits
  <1>4. ASSUME NEW c \in Calls, rpcMap[id] # c
        PROVE  resCh'[c] = resCh[c] /\ (c \in resOpen' <=> c \in resOpen)
    BY <1>4 DEF UnregisterRpc, LastWord, Closed
  <1>5. ASSUME NEW c \in Calls
        PROVE  /\ rpcMap[id] # c /\ c \notin self => ctx'[c] = ctx[c]
               /\ ctx[c] # "live" => ctx'[c] = ctx[c]
               /\ ctx[c] = "live" => ctx'[c] \in {"live", "canceled"}
    BY DEF UnregisterRpc
  <1>6. ASSUME NEW c \in Calls, Waits(c)', rpcMap[id] = c
        PROVE  FALSE
    <2>1. Waits(c) /\ c # id
      BY <1>3, <1>6
    <2>2. id \in Calls \/ id = NoId
      BY DEF Ids
    <2>3. QED
      BY <1>6, <2>1, <2>2, WaitsIsRegistered
  <1>7. QED
    BY <1>2, <1>3, <1>4, <1>5, <1>6

LEMMA UnregisterType ==
  ASSUME TypeOK, NEW id \in Ids, NEW error \in {"none", "timeout"}, NEW self, UnregisterRpc(id, error, self)
  PROVE  /\ rpcMap' \in [Ids -> Calls \cup {None}]
         /\ resCh' \in [Calls -> Seq(Messages)]
         /\ resOpen' \subseteq Calls
         /\ ctx' \in [Calls -> {"none", "live", "expired", "canceled"}]
  <1>1. rpcMap' \in [Ids -> Calls \cup {None}]
    BY DEF UnregisterRpc, TypeOK
  <1>2. resOpen' \subseteq Calls
    BY DEF UnregisterRpc, TypeOK
  <1>3. ctx' \in [Calls -> {"none", "live", "expired", "canceled"}]
    BY DEF UnregisterRpc, TypeOK
  <1>4. ASSUME NEW c \in Calls
        PROVE  LastWord(id, error)[c] \in Seq(Messages)
    <2>1. resCh[c] \in Seq(Messages)
      BY DEF TypeOK
    <2>2. error # "none" => [call |-> c, n |-> 0, last |-> TRUE, error |-> error] \in Messages
      BY DEF Messages
    <2>3. QED
      BY <2>1, <2>2 DEF LastWord
  <1>5. resCh' \in [Calls -> Seq(Messages)]
    BY <1>4 DEF UnregisterRpc, LastWord
  <1>6. QED
    BY <1>1, <1>2, <1>3, <1>5

(* The word unregisterRpc leaves is the last one.                           *)
LEMMA LastWordEffect ==
  ASSUME TypeOK, NEW id \in Ids, NEW c \in Calls, rpcMap[id] = c, NEW error,
         NEW self, UnregisterRpc(id, error, self)
  PROVE  \/ resCh'[c] = resCh[c] /\ (error = "none" \/ Len(resCh[c]) >= ResCap)
         \/ /\ error # "none"
            /\ Len(resCh'[c]) = Len(resCh[c]) + 1
            /\ \A i \in 1 .. Len(resCh[c]) : resCh'[c][i] = resCh[c][i]
            /\ resCh'[c][Len(resCh[c]) + 1].error = error
  <1> DEFINE W == [call : Calls, n : Nat, last : BOOLEAN, error : {"none", "error", "timeout"} \cup {error}]
             m == [call |-> c, n |-> 0, last |-> TRUE, error |-> error]
  <1>1. resCh[c] \in Seq(Messages) /\ Len(resCh[c]) \in Nat
    BY DEF TypeOK
  <1>2. Messages \subseteq W
    BY DEF Messages
  <1>3. resCh[c] \in Seq(W)
    BY <1>1, <1>2, SeqMonotonic
  <1>4. m \in W /\ m.error = error
    OBVIOUS
  <1>5. resCh'[c] = IF error # "none" /\ Len(resCh[c]) < ResCap THEN Append(resCh[c], m) ELSE resCh[c]
    BY DEF UnregisterRpc, LastWord
  <1> HIDE DEF m, W
  <1>6. /\ Append(resCh[c], m) \in Seq(W)
        /\ Len(Append(resCh[c], m)) = Len(resCh[c]) + 1
        /\ \A i \in 1 .. Len(resCh[c]) : Append(resCh[c], m)[i] = resCh[c][i]
        /\ Append(resCh[c], m)[Len(resCh[c]) + 1] = m
    BY <1>3, <1>4, AppendProperties
  <1>7. ResCap \in Nat
    BY RpcCallsAssumption
  <1>8. CASE error # "none" /\ Len(resCh[c]) < ResCap
    <2>1. resCh'[c] = Append(resCh[c], m)
      BY <1>5, <1>8
    <2>2. QED
      BY <1>4, <1>6, <1>8, <2>1 DEF W
  <1>9. CASE ~(error # "none" /\ Len(resCh[c]) < ResCap)
    BY <1>1, <1>5, <1>7, <1>9
  <1>10. QED
    BY <1>8, <1>9

(* A handler starts a response.                                             *)
LEMMA StartEffect ==
  ASSUME TypeOK, NEW c \in Calls, StartResponse(c)
  PROVE  /\ server' \in [Calls -> Handlers]
         /\ \A d \in Calls \ {c} : server'[d] = server[d]
         /\ server[c].producer = "running"
         /\ server'[c].producer \in {"data", "end", "error"}
         /\ server'[c].producer = "data" => server[c].left > 0
         /\ server'[c].left \in {server[c].left, server[c].left - 1}
         /\ server'[c].producer # "data" => server'[c].left = server[c].left
         /\ server'[c].waiter = server[c].waiter /\ server'[c].sent = server[c].sent
  <1>1. server[c] \in Handlers /\ server \in [Calls -> Handlers]
    BY DEF TypeOK
  <1>2. CASE server[c].left > 0 /\ server' = [server EXCEPT ![c].producer = "data", ![c].left = @ - 1]
    <2>1. server'[c] = [server[c] EXCEPT !.producer = "data", !.left = @ - 1]
      BY <1>1, <1>2
    <2>2. \A d \in Calls \ {c} : server'[d] = server[d]
      BY <1>1, <1>2
    <2>3. server[c].left \in Nat
      BY <1>1 DEF Handlers
    <2>4. server[c].left - 1 \in Nat
      BY <1>2, <2>3
    <2>5. server'[c] \in Handlers
      BY <1>1, <2>1, <2>4 DEF Handlers
    <2>6. server' \in [Calls -> Handlers]
      BY <1>1, <1>2, <2>2, <2>5
    <2>7. /\ server'[c].producer = "data" /\ server'[c].left = server[c].left - 1
          /\ server'[c].waiter = server[c].waiter /\ server'[c].sent = server[c].sent
      BY <1>1, <2>1 DEF Handlers
    <2>8. QED
      BY <1>2, <2>2, <2>6, <2>7 DEF StartResponse
  <1>3. CASE \E last \in {"end", "error"} : server' = [server EXCEPT ![c].producer = last]
    BY <1>1, <1>3 DEF StartResponse, Handlers
  <1>4. QED
    BY <1>2, <1>3 DEF StartResponse

(* A response goes out under the next number, or it is given up and the     *)
(* number is free.                                                          *)
LEMMA FinishEffect ==
  ASSUME TypeOK, NEW c \in Calls, NEW goroutine \in {"producer", "waiter"}, FinishResponse(c, goroutine)
  PROVE  /\ server' \in [Calls -> Handlers]
         /\ \A d \in Calls \ {c} : server'[d] = server[d]
         /\ \/ inputCh' = inputCh /\ server'[c].sent = server[c].sent
            \/ \E m \in Messages :
                 /\ inputCh' = Append(inputCh, m)
                 /\ m.call = c /\ m.n = server[c].sent + 1 /\ m.error # "timeout"
                 /\ server'[c].sent = server[c].sent + 1
         /\ goroutine = "producer" =>
              /\ server[c].producer \in {"data", "end", "error"}
              /\ server[c].producer # "data" => server'[c].producer = "ended"
              /\ server'[c].waiter = server[c].waiter /\ server'[c].left = server[c].left
         /\ goroutine = "waiter" => server[c].waiter = "end"
  <1>1. server[c] \in Handlers /\ server \in [Calls -> Handlers] /\ inputCh \in Seq(Messages)
    BY DEF TypeOK
  <1>2. server[c].sent \in Nat
    BY <1>1 DEF Handlers
  <1> DEFINE what == server[c][goroutine]
             last == what # "data"
             sent == IF inputCh' = inputCh THEN server[c].sent ELSE server[c].sent + 1
  <1>3. what \in {"data", "end", "error"}
    BY DEF FinishResponse
  <1>4. sent \in Nat
    BY <1>2
  <1>5. server' = [server EXCEPT
          ![c][goroutine] = IF last THEN "ended" ELSE "running",
          ![c].sent = IF inputCh' = inputCh THEN @ ELSE @ + 1,
          ![c].done = last \/ @,
          ![c].ctx = IF last THEN "done" ELSE @]
    BY DEF FinishResponse
  <1>6. \A d \in Calls \ {c} : server'[d] = server[d]
    BY <1>1, <1>5
  <1>7. \/ inputCh' = inputCh /\ sent = server[c].sent
        \/ \E m \in Messages :
             /\ inputCh' = Append(inputCh, m)
             /\ m.call = c /\ m.n = server[c].sent + 1 /\ m.error # "timeout"
             /\ sent = server[c].sent + 1
    <2> DEFINE m == Response(c, what)
    <2>1. m \in Messages /\ m.call = c /\ m.n = server[c].sent + 1 /\ m.error # "timeout"
      BY <1>2, <1>3 DEF Response, Messages
    <2>2. inputCh' = Append(inputCh, m) \/ inputCh' = inputCh
      BY DEF FinishResponse
    <2> HIDE DEF m, what
    <2>3. Append(inputCh, m) # inputCh
      BY <1>1, <2>1
    <2>4. QED
      BY <2>1, <2>2, <2>3
  <1> HIDE DEF sent
  <1>8. ASSUME server'[c] \in Handlers
        PROVE  server' \in [Calls -> Handlers]
    <2>1. server' = [d \in Calls |-> server'[d]]
      BY <1>1, <1>5, Zenon
    <2>2. \A d \in Calls : server'[d] \in Handlers
      BY <1>1, <1>6, <1>8
    <2>3. QED
      BY <2>1, <2>2
  <1>9. CASE goroutine = "producer"
    <2>1. what = server[c].producer
      BY <1>9
    <2>2. server'[c] = [server[c] EXCEPT !.producer = IF last THEN "ended" ELSE "running",
             !.sent = sent, !.done = last \/ @, !.ctx = IF last THEN "done" ELSE @]
      BY <1>1, <1>5, <1>9 DEF sent
    <2> HIDE DEF last, what
    <2>3. /\ server'[c].producer = IF last THEN "ended" ELSE "running"
          /\ server'[c].sent = sent
          /\ server'[c].waiter = server[c].waiter /\ server'[c].left = server[c].left
      BY <1>1, <2>2 DEF Handlers
    <2>4. server'[c] \in Handlers
      <3>1. last \in BOOLEAN
        BY DEF last
      <3>2. QED
        BY <1>1, <1>4, <2>2, <3>1 DEF Handlers
    <2>5. QED
      BY <1>3, <1>6, <1>7, <1>8, <1>9, <2>1, <2>3, <2>4 DEF last
  <1>10. CASE goroutine = "waiter"
    <2>1. what = server[c].waiter
      BY <1>10
    <2>2. what = "end"
      BY <1>1, <1>3, <2>1 DEF Handlers
    <2>3. server'[c] = [server[c] EXCEPT !.waiter = "ended", !.sent = sent, !.done = TRUE, !.ctx = "done"]
      BY <1>1, <1>5, <1>10, <2>2 DEF sent
    <2>4. server'[c].sent = sent /\ server'[c] \in Handlers
      BY <1>1, <1>4, <2>3 DEF Handlers
    <2>5. QED
      BY <1>6, <1>7, <1>8, <1>10, <2>1, <2>2, <2>4
  <1>11. QED
    BY <1>9, <1>10

-----------------------------------------------------------------------------
(* Types.                                                                   *)

LEMMA TypeStep ==
  ASSUME TypeOK, [Next]_vars
  PROVE  TypeOK'
<1> USE DEF callVars, clientVars
<1> DEFINE CallType == [Calls -> [kind : {"single", "stream", "command"},
             at : {"idle", "sending", "reading", "blocked", "finalizing", "ended"}]]
<1>1. ASSUME NEW c \in Calls, NEW kind \in KindsOf[c], RegisterRpc(c, kind)
      PROVE  TypeOK'
  <2>1. kind \in {"single", "stream", "command"}
    BY RpcCallsAssumption
  <2>2. call' \in CallType
    BY <1>1, <2>1 DEF RegisterRpc, TypeOK
  <2>3. rpcMap' \in [Ids -> Calls \cup {None}]
    BY <1>1 DEF RegisterRpc, TypeOK, Ids
  <2>4. resOpen' \subseteq Calls /\ expiry' \subseteq Calls
    BY <1>1 DEF RegisterRpc, TypeOK
  <2>5. ctx' \in [Calls -> {"none", "live", "expired", "canceled"}]
    BY <1>1 DEF RegisterRpc, TypeOK
  <2>6. QED
    BY <1>1, <2>2, <2>3, <2>4, <2>5 DEF RegisterRpc, TypeOK
<1>2. ASSUME NEW c \in Calls, SendRequest(c)
      PROVE  TypeOK'
  <2>1. outputCh' \in Seq(Calls)
    BY <1>2 DEF SendRequest, TypeOK
  <2>2. call' \in CallType
    BY <1>2, AtType DEF SendRequest, Ends
  <2>3. result' \in [Calls -> {"none", "answer", "error", "timeout", "closed", "done", "sent"}]
    BY <1>2 DEF SendRequest, Ends, TypeOK
  <2>4. ctx' \in [Calls -> {"none", "live", "expired", "canceled"}]
    BY <1>2 DEF SendRequest, TypeOK
  <2>5. QED
    BY <1>2, <2>1, <2>2, <2>3, <2>4 DEF SendRequest, TypeOK
<1>3. ASSUME NEW c \in Calls, TimeoutSending(c)
      PROVE  TypeOK'
  <2>1. call' \in CallType
    BY <1>3, AtType DEF TimeoutSending, Ends
  <2>2. result' \in [Calls -> {"none", "answer", "error", "timeout", "closed", "done", "sent"}]
    BY <1>3 DEF TimeoutSending, Ends, TypeOK
  <2>3. c \in Ids
    BY DEF Ids
  <2>4. /\ rpcMap' \in [Ids -> Calls \cup {None}]
        /\ resCh' \in [Calls -> Seq(Messages)]
        /\ resOpen' \subseteq Calls
        /\ ctx' \in [Calls -> {"none", "live", "expired", "canceled"}]
    <3>1. CASE Id(c) = NoId
      BY <1>3, <3>1 DEF TimeoutSending, TypeOK
    <3>2. CASE Id(c) # NoId
      BY <1>3, <3>2, <2>3, UnregisterType DEF TimeoutSending
    <3>3. QED
      BY <3>1, <3>2
  <2>5. QED
    BY <1>3, <2>1, <2>2, <2>4 DEF TimeoutSending, TypeOK
<1>4. ASSUME NEW c \in Calls, NextResponse(c)
      PROVE  TypeOK'
  <2>1. resCh[c] \in Seq(Messages) /\ resCh[c] # << >>
    BY <1>4 DEF NextResponse, TypeOK
  <2>2. Head(resCh[c]) \in Messages /\ Tail(resCh[c]) \in Seq(Messages)
    BY <2>1, HeadTailProperties
  <2>3. call' \in CallType
    BY <1>4, AtType DEF NextResponse, AfterReading
  <2>4. result' \in [Calls -> {"none", "answer", "error", "timeout", "closed", "done", "sent"}]
    <3>1. Head(resCh[c]).error \in {"none", "error", "timeout"}
      BY <2>2 DEF Messages
    <3>2. QED
      BY <1>4, <3>1 DEF NextResponse, TypeOK
  <2>5. resCh' \in [Calls -> Seq(Messages)]
    BY <1>4, <2>2 DEF NextResponse, TypeOK
  <2>6. got' \in [Calls -> Nat]
    <3>1. Head(resCh[c]).n \in Nat
      BY <2>2 DEF Messages
    <3>2. QED
      BY <1>4, <3>1 DEF NextResponse, TypeOK
  <2>7. QED
    BY <1>4, <2>3, <2>4, <2>5, <2>6 DEF NextResponse, TypeOK
<1>5. ASSUME NEW c \in Calls, ResponseDone(c) \/ ResponseChannelClosed(c)
      PROVE  TypeOK'
  <2>1. call' \in CallType
    BY <1>5, AtType DEF ResponseDone, ResponseChannelClosed, Ends
  <2>2. result' \in [Calls -> {"none", "answer", "error", "timeout", "closed", "done", "sent"}]
    BY <1>5 DEF ResponseDone, ResponseChannelClosed, Ends, TypeOK
  <2>3. QED
    BY <1>5, <2>1, <2>2 DEF ResponseDone, ResponseChannelClosed, TypeOK
<1>6. ASSUME NEW c \in Calls, Finalize(c)
      PROVE  TypeOK'
  <2>1. call' \in CallType
    BY <1>6, AtType DEF Finalize
  <2>2. c \in Ids /\ UnregisterRpc(c, "none", {c})
    BY <1>6 DEF Ids, Finalize
  <2>3. QED
    BY <1>6, <2>1, <2>2, UnregisterType DEF Finalize, TypeOK
<1>18. ASSUME NEW c \in Calls, SendCancel(c)
       PROVE  TypeOK'
  <2>1. c \in Ids /\ UnregisterRpc(c, "none", {c})
    BY <1>18 DEF Ids, SendCancel
  <2>2. QED
    BY <1>18, <2>1, UnregisterType DEF SendCancel, TypeOK
<1>7. ASSUME NEW c \in Calls, TimePasses(c)
      PROVE  TypeOK'
  BY <1>7 DEF TimePasses, TypeOK
<1>8. ASSUME NEW c \in Calls, RetrySendTimeout(c)
      PROVE  TypeOK'
  <2>1. Id(c) \in Ids
    BY DEF Id, Ids
  <2>2. ctxDoneCh' \in Seq(Ids)
    BY <1>8, <2>1 DEF RetrySendTimeout, TypeOK
  <2>3. QED
    BY <1>8, <2>2 DEF RetrySendTimeout, TypeOK
<1>9. ASSUME NEW c \in Calls, Serve(c)
      PROVE  TypeOK'
  <2>1. server[c] \in Handlers
    BY DEF TypeOK
  <2>2. CASE ServerTimePasses(c)
    <3>1. server' \in [Calls -> Handlers]
      BY <2>2, <2>1 DEF ServerTimePasses, TypeOK, Handlers
    <3>2. QED
      BY <2>2, <3>1 DEF ServerTimePasses, TypeOK
  <2>3. CASE StartResponse(c)
    <3>1. server' \in [Calls -> Handlers]
      BY <2>3, StartEffect
    <3>2. QED
      BY <2>3, <3>1 DEF StartResponse, TypeOK
  <2>4. CASE FinalizeAsync(c)
    <3>1. server' \in [Calls -> Handlers]
      BY <2>4, <2>1 DEF FinalizeAsync, TypeOK, Handlers
    <3>2. QED
      BY <2>4, <3>1 DEF FinalizeAsync, TypeOK
  <2>5. ASSUME NEW goroutine \in {"producer", "waiter"}, FinishResponse(c, goroutine)
        PROVE  TypeOK'
    <3>1. server' \in [Calls -> Handlers]
      BY <2>5, FinishEffect
    <3>2. inputCh' = inputCh \/ \E m \in Messages : inputCh' = Append(inputCh, m)
      BY <2>5, FinishEffect
    <3>3. inputCh \in Seq(Messages)
      BY DEF TypeOK
    <3>4. inputCh' \in Seq(Messages)
      BY <3>2, <3>3
    <3>5. QED
      BY <2>5, <3>1, <3>4 DEF FinishResponse, TypeOK
  <2>6. QED
    BY <1>9, <2>2, <2>3, <2>4, <2>5 DEF Serve
<1>10. CASE TakeTimeout
  <2>1. Head(ctxDoneCh) \in Ids /\ Tail(ctxDoneCh) \in Seq(Ids)
    BY <1>10, HeadTailProperties DEF TakeTimeout, TypeOK
  <2>2. UnregisterRpc(Head(ctxDoneCh), "timeout", {})
    BY <1>10 DEF TakeTimeout
  <2>3. QED
    BY <1>10, <2>1, <2>2, UnregisterType DEF TakeTimeout, TypeOK
<1>11. CASE TakeResponse
  <2>1. Head(inputCh) \in Messages /\ Tail(inputCh) \in Seq(Messages)
    BY <1>11, HeadTailProperties DEF TakeResponse, TypeOK
  <2>2. loop' \in Loops
    BY <1>11, <2>1 DEF TakeResponse, TypeOK, Loops
  <2>3. QED
    BY <1>11, <2>1, <2>2 DEF TakeResponse, TypeOK
<1>12. CASE SendResp
  <2>1. loop.msg \in Messages
    BY <1>12 DEF SendResp, TypeOK, Loops
  <2>2. loop' \in Loops
    BY <1>12, <2>1 DEF SendResp, AfterSending, LoopTo, TypeOK, Loops
  <2>3. loop.msg.call \in Calls
    BY <2>1 DEF Messages
  <2>4. Append(resCh[loop.msg.call], loop.msg) \in Seq(Messages)
    BY <2>1, <2>3 DEF TypeOK
  <2>5. resCh' \in [Calls -> Seq(Messages)]
    BY <1>12, <2>4 DEF SendResp, TypeOK
  <2>6. QED
    BY <1>12, <2>2, <2>5 DEF SendResp, TypeOK
<1>13. CASE BlockOnResponse
  <2>1. loop' \in Loops
    BY <1>13 DEF BlockOnResponse, TypeOK, Loops
  <2>2. QED
    BY <1>13, <2>1 DEF BlockOnResponse, TypeOK
<1>14. CASE FailBlocked \/ UnregisterLast
  <2>1. loop.msg.call \in Ids
    BY <1>14 DEF FailBlocked, UnregisterLast, TypeOK, Loops, Messages, Ids
  <2>2. UnregisterRpc(loop.msg.call, "none", {})
    BY <1>14 DEF FailBlocked, UnregisterLast
  <2>3. loop' \in Loops
    BY <1>14 DEF FailBlocked, UnregisterLast, LoopTo, Loops
  <2>4. QED
    BY <1>14, <2>1, <2>2, <2>3, UnregisterType DEF FailBlocked, UnregisterLast, TypeOK
<1>15. CASE HandleRequest
  <2>1. Head(outputCh) \in Calls /\ Tail(outputCh) \in Seq(Calls)
    BY <1>15, HeadTailProperties DEF HandleRequest, TypeOK
  <2>2. server' \in [Calls -> Handlers]
    BY <1>15, <2>1, RpcCallsAssumption DEF HandleRequest, TypeOK, Handler, Handlers
  <2>3. QED
    BY <1>15, <2>1, <2>2 DEF HandleRequest, TypeOK
<1>16. CASE UNCHANGED vars
  BY <1>16 DEF vars, TypeOK
<1>17. QED
  BY <1>1, <1>2, <1>3, <1>4, <1>5, <1>6, <1>7, <1>8, <1>9, <1>10, <1>11, <1>12, <1>13, <1>14,
     <1>15, <1>16, <1>18 DEF Next, Read, Loop

-----------------------------------------------------------------------------
(* The invariant.                                                           *)

LEMMA InitIInv == Init => IInv
<1> SUFFICES ASSUME Init PROVE IInv
  OBVIOUS
<1> USE RpcCallsAssumption DEF Init
<1>1. TypeOK
  BY DEF TypeOK, Loops, Handlers, Handler, Messages
<1>2. Registration /\ Cancels /\ Contexts
  BY DEF Registration, Cancels, Contexts, Waits, Ids
<1>3. Requested /\ Transit
  BY DEF Requested, Transit
<1>4. Numbered
  BY DEF Numbered, Waits, Ids
<1>5. Singles
  BY DEF Singles, IsSingle
<1>6. ResponsesInOrder /\ LoopSurvives
  BY DEF ResponsesInOrder, LoopSurvives
<1>7. QED
  BY <1>1, <1>2, <1>3, <1>4, <1>5, <1>6 DEF IInv

LEMMA InvFacts ==
  ASSUME IInv
  PROVE  /\ \A c \in Calls : /\ call[c].at \in {"idle", "sending", "reading", "blocked", "finalizing", "ended"}
                             /\ call[c].kind \in {"single", "stream", "command"}
                             /\ resCh[c] \in Seq(Messages) /\ Len(resCh[c]) \in Nat
                             /\ got[c] \in Nat
                             /\ server[c] \in Handlers /\ server[c].sent \in Nat
                             /\ c # None /\ c # NoId /\ c \in Ids
         /\ inputCh \in Seq(Messages) /\ Len(inputCh) \in Nat
         /\ outputCh \in Seq(Calls) /\ Len(outputCh) \in Nat
         /\ loop.at \in {"sending", "blocked", "unregister", "panic"} => loop.msg \in Messages /\ loop.msg.call \in Calls
<1>1. ASSUME NEW c \in Calls
      PROVE  /\ call[c].at \in {"idle", "sending", "reading", "blocked", "finalizing", "ended"}
             /\ call[c].kind \in {"single", "stream", "command"}
             /\ resCh[c] \in Seq(Messages) /\ Len(resCh[c]) \in Nat
             /\ got[c] \in Nat
             /\ c # None /\ c # NoId /\ c \in Ids
  BY RpcCallsAssumption DEF IInv, TypeOK, Ids
<1>2. \A c \in Calls : server[c] \in Handlers /\ server[c].sent \in Nat
  BY DEF IInv, TypeOK, Handlers
<1>3. inputCh \in Seq(Messages) /\ outputCh \in Seq(Calls)
  BY DEF IInv, TypeOK
<1>4. loop.at \in {"sending", "blocked", "unregister", "panic"} => loop.msg \in Messages /\ loop.msg.call \in Calls
  BY DEF IInv, TypeOK, Loops, Messages
<1>5. QED
  BY <1>1, <1>2, <1>3, <1>4

(* A call that has not been answered waits for its first response, and      *)
(* nothing of it is on its way.                                             *)
LEMMA NothingSent ==
  ASSUME IInv, NEW c \in Calls, Unanswered(c)
  PROVE  /\ server[c] = Handler /\ server[c].sent = 0
         /\ ~Holds(c)
         /\ \A i \in 1 .. Len(inputCh) : inputCh[i].call # c
  <1>1. server[c] = Handler /\ server[c].sent = 0
    BY DEF IInv, Requested, Handler
  <1>2. 1 .. server[c].sent = {}
    BY <1>1
  <1>3. QED
    BY <1>1, <1>2 DEF IInv, Transit, IsSent, Holds

LEMMA RegisterRpcStep ==
  ASSUME IInv, NEW c \in Calls, NEW kind \in KindsOf[c], RegisterRpc(c, kind), TypeOK', Cancels'
  PROVE  IInv'
<1> DEFINE id == IF kind = "command" THEN NoId ELSE c
<1> USE InvFacts
<1>1. /\ call[c].at = "idle" /\ kind \in {"single", "stream", "command"}
      /\ UNCHANGED <<result, got, canceled, resCh, ctxDoneCh, outputCh, loop, inputCh, server>>
  BY RpcCallsAssumption DEF RegisterRpc
<1>2. /\ call'[c].kind = kind /\ call'[c].at = "sending"
      /\ \A d \in Calls \ {c} : call'[d] = call[d]
  BY DEF RegisterRpc, IInv, TypeOK
<1>3. /\ \A x \in Ids : rpcMap'[x] = IF x = id THEN c ELSE rpcMap[x]
      /\ \A x \in Ids : rpcMap[x] # c
  BY <1>1 DEF RegisterRpc, IInv, TypeOK, Registration
<1>4. /\ ctx'[c] = "live" /\ \A d \in Calls \ {c} : ctx'[d] = ctx[d]
      /\ expiry' = expiry \cup {c} /\ resOpen' = resOpen \cup {c}
  BY DEF RegisterRpc, IInv, TypeOK
<1>5. /\ ~Waits(c) /\ (Waits(c)' <=> kind # "command")
      /\ \A d \in Calls \ {c} : Waits(d)' <=> Waits(d)
  BY <1>3 DEF Waits
<1>6. \A d \in Calls \ {c} : Id(d)' = Id(d)
  BY <1>2 DEF Id
<1>7. Registration'
  <2>1. ASSUME NEW x \in Ids, rpcMap'[x] # None
        PROVE  Id(rpcMap[x])' = x /\ call'[rpcMap'[x]].at # "idle"
    <3>1. CASE x = id
      <4>1. rpcMap'[x] = c
        BY <1>3, <3>1
      <4>2. Id(c)' = id
        BY <1>2 DEF Id
      <4>3. QED
        BY <1>2, <3>1, <4>1, <4>2
    <3>2. CASE x # id
      <4>1. rpcMap'[x] = rpcMap[x] /\ rpcMap[x] \in Calls \ {c}
        BY <1>3, <2>1, <3>2 DEF IInv, TypeOK
      <4>2. Id(rpcMap[x]) = x /\ call[rpcMap[x]].at # "idle"
        BY <2>1, <4>1 DEF IInv, Registration
      <4>3. QED
        BY <1>2, <1>6, <4>1, <4>2
    <3>3. QED
      BY <3>1, <3>2
  <2>2. \A d \in Calls : Waits(d)' => d \in resOpen'
    BY <1>4, <1>5 DEF IInv, Registration
  <2>3. QED
    BY <2>1, <2>2 DEF Registration
<1>8. Unanswered(c)
  BY <1>1 DEF Unanswered
<1>9. Requested'
  <2>1. \A d \in Calls \ {c} : Unanswered(d)' => Unanswered(d)
    BY <1>1, <1>2 DEF Unanswered
  <2>2. QED
    BY <1>1, <1>2, <1>8, <2>1 DEF IInv, Requested
<1>10. Transit'
  <2>1. loop.at \in {"sending", "blocked"} => loop.msg.call \in Calls \ {c}
    BY <1>1, <1>5 DEF IInv, Transit, Cancels
  <2>2. loop.at = "unregister" => loop.msg.call \in Calls \ {c}
    BY <1>1 DEF IInv, Transit
  <2>3. QED
    BY <1>1, <1>2, <1>5, <2>1, <2>2 DEF IInv, Transit, IsSent
<1>11. Numbered'
  <2>1. \A d \in Calls : InStep(d) => InStep(d)'
    BY <1>1 DEF InStep, Holds, Expected, Pending
  <2>2. InStep(c)
    <3>1. got[c] = 0 /\ resCh[c] = << >>
      BY <1>1 DEF IInv, Contexts
    <3>2. QED
      BY <1>8, <3>1, NothingSent DEF InStep, Expected, Pending
  <2>3. rpcMap'[NoId] # None => resCh'[rpcMap'[NoId]] = << >>
    BY <1>1, <1>3 DEF IInv, Numbered, Contexts, Ids
  <2>4. QED
    BY <1>5, <2>1, <2>2, <2>3 DEF IInv, Numbered
<1>12. Contexts'
  <2>1. \A d \in Calls : call'[d].at = "idle" <=> ctx'[d] = "none"
    BY <1>2, <1>4 DEF IInv, Contexts
  <2>2. \A d \in Calls : call'[d].at = "idle" => got'[d] = 0 /\ resCh'[d] = << >> /\ result'[d] = "none"
    BY <1>1, <1>2 DEF IInv, Contexts
  <2>3. \A d \in expiry' : ctx'[d] # "none"
    BY <1>4 DEF IInv, TypeOK, Contexts
  <2>4. ASSUME NEW i \in 1 .. Len(ctxDoneCh), ctxDoneCh[i] \in Calls
        PROVE  ctx'[ctxDoneCh[i]] \notin {"none", "live"}
    BY <1>1, <1>4, <2>4 DEF IInv, Contexts
  <2>5. QED
    BY <1>1, <2>1, <2>2, <2>3, <2>4 DEF Contexts
<1>13. Singles'
  <2>1. ASSUME NEW d \in Calls \ {c}
        PROVE  /\ IsSingle(d)' => IsSingle(d)
               /\ SingleServer(d) => SingleServer(d)'
               /\ SingleCaller(d) => SingleCaller(d)'
               /\ SingleReasons(d) => SingleReasons(d)'
    BY <1>1, <1>2, <1>4, <1>5 DEF IsSingle, SingleServer, SingleCaller, SingleReasons
  <2>2. SingleServer(c)'
    BY <1>1, <1>8, NothingSent DEF SingleServer, Handler
  <2>3. SingleCaller(c)'
    BY <1>1, <1>2, <1>4, <1>8, NothingSent DEF SingleCaller, Holds, IInv, Transit
  <2>4. SingleReasons(c)'
    BY <1>1, <1>4 DEF SingleReasons, IInv, Contexts
  <2>5. \A d \in Calls \ {c} : call'[d].at = "finalizing" => IsSingle(d)'
    BY <1>2 DEF IInv, Singles, IsSingle
  <2>6. QED
    BY <1>2, <2>1, <2>2, <2>3, <2>4, <2>5 DEF IInv, Singles
<1>14. ResponsesInOrder' /\ LoopSurvives'
  BY <1>1 DEF IInv, ResponsesInOrder, LoopSurvives
<1>15. QED
  BY <1>7, <1>9, <1>10, <1>11, <1>12, <1>13, <1>14 DEF IInv

(* Frames: what a conjunct needs to be left alone.                          *)

LEMMA RequestedFrame ==
  ASSUME IInv, UNCHANGED <<outputCh, server>>,
         \A c \in Calls : /\ call'[c].kind = call[c].kind
                          /\ call'[c].at \in {"idle", "sending"} => call[c].at = call'[c].at
  PROVE  Requested'
<1> USE InvFacts
<1>1. \A c \in Calls : Unanswered(c)' => Unanswered(c)
  BY DEF Unanswered
<1>2. QED
  BY <1>1 DEF IInv, Requested

(* Of a call that is single, the transport, the loop and its own fields.    *)
LEMMA SingleFrame ==
  ASSUME IInv, NEW c \in Calls, IsSingle(c),
         call'[c] = call[c], result'[c] = result[c], got'[c] = got[c], resCh'[c] = resCh[c],
         c \in resOpen' <=> c \in resOpen, ctx'[c] = ctx[c], Waits(c)' => Waits(c),
         UNCHANGED server,
         loop'.at \in {"blocked", "unregister"} => loop' = loop \/ loop'.msg.call # c
  PROVE  SingleServer(c)' /\ SingleCaller(c)' /\ SingleReasons(c)'
<1>1. SingleServer(c) /\ SingleCaller(c) /\ SingleReasons(c)
  BY DEF IInv, Singles
<1>2. SingleServer(c)'
  BY <1>1 DEF SingleServer
<1>3. SingleCaller(c)'
  BY <1>1 DEF SingleCaller
<1>4. SingleReasons(c)'
  BY <1>1 DEF SingleReasons
<1>5. QED
  BY <1>2, <1>3, <1>4

(* What every use of unregisterRpc leaves as it should be.                  *)
LEMMA UnregisterKeeps ==
  ASSUME IInv, NEW id \in Ids, NEW error \in {"none", "timeout"}, NEW self, UnregisterRpc(id, error, self),
         UNCHANGED <<got, inputCh, server>>,
         \A c \in Calls : /\ call'[c].kind = call[c].kind
                          /\ call'[c].at = "idle" <=> call[c].at = "idle",
         \A c \in Calls : Waits(c)' => (Holds(c)' <=> Holds(c)) /\ (Holds(c) => loop'.msg = loop.msg)
  PROVE  Registration' /\ Numbered' /\ ResponsesInOrder'
<1> USE InvFacts
<1>0. TypeOK /\ Registration
  BY DEF IInv
<1>1. Registration'
  <2>1. ASSUME NEW x \in Ids, rpcMap'[x] # None
        PROVE  Id(rpcMap[x])' = x /\ call'[rpcMap'[x]].at # "idle"
    <3>1. rpcMap'[x] = rpcMap[x] /\ rpcMap[x] \in Calls
      BY <1>0, <2>1, UnregisterEffect DEF TypeOK
    <3>2. Id(rpcMap[x]) = x /\ call[rpcMap[x]].at # "idle"
      BY <1>0, <2>1, <3>1 DEF Registration
    <3>3. QED
      BY <3>1, <3>2 DEF Id
  <2>2. \A c \in Calls : Waits(c)' => c \in resOpen'
    BY <1>0, UnregisterEffect DEF Registration
  <2>3. QED
    BY <2>1, <2>2 DEF Registration
<1>2. Numbered'
  <2>1. ASSUME NEW c \in Calls, Waits(c)'
        PROVE  InStep(c)'
    <3>1. Waits(c) /\ resCh'[c] = resCh[c]
      BY <1>0, <2>1, UnregisterEffect
    <3>2. InStep(c)
      BY <3>1 DEF IInv, Numbered
    <3>3. (Holds(c)' <=> Holds(c)) /\ (Holds(c) => loop'.msg = loop.msg)
      BY <2>1
    <3>4. Expected(c)' = Expected(c)
      BY <3>1 DEF Expected
    <3>5. \A lo : Pending(c, lo) => Pending(c, lo)'
      BY DEF Pending
    <3>6. Pending(c, IF Holds(c) THEN Expected(c) + 1 ELSE Expected(c))'
      <4>1. CASE Holds(c)
        BY <3>2, <3>3, <3>4, <3>5, <4>1 DEF InStep
      <4>2. CASE ~Holds(c)
        BY <3>2, <3>3, <3>4, <3>5, <4>2 DEF InStep
      <4>3. QED
        BY <4>1, <4>2
    <3>7. QED
      BY <3>1, <3>2, <3>3, <3>4, <3>6 DEF InStep
  <2>2. ASSUME rpcMap'[NoId] # None
        PROVE  resCh'[rpcMap'[NoId]] = << >>
    <3>1. NoId \in Ids
      BY DEF Ids
    <3>2. id # NoId /\ rpcMap'[NoId] = rpcMap[NoId] /\ rpcMap[NoId] \in Calls
      BY <1>0, <2>2, <3>1, UnregisterEffect DEF TypeOK
    <3>3. id \in Calls
      BY <3>2 DEF Ids
    <3>4. rpcMap[id] # rpcMap[NoId]
      BY <1>0, <3>1, <3>2, <3>3, WaitsIsRegistered
    <3>5. QED
      BY <1>0, <2>2, <3>2, <3>4, UnregisterEffect DEF IInv, Numbered
  <2>3. QED
    BY <2>1, <2>2 DEF Numbered
<1>3. ResponsesInOrder'
  <2> SUFFICES ASSUME NEW c \in Calls, NEW i \in 1 .. Len(resCh'[c])
               PROVE  \/ resCh'[c][i].n = got[c] + i
                      \/ resCh'[c][i].error = "timeout" /\ i = Len(resCh'[c])
    BY DEF ResponsesInOrder
  <2>1. CASE rpcMap[id] # c \/ resCh'[c] = resCh[c]
    <3>1. resCh'[c] = resCh[c]
      BY <1>0, <2>1, UnregisterEffect
    <3>2. QED
      BY <3>1 DEF IInv, ResponsesInOrder
  <2>2. CASE rpcMap[id] = c /\ resCh'[c] # resCh[c]
    <3>0. \/ resCh'[c] = resCh[c] /\ (error = "none" \/ Len(resCh[c]) >= ResCap)
          \/ /\ error # "none"
             /\ Len(resCh'[c]) = Len(resCh[c]) + 1
             /\ \A k \in 1 .. Len(resCh[c]) : resCh'[c][k] = resCh[c][k]
             /\ resCh'[c][Len(resCh[c]) + 1].error = error
      <4>1. TypeOK /\ rpcMap[id] = c /\ UnregisterRpc(id, error, self)
        BY <1>0, <2>2
      <4>2. QED
        BY ONLY <4>1, LastWordEffect, SMT
    <3>1. /\ error = "timeout"
          /\ Len(resCh'[c]) = Len(resCh[c]) + 1
          /\ \A k \in 1 .. Len(resCh[c]) : resCh'[c][k] = resCh[c][k]
          /\ resCh'[c][Len(resCh[c]) + 1].error = error
      BY <2>2, <3>0
    <3>2. \A k \in 1 .. Len(resCh[c]) : resCh[c][k].n = got[c] + k
      <4>1. CASE id = NoId
        <5>1. resCh[c] = << >>
          BY <2>2, <4>1 DEF IInv, Numbered
        <5>2. QED
          BY <5>1
      <4>2. CASE id \in Calls
        <5>1. Waits(c)
          BY <1>0, <2>2, <4>2, WaitsIsRegistered
        <5>2. QED
          BY <5>1 DEF IInv, Numbered, InStep
      <4>3. QED
        BY <4>1, <4>2 DEF Ids
    <3>3. CASE i \in 1 .. Len(resCh[c])
      BY <3>1, <3>2, <3>3
    <3>4. CASE i = Len(resCh[c]) + 1
      BY <3>1, <3>4
    <3>5. QED
      BY <3>1, <3>3, <3>4
  <2>3. QED
    BY <2>1, <2>2
<1>4. QED
  BY <1>1, <1>2, <1>3

-----------------------------------------------------------------------------
(* The caller's steps.                                                      *)

LEMMA SendRequestStep ==
  ASSUME IInv, NEW c \in Calls, SendRequest(c), TypeOK', Cancels'
  PROVE  IInv'
<1> USE InvFacts
<1>1. /\ call[c].at = "sending" /\ outputCh' = Append(outputCh, c)
      /\ UNCHANGED <<got, canceled, rpcMap, expiry, resCh, resOpen, ctxDoneCh, loop, inputCh, server>>
  BY DEF SendRequest
<1>2. /\ call'[c].at \in {"reading", "ended"}
      /\ \A d \in Calls \ {c} : call'[d] = call[d]
      /\ \A d \in Calls : call'[d].kind = call[d].kind
  BY AtEffect DEF SendRequest, Ends, IInv
<1>3. /\ \A d \in Calls \ {c} : ctx'[d] = ctx[d] /\ result'[d] = result[d]
      /\ call[c].kind # "command" => ctx'[c] = ctx[c] /\ result'[c] = result[c]
      /\ ctx'[c] # ctx[c] => ctx[c] = "live" /\ ctx'[c] = "canceled"
  BY DEF SendRequest, Ends, IInv, TypeOK
<1>4. \A d \in Calls : (Waits(d)' <=> Waits(d)) /\ (Holds(d)' <=> Holds(d))
  BY <1>1 DEF Waits, Holds
<1>5. Registration'
  <2>1. \A d \in Calls : Id(d)' = Id(d) /\ (call[d].at # "idle" => call'[d].at # "idle")
    BY <1>2 DEF Id
  <2>2. \A x \in Ids : rpcMap[x] # None => rpcMap[x] \in Calls
    BY DEF IInv, TypeOK
  <2>3. QED
    BY <1>1, <1>4, <2>1, <2>2 DEF IInv, Registration
<1>6. /\ Len(outputCh') = Len(outputCh) + 1 /\ outputCh'[Len(outputCh) + 1] = c
      /\ \A i \in 1 .. Len(outputCh) : outputCh'[i] = outputCh[i] /\ outputCh[i] # c
  BY <1>1 DEF IInv, Requested
<1>7. Requested'
  <2>1. ASSUME NEW d \in Calls, Unanswered(d)'
        PROVE  server'[d] = Handler
    <3>1. CASE d = c
      <4>1. Unanswered(c)
        BY <1>1 DEF Unanswered
      <4>2. QED
        BY <1>1, <3>1, <4>1 DEF IInv, Requested
    <3>2. CASE d # c
      <4>1. \A i \in 1 .. Len(outputCh') : outputCh'[i] = d => i \in 1 .. Len(outputCh) /\ outputCh[i] = d
        BY <1>6, <3>2
      <4>2. Unanswered(d)
        BY <1>2, <2>1, <3>2, <4>1 DEF Unanswered
      <4>3. QED
        BY <1>1, <4>2 DEF IInv, Requested
    <3>3. QED
      BY <3>1, <3>2
  <2>2. \A i \in 1 .. Len(outputCh) : outputCh[i] \in Calls
    OBVIOUS
  <2>3. \A i \in 1 .. Len(outputCh') : call'[outputCh'[i]].at \notin {"idle", "sending"}
    BY <1>2, <1>6, <2>2 DEF IInv, Requested
  <2>4. \A i, j \in 1 .. Len(outputCh') : outputCh'[i] = outputCh'[j] => i = j
    BY <1>6 DEF IInv, Requested
  <2>5. QED
    BY <2>1, <2>3, <2>4 DEF Requested
<1>8. Transit'
  BY <1>1, <1>2, <1>4 DEF IInv, Transit, IsSent
<1>9. Numbered' /\ ResponsesInOrder' /\ LoopSurvives'
  <2>1. \A d \in Calls : InStep(d) => InStep(d)'
    BY <1>1 DEF InStep, Holds, Expected, Pending
  <2>2. QED
    BY <1>1, <1>4, <2>1 DEF IInv, Numbered, ResponsesInOrder, LoopSurvives
<1>10. Contexts'
  <2>1. \A d \in Calls : call'[d].at = "idle" <=> ctx'[d] = "none"
    BY <1>1, <1>2, <1>3 DEF IInv, Contexts
  <2>2. \A d \in Calls : call'[d].at = "idle" => got'[d] = 0 /\ resCh'[d] = << >> /\ result'[d] = "none"
    BY <1>1, <1>2, <1>3 DEF IInv, Contexts
  <2>3. \A d \in Calls : ctx[d] # "none" => ctx'[d] # "none"
    BY <1>3
  <2>4. \A d \in Calls : ctx[d] \notin {"none", "live"} => ctx'[d] \notin {"none", "live"}
    BY <1>3
  <2>5. QED
    BY <1>1, <2>1, <2>2, <2>3, <2>4 DEF IInv, TypeOK, Contexts
<1>11. Singles'
  <2>1. ASSUME NEW d \in Calls, IsSingle(d)'
        PROVE  SingleServer(d)' /\ SingleCaller(d)' /\ SingleReasons(d)'
    <3>1. IsSingle(d) /\ call[d].kind = "single"
      BY <1>1, <1>2, <2>1 DEF IsSingle
    <3>2. CASE d # c
      BY <1>1, <1>2, <1>3, <1>4, <3>1, <3>2, SingleFrame
    <3>3. CASE d = c
      <4>1. SingleServer(c) /\ SingleCaller(c) /\ SingleReasons(c)
        BY <3>1, <3>3 DEF IInv, Singles
      <4>2. call'[c].at = "reading" /\ ctx'[c] = ctx[c] /\ result'[c] = result[c]
        BY <1>3, <3>1, <3>3, AtEffect DEF SendRequest, IInv
      <4>3. ~(loop.at = "unregister" /\ loop.msg.call = c)
        BY <1>1 DEF IInv, Transit
      <4>4. QED
        BY <1>1, <1>4, <3>3, <4>1, <4>2, <4>3 DEF SingleServer, SingleCaller, SingleReasons
    <3>4. QED
      BY <3>2, <3>3
  <2>2. \A d \in Calls : call'[d].at = "finalizing" => IsSingle(d)'
    BY <1>2 DEF IInv, Singles, IsSingle
  <2>3. QED
    BY <2>1, <2>2 DEF Singles
<1>12. QED
  BY <1>5, <1>7, <1>8, <1>9, <1>10, <1>11 DEF IInv

(* What callers and the loop have in common when they close a call: nothing *)
(* happens to the transport, nor to the contexts of other calls.            *)
LEMMA UnregisterContexts ==
  ASSUME IInv, NEW id \in Ids, NEW error \in {"none", "timeout"}, NEW self, UnregisterRpc(id, error, self),
         UNCHANGED <<got, expiry>>,
         \A c \in Calls : call'[c].at = "idle" <=> call[c].at = "idle",
         \A c \in Calls : call[c].at = "idle" => result'[c] = result[c],
         \A i \in 1 .. Len(ctxDoneCh') : \E j \in 1 .. Len(ctxDoneCh) : ctxDoneCh'[i] = ctxDoneCh[j]
  PROVE  Contexts'
<1> USE InvFacts
<1>0. TypeOK /\ Registration /\ Contexts
  BY DEF IInv
<1>1. \A c \in Calls : /\ ctx[c] = "none" <=> ctx'[c] = "none"
                       /\ ctx[c] \notin {"none", "live"} => ctx'[c] \notin {"none", "live"}
  BY <1>0, UnregisterEffect DEF TypeOK
<1>2. \A c \in Calls : call'[c].at = "idle" <=> ctx'[c] = "none"
  BY <1>0, <1>1 DEF Contexts
<1>3. ASSUME NEW c \in Calls, call'[c].at = "idle"
      PROVE  got'[c] = 0 /\ resCh'[c] = << >> /\ result'[c] = "none"
  <2>1. call[c].at = "idle"
    BY <1>3
  <2>2. rpcMap[id] # c
    BY <1>0, <2>1 DEF Registration
  <2>3. resCh'[c] = resCh[c]
    BY <1>0, <2>2, UnregisterEffect
  <2>4. QED
    BY <1>0, <2>1, <2>3 DEF Contexts
<1>4. \A c \in expiry' : ctx'[c] # "none"
  BY <1>0, <1>1 DEF Contexts, TypeOK
<1>5. ASSUME NEW i \in 1 .. Len(ctxDoneCh'), ctxDoneCh'[i] \in Calls
      PROVE  ctx'[ctxDoneCh'[i]] \notin {"none", "live"}
  <2>1. PICK j \in 1 .. Len(ctxDoneCh) : ctxDoneCh'[i] = ctxDoneCh[j]
    OBVIOUS
  <2>2. ctx[ctxDoneCh[j]] \notin {"none", "live"}
    BY <1>0, <1>5, <2>1 DEF Contexts
  <2>3. QED
    BY <1>1, <1>5, <2>1, <2>2
<1>6. QED
  BY <1>2, <1>3, <1>4, <1>5 DEF Contexts

LEMMA TimeoutSendingStep ==
  ASSUME IInv, NEW c \in Calls, TimeoutSending(c), TypeOK', Cancels'
  PROVE  IInv'
<1> USE InvFacts
<1>0. TypeOK /\ Registration
  BY DEF IInv
<1>1. /\ call[c].at = "sending" /\ ctx[c] # "live" /\ Ends(c, "timeout")
      /\ UNCHANGED <<got, canceled, expiry, ctxDoneCh, outputCh, loop, inputCh, server>>
  BY DEF TimeoutSending
<1>2. /\ call'[c].at = "ended"
      /\ \A d \in Calls \ {c} : call'[d] = call[d] /\ result'[d] = result[d]
      /\ \A d \in Calls : call'[d].kind = call[d].kind
      /\ result'[c] = "timeout"
  BY <1>0, <1>1, AtEffect DEF Ends, TypeOK
<1>3. Requested'
  BY <1>1, <1>2, RequestedFrame
<1>4. Unanswered(c)
  BY <1>1 DEF Unanswered
<1>5. \A d \in Calls : Holds(d)' <=> Holds(d)
  BY <1>1 DEF Holds
<1>6. LoopSurvives'
  BY <1>1 DEF IInv, LoopSurvives
<1>7. \A d \in Calls : call'[d].at = "finalizing" => IsSingle(d)'
  BY <1>2 DEF IInv, Singles, IsSingle
<1>8. IsSingle(c) => ctx[c] = "expired"
  BY <1>1 DEF IInv, Singles, SingleReasons
<1>9. CASE Id(c) = NoId
  <2>1. UNCHANGED <<rpcMap, ctx, resCh, resOpen>>
    BY <1>9 DEF TimeoutSending
  <2>2. \A d \in Calls : (Waits(d)' <=> Waits(d)) /\ Id(d)' = Id(d)
    BY <1>2, <2>1 DEF Waits, Id
  <2>3. Registration'
    <3>1. \A x \in Ids : rpcMap[x] # None => rpcMap[x] \in Calls
      BY <1>0 DEF TypeOK
    <3>2. QED
      BY <1>0, <1>1, <1>2, <2>1, <2>2, <3>1 DEF Registration
  <2>4. Transit'
    BY <1>1, <1>2, <2>2 DEF IInv, Transit, IsSent
  <2>5. Numbered' /\ ResponsesInOrder'
    <3>1. \A d \in Calls : InStep(d) => InStep(d)'
      BY <1>1, <2>1 DEF InStep, Holds, Expected, Pending
    <3>2. QED
      BY <1>1, <2>1, <2>2, <3>1 DEF IInv, Numbered, ResponsesInOrder
  <2>6. Contexts'
    BY <1>1, <1>2, <2>1 DEF IInv, Contexts
  <2>7. \A d \in Calls \ {c} : IsSingle(d)' => SingleServer(d)' /\ SingleCaller(d)' /\ SingleReasons(d)'
    <3> TAKE d \in Calls \ {c}
    <3>1. IsSingle(d)' => IsSingle(d)
      BY <1>2 DEF IsSingle
    <3>2. QED
      BY <1>1, <1>2, <2>1, <2>2, <3>1, SingleFrame
  <2>8. ~IsSingle(c)'
    BY <1>2, <1>9 DEF IsSingle, Id
  <2>9. Singles'
    BY <1>7, <2>7, <2>8 DEF Singles
  <2>10. QED
    BY <1>3, <1>6, <2>3, <2>4, <2>5, <2>6, <2>9 DEF IInv
<1>10. CASE Id(c) # NoId
  <2>1. UnregisterRpc(c, "none", {c})
    BY <1>10 DEF TimeoutSending
  <2>2. Registration' /\ Numbered' /\ ResponsesInOrder'
    BY <1>1, <1>2, <1>5, <2>1, UnregisterKeeps
  <2>3. Contexts'
    <3>1. \A i \in 1 .. Len(ctxDoneCh') : \E j \in 1 .. Len(ctxDoneCh) : ctxDoneCh'[i] = ctxDoneCh[j]
      BY <1>1
    <3>2. QED
      BY <1>1, <1>2, <2>1, <3>1, UnregisterContexts
  <2>4. \A d \in Calls \ {c} : Waits(d)' <=> Waits(d)
    BY <1>0, <2>1, UnregisterEffect
  <2>5. Transit'
    <3>1. loop.at \in {"sending", "blocked"} => loop.msg.call \in Calls \ {c}
      BY <1>4, NothingSent DEF Holds
    <3>2. QED
      BY <1>1, <1>2, <2>4, <3>1 DEF IInv, Transit, IsSent
  <2>6. \A d \in Calls \ {c} : IsSingle(d)' => SingleServer(d)' /\ SingleCaller(d)' /\ SingleReasons(d)'
    <3> TAKE d \in Calls \ {c}
    <3>1. IsSingle(d)' => IsSingle(d)
      BY <1>2 DEF IsSingle
    <3>2. rpcMap[c] # d
      BY <1>0, WaitsIsRegistered
    <3>3. resCh'[d] = resCh[d] /\ (d \in resOpen' <=> d \in resOpen) /\ ctx'[d] = ctx[d]
      BY <1>0, <2>1, <3>2, UnregisterEffect
    <3>4. QED
      BY <1>1, <1>2, <2>4, <3>1, <3>3, SingleFrame
  <2>7. IsSingle(c) => SingleServer(c)' /\ SingleCaller(c)' /\ SingleReasons(c)'
    <3> SUFFICES ASSUME IsSingle(c) PROVE SingleServer(c)' /\ SingleCaller(c)' /\ SingleReasons(c)'
      OBVIOUS
    <3>1. SingleServer(c) /\ SingleCaller(c) /\ SingleReasons(c)
      BY DEF IInv, Singles
    <3>2. ~Waits(c)' /\ ctx'[c] = "expired"
      BY <1>0, <1>8, <2>1, UnregisterEffect
    <3>3. QED
      BY <1>1, <1>2, <3>1, <3>2 DEF SingleServer, SingleCaller, SingleReasons
  <2>8. IsSingle(c)' => IsSingle(c)
    BY <1>1, <1>2 DEF IsSingle
  <2>9. Singles'
    BY <1>7, <2>6, <2>7, <2>8 DEF Singles
  <2>10. QED
    BY <1>3, <1>6, <2>2, <2>3, <2>5, <2>9 DEF IInv
<1>11. QED
  BY <1>9, <1>10

LEMMA NextResponseStep ==
  ASSUME IInv, NEW c \in Calls, NextResponse(c), TypeOK', Cancels'
  PROVE  IInv'
<1> USE InvFacts
<1> DEFINE m == Head(resCh[c])
<1>0. TypeOK /\ Registration
  BY DEF IInv
<1>1. /\ call[c].at \in {"reading", "blocked"} /\ resCh[c] # << >> /\ At(c, AfterReading(c, m))
      /\ UNCHANGED <<canceled, rpcMap, ctx, expiry, resOpen, ctxDoneCh, outputCh, loop, inputCh, server>>
  BY DEF NextResponse, Reads
<1>2. /\ call'[c].at = AfterReading(c, m)
      /\ \A d \in Calls \ {c} : call'[d] = call[d]
      /\ \A d \in Calls : call'[d].kind = call[d].kind
  BY <1>0, <1>1, AtEffect
<1>3. call'[c].at \in {"finalizing", "ended", "reading"} /\ (call[c].kind = "single" => call'[c].at = "finalizing")
      /\ (call'[c].at = "finalizing" => call[c].kind = "single")
  BY <1>2 DEF AfterReading
<1>4. /\ \A d \in Calls \ {c} : resCh'[d] = resCh[d] /\ got'[d] = got[d] /\ result'[d] = result[d]
      /\ resCh'[c] = Tail(resCh[c])
      /\ got'[c] = IF m.n = 0 THEN got[c] ELSE m.n
      /\ result'[c] = IF m.error = "none" THEN "answer" ELSE m.error
  BY <1>0 DEF NextResponse, TypeOK
<1>5. /\ m = resCh[c][1] /\ Len(resCh[c]) >= 1
      /\ resCh'[c] \in Seq(Messages) /\ Len(resCh'[c]) = Len(resCh[c]) - 1
      /\ \A i \in 1 .. Len(resCh'[c]) : resCh'[c][i] = resCh[c][i + 1]
  BY <1>1, <1>4
<1> HIDE DEF m
<1>6. \A d \in Calls : (Waits(d)' <=> Waits(d)) /\ (Holds(d)' <=> Holds(d)) /\ Id(d)' = Id(d)
  BY <1>1, <1>2 DEF Waits, Holds, Id
<1>7. Registration'
  <2>1. \A x \in Ids : rpcMap[x] # None => rpcMap[x] \in Calls
    BY <1>0 DEF TypeOK
  <2>2. \A d \in Calls : call[d].at # "idle" => call'[d].at # "idle"
    BY <1>2, <1>3
  <2>3. QED
    BY <1>0, <1>1, <1>6, <2>1, <2>2 DEF Registration
<1>8. Requested'
  BY <1>1, <1>2, <1>3, RequestedFrame
<1>9. Transit' /\ LoopSurvives'
  <2>1. \A d \in Calls : call[d].at \notin {"idle", "sending"} => call'[d].at \notin {"idle", "sending"}
    BY <1>2, <1>3
  <2>2. QED
    BY <1>1, <1>6, <2>1 DEF IInv, Transit, IsSent, LoopSurvives
<1>10. Numbered'
  <2>1. ASSUME NEW d \in Calls, Waits(d)'
        PROVE  InStep(d)'
    <3>1. InStep(d)
      BY <1>6, <2>1 DEF IInv, Numbered
    <3>2. Expected(d)' = Expected(d) /\ (\A i \in 1 .. Len(resCh'[d]) : resCh'[d][i].n = got'[d] + i /\ resCh'[d][i].error # "timeout")
      <4>1. CASE d = c
        <5>1. m.n = got[c] + 1
          BY <1>5, <3>1, <4>1 DEF InStep
        <5>2. got'[c] = got[c] + 1
          BY <1>4, <5>1
        <5>3. \A i \in 1 .. Len(resCh'[c]) : i + 1 \in 1 .. Len(resCh[c])
          BY <1>5
        <5>4. Expected(c)' = Expected(c)
          BY <1>5, <5>2 DEF Expected
        <5>5. ASSUME NEW i \in 1 .. Len(resCh'[c])
              PROVE  resCh'[c][i].n = got'[c] + i /\ resCh'[c][i].error # "timeout"
          <6>1. resCh[c][i + 1].n = got[c] + (i + 1) /\ resCh[c][i + 1].error # "timeout"
            BY <3>1, <4>1, <5>3 DEF InStep
          <6>2. resCh'[c][i] = resCh[c][i + 1]
            BY <1>5
          <6>3. got[c] + (i + 1) = got'[c] + i
            BY <5>2
          <6>4. QED
            BY <6>1, <6>2, <6>3
        <5>6. QED
          BY <4>1, <5>4, <5>5
      <4>2. CASE d # c
        BY <1>4, <3>1, <4>2 DEF InStep, Expected
      <4>3. QED
        BY <4>1, <4>2
    <3>3. \A lo : Pending(d, lo) => Pending(d, lo)'
      BY <1>1 DEF Pending
    <3>4. Pending(d, IF Holds(d) THEN Expected(d) + 1 ELSE Expected(d))'
      BY <1>6, <3>1, <3>2, <3>3 DEF InStep
    <3>5. QED
      BY <1>1, <1>6, <3>1, <3>2, <3>4 DEF InStep
  <2>2. rpcMap'[NoId] # None => resCh'[rpcMap'[NoId]] = << >>
    <3>1. NoId \in Ids /\ (rpcMap[NoId] # None => rpcMap[NoId] \in Calls)
      BY <1>0 DEF Ids, TypeOK
    <3>2. QED
      BY <1>1, <1>4, <3>1 DEF IInv, Numbered
  <2>3. QED
    BY <2>1, <2>2 DEF Numbered
<1>11. Contexts'
  <2>1. \A d \in Calls : call'[d].at = "idle" <=> ctx'[d] = "none"
    BY <1>0, <1>1, <1>2, <1>3 DEF IInv, Contexts
  <2>2. \A d \in Calls : call'[d].at = "idle" => got'[d] = 0 /\ resCh'[d] = << >> /\ result'[d] = "none"
    BY <1>2, <1>3, <1>4 DEF IInv, Contexts
  <2>3. QED
    BY <1>1, <2>1, <2>2 DEF IInv, Contexts
<1>12. Singles'
  <2>1. ASSUME NEW d \in Calls, IsSingle(d)'
        PROVE  SingleServer(d)' /\ SingleCaller(d)' /\ SingleReasons(d)'
    <3>1. IsSingle(d)
      BY <1>1, <1>2, <2>1 DEF IsSingle
    <3>2. CASE d # c
      BY <1>1, <1>2, <1>4, <1>6, <3>1, <3>2, SingleFrame
    <3>3. CASE d = c
      <4>1. SingleServer(c) /\ SingleCaller(c) /\ SingleReasons(c)
        BY <3>1, <3>3 DEF IInv, Singles
      <4>2. call'[c].at = "finalizing"
        BY <1>3, <3>1, <3>3 DEF IsSingle
      <4>3. Waits(c) => got'[c] >= 1
        <5>1. Waits(c) => m.n = got[c] + 1
          BY <1>5 DEF IInv, Numbered, InStep
        <5>2. QED
          BY <1>4, <5>1
      <4>4. \A i \in 1 .. Len(resCh'[c]) : resCh'[c][i].error = "timeout" => ctx[c] = "expired"
        <5>1. \A i \in 1 .. Len(resCh'[c]) : i + 1 \in 1 .. Len(resCh[c])
          BY <1>5
        <5>2. \A i \in 1 .. Len(resCh'[c]) : resCh'[c][i] = resCh[c][i + 1]
          BY <1>5
        <5>3. \A j \in 1 .. Len(resCh[c]) : resCh[c][j].error = "timeout" => ctx[c] = "expired"
          BY <4>1 DEF SingleReasons
        <5>4. QED
          BY <5>1, <5>2, <5>3
      <4>5. result'[c] # "closed" /\ (result'[c] = "timeout" => ctx[c] = "expired")
        <5>1. 1 \in 1 .. Len(resCh[c])
          BY <1>5
        <5>2. m.error \in {"none", "error", "timeout"}
          <6>1. m \in Messages
            BY <1>5, <5>1
          <6>2. QED
            BY <6>1 DEF Messages
        <5>3. m.error = "timeout" => ctx[c] = "expired"
          BY <1>5, <4>1, <5>1 DEF SingleReasons
        <5>4. QED
          BY <1>4, <5>2, <5>3
      <4>6. QED
        BY <1>1, <1>6, <3>3, <4>1, <4>2, <4>3, <4>4, <4>5 DEF SingleServer, SingleCaller, SingleReasons
    <3>4. QED
      BY <3>2, <3>3
  <2>2. \A d \in Calls : call'[d].at = "finalizing" => IsSingle(d)'
    BY <1>2, <1>3 DEF IInv, Singles, IsSingle
  <2>3. QED
    BY <2>1, <2>2 DEF Singles
<1>13. ResponsesInOrder'
  <2> SUFFICES ASSUME NEW d \in Calls, NEW i \in 1 .. Len(resCh'[d])
               PROVE  \/ resCh'[d][i].n = got'[d] + i
                      \/ resCh'[d][i].error = "timeout" /\ i = Len(resCh'[d])
    BY DEF ResponsesInOrder
  <2>1. CASE d # c
    <3>1. resCh'[d] = resCh[d] /\ got'[d] = got[d]
      BY <1>4, <2>1
    <3>2. QED
      BY <3>1 DEF IInv, ResponsesInOrder
  <2>2. CASE d = c
    <3>1. Len(resCh[c]) >= 2 /\ i + 1 \in 1 .. Len(resCh[c]) /\ 1 \in 1 .. Len(resCh[c])
      BY <1>5, <2>2
    <3>2. m.n = got[c] + 1
      BY <1>5, <3>1 DEF IInv, ResponsesInOrder
    <3>3. got'[c] = got[c] + 1
      BY <1>4, <3>2
    <3>4. \/ resCh[c][i + 1].n = got[c] + (i + 1)
          \/ resCh[c][i + 1].error = "timeout" /\ i + 1 = Len(resCh[c])
      BY <3>1 DEF IInv, ResponsesInOrder
    <3>5. resCh'[c][i] = resCh[c][i + 1]
      BY <1>5, <2>2
    <3>6. got[c] + (i + 1) = got'[c] + i /\ (i + 1 = Len(resCh[c]) => i = Len(resCh'[c]))
      <4>1. i \in Nat /\ got[c] \in Nat /\ Len(resCh[c]) \in Nat
        BY <3>1
      <4>2. Len(resCh'[c]) = Len(resCh[c]) - 1
        BY <1>5
      <4>3. QED
        BY ONLY <3>3, <4>1, <4>2, SMT
    <3>7. \/ resCh'[c][i].n = got'[c] + i
          \/ resCh'[c][i].error = "timeout" /\ i = Len(resCh'[c])
      BY <3>4, <3>5, <3>6, Zenon
    <3>8. QED
      BY <2>2, <3>7, Zenon
  <2>3. QED
    BY <2>1, <2>2
<1>14. QED
  BY <1>7, <1>8, <1>9, <1>10, <1>11, <1>12, <1>13 DEF IInv

(* ResponseDone and ResponseChannelClosed; the second never happens to a    *)
(* call that wants one response.                                            *)
LEMMA NoResponseStep ==
  ASSUME IInv, NEW c \in Calls, ResponseDone(c) \/ ResponseChannelClosed(c), TypeOK', Cancels'
  PROVE  IInv'
<1> USE InvFacts
<1>0. TypeOK /\ Registration
  BY DEF IInv
<1>1. ~IsSingle(c)
  <2> SUFFICES ASSUME IsSingle(c) PROVE FALSE
    OBVIOUS
  <2>1. SingleCaller(c)
    BY DEF IInv, Singles
  <2>2. ResponseChannelClosed(c)
    BY DEF ResponseDone, IsSingle
  <2>3. QED
    BY <2>1, <2>2 DEF ResponseChannelClosed, SingleCaller
<1>2. /\ call[c].at \in {"reading", "blocked"}
      /\ UNCHANGED <<got, canceled, rpcMap, ctx, expiry, resCh, resOpen, ctxDoneCh, outputCh, loop, inputCh, server>>
  BY DEF ResponseDone, ResponseChannelClosed
<1>3. call[c].kind # "single"
  BY <1>1, <1>2 DEF IsSingle
<1>4. /\ call'[c].at \in {"blocked", "ended"}
      /\ \A d \in Calls \ {c} : call'[d] = call[d] /\ result'[d] = result[d]
      /\ \A d \in Calls : call'[d].kind = call[d].kind
  <2>1. At(c, "blocked") \/ At(c, "ended")
    BY <1>3 DEF ResponseDone, ResponseChannelClosed, Ends
  <2>2. \A d \in Calls \ {c} : result'[d] = result[d]
    BY <1>0 DEF ResponseDone, ResponseChannelClosed, Ends, TypeOK
  <2>3. QED
    BY <1>0, <2>1, <2>2, AtEffect
<1>5. \A d \in Calls : (Waits(d)' <=> Waits(d)) /\ (Holds(d)' <=> Holds(d)) /\ Id(d)' = Id(d)
  BY <1>2, <1>4 DEF Waits, Holds, Id
<1>6. Registration'
  <2>1. \A x \in Ids : rpcMap[x] # None => rpcMap[x] \in Calls
    BY <1>0 DEF TypeOK
  <2>2. \A d \in Calls : call[d].at # "idle" => call'[d].at # "idle"
    BY <1>4
  <2>3. QED
    BY <1>0, <1>2, <1>5, <2>1, <2>2 DEF Registration
<1>7. Requested'
  BY <1>2, <1>4, RequestedFrame
<1>8. Transit' /\ LoopSurvives'
  <2>1. \A d \in Calls : call[d].at \notin {"idle", "sending"} => call'[d].at \notin {"idle", "sending"}
    BY <1>4
  <2>2. QED
    BY <1>2, <1>5, <2>1 DEF IInv, Transit, IsSent, LoopSurvives
<1>9. Numbered' /\ ResponsesInOrder'
  <2>1. \A d \in Calls : InStep(d) => InStep(d)'
    BY <1>2 DEF InStep, Holds, Expected, Pending
  <2>2. QED
    BY <1>2, <1>5, <2>1 DEF IInv, Numbered, ResponsesInOrder
<1>10. Contexts'
  BY <1>2, <1>4 DEF IInv, Contexts
<1>11. Singles'
  <2>1. ASSUME NEW d \in Calls, IsSingle(d)'
        PROVE  SingleServer(d)' /\ SingleCaller(d)' /\ SingleReasons(d)'
    <3>1. IsSingle(d) /\ d # c
      BY <1>1, <1>2, <1>4, <2>1 DEF IsSingle
    <3>2. QED
      BY <1>2, <1>4, <1>5, <3>1, SingleFrame
  <2>2. \A d \in Calls : call'[d].at = "finalizing" => IsSingle(d)'
    BY <1>4 DEF IInv, Singles, IsSingle
  <2>3. QED
    BY <2>1, <2>2 DEF Singles
<1>12. QED
  BY <1>6, <1>7, <1>8, <1>9, <1>10, <1>11 DEF IInv

(* The caller closes its own call: it has read the response, so the loop    *)
(* does not hold another.                                                   *)
LEMMA FinalizeStep ==
  ASSUME IInv, NEW c \in Calls, Finalize(c), TypeOK', Cancels'
  PROVE  IInv'
<1> USE InvFacts
<1>0. TypeOK /\ Registration
  BY DEF IInv
<1>1. /\ call[c].at = "finalizing" /\ At(c, "ended") /\ UnregisterRpc(c, "none", {c})
      /\ UNCHANGED <<result, got, canceled, expiry, ctxDoneCh, outputCh, loop, inputCh, server>>
  BY DEF Finalize
<1>2. /\ call'[c].at = "ended"
      /\ \A d \in Calls \ {c} : call'[d] = call[d]
      /\ \A d \in Calls : call'[d].kind = call[d].kind
  BY <1>0, <1>1, AtEffect
<1>3. IsSingle(c)
  BY <1>1 DEF IInv, Singles
<1>4. SingleServer(c) /\ SingleCaller(c) /\ SingleReasons(c)
  BY <1>3 DEF IInv, Singles
<1>5. ~Holds(c)
  <2> SUFFICES ASSUME Holds(c) PROVE FALSE
    OBVIOUS
  <2>1. Waits(c) /\ IsSent(loop.msg) /\ loop.msg.call = c
    BY <1>3 DEF IInv, Transit, Holds, Cancels, IsSingle
  <2>2. loop.msg.n = Expected(c)
    BY <2>1 DEF IInv, Numbered, InStep
  <2>3. loop.msg.n <= 1
    BY <1>4, <2>1 DEF IsSent, SingleServer
  <2>4. got[c] >= 1
    BY <1>1, <1>4, <2>1 DEF SingleCaller
  <2>5. QED
    BY <2>2, <2>3, <2>4 DEF Expected
<1>6. \A d \in Calls : Holds(d)' <=> Holds(d)
  BY <1>1 DEF Holds
<1>7. Registration' /\ Numbered' /\ ResponsesInOrder'
  BY <1>1, <1>2, <1>6, UnregisterKeeps
<1>8. Requested' /\ LoopSurvives'
  BY <1>1, <1>2, RequestedFrame DEF IInv, LoopSurvives
<1>9. \A d \in Calls \ {c} : Waits(d)' <=> Waits(d)
  BY <1>0, <1>1, UnregisterEffect
<1>10. Transit'
  <2>1. loop.at \in {"sending", "blocked"} => loop.msg.call \in Calls \ {c}
    BY <1>5 DEF Holds
  <2>2. QED
    BY <1>1, <1>2, <1>9, <2>1 DEF IInv, Transit, IsSent
<1>11. Contexts'
  <2>1. \A i \in 1 .. Len(ctxDoneCh') : \E j \in 1 .. Len(ctxDoneCh) : ctxDoneCh'[i] = ctxDoneCh[j]
    BY <1>1
  <2>2. QED
    BY <1>1, <1>2, <2>1, UnregisterContexts
<1>12. Singles'
  <2>1. \A d \in Calls \ {c} : IsSingle(d)' => SingleServer(d)' /\ SingleCaller(d)' /\ SingleReasons(d)'
    <3> TAKE d \in Calls \ {c}
    <3>1. IsSingle(d)' => IsSingle(d)
      BY <1>2 DEF IsSingle
    <3>2. rpcMap[c] # d
      BY <1>0, WaitsIsRegistered
    <3>3. resCh'[d] = resCh[d] /\ (d \in resOpen' <=> d \in resOpen) /\ ctx'[d] = ctx[d]
      BY <1>0, <1>1, <3>2, UnregisterEffect
    <3>4. QED
      BY <1>1, <1>2, <1>9, <3>1, <3>3, SingleFrame
  <2>2. SingleServer(c)' /\ SingleCaller(c)' /\ SingleReasons(c)'
    <3>1. ~Waits(c)' /\ (ctx[c] = "expired" => ctx'[c] = "expired")
      BY <1>0, <1>1, UnregisterEffect
    <3>2. resCh'[c] = resCh[c]
      BY <1>1 DEF UnregisterRpc, LastWord, TypeOK, IInv
    <3>3. QED
      BY <1>1, <1>2, <1>4, <3>1, <3>2 DEF SingleServer, SingleCaller, SingleReasons
  <2>3. \A d \in Calls : call'[d].at = "finalizing" => IsSingle(d)'
    BY <1>2 DEF IInv, Singles, IsSingle
  <2>4. QED
    BY <2>1, <2>2, <2>3 DEF Singles
<1>13. QED
  BY <1>7, <1>8, <1>10, <1>11, <1>12 DEF IInv

(* Time, and the goroutine that tells the loop of it.                       *)
LEMMA TimeStep ==
  ASSUME IInv, NEW c \in Calls, TimePasses(c) \/ RetrySendTimeout(c), TypeOK', Cancels'
  PROVE  IInv'
<1> USE InvFacts DEF callVars
<1>0. TypeOK
  BY DEF IInv
<1>1. /\ UNCHANGED <<call, result, got, canceled, rpcMap, resCh, resOpen, outputCh, loop, inputCh, server>>
      /\ expiry' \subseteq expiry
      /\ \A d \in Calls : ctx'[d] = ctx[d] \/ (ctx[d] = "live" /\ ctx'[d] = "expired")
  <2>1. CASE TimePasses(c)
    <3>1. ctx[c] = "live" /\ ctx' = [ctx EXCEPT ![c] = "expired"]
      BY <2>1 DEF TimePasses
    <3>2. \A d \in Calls : ctx'[d] = ctx[d] \/ (ctx[d] = "live" /\ ctx'[d] = "expired")
      BY <1>0, <3>1 DEF TypeOK
    <3>3. QED
      BY <2>1, <3>2 DEF TimePasses
  <2>2. CASE RetrySendTimeout(c)
    <3>1. ctx' = ctx /\ expiry' = expiry \ {c}
      BY <2>2 DEF RetrySendTimeout
    <3>2. QED
      BY <2>2, <3>1 DEF RetrySendTimeout
  <2>3. QED
    BY <2>1, <2>2
<1>2. \A d \in Calls : (Waits(d)' <=> Waits(d)) /\ (Holds(d)' <=> Holds(d)) /\ Id(d)' = Id(d)
  BY <1>1 DEF Waits, Holds, Id
<1>3. Registration'
  <2>1. \A x \in Ids : rpcMap[x] # None => rpcMap[x] \in Calls
    BY <1>0 DEF TypeOK
  <2>2. QED
    BY <1>1, <1>2, <2>1 DEF IInv, Registration
<1>4. Requested'
  BY <1>1, RequestedFrame
<1>5. Transit' /\ LoopSurvives' /\ ResponsesInOrder'
  BY <1>1, <1>2 DEF IInv, Transit, IsSent, LoopSurvives, ResponsesInOrder
<1>6. Numbered'
  <2>1. \A d \in Calls : InStep(d) => InStep(d)'
    BY <1>1 DEF InStep, Holds, Expected, Pending
  <2>2. QED
    BY <1>1, <1>2, <2>1 DEF IInv, Numbered
<1>7. Contexts'
  <2>1. \A d \in Calls : /\ ctx[d] = "none" <=> ctx'[d] = "none"
                         /\ ctx[d] \notin {"none", "live"} => ctx'[d] \notin {"none", "live"}
    BY <1>1
  <2>2. ASSUME NEW i \in 1 .. Len(ctxDoneCh'), ctxDoneCh'[i] \in Calls
        PROVE  ctx'[ctxDoneCh'[i]] \notin {"none", "live"}
    <3>1. CASE i \in 1 .. Len(ctxDoneCh) /\ ctxDoneCh'[i] = ctxDoneCh[i]
      BY <2>1, <2>2, <3>1 DEF IInv, Contexts
    <3>2. CASE RetrySendTimeout(c) /\ ctxDoneCh'[i] = Id(c)
      <4>1. ctxDoneCh'[i] = c
        BY <2>2, <3>2, RpcCallsAssumption DEF Id
      <4>2. QED
        BY <2>1, <3>2, <4>1 DEF RetrySendTimeout, IInv, Contexts
    <3>3. CASE TimePasses(c)
      BY <3>1, <3>3 DEF TimePasses
    <3>4. CASE RetrySendTimeout(c)
      <4>1. ctxDoneCh \in Seq(Ids) /\ Id(c) \in Ids /\ ctxDoneCh' = Append(ctxDoneCh, Id(c))
        BY <1>0, <3>4 DEF RetrySendTimeout, TypeOK, Id, Ids
      <4>2. ctxDoneCh'[i] = IF i \in 1 .. Len(ctxDoneCh) THEN ctxDoneCh[i] ELSE Id(c)
        BY <4>1
      <4>3. QED
        BY <3>1, <3>2, <3>4, <4>2
    <3>5. QED
      BY <3>3, <3>4
  <2>3. QED
    BY <1>0, <1>1, <2>1, <2>2 DEF IInv, Contexts, TypeOK
<1>8. Singles'
  <2>1. ASSUME NEW d \in Calls, IsSingle(d)
        PROVE  SingleServer(d)' /\ SingleCaller(d)' /\ SingleReasons(d)'
    <3>1. SingleServer(d) /\ SingleCaller(d) /\ SingleReasons(d)
      BY <2>1 DEF IInv, Singles
    <3>2. ctx[d] \in {"live", "expired"} => ctx'[d] \in {"live", "expired"}
      BY <1>1
    <3>3. ctx[d] = "expired" => ctx'[d] = "expired"
      BY <1>1
    <3>4. QED
      BY <1>1, <1>2, <3>1, <3>2, <3>3 DEF SingleServer, SingleCaller, SingleReasons
  <2>2. \A d \in Calls : IsSingle(d)' <=> IsSingle(d)
    BY <1>1 DEF IsSingle
  <2>3. QED
    BY <1>1, <2>1, <2>2 DEF IInv, Singles
<1>9. QED
  BY <1>3, <1>4, <1>5, <1>6, <1>7, <1>8 DEF IInv

-----------------------------------------------------------------------------
(* The server's steps.                                                      *)

LEMMA HandleRequestStep ==
  ASSUME IInv, HandleRequest, TypeOK', Cancels'
  PROVE  IInv'
<1> USE InvFacts DEF callVars
<1> DEFINE c == Head(outputCh)
<1>1. /\ outputCh # << >> /\ outputCh' = Tail(outputCh)
      /\ UNCHANGED <<call, result, got, canceled, rpcMap, ctx, expiry, resCh, resOpen, ctxDoneCh, loop, inputCh>>
  BY DEF HandleRequest
<1>2. /\ c \in Calls /\ c = outputCh[1] /\ Len(outputCh) >= 1
      /\ Len(outputCh') = Len(outputCh) - 1
      /\ \A i \in 1 .. Len(outputCh') : outputCh'[i] = outputCh[i + 1] /\ i + 1 \in 1 .. Len(outputCh)
  BY <1>1
<1>3. /\ \A d \in Calls \ {c} : server'[d] = server[d]
      /\ call[c].kind = "command" => server'[c] = server[c]
      /\ server'[c].sent = server[c].sent
      /\ call[c].kind = "single" => server'[c].left = 0 /\ server'[c].waiter = "none" /\ server'[c].producer # "data"
                                    /\ server'[c].sent = 0
  <2>1. server[c] = Handler
    BY <1>2 DEF IInv, Requested, Unanswered
  <2>2. QED
    BY <1>2, <2>1 DEF HandleRequest, IInv, TypeOK, Handler
<1> HIDE DEF c
<1>4. \A d \in Calls : server'[d].sent = server[d].sent
  BY <1>3
<1>5. \A d \in Calls : (Waits(d)' <=> Waits(d)) /\ (Holds(d)' <=> Holds(d)) /\ Id(d)' = Id(d)
  BY <1>1 DEF Waits, Holds, Id
<1>6. Registration'
  <2>1. \A x \in Ids : rpcMap[x] # None => rpcMap[x] \in Calls
    BY DEF IInv, TypeOK
  <2>2. QED
    BY <1>1, <1>5, <2>1 DEF IInv, Registration
<1>7. Requested'
  <2>1. ASSUME NEW d \in Calls, Unanswered(d)'
        PROVE  server'[d] = Handler
    <3>1. Unanswered(d)
      BY <1>1, <1>2, <2>1 DEF Unanswered
    <3>2. d # c \/ call[c].kind = "command"
      <4>1. c \notin {d} \/ call[c].at \notin {"idle", "sending"}
        BY <1>2 DEF IInv, Requested
      <4>2. ~(\E i \in 1 .. Len(outputCh') : outputCh'[i] = c)
        <5> SUFFICES ASSUME NEW i \in 1 .. Len(outputCh'), outputCh'[i] = c
                     PROVE  FALSE
          OBVIOUS
        <5>1. outputCh[i + 1] = outputCh[1] /\ i + 1 \in 1 .. Len(outputCh) /\ 1 \in 1 .. Len(outputCh)
          BY <1>2
        <5>2. i + 1 = 1
          BY <5>1 DEF IInv, Requested
        <5>3. QED
          BY <5>2
      <4>3. QED
        BY <1>1, <2>1, <4>1, <4>2 DEF Unanswered
    <3>3. QED
      BY <1>3, <3>1, <3>2 DEF IInv, Requested
  <2>2. \A i \in 1 .. Len(outputCh') : call'[outputCh'[i]].at \notin {"idle", "sending"}
    BY <1>1, <1>2 DEF IInv, Requested
  <2>3. ASSUME NEW i \in 1 .. Len(outputCh'), NEW j \in 1 .. Len(outputCh'), outputCh'[i] = outputCh'[j]
        PROVE  i = j
    <3>1. i + 1 = j + 1
      BY <1>2, <2>3 DEF IInv, Requested
    <3>2. QED
      BY <3>1
  <2>4. QED
    BY <2>1, <2>2, <2>3 DEF Requested
<1>8. Transit'
  <2>1. \A m \in Messages : IsSent(m) => IsSent(m)'
    BY <1>4 DEF IsSent, Messages
  <2>2. QED
    BY <1>1, <1>5, <2>1 DEF IInv, Transit
<1>9. Numbered'
  <2>1. \A d \in Calls : InStep(d) => InStep(d)'
    BY <1>1, <1>4 DEF InStep, Holds, Expected, Pending
  <2>2. QED
    BY <1>1, <1>5, <2>1 DEF IInv, Numbered
<1>10. Contexts' /\ ResponsesInOrder' /\ LoopSurvives'
  BY <1>1 DEF IInv, Contexts, ResponsesInOrder, LoopSurvives
<1>11. Singles'
  <2>1. ASSUME NEW d \in Calls, IsSingle(d)
        PROVE  SingleServer(d)' /\ SingleCaller(d)' /\ SingleReasons(d)'
    <3>1. SingleServer(d) /\ SingleCaller(d) /\ SingleReasons(d)
      BY <2>1 DEF IInv, Singles
    <3>2. SingleServer(d)'
      BY <1>3, <2>1, <3>1 DEF SingleServer, IsSingle
    <3>3. QED
      BY <1>1, <1>5, <3>1, <3>2 DEF SingleCaller, SingleReasons
  <2>2. \A d \in Calls : IsSingle(d)' <=> IsSingle(d)
    BY <1>1 DEF IsSingle
  <2>3. QED
    BY <1>1, <2>1, <2>2 DEF IInv, Singles
<1>12. QED
  BY <1>6, <1>7, <1>8, <1>9, <1>10, <1>11 DEF IInv

(* A handler that is at work: nothing changes but itself, and, when its     *)
(* response goes out, the transport.                                        *)
LEMMA ServeFrame ==
  ASSUME IInv, NEW c \in Calls, UNCHANGED clientVars,
         \A d \in Calls \ {c} : server'[d] = server[d],
         server[c] # Handler,
         Transit', \A d \in Calls : Waits(d) => Pending(d, IF Holds(d) THEN Expected(d) + 1 ELSE Expected(d))',
         IsSingle(c) => SingleServer(c)', TypeOK', Cancels'
  PROVE  IInv'
<1> USE InvFacts DEF clientVars, callVars
<1>1. \A d \in Calls : (Waits(d)' <=> Waits(d)) /\ (Holds(d)' <=> Holds(d)) /\ Id(d)' = Id(d)
  BY DEF Waits, Holds, Id
<1>2. Registration'
  <2>1. \A x \in Ids : rpcMap[x] # None => rpcMap[x] \in Calls
    BY DEF IInv, TypeOK
  <2>2. QED
    BY <1>1, <2>1 DEF IInv, Registration
<1>3. Requested'
  <2>1. \A d \in Calls : Unanswered(d)' <=> Unanswered(d)
    BY DEF Unanswered
  <2>2. ~Unanswered(c)
    BY DEF IInv, Requested
  <2>3. QED
    BY <2>1, <2>2 DEF IInv, Requested
<1>4. Numbered'
  <2>1. \A d \in Calls : Waits(d) => InStep(d)'
    BY <1>1 DEF IInv, Numbered, InStep, Expected
  <2>2. QED
    BY <1>1, <2>1 DEF IInv, Numbered
<1>5. Contexts' /\ ResponsesInOrder' /\ LoopSurvives'
  BY DEF IInv, Contexts, ResponsesInOrder, LoopSurvives
<1>6. Singles'
  <2>1. ASSUME NEW d \in Calls, IsSingle(d)
        PROVE  SingleServer(d)' /\ SingleCaller(d)' /\ SingleReasons(d)'
    <3>1. SingleServer(d) /\ SingleCaller(d) /\ SingleReasons(d)
      BY <2>1 DEF IInv, Singles
    <3>2. SingleServer(d)'
      BY <2>1, <3>1 DEF SingleServer
    <3>3. QED
      BY <1>1, <3>1, <3>2 DEF SingleCaller, SingleReasons
  <2>2. \A d \in Calls : IsSingle(d)' <=> IsSingle(d)
    BY DEF IsSingle
  <2>3. QED
    BY <2>1, <2>2 DEF IInv, Singles
<1>7. QED
  BY <1>2, <1>3, <1>4, <1>5, <1>6 DEF IInv

LEMMA ServeStep ==
  ASSUME IInv, NEW c \in Calls, Serve(c), TypeOK', Cancels'
  PROVE  IInv'
<1> USE InvFacts
<1>0. TypeOK
  BY DEF IInv
<1>1. ASSUME UNCHANGED <<clientVars, inputCh>>, server[c] # Handler,
             \A d \in Calls \ {c} : server'[d] = server[d],
             server'[c].sent = server[c].sent,
             IsSingle(c) /\ SingleServer(c) => SingleServer(c)'
      PROVE  IInv'
  <2>1. \A d \in Calls : server'[d].sent = server[d].sent
    BY <1>1
  <2>2. Transit'
    <3>1. \A m \in Messages : IsSent(m) => IsSent(m)'
      BY <2>1 DEF IsSent, Messages
    <3>2. QED
      BY <1>1, <3>1 DEF clientVars, callVars, IInv, Transit, Waits
  <2>3. \A d \in Calls : Waits(d) => Pending(d, IF Holds(d) THEN Expected(d) + 1 ELSE Expected(d))'
    BY <1>1, <2>1 DEF clientVars, callVars, IInv, Numbered, InStep, Pending, Holds, Expected
  <2>4. IsSingle(c) => SingleServer(c)'
    BY <1>1 DEF IInv, Singles
  <2>5. QED
    BY <1>1, <2>2, <2>3, <2>4, ServeFrame
<1>2. CASE ServerTimePasses(c)
  <2>1. /\ UNCHANGED <<clientVars, inputCh>> /\ server[c] # Handler
        /\ server' = [server EXCEPT ![c].ctx = "done"]
    BY <1>2 DEF ServerTimePasses, Handler
  <2>2. /\ \A d \in Calls \ {c} : server'[d] = server[d]
        /\ server'[c].sent = server[c].sent /\ server'[c].left = server[c].left
        /\ server'[c].producer = server[c].producer /\ server'[c].waiter = server[c].waiter
    BY <1>0, <2>1 DEF TypeOK, Handlers
  <2>3. QED
    BY <1>1, <2>1, <2>2 DEF SingleServer
<1>3. CASE StartResponse(c)
  <2>1. /\ UNCHANGED <<clientVars, inputCh>> /\ server[c] # Handler
    BY <1>3 DEF StartResponse, Handler
  <2>2. /\ \A d \in Calls \ {c} : server'[d] = server[d]
        /\ server[c].producer = "running"
        /\ server'[c].producer \in {"data", "end", "error"}
        /\ server'[c].producer = "data" => server[c].left > 0
        /\ server'[c].producer # "data" => server'[c].left = server[c].left
        /\ server'[c].waiter = server[c].waiter /\ server'[c].sent = server[c].sent
    BY <1>0, <1>3, StartEffect
  <2>3. SingleServer(c) => SingleServer(c)'
    BY <2>2 DEF SingleServer
  <2>4. QED
    BY <1>1, <2>1, <2>2, <2>3
<1>4. CASE FinalizeAsync(c)
  <2>1. /\ UNCHANGED <<clientVars, inputCh>> /\ server[c] # Handler /\ server[c].waiter = "waiting"
        /\ server' = [server EXCEPT ![c].waiter = "end"]
    BY <1>4 DEF FinalizeAsync, Handler
  <2>2. /\ \A d \in Calls \ {c} : server'[d] = server[d]
        /\ server'[c].sent = server[c].sent
    BY <1>0, <2>1 DEF TypeOK, Handlers
  <2>3. ~SingleServer(c)
    BY <2>1 DEF SingleServer
  <2>4. QED
    BY <1>1, <2>1, <2>2, <2>3
<1>5. ASSUME NEW goroutine \in {"producer", "waiter"}, FinishResponse(c, goroutine)
      PROVE  IInv'
  <2>1. UNCHANGED clientVars /\ server[c] # Handler
    <3>1. Handler[goroutine] = "none"
      BY DEF Handler
    <3>2. server[c][goroutine] # "none" /\ UNCHANGED clientVars
      BY <1>5 DEF FinishResponse
    <3>3. QED
      BY <3>1, <3>2
  <2>2. /\ \A d \in Calls \ {c} : server'[d] = server[d]
        /\ \/ inputCh' = inputCh /\ server'[c].sent = server[c].sent
           \/ \E m \in Messages :
                /\ inputCh' = Append(inputCh, m)
                /\ m.call = c /\ m.n = server[c].sent + 1 /\ m.error # "timeout"
                /\ server'[c].sent = server[c].sent + 1
        /\ goroutine = "producer" =>
             /\ server[c].producer \in {"data", "end", "error"}
             /\ server[c].producer # "data" => server'[c].producer = "ended"
             /\ server'[c].waiter = server[c].waiter /\ server'[c].left = server[c].left
        /\ goroutine = "waiter" => server[c].waiter = "end"
    BY <1>0, <1>5, FinishEffect
  <2>3. SingleServer(c) => SingleServer(c)'
    <3> SUFFICES ASSUME SingleServer(c) PROVE SingleServer(c)'
      OBVIOUS
    <3>1. goroutine = "producer"
      BY <2>2 DEF SingleServer
    <3>2. server[c].producer # "ended" /\ server'[c].producer = "ended"
      BY <2>2, <3>1 DEF SingleServer
    <3>3. server[c].sent = 0 /\ server'[c].sent <= 1
      BY <2>2, <3>2 DEF SingleServer
    <3>4. QED
      BY <2>2, <3>1, <3>2, <3>3 DEF SingleServer
  <2>4. CASE inputCh' = inputCh /\ server'[c].sent = server[c].sent
    BY <1>1, <2>1, <2>2, <2>3, <2>4
  <2>5. ASSUME NEW m \in Messages, inputCh' = Append(inputCh, m),
               m.call = c, m.n = server[c].sent + 1, m.error # "timeout",
               server'[c].sent = server[c].sent + 1
        PROVE  IInv'
    <3>1. /\ Len(inputCh') = Len(inputCh) + 1 /\ inputCh'[Len(inputCh) + 1] = m
          /\ \A i \in 1 .. Len(inputCh) : inputCh'[i] = inputCh[i] /\ inputCh[i] \in Messages
      BY <2>5
    <3>2. ASSUME NEW x \in Messages
          PROVE  x.call \in Calls /\ x.n \in Nat /\ (IsSent(x) => IsSent(x)')
      <4>1. x.call \in Calls /\ x.n \in Nat
        BY DEF Messages
      <4>2. server[x.call].sent \in Nat
        BY <4>1
      <4>3. server'[x.call].sent \in {server[x.call].sent, server[x.call].sent + 1}
        BY <2>2, <2>5, <4>1
      <4>4. QED
        BY <4>1, <4>2, <4>3 DEF IsSent
    <3>3. IsSent(m)'
      BY <2>5 DEF IsSent
    <3>4. \A i \in 1 .. Len(inputCh) : inputCh[i].call = c => inputCh[i].n < m.n
      BY <2>5 DEF IInv, Transit, IsSent
    <3>5. Transit'
      <4>1. \A i \in 1 .. Len(inputCh') : IsSent(inputCh[i])'
        <5> TAKE i \in 1 .. Len(inputCh')
        <5>1. CASE i \in 1 .. Len(inputCh)
          BY <3>1, <3>2, <5>1 DEF IInv, Transit
        <5>2. CASE i = Len(inputCh) + 1
          BY <3>1, <3>3, <5>2
        <5>3. QED
          BY <3>1, <5>1, <5>2
      <4>2. ASSUME NEW i \in 1 .. Len(inputCh'), NEW j \in 1 .. Len(inputCh'), i < j,
                   inputCh'[i].call = inputCh'[j].call
            PROVE  inputCh'[i].n < inputCh'[j].n
        <5>1. i \in 1 .. Len(inputCh)
          BY <3>1, <4>2
        <5>2. CASE j \in 1 .. Len(inputCh)
          BY <3>1, <4>2, <5>1, <5>2 DEF IInv, Transit
        <5>3. CASE j = Len(inputCh) + 1
          BY <2>5, <3>1, <3>4, <4>2, <5>1, <5>3
        <5>4. QED
          BY <3>1, <5>2, <5>3
      <4>3. loop'.at \in {"sending", "blocked"} =>
              IsSent(loop.msg)' /\ (Waits(loop.msg.call)' \/ loop'.msg.call \in canceled')
        BY <2>1, <3>2 DEF clientVars, callVars, IInv, Transit, Waits
      <4>4. loop'.at = "unregister" => call'[loop'.msg.call].at \notin {"idle", "sending"}
        BY <2>1 DEF clientVars, callVars, IInv, Transit
      <4>5. QED
        BY <2>1, <4>1, <4>2, <4>3, <4>4 DEF Transit, clientVars
    <3>6. ASSUME NEW d \in Calls, Waits(d)
          PROVE  Pending(d, IF Holds(d) THEN Expected(d) + 1 ELSE Expected(d))'
      <4>0. PICK lo \in Nat : lo = IF Holds(d) THEN Expected(d) + 1 ELSE Expected(d)
        BY DEF Expected
      <4>1. Pending(d, lo)
        BY <3>6, <4>0 DEF IInv, Numbered, InStep
      <4>2. (IF Holds(d) THEN Expected(d) + 1 ELSE Expected(d))' = lo
        BY <2>1, <4>0 DEF clientVars, callVars, Holds, Expected
      <4>3. lo <= server'[d].sent + 1
        BY <2>2, <2>5, <4>1 DEF Pending
      <4>4. ASSUME NEW i \in 1 .. Len(inputCh'), inputCh'[i].call = d
            PROVE  inputCh'[i].n >= lo
        <5>1. CASE i \in 1 .. Len(inputCh)
          BY <3>1, <4>1, <4>4, <5>1 DEF Pending
        <5>2. CASE i = Len(inputCh) + 1
          BY <2>5, <3>1, <4>1, <4>4, <5>2 DEF Pending
        <5>3. QED
          BY <3>1, <5>1, <5>2
      <4>5. ASSUME NEW n \in lo .. server'[d].sent
            PROVE  \E i \in 1 .. Len(inputCh') : inputCh'[i].call = d /\ inputCh'[i].n = n
        <5>1. CASE n \in lo .. server[d].sent
          <6>1. PICK i \in 1 .. Len(inputCh) : inputCh[i].call = d /\ inputCh[i].n = n
            BY <4>1, <5>1 DEF Pending
          <6>2. QED
            BY <3>1, <6>1
        <5>2. CASE n \notin lo .. server[d].sent
          <6>1. d = c
            <7>1. d # c => server'[d].sent = server[d].sent
              BY <2>2
            <7>2. QED
              BY <5>2, <7>1
          <6>2. n \in lo .. server[c].sent + 1 /\ n \notin lo .. server[c].sent
            BY <2>5, <5>2, <6>1
          <6>3. n = m.n
            BY <2>5, <6>2
          <6>4. QED
            BY <2>5, <3>1, <6>1, <6>3
        <5>3. QED
          BY <5>1, <5>2
      <4>6. Pending(d, lo)'
        BY <4>3, <4>4, <4>5 DEF Pending
      <4>7. QED
        BY <4>2, <4>6
    <3>7. IsSingle(c) => SingleServer(c)'
      BY <2>3 DEF IInv, Singles
    <3>8. QED
      BY <2>1, <2>2, <3>5, <3>6, <3>7, ServeFrame
  <2>6. QED
    BY <2>2, <2>4, <2>5
<1>6. QED
  BY <1>2, <1>3, <1>4, <1>5 DEF Serve

-----------------------------------------------------------------------------
(* The loop's steps.                                                        *)

(* A step of the loop that touches no entry leaves these as they were.      *)
LEMMA LoopFrame ==
  ASSUME IInv, UNCHANGED <<callVars, rpcMap, ctx, expiry, resOpen, ctxDoneCh, outputCh, server>>,
         \A d \in Calls : call[d].at = "idle" => resCh'[d] = resCh[d],
         loop'.at # "panic"
  PROVE  Registration' /\ Requested' /\ Contexts' /\ LoopSurvives'
<1> USE InvFacts DEF callVars
<1>1. Registration'
  <2>1. \A x \in Ids : rpcMap[x] # None => rpcMap[x] \in Calls
    BY DEF IInv, TypeOK
  <2>2. \A d \in Calls : (Waits(d)' <=> Waits(d)) /\ Id(d)' = Id(d)
    BY DEF Waits, Id
  <2>3. QED
    BY <2>1, <2>2 DEF IInv, Registration
<1>2. Requested'
  BY RequestedFrame
<1>3. Contexts'
  BY DEF IInv, Contexts
<1>4. LoopSurvives'
  BY DEF LoopSurvives
<1>5. QED
  BY <1>1, <1>2, <1>3, <1>4

(* An expiration closes the call and leaves the error for its caller, or    *)
(* finds the channel full: either way there is something to read.           *)
LEMMA TakeTimeoutStep ==
  ASSUME IInv, TakeTimeout, TypeOK', Cancels'
  PROVE  IInv'
<1> USE InvFacts DEF callVars
<1> DEFINE id == Head(ctxDoneCh)
<1>0. TypeOK /\ Registration /\ ctxDoneCh \in Seq(Ids)
  BY DEF IInv, TypeOK
<1>1. /\ loop.at = "select" /\ ctxDoneCh # << >> /\ ctxDoneCh' = Tail(ctxDoneCh)
      /\ UnregisterRpc(id, "timeout", {})
      /\ UNCHANGED <<call, result, got, canceled, expiry, outputCh, loop, inputCh, server>>
  BY DEF TakeTimeout
<1>2. /\ id \in Ids /\ id = ctxDoneCh[1] /\ Len(ctxDoneCh) >= 1 /\ Len(ctxDoneCh) \in Nat
      /\ Len(ctxDoneCh') = Len(ctxDoneCh) - 1
      /\ \A i \in 1 .. Len(ctxDoneCh') : ctxDoneCh'[i] = ctxDoneCh[i + 1]
  BY <1>0, <1>1
<1> HIDE DEF id
<1>3. \A i \in 1 .. Len(ctxDoneCh') : \E j \in 1 .. Len(ctxDoneCh) : ctxDoneCh'[i] = ctxDoneCh[j]
  <2> TAKE i \in 1 .. Len(ctxDoneCh')
  <2>1. i + 1 \in 1 .. Len(ctxDoneCh)
    BY <1>2
  <2>2. QED
    BY <1>2, <2>1
<1>4. Registration' /\ Numbered' /\ ResponsesInOrder'
  <2>1. \A d \in Calls : (Holds(d)' <=> Holds(d)) /\ loop'.msg = loop.msg
    BY <1>1 DEF Holds
  <2>2. QED
    BY <1>1, <1>2, <2>1, UnregisterKeeps
<1>5. Requested' /\ LoopSurvives'
  BY <1>1, RequestedFrame DEF IInv, LoopSurvives
<1>6. Transit'
  BY <1>1 DEF IInv, Transit, IsSent
<1>7. Contexts'
  BY <1>1, <1>2, <1>3, UnregisterContexts
<1>8. Singles'
  <2>1. ASSUME NEW d \in Calls, IsSingle(d)
        PROVE  SingleServer(d)' /\ SingleCaller(d)' /\ SingleReasons(d)'
    <3>1. CASE rpcMap[id] # d
      <4>1. /\ resCh'[d] = resCh[d] /\ (d \in resOpen' <=> d \in resOpen) /\ ctx'[d] = ctx[d]
            /\ Waits(d)' => Waits(d)
        BY <1>0, <1>1, <1>2, <3>1, UnregisterEffect
      <4>2. QED
        BY <1>1, <2>1, <4>1, SingleFrame
    <3>2. CASE rpcMap[id] = d
      <4>1. id = d /\ Waits(d)
        <5>1. id # NoId
          BY <1>0, <1>2, <2>1, <3>2, WaitsIsRegistered DEF IsSingle
        <5>2. id \in Calls
          BY <1>2, <5>1 DEF Ids
        <5>3. QED
          BY <1>0, <1>2, <3>2, <5>2, WaitsIsRegistered
      <4>2. SingleServer(d) /\ SingleCaller(d) /\ SingleReasons(d)
        BY <2>1 DEF IInv, Singles
      <4>3. ctx[d] = "expired"
        <5>1. ctx[d] \notin {"none", "live"}
          <6>1. 1 \in 1 .. Len(ctxDoneCh) /\ ctxDoneCh[1] = d
            BY <1>2, <4>1
          <6>2. Contexts
            BY DEF IInv
          <6>3. QED
            BY <6>1, <6>2 DEF Contexts
        <5>2. QED
          BY <4>1, <4>2, <5>1 DEF SingleReasons
      <4>4. ctx'[d] = "expired" /\ ~Waits(d)'
        BY <1>0, <1>1, <1>2, <4>1, <4>3, UnregisterEffect
      <4>5. resCh'[d] # << >>
        <5>1. \/ resCh'[d] = resCh[d] /\ Len(resCh[d]) >= ResCap
              \/ Len(resCh'[d]) = Len(resCh[d]) + 1
          <6>1. TypeOK /\ id \in Ids /\ rpcMap[id] = d /\ UnregisterRpc(id, "timeout", {})
            BY <1>0, <1>1, <1>2, <3>2
          <6>2. QED
            BY <6>1, LastWordEffect
        <5>2. ResCap \in Nat /\ ResCap >= 1 /\ Len(resCh[d]) \in Nat
          BY RpcCallsAssumption
        <5>3. CASE resCh'[d] = resCh[d] /\ Len(resCh[d]) >= ResCap
          BY <5>2, <5>3
        <5>4. CASE Len(resCh'[d]) = Len(resCh[d]) + 1
          BY <5>2, <5>4
        <5>5. QED
          BY <5>1, <5>3, <5>4
      <4>6. QED
        BY <1>1, <4>2, <4>4, <4>5 DEF SingleServer, SingleCaller, SingleReasons
    <3>3. QED
      BY <3>1, <3>2
  <2>2. \A d \in Calls : IsSingle(d)' <=> IsSingle(d)
    BY <1>1 DEF IsSingle
  <2>3. QED
    BY <1>1, <2>1, <2>2 DEF IInv, Singles
<1>9. QED
  BY <1>4, <1>5, <1>6, <1>7, <1>8 DEF IInv

(* The response the loop takes is the next its call expects: those before   *)
(* it were delivered, in the order of the transport.                        *)
LEMMA TakeResponseStep ==
  ASSUME IInv, TakeResponse, TypeOK', Cancels'
  PROVE  IInv'
<1> USE InvFacts DEF callVars
<1> DEFINE m == Head(inputCh)
<1>0. TypeOK /\ Registration
  BY DEF IInv
<1>1. /\ loop.at = "select" /\ inputCh # << >> /\ inputCh' = Tail(inputCh)
      /\ rpcMap[m.call] = None => loop' = loop
      /\ rpcMap[m.call] # None => loop' = [at |-> "sending", msg |-> m]
      /\ UNCHANGED <<call, result, got, canceled, rpcMap, ctx, expiry, resCh, resOpen, ctxDoneCh, outputCh, server>>
  BY DEF TakeResponse
<1>2. /\ m \in Messages /\ m = inputCh[1] /\ Len(inputCh) >= 1 /\ 1 \in 1 .. Len(inputCh)
      /\ Len(inputCh') = Len(inputCh) - 1
      /\ \A i \in 1 .. Len(inputCh') : inputCh'[i] = inputCh[i + 1] /\ i + 1 \in 1 .. Len(inputCh)
  BY <1>1
<1> HIDE DEF m
<1>3. m.call \in Calls /\ m.n \in Nat /\ IsSent(m)
  BY <1>2 DEF Messages, IInv, Transit
<1>4. \A i \in 2 .. Len(inputCh) : /\ inputCh[i] \in Messages /\ inputCh[i].n \in Nat
                                   /\ i - 1 \in 1 .. Len(inputCh') /\ inputCh'[i - 1] = inputCh[i]
                                   /\ inputCh[i].call = m.call => m.n < inputCh[i].n
  <2> TAKE i \in 2 .. Len(inputCh)
  <2>1. i \in 1 .. Len(inputCh) /\ 1 < i /\ i - 1 \in 1 .. Len(inputCh') /\ (i - 1) + 1 = i
    BY <1>2
  <2>2. inputCh[i] \in Messages
    BY <2>1
  <2>3. inputCh[i].call = m.call => m.n < inputCh[i].n
    BY <1>2, <2>1 DEF IInv, Transit
  <2>4. inputCh'[i - 1] = inputCh[(i - 1) + 1]
    BY <1>2, <2>1
  <2>5. QED
    BY <2>1, <2>2, <2>3, <2>4 DEF Messages
<1>5. rpcMap[m.call] # None => Waits(m.call)
  <2>1. m.call \in Ids /\ (rpcMap[m.call] # None => rpcMap[m.call] \in Calls)
    BY <1>0, <1>3 DEF TypeOK, Ids
  <2>2. QED
    BY <1>0, <1>3, <2>1, WaitsIsRegistered
<1>6. Registration' /\ Requested' /\ Contexts' /\ LoopSurvives'
  <2>1. loop'.at # "panic"
    BY <1>1
  <2>2. QED
    BY <1>1, <2>1, LoopFrame
<1>7. Transit'
  <2>1. \A i \in 1 .. Len(inputCh') : IsSent(inputCh[i])'
    BY <1>1, <1>2 DEF IInv, Transit, IsSent
  <2>2. ASSUME NEW i \in 1 .. Len(inputCh'), NEW j \in 1 .. Len(inputCh'), i < j,
               inputCh'[i].call = inputCh'[j].call
        PROVE  inputCh'[i].n < inputCh'[j].n
    <3>1. i + 1 < j + 1
      BY <2>2
    <3>2. QED
      BY <1>2, <2>2, <3>1 DEF IInv, Transit
  <2>3. loop'.at \in {"sending", "blocked"} =>
          IsSent(loop.msg)' /\ (Waits(loop.msg.call)' \/ loop'.msg.call \in canceled')
    BY <1>1, <1>3, <1>5 DEF IsSent, Waits
  <2>4. loop'.at # "unregister"
    BY <1>1
  <2>5. QED
    BY <2>1, <2>2, <2>3, <2>4 DEF Transit
<1>8. Numbered' /\ ResponsesInOrder'
  <2>1. ASSUME NEW d \in Calls, Waits(d)'
        PROVE  InStep(d)'
    <3>1. Waits(d) /\ ~Holds(d) /\ Expected(d)' = Expected(d) /\ Expected(d) \in Nat
      BY <1>1, <2>1 DEF Waits, Holds, Expected
    <3>2. InStep(d) /\ Pending(d, Expected(d))
      BY <3>1 DEF IInv, Numbered, InStep
    <3>3. \A i \in 1 .. Len(resCh'[d]) : resCh'[d][i].n = got'[d] + i /\ resCh'[d][i].error # "timeout"
      BY <1>1, <3>2 DEF InStep
    <3>4. CASE d = m.call
      <4>1. m.n >= Expected(d) /\ m.n <= server[d].sent
        BY <1>2, <1>3, <3>2, <3>4 DEF Pending, IsSent
      <4>2. m.n = Expected(d)
        <5>1. Expected(d) \in Expected(d) .. server[d].sent
          BY <1>3, <3>1, <4>1
        <5>2. PICK i \in 1 .. Len(inputCh) : inputCh[i].call = d /\ inputCh[i].n = Expected(d)
          BY <3>2, <5>1 DEF Pending
        <5>3. CASE i = 1
          BY <1>2, <5>2, <5>3
        <5>4. CASE i # 1
          <6>1. i \in 2 .. Len(inputCh)
            BY <5>4
          <6>2. m.n < Expected(d)
            BY <1>4, <3>4, <5>2, <6>1
          <6>3. QED
            BY <1>3, <3>1, <4>1, <6>2
        <5>5. QED
          BY <5>3, <5>4
      <4>3. Holds(d)' /\ loop'.msg.n = Expected(d)'
        BY <1>1, <1>3, <3>1, <3>4, <4>2, RpcCallsAssumption DEF Holds, Waits
      <4>4. Expected(d) + 1 <= server'[d].sent + 1
        BY <1>1, <1>3, <3>1, <4>1, <4>2
      <4>5. ASSUME NEW i \in 1 .. Len(inputCh'), inputCh'[i].call = d
            PROVE  inputCh'[i].n >= Expected(d) + 1
        <5>1. i + 1 \in 2 .. Len(inputCh) /\ inputCh'[i] = inputCh[i + 1]
          BY <1>2
        <5>2. m.n < inputCh'[i].n /\ inputCh'[i].n \in Nat
          BY <1>4, <3>4, <4>5, <5>1
        <5>3. QED
          BY <1>3, <4>2, <5>2
      <4>6. ASSUME NEW n \in Expected(d) + 1 .. server'[d].sent
            PROVE  \E i \in 1 .. Len(inputCh') : inputCh'[i].call = d /\ inputCh'[i].n = n
        <5>1. n \in Expected(d) .. server[d].sent /\ n # m.n
          BY <1>1, <3>1, <4>2
        <5>2. PICK i \in 1 .. Len(inputCh) : inputCh[i].call = d /\ inputCh[i].n = n
          BY <3>2, <5>1 DEF Pending
        <5>3. i \in 2 .. Len(inputCh)
          BY <1>2, <5>1, <5>2
        <5>4. QED
          BY <1>4, <5>2, <5>3
      <4>7. PICK lo \in Nat : lo = Expected(d) + 1
        BY <3>1
      <4>8. Pending(d, lo)'
        BY <4>4, <4>5, <4>6, <4>7 DEF Pending
      <4>9. QED
        BY <3>1, <3>3, <4>3, <4>7, <4>8 DEF InStep
    <3>5. CASE d # m.call
      <4>1. ~Holds(d)'
        BY <1>1, <3>5 DEF Holds
      <4>2. PICK lo \in Nat : lo = Expected(d)
        BY <3>1
      <4>3. Pending(d, lo)'
        <5>1. lo <= server'[d].sent + 1
          BY <1>1, <3>2, <4>2 DEF Pending
        <5>2. ASSUME NEW i \in 1 .. Len(inputCh'), inputCh'[i].call = d
              PROVE  inputCh'[i].n >= lo
          <6>1. inputCh'[i] = inputCh[i + 1] /\ i + 1 \in 1 .. Len(inputCh)
            BY <1>2
          <6>2. QED
            BY <3>2, <4>2, <5>2, <6>1 DEF Pending
        <5>3. ASSUME NEW n \in lo .. server'[d].sent
              PROVE  \E i \in 1 .. Len(inputCh') : inputCh'[i].call = d /\ inputCh'[i].n = n
          <6>1. PICK i \in 1 .. Len(inputCh) : inputCh[i].call = d /\ inputCh[i].n = n
            BY <1>1, <3>2, <4>2 DEF Pending
          <6>2. i \in 2 .. Len(inputCh)
            BY <1>2, <3>5, <6>1
          <6>3. QED
            BY <1>4, <6>1, <6>2
        <5>4. QED
          BY <5>1, <5>2, <5>3 DEF Pending
      <4>4. QED
        BY <3>1, <3>3, <4>1, <4>2, <4>3 DEF InStep
    <3>6. QED
      BY <3>4, <3>5
  <2>2. QED
    BY <1>1, <2>1 DEF IInv, Numbered, ResponsesInOrder
<1>9. Singles'
  <2>1. ASSUME NEW d \in Calls, IsSingle(d)
        PROVE  SingleServer(d)' /\ SingleCaller(d)' /\ SingleReasons(d)'
    <3>1. Waits(d)' => Waits(d)
      BY <1>1 DEF Waits
    <3>2. loop'.at \notin {"blocked", "unregister"}
      BY <1>1
    <3>3. QED
      BY <1>1, <2>1, <3>1, <3>2, SingleFrame
  <2>2. \A d \in Calls : IsSingle(d)' <=> IsSingle(d)
    BY <1>1 DEF IsSingle
  <2>3. QED
    BY <1>1, <2>1, <2>2 DEF IInv, Singles
<1>10. QED
  BY <1>6, <1>7, <1>8, <1>9 DEF IInv

(* The send finds the channel of a cancelled stream closed, and panics.     *)
LEMMA PanicStep ==
  ASSUME IInv, SendResp, loop.msg.call \in canceled, TypeOK', Cancels'
  PROVE  IInv'
<1> USE InvFacts DEF callVars
<1>0. TypeOK
  BY DEF IInv
<1>1. /\ loop.at \in {"sending", "blocked"}
      /\ UNCHANGED <<call, result, got, canceled, rpcMap, ctx, expiry, resOpen, ctxDoneCh, outputCh, inputCh, server>>
  BY DEF SendResp
<1>2. loop.msg.call \in Calls /\ loop.msg.call \notin resOpen
  BY <1>1 DEF IInv, Cancels
<1>3. resCh' = resCh /\ loop'.at = "panic" /\ loop'.msg = loop.msg
  BY <1>0, <1>1, <1>2 DEF SendResp, TypeOK, Loops
<1>4. Registration' /\ Requested' /\ Contexts'
  <2>1. \A x \in Ids : rpcMap[x] # None => rpcMap[x] \in Calls
    BY <1>0 DEF TypeOK
  <2>2. \A d \in Calls : (Waits(d)' <=> Waits(d)) /\ Id(d)' = Id(d)
    BY <1>1 DEF Waits, Id
  <2>3. QED
    BY <1>1, <1>3, <2>1, <2>2, RequestedFrame DEF IInv, Registration, Contexts
<1>5. Transit' /\ LoopSurvives' /\ ResponsesInOrder'
  BY <1>1, <1>3 DEF IInv, Transit, IsSent, LoopSurvives, ResponsesInOrder
<1>6. \A d \in Calls : /\ Waits(d)' <=> Waits(d)
                       /\ Waits(d) => ~Holds(d)
                       /\ ~Holds(d)'
  BY <1>1, <1>3 DEF Waits, Holds, IInv, Cancels
<1>7. Numbered'
  <2>1. \A d \in Calls : Waits(d) /\ InStep(d) => InStep(d)'
    BY <1>1, <1>3, <1>6 DEF InStep, Expected, Pending
  <2>2. QED
    BY <1>1, <1>3, <1>6, <2>1 DEF IInv, Numbered
<1>8. Singles'
  <2>1. ASSUME NEW d \in Calls, IsSingle(d)
        PROVE  SingleServer(d)' /\ SingleCaller(d)' /\ SingleReasons(d)'
    BY <1>1, <1>3, <1>6, <2>1, SingleFrame
  <2>2. \A d \in Calls : IsSingle(d)' <=> IsSingle(d)
    BY <1>1 DEF IsSingle
  <2>3. QED
    BY <1>1, <2>1, <2>2 DEF IInv, Singles
<1>9. QED
  BY <1>4, <1>5, <1>7, <1>8 DEF IInv

(* The send finds any other channel open: its call is still registered,     *)
(* since only the loop and the caller that read a last response close it.   *)
LEMMA SendRespStep ==
  ASSUME IInv, SendResp, loop.msg.call \notin canceled, TypeOK', Cancels'
  PROVE  IInv'
<1> USE InvFacts DEF callVars
<1>0. TypeOK /\ Registration
  BY DEF IInv
<1>1. /\ loop.at \in {"sending", "blocked"}
      /\ UNCHANGED <<call, result, got, canceled, rpcMap, ctx, expiry, resOpen, ctxDoneCh, outputCh, inputCh, server>>
  BY DEF SendResp
<1>2. PICK m \in Messages : m = loop.msg
  BY <1>1
<1>3. PICK c \in Calls : c = m.call
  BY <1>1, <1>2
<1>4. /\ IsSent(m) /\ Waits(c) /\ c \in resOpen
      /\ m.n \in Nat /\ m.error # "timeout"
  BY <1>0, <1>1, <1>2, <1>3 DEF IInv, Transit, Registration, IsSent, Messages
<1>5. /\ resCh' = [resCh EXCEPT ![c] = Append(@, m)]
      /\ loop' = [at |-> "unregister", msg |-> m] \/ loop' = [at |-> "select", msg |-> None]
  BY <1>2, <1>3, <1>4 DEF SendResp, AfterSending, LoopTo
<1>6. /\ \A d \in Calls \ {c} : resCh'[d] = resCh[d]
      /\ Len(resCh'[c]) = Len(resCh[c]) + 1 /\ resCh'[c][Len(resCh[c]) + 1] = m
      /\ \A i \in 1 .. Len(resCh[c]) : resCh'[c][i] = resCh[c][i]
  <2>1. resCh'[c] = Append(resCh[c], m) /\ \A d \in Calls \ {c} : resCh'[d] = resCh[d]
    BY <1>0, <1>5 DEF TypeOK
  <2>2. QED
    BY <2>1
<1>7. /\ \A d \in Calls : Holds(d) <=> d = c
      /\ \A d \in Calls : ~Holds(d)'
      /\ \A d \in Calls : Waits(d)' <=> Waits(d)
  BY <1>1, <1>2, <1>3, <1>5 DEF Holds, Waits
<1>8. InStep(c) /\ m.n = Expected(c) /\ Expected(c) \in Nat /\ Pending(c, Expected(c) + 1)
  BY <1>2, <1>4, <1>7 DEF IInv, Numbered, InStep, Expected
<1>9. Expected(c)' = Expected(c) + 1
  BY <1>1, <1>6 DEF Expected
<1>10. \A i \in 1 .. Len(resCh'[c]) : resCh'[c][i].n = got[c] + i /\ resCh'[c][i].error # "timeout"
  <2> TAKE i \in 1 .. Len(resCh'[c])
  <2>1. CASE i \in 1 .. Len(resCh[c])
    BY <1>6, <1>8, <2>1 DEF InStep
  <2>2. CASE i = Len(resCh[c]) + 1
    <3>1. resCh'[c][i] = m
      BY <1>6, <2>2
    <3>2. m.n = got[c] + i
      <4>1. got[c] \in Nat /\ Len(resCh[c]) \in Nat
        OBVIOUS
      <4>2. m.n = got[c] + Len(resCh[c]) + 1
        BY <1>8 DEF Expected
      <4>3. QED
        BY ONLY <2>2, <4>1, <4>2, SMT
    <3>3. QED
      BY <1>4, <3>1, <3>2
  <2>3. QED
    BY <1>6, <2>1, <2>2
<1>11. Registration' /\ Requested' /\ Contexts' /\ LoopSurvives'
  <2>1. call[c].at # "idle"
    <3>1. c \in Ids /\ rpcMap[c] # None
      BY <1>4 DEF Waits
    <3>2. QED
      BY <1>0, <1>4, <3>1 DEF Registration, Waits
  <2>2. loop'.at # "panic"
    BY <1>5
  <2>3. QED
    BY <1>1, <1>6, <2>1, <2>2, LoopFrame
<1>12. Transit'
  <2>1. call[c].at \notin {"idle", "sending"}
    BY <1>7, NothingSent DEF Unanswered
  <2>2. QED
    BY <1>1, <1>3, <1>5, <2>1 DEF IInv, Transit, IsSent
<1>13. Numbered'
  <2>1. ASSUME NEW d \in Calls, Waits(d)'
        PROVE  InStep(d)'
    <3>1. CASE d = c
      <4>1. PICK lo \in Nat : lo = Expected(c) + 1
        BY <1>8
      <4>2. Pending(c, lo)'
        BY <1>1, <1>8, <4>1 DEF Pending
      <4>3. QED
        BY <1>1, <1>7, <1>9, <1>10, <3>1, <4>1, <4>2 DEF InStep
    <3>2. CASE d # c
      <4>1. InStep(d) /\ ~Holds(d) /\ Expected(d)' = Expected(d) /\ Expected(d) \in Nat
        BY <1>1, <1>6, <1>7, <2>1, <3>2 DEF IInv, Numbered, Expected
      <4>2. PICK lo \in Nat : lo = Expected(d)
        BY <4>1
      <4>3. Pending(d, lo)'
        BY <1>1, <4>1, <4>2 DEF InStep, Pending
      <4>4. QED
        BY <1>1, <1>6, <1>7, <3>2, <4>1, <4>2, <4>3 DEF InStep
    <3>3. QED
      BY <3>1, <3>2
  <2>2. ASSUME rpcMap'[NoId] # None
        PROVE  resCh'[rpcMap'[NoId]] = << >>
    <3>1. NoId \in Ids /\ rpcMap[NoId] \in Calls
      BY <1>0, <1>1, <2>2 DEF Ids, TypeOK
    <3>2. rpcMap[NoId] # c
      BY <1>0, <1>4, <3>1, WaitsIsRegistered
    <3>3. QED
      BY <1>1, <1>6, <2>2, <3>1, <3>2 DEF IInv, Numbered
  <2>3. QED
    BY <2>1, <2>2 DEF Numbered
<1>14. ResponsesInOrder'
  <2>1. ASSUME NEW d \in Calls, NEW i \in 1 .. Len(resCh'[d])
        PROVE  \/ resCh'[d][i].n = got'[d] + i
               \/ resCh'[d][i].error = "timeout" /\ i = Len(resCh'[d])
    <3>1. CASE d = c
      BY <1>1, <1>10, <3>1
    <3>2. CASE d # c
      <4>1. resCh'[d] = resCh[d] /\ got' = got
        BY <1>1, <1>6, <3>2
      <4>2. QED
        BY <4>1 DEF IInv, ResponsesInOrder
    <3>3. QED
      BY <3>1, <3>2
  <2>2. QED
    BY <2>1 DEF ResponsesInOrder
<1>15. Singles'
  <2>1. ASSUME NEW d \in Calls, IsSingle(d)
        PROVE  SingleServer(d)' /\ SingleCaller(d)' /\ SingleReasons(d)'
    <3>1. CASE d # c
      <4>1. loop'.at \in {"blocked", "unregister"} => loop'.msg.call # d
        BY <1>3, <1>5, <3>1
      <4>2. QED
        BY <1>1, <1>6, <1>7, <2>1, <3>1, <4>1, SingleFrame
    <3>2. CASE d = c
      <4>1. SingleServer(c) /\ SingleCaller(c) /\ SingleReasons(c)
        BY <2>1, <3>2 DEF IInv, Singles
      <4>2. resCh'[c] # << >>
        BY <1>6
      <4>3. loop'.at # "blocked"
        BY <1>5
      <4>4. QED
        BY <1>1, <1>7, <1>10, <3>2, <4>1, <4>2, <4>3 DEF SingleServer, SingleCaller, SingleReasons
    <3>3. QED
      BY <3>1, <3>2
  <2>2. \A d \in Calls : IsSingle(d)' <=> IsSingle(d)
    BY <1>1 DEF IsSingle
  <2>3. QED
    BY <1>1, <2>1, <2>2 DEF IInv, Singles
<1>16. QED
  BY <1>11, <1>12, <1>13, <1>14, <1>15 DEF IInv

(* A call that wants one response has room for it.                          *)
LEMMA BlockOnResponseStep ==
  ASSUME IInv, BlockOnResponse, TypeOK', Cancels'
  PROVE  IInv'
<1> USE InvFacts DEF callVars
<1>0. TypeOK /\ Registration
  BY DEF IInv
<1>1. /\ loop.at = "sending" /\ Len(resCh[loop.msg.call]) = ResCap
      /\ UNCHANGED <<call, result, got, canceled, rpcMap, ctx, expiry, resCh, resOpen, ctxDoneCh, outputCh, inputCh, server>>
  BY DEF BlockOnResponse
<1>2. PICK c \in Calls : c = loop.msg.call
  BY <1>1
<1>3. loop'.at = "blocked" /\ loop'.msg = loop.msg
  BY <1>0, <1>1 DEF BlockOnResponse, TypeOK, Loops
<1>4. \A d \in Calls : (Holds(d)' <=> Holds(d)) /\ (Waits(d)' <=> Waits(d))
  BY <1>1, <1>3 DEF Holds, Waits
<1>5. ~IsSingle(c)
  <2> SUFFICES ASSUME IsSingle(c) PROVE FALSE
    OBVIOUS
  <2>1. SingleServer(c)
    BY DEF IInv, Singles
  <2>2. IsSent(loop.msg) /\ Waits(c) /\ Holds(c)
    BY <1>1, <1>2 DEF IInv, Transit, Holds, Cancels, IsSingle
  <2>3. loop.msg.n = Expected(c)
    BY <2>2 DEF IInv, Numbered, InStep
  <2>4. loop.msg.n <= 1
    BY <1>2, <2>1, <2>2 DEF IsSent, SingleServer
  <2>5. ResCap >= 1
    BY RpcCallsAssumption
  <2>6. QED
    BY <1>1, <1>2, <2>3, <2>4, <2>5 DEF Expected
<1>6. Registration' /\ Requested' /\ Contexts' /\ LoopSurvives'
  <2>1. loop'.at # "panic"
    BY <1>3
  <2>2. QED
    BY <1>1, <2>1, LoopFrame
<1>7. Transit'
  <2>1. IsSent(loop.msg)' /\ (Waits(loop.msg.call)' \/ loop'.msg.call \in canceled')
    BY <1>1, <1>3 DEF IInv, Transit, IsSent, Waits
  <2>2. QED
    BY <1>1, <1>3, <2>1 DEF IInv, Transit, IsSent
<1>8. Numbered' /\ ResponsesInOrder'
  <2>1. \A d \in Calls : InStep(d) => InStep(d)'
    BY <1>1, <1>3, <1>4 DEF InStep, Expected, Pending
  <2>2. QED
    BY <1>1, <1>4, <2>1 DEF IInv, Numbered, ResponsesInOrder
<1>9. Singles'
  <2>1. ASSUME NEW d \in Calls, IsSingle(d)
        PROVE  SingleServer(d)' /\ SingleCaller(d)' /\ SingleReasons(d)'
    <3>1. loop'.msg.call # d
      BY <1>2, <1>3, <1>5, <2>1
    <3>2. QED
      BY <1>1, <1>4, <2>1, <3>1, SingleFrame
  <2>2. \A d \in Calls : IsSingle(d)' <=> IsSingle(d)
    BY <1>1 DEF IsSingle
  <2>3. QED
    BY <1>1, <2>1, <2>2 DEF IInv, Singles
<1>10. QED
  BY <1>6, <1>7, <1>8, <1>9 DEF IInv

(* The loop closes a call that does not read, or has its last response.     *)
LEMMA CloseStep ==
  ASSUME IInv, FailBlocked \/ UnregisterLast, TypeOK', Cancels'
  PROVE  IInv'
<1> USE InvFacts DEF callVars
<1>0. TypeOK /\ Registration
  BY DEF IInv
<1>1. /\ loop.at \in {"blocked", "unregister"} /\ loop' = [at |-> "select", msg |-> None]
      /\ UnregisterRpc(loop.msg.call, "none", {})
      /\ UNCHANGED <<call, result, got, canceled, expiry, ctxDoneCh, outputCh, inputCh, server>>
  BY DEF FailBlocked, UnregisterLast, LoopTo
<1>2. PICK c \in Calls : c = loop.msg.call
  BY <1>1
<1>3. UnregisterRpc(c, "none", {})
  BY <1>1, <1>2
<1>4. \A d \in Calls : (Waits(d)' <=> Waits(d) /\ d # c)
  BY <1>0, <1>3, UnregisterEffect
<1>5. Registration' /\ Numbered' /\ ResponsesInOrder'
  <2>1. \A d \in Calls : Waits(d)' => ~Holds(d) /\ ~Holds(d)'
    BY <1>1, <1>2, <1>4 DEF Holds
  <2>2. QED
    BY <1>1, <1>3, <2>1, UnregisterKeeps
<1>6. Requested' /\ LoopSurvives'
  BY <1>1, RequestedFrame DEF LoopSurvives
<1>7. Transit'
  BY <1>1 DEF IInv, Transit, IsSent
<1>8. Contexts'
  <2>1. \A i \in 1 .. Len(ctxDoneCh') : \E j \in 1 .. Len(ctxDoneCh) : ctxDoneCh'[i] = ctxDoneCh[j]
    BY <1>1
  <2>2. QED
    BY <1>1, <1>3, <2>1, UnregisterContexts
<1>9. Singles'
  <2>1. ASSUME NEW d \in Calls, IsSingle(d)
        PROVE  SingleServer(d)' /\ SingleCaller(d)' /\ SingleReasons(d)'
    <3>1. CASE rpcMap[c] # d
      <4>1. /\ resCh'[d] = resCh[d] /\ (d \in resOpen' <=> d \in resOpen) /\ ctx'[d] = ctx[d]
            /\ Waits(d)' => Waits(d)
        BY <1>0, <1>3, <3>1, UnregisterEffect
      <4>2. QED
        BY <1>1, <2>1, <4>1, SingleFrame
    <3>2. CASE rpcMap[c] = d
      <4>1. d = c
        BY <1>0, <3>2, WaitsIsRegistered
      <4>2. SingleServer(c) /\ SingleCaller(c) /\ SingleReasons(c)
        BY <2>1, <4>1 DEF IInv, Singles
      <4>3. loop.at = "unregister"
        BY <1>1, <1>2, <4>2 DEF SingleCaller
      <4>4. call[c].at \notin {"idle", "sending"}
        BY <1>2, <4>3 DEF IInv, Transit
      <4>5. resCh'[c] = resCh[c]
        BY <1>0, <1>3 DEF UnregisterRpc, LastWord, TypeOK
      <4>6. call[c].at = "reading" => resCh'[c] # << >>
        BY <1>2, <4>2, <4>3, <4>5 DEF SingleCaller
      <4>7. ctx[c] = "expired" => ctx'[c] = "expired"
        BY <1>0, <1>3, UnregisterEffect
      <4>8. ~Waits(c)'
        BY <1>4
      <4>9. QED
        BY <1>1, <4>1, <4>2, <4>4, <4>5, <4>6, <4>7, <4>8 DEF SingleServer, SingleCaller, SingleReasons
    <3>3. QED
      BY <3>1, <3>2
  <2>2. \A d \in Calls : IsSingle(d)' <=> IsSingle(d)
    BY <1>1 DEF IsSingle
  <2>3. QED
    BY <1>1, <2>1, <2>2 DEF IInv, Singles
<1>10. QED
  BY <1>5, <1>6, <1>7, <1>8, <1>9 DEF IInv

(* StreamCancelFn, on whatever goroutine: no call but the stream is touched, *)
(* and what the loop still holds for the stream is now for a cancelled one.  *)
LEMMA SendCancelStep ==
  ASSUME IInv, NEW c \in Calls, SendCancel(c), TypeOK', Cancels'
  PROVE  IInv'
<1> USE InvFacts
<1>0. TypeOK /\ Registration
  BY DEF IInv
<1>1. /\ call[c].kind = "stream" /\ call[c].at # "idle" /\ UnregisterRpc(c, "none", {c})
      /\ canceled' = canceled \cup {c}
      /\ UNCHANGED <<call, result, got, expiry, ctxDoneCh, outputCh, loop, inputCh, server>>
  BY DEF SendCancel
<1>2. \A d \in Calls : (Holds(d)' <=> Holds(d)) /\ (Waits(d)' <=> Waits(d) /\ d # c)
  BY <1>0, <1>1, UnregisterEffect DEF Holds
<1>3. Registration' /\ Numbered' /\ ResponsesInOrder'
  BY <1>1, <1>2, UnregisterKeeps
<1>4. Requested' /\ LoopSurvives'
  BY <1>1, RequestedFrame DEF IInv, LoopSurvives
<1>5. Transit'
  BY <1>1, <1>2 DEF IInv, Transit, IsSent
<1>6. Contexts'
  <2>1. \A i \in 1 .. Len(ctxDoneCh') : \E j \in 1 .. Len(ctxDoneCh) : ctxDoneCh'[i] = ctxDoneCh[j]
    BY <1>1
  <2>2. QED
    BY <1>1, <2>1, UnregisterContexts
<1>7. Singles'
  <2>1. ASSUME NEW d \in Calls, IsSingle(d)
        PROVE  SingleServer(d)' /\ SingleCaller(d)' /\ SingleReasons(d)'
    <3>1. d # c
      BY <1>1, <2>1 DEF IsSingle
    <3>2. rpcMap[c] # d
      BY <1>0, <3>1, WaitsIsRegistered
    <3>3. resCh'[d] = resCh[d] /\ (d \in resOpen' <=> d \in resOpen) /\ ctx'[d] = ctx[d]
      BY <1>0, <1>1, <3>1, <3>2, UnregisterEffect
    <3>4. QED
      BY <1>1, <1>2, <2>1, <3>3, SingleFrame
  <2>2. \A d \in Calls : IsSingle(d)' <=> IsSingle(d)
    BY <1>1 DEF IsSingle
  <2>3. QED
    BY <1>1, <2>1, <2>2 DEF IInv, Singles
<1>8. QED
  BY <1>3, <1>4, <1>5, <1>6, <1>7 DEF IInv

-----------------------------------------------------------------------------
(* Registered or closed.                                                    *)

LEMMA CancelsFrame ==
  ASSUME IInv, UNCHANGED <<rpcMap, resOpen, canceled>>,
         \A c \in Calls : /\ call'[c].kind = call[c].kind
                          /\ call[c].at # "idle" => call'[c].at # "idle"
  PROVE  Cancels'
  BY DEF IInv, TypeOK, Cancels, Waits

(* Whoever takes the entry closes the channel with it.                      *)
LEMMA CancelsUnregister ==
  ASSUME IInv, NEW id \in Ids, NEW error, NEW self, UnregisterRpc(id, error, self),
         canceled' = canceled,
         \A c \in Calls : /\ call'[c].kind = call[c].kind
                          /\ call[c].at # "idle" => call'[c].at # "idle"
  PROVE  Cancels'
<1>0. TypeOK /\ Registration
  BY DEF IInv
<1>1. \A c \in Calls : (Waits(c)' <=> Waits(c) /\ c # id)
  BY <1>0, UnregisterEffect
<1>2. resOpen' = resOpen \ Closed(id)
  BY DEF UnregisterRpc
<1>3. \A c \in Calls : Waits(c) /\ c = id => c \in Closed(id)
  BY RpcCallsAssumption DEF Waits, Closed
<1>4. QED
  BY <1>0, <1>1, <1>2, <1>3 DEF IInv, TypeOK, Cancels

LEMMA CancelsStep ==
  ASSUME IInv, [Next]_vars
  PROVE  Cancels'
<1> USE InvFacts DEF callVars, clientVars
<1>0. TypeOK /\ Registration
  BY DEF IInv
<1>1. ASSUME NEW c \in Calls, NEW kind \in KindsOf[c], RegisterRpc(c, kind)
      PROVE  Cancels'
  <2>1. /\ call[c].at = "idle" /\ call'[c].kind = kind /\ \A d \in Calls \ {c} : call'[d] = call[d]
        /\ resOpen' = resOpen \cup {c} /\ canceled' = canceled
    BY <1>0, <1>1 DEF RegisterRpc, TypeOK
  <2>2. \A d \in Calls : Waits(d)' <=> IF d = c THEN kind # "command" \/ Waits(c) ELSE Waits(d)
    BY <1>0, <1>1 DEF RegisterRpc, TypeOK, Waits
  <2>3. QED
    BY <1>0, <2>1, <2>2 DEF IInv, TypeOK, Cancels
<1>2. ASSUME NEW c \in Calls, SendRequest(c)
      PROVE  Cancels'
  <2>1. \E place \in {"ended", "reading"} : At(c, place)
    BY <1>2 DEF SendRequest, Ends
  <2>2. \A d \in Calls : call'[d].kind = call[d].kind /\ (call[d].at # "idle" => call'[d].at # "idle")
    BY <1>0, <2>1, AtEffect
  <2>3. QED
    BY <1>2, <2>2, CancelsFrame DEF SendRequest
<1>3. ASSUME NEW c \in Calls, TimeoutSending(c)
      PROVE  Cancels'
  <2>1. \A d \in Calls : call'[d].kind = call[d].kind /\ (call[d].at # "idle" => call'[d].at # "idle")
    BY <1>0, <1>3, AtEffect DEF TimeoutSending, Ends
  <2>2. canceled' = canceled
    BY <1>3 DEF TimeoutSending
  <2>3. CASE Id(c) = NoId
    BY <1>3, <2>1, <2>2, <2>3, CancelsFrame DEF TimeoutSending
  <2>4. CASE Id(c) # NoId
    BY <1>3, <2>1, <2>2, <2>4, CancelsUnregister DEF TimeoutSending
  <2>5. QED
    BY <2>3, <2>4
<1>4. ASSUME NEW c \in Calls, NextResponse(c) \/ ResponseDone(c) \/ ResponseChannelClosed(c)
      PROVE  Cancels'
  <2>1. \E place \in {"ended", "reading", "blocked", "finalizing"} : At(c, place)
    BY <1>4 DEF NextResponse, ResponseDone, ResponseChannelClosed, Ends, AfterReading
  <2>2. \A d \in Calls : call'[d].kind = call[d].kind /\ (call[d].at # "idle" => call'[d].at # "idle")
    BY <1>0, <2>1, AtEffect
  <2>3. UNCHANGED <<rpcMap, resOpen, canceled>>
    BY <1>4 DEF NextResponse, ResponseDone, ResponseChannelClosed
  <2>4. QED
    BY <2>2, <2>3, CancelsFrame
<1>5. ASSUME NEW c \in Calls, Finalize(c)
      PROVE  Cancels'
  <2>1. \A d \in Calls : call'[d].kind = call[d].kind /\ (call[d].at # "idle" => call'[d].at # "idle")
    BY <1>0, <1>5, AtEffect DEF Finalize
  <2>2. QED
    BY <1>5, <2>1, CancelsUnregister DEF Finalize
<1>6. ASSUME NEW c \in Calls, SendCancel(c)
      PROVE  Cancels'
  <2>1. /\ call[c].kind = "stream" /\ call[c].at # "idle" /\ UnregisterRpc(c, "none", {c})
        /\ canceled' = canceled \cup {c} /\ call' = call
    BY <1>6 DEF SendCancel
  <2>2. \A d \in Calls : (Waits(d)' <=> Waits(d) /\ d # c)
    BY <1>0, <2>1, UnregisterEffect
  <2>3. resOpen' = resOpen \ Closed(c)
    BY <2>1 DEF UnregisterRpc
  <2>4. Waits(c) => c \in Closed(c)
    BY DEF Waits, Closed
  <2>5. QED
    BY <1>0, <2>1, <2>2, <2>3, <2>4 DEF IInv, TypeOK, Cancels
<1>7. ASSUME NEW c \in Calls, TimePasses(c) \/ RetrySendTimeout(c) \/ Serve(c)
      PROVE  Cancels'
  BY <1>7, CancelsFrame DEF TimePasses, RetrySendTimeout, Serve, ServerTimePasses, StartResponse,
     FinalizeAsync, FinishResponse
<1>8. CASE TakeTimeout
  <2>1. Head(ctxDoneCh) \in Ids /\ UnregisterRpc(Head(ctxDoneCh), "timeout", {})
    BY <1>0, <1>8 DEF TakeTimeout, TypeOK
  <2>2. QED
    BY <1>8, <2>1, CancelsUnregister DEF TakeTimeout
<1>9. CASE TakeResponse \/ SendResp \/ BlockOnResponse \/ HandleRequest
  BY <1>9, CancelsFrame DEF TakeResponse, SendResp, BlockOnResponse, HandleRequest
<1>10. CASE FailBlocked \/ UnregisterLast
  <2>1. loop.msg.call \in Ids /\ UnregisterRpc(loop.msg.call, "none", {})
    BY <1>10 DEF FailBlocked, UnregisterLast
  <2>2. call' = call /\ canceled' = canceled
    BY <1>10 DEF FailBlocked, UnregisterLast
  <2>3. QED
    BY <2>1, <2>2, CancelsUnregister
<1>11. CASE UNCHANGED vars
  BY <1>11, CancelsFrame DEF vars
<1>12. QED
  BY <1>1, <1>2, <1>3, <1>4, <1>5, <1>6, <1>7, <1>8, <1>9, <1>10, <1>11 DEF Next, Read, Loop

LEMMA InvStep ==
  ASSUME IInv, [Next]_vars
  PROVE  IInv'
<1>1. TypeOK' /\ Cancels'
  BY TypeStep, CancelsStep DEF IInv
<1>2. CASE UNCHANGED vars
  <2> USE <1>2 DEF vars, clientVars, callVars
  <2>1. Registration' /\ Requested' /\ Contexts' /\ ResponsesInOrder' /\ LoopSurvives'
    BY DEF IInv, Registration, Waits, Id, Requested, Unanswered, Contexts, ResponsesInOrder, LoopSurvives
  <2>2. Transit'
    BY DEF IInv, Transit, IsSent, Waits
  <2>3. Numbered'
    BY DEF IInv, Numbered, Waits, InStep, Holds, Pending, Expected
  <2>4. Singles'
    BY DEF IInv, Singles, IsSingle, SingleServer, SingleCaller, SingleReasons, Waits
  <2>5. QED
    BY <1>1, <2>1, <2>2, <2>3, <2>4 DEF IInv
<1>3. ASSUME NEW c \in Calls, \E kind \in KindsOf[c] : RegisterRpc(c, kind)
      PROVE  IInv'
  BY <1>1, <1>3, RegisterRpcStep
<1>4. ASSUME NEW c \in Calls, SendRequest(c) PROVE IInv'
  BY <1>1, <1>4, SendRequestStep
<1>5. ASSUME NEW c \in Calls, TimeoutSending(c) PROVE IInv'
  BY <1>1, <1>5, TimeoutSendingStep
<1>6. ASSUME NEW c \in Calls, Read(c) PROVE IInv'
  BY <1>1, <1>6, NextResponseStep, NoResponseStep, FinalizeStep DEF Read
<1>12. ASSUME NEW c \in Calls, SendCancel(c) PROVE IInv'
  BY <1>1, <1>12, SendCancelStep
<1>7. ASSUME NEW c \in Calls, TimePasses(c) \/ RetrySendTimeout(c) PROVE IInv'
  BY <1>1, <1>7, TimeStep
<1>8. ASSUME NEW c \in Calls, Serve(c) PROVE IInv'
  BY <1>1, <1>8, ServeStep
<1>9. CASE Loop
  BY <1>1, <1>9, TakeTimeoutStep, TakeResponseStep, PanicStep, SendRespStep, BlockOnResponseStep, CloseStep DEF Loop
<1>10. CASE HandleRequest
  BY <1>1, <1>10, HandleRequestStep
<1>11. QED
  BY <1>2, <1>3, <1>4, <1>5, <1>6, <1>7, <1>8, <1>9, <1>10, <1>12 DEF Next

LEMMA Invariant == Spec => []IInv
  BY InitIInv, InvStep, PTL DEF Spec

(* Every channel, call, context and handler keeps its type.                 *)
THEOREM TypeCorrect == Spec => []TypeOK
  BY Invariant, PTL DEF IInv

(* The loop looks a channel up under the lock and sends to it without: if   *)
(* it was closed in between, so that the loop panics, then the call is a    *)
(* stream whose StreamCancelFn was called.  Other callers close only a call *)
(* they never sent or whose response they read, and the loop closes the     *)
(* rest itself, between two responses (wshrpc.go:847, 473, 558-575).        *)
THEOREM PanicsOnlyOnCancel == Spec => []LoopSurvives
  BY Invariant, PTL DEF IInv

(* However far a caller falls behind, what it reads next is the response    *)
(* that follows the one before, or the error of its expiration as the last  *)
(* word (sendRespWithBlockMessage, wshrpc.go:473).                          *)
THEOREM ReadInOrder == Spec => []ResponsesInOrder
  BY Invariant, PTL DEF IInv

(* A call that wants one response does not find its channel closed under it *)
(* and reports a timeout only after its time ran out.                       *)
THEOREM CallFailsForAReason == Spec => []FailsForAReason
<1>1. IInv => FailsForAReason
  <2> SUFFICES ASSUME IInv, NEW c \in Calls, call[c].kind = "single"
               PROVE  result[c] # "closed" /\ (result[c] = "timeout" => ctx[c] = "expired")
    BY DEF FailsForAReason
  <2>1. CASE call[c].at = "idle"
    BY <2>1 DEF IInv, Contexts
  <2>2. CASE call[c].at # "idle"
    BY <2>2 DEF IInv, Singles, IsSingle, SingleReasons
  <2>3. QED
    BY <2>1, <2>2
<1>2. QED
  BY <1>1, Invariant, PTL

=============================================================================
