------------------------------- MODULE RpcCalls -------------------------------
(***************************************************************************)
(* The two ends of an RPC connection, pkg/wshutil/wshrpc.go, wshadapter.go  *)
(* and the stream helper of pkg/wshrpc/wshclient.                           *)
(*                                                                         *)
(* The client registers a call in RpcMap under its request id, sends the    *)
(* request and reads the call's response channel.  One goroutine, the loop  *)
(* of runServer, delivers the responses and the expirations; callers close  *)
(* their own calls, and whoever holds the cancel function of a stream       *)
(* closes that stream.  A channel that is sent to after it was closed, or   *)
(* closed twice, panics and takes the loop and the connection with it.      *)
(*                                                                         *)
(* The server runs one RpcResponseHandler for each request: the producer    *)
(* sends the responses and, for a stream, a second goroutine ends it when   *)
(* the context does.  The transport keeps the order.  Every command that    *)
(* expects no response has the empty request id, so all of them share one   *)
(* entry of RpcMap.                                                         *)
(*                                                                         *)
(* The connection lasts: the loop ends only by a panic, not because its     *)
(* InputCh is closed.                                                       *)
(***************************************************************************)
EXTENDS Integers, Sequences

CONSTANTS
  Calls,   \* the calls a client makes
  KindsOf, \* the kinds each may have: "single", "stream", "command"
  NoId,    \* the empty request id
  None,    \* no entry
  ResCap,  \* RespChSize
  DoneCap, \* CtxDoneChSize
  OutCap,  \* the capacity of OutputCh
  InCap,   \* the responses the transport and InputCh hold
  MaxData  \* bound on the responses of a stream before its last one

ASSUME RpcCallsAssumption ==
  /\ NoId \notin Calls
  /\ None \notin Calls
  /\ KindsOf \in [Calls -> SUBSET {"single", "stream", "command"}]
  /\ ResCap \in Nat \ {0}
  /\ MaxData \in Nat

VARIABLES
  call,      \* kind and progress of each call
  result,    \* what the caller was told
  rpcMap,    \* RpcMap: the call registered under each id
  ctx,       \* the call's context
  expiry,    \* the calls whose registerRpc goroutine still runs
  resCh,     \* the response channels
  resOpen,   \* those made and not closed
  ctxDoneCh,
  outputCh,
  inputCh,
  loop,      \* runServer: where it is, and the response it delivers
  server,    \* the handlers of the other side
  got,       \* ghost: the number of the last response each caller read
  canceled   \* ghost: the streams whose StreamCancelFn was called

callVars == <<call, result, got, canceled>>

clientVars == <<callVars, rpcMap, ctx, expiry, resCh, resOpen, ctxDoneCh, outputCh, loop>>

vars == <<clientVars, inputCh, server>>

Ids == Calls \cup {NoId}

Id(c) == IF call[c].kind = "command" THEN NoId ELSE c

Handler == [producer |-> "none", waiter |-> "none", left |-> 0, sent |-> 0, done |-> FALSE, ctx |-> "none"]

Init ==
  /\ call = [c \in Calls |-> [kind |-> "single", at |-> "idle"]]
  /\ result = [c \in Calls |-> "none"]
  /\ rpcMap = [id \in Ids |-> None]
  /\ ctx = [c \in Calls |-> "none"]
  /\ expiry = {}
  /\ resCh = [c \in Calls |-> << >>]
  /\ resOpen = {}
  /\ ctxDoneCh = << >>
  /\ outputCh = << >>
  /\ inputCh = << >>
  /\ loop = [at |-> "select", msg |-> None]
  /\ server = [c \in Calls |-> Handler]
  /\ got = [c \in Calls |-> 0]
  /\ canceled = {}

At(c, place) == call' = [call EXCEPT ![c].at = place]

Ends(c, res) ==
  /\ At(c, "ended")
  /\ result' = [result EXCEPT ![c] = res]

-----------------------------------------------------------------------------
(* Entries of RpcMap.                                                       *)

(* The channel unregisterRpc closes.                                        *)
Closed(id) == {rpcMap[id]} \ {None}

\* mutant of LastWord: an expired call is closed without a word
LastWord_Never(id, error) == resCh

(* The error unregisterRpc leaves in a channel that has room for it.        *)
LastWord(id, error) ==
  [c \in Calls |->
     IF error /= "none" /\ rpcMap[id] = c /\ Len(resCh[c]) < ResCap
       THEN Append(resCh[c], [call |-> c, n |-> 0, last |-> TRUE, error |-> error])
       ELSE resCh[c]]

(* unregisterRpc, and callContextCancelFn of the entry and of "self".       *)
UnregisterRpc(id, error, self) ==
  /\ rpcMap' = [rpcMap EXCEPT ![id] = None]
  /\ resCh' = LastWord(id, error)
  /\ resOpen' = resOpen \ Closed(id)
  /\ ctx' = [c \in Calls |-> IF ctx[c] = "live" /\ c \in {rpcMap[id]} \cup self
                               THEN "canceled" ELSE ctx[c]]

-----------------------------------------------------------------------------
(* The caller.                                                              *)

(* SendComplexRequest up to registerRpc.                                    *)
RegisterRpc(c, kind) ==
  /\ call[c].at = "idle"
  /\ call' = [call EXCEPT ![c] = [kind |-> kind, at |-> "sending"]]
  /\ rpcMap' = [rpcMap EXCEPT ![IF kind = "command" THEN NoId ELSE c] = c]
  /\ resOpen' = resOpen \cup {c}
  /\ ctx' = [ctx EXCEPT ![c] = "live"]
  /\ expiry' = expiry \cup {c}
  /\ UNCHANGED <<result, got, canceled, resCh, ctxDoneCh, outputCh, loop, inputCh, server>>

(* The request is sent; SendCommand finalizes at once.                      *)
SendRequest(c) ==
  /\ call[c].at = "sending"
  /\ Len(outputCh) < OutCap
  /\ outputCh' = Append(outputCh, c)
  /\ IF call[c].kind = "command"
       THEN /\ Ends(c, "sent")
            /\ ctx' = [ctx EXCEPT ![c] = IF ctx[c] = "live" THEN "canceled" ELSE ctx[c]]
       ELSE /\ At(c, "reading")
            /\ UNCHANGED <<result, ctx>>
  /\ UNCHANGED <<got, canceled, rpcMap, expiry, resCh, resOpen, ctxDoneCh, loop, inputCh, server>>

(* The context ends before OutputCh has room: finalize.                     *)
TimeoutSending(c) ==
  /\ call[c].at = "sending"
  /\ ctx[c] /= "live"
  /\ Ends(c, "timeout")
  /\ IF Id(c) = NoId
       THEN UNCHANGED <<rpcMap, ctx, resCh, resOpen>>
       ELSE UnregisterRpc(c, "none", {c})
  /\ UNCHANGED <<got, canceled, expiry, ctxDoneCh, outputCh, loop, inputCh, server>>

Reads(c) == call[c].at \in {"reading", "blocked"}

AfterReading(c, m) ==
  IF call[c].kind = "single" THEN "finalizing" ELSE IF m.error /= "none" THEN "ended" ELSE "reading"

(* NextResponse finds a response; a stream goes on unless it is an error.   *)
NextResponse(c) ==
  /\ Reads(c)
  /\ resCh[c] /= << >>
  /\ LET m == Head(resCh[c])
     IN  /\ resCh' = [resCh EXCEPT ![c] = Tail(@)]
         /\ got' = [got EXCEPT ![c] = IF m.n = 0 THEN @ ELSE m.n]
         /\ At(c, AfterReading(c, m))
         /\ result' = [result EXCEPT ![c] = IF m.error = "none" THEN "answer" ELSE m.error]
  /\ UNCHANGED <<canceled, rpcMap, ctx, expiry, resOpen, ctxDoneCh, outputCh, loop, inputCh, server>>

(* ResponseDone: a stream whose channel is closed and empty is over; if it  *)
(* is empty, NextResponse blocks.                                           *)
ResponseDone(c) ==
  /\ call[c].kind = "stream"
  /\ call[c].at = "reading"
  /\ resCh[c] = << >>
  /\ IF c \in resOpen
       THEN At(c, "blocked") /\ UNCHANGED result
       ELSE Ends(c, "done")
  /\ UNCHANGED <<got, canceled, rpcMap, ctx, expiry, resCh, resOpen, ctxDoneCh, outputCh, loop,
                 inputCh, server>>

(* The channel is closed while NextResponse waits.                          *)
ResponseChannelClosed(c) ==
  /\ call[c].at = "blocked" \/ (call[c].at = "reading" /\ call[c].kind = "single")
  /\ resCh[c] = << >> /\ c \notin resOpen
  /\ At(c, IF call[c].kind = "single" THEN "finalizing" ELSE "ended")
  /\ result' = [result EXCEPT ![c] = "closed"]
  /\ UNCHANGED <<got, canceled, rpcMap, ctx, expiry, resCh, resOpen, ctxDoneCh, outputCh, loop,
                 inputCh, server>>

(* finalize, deferred by SendRpcRequest.                                    *)
Finalize(c) ==
  /\ call[c].at = "finalizing"
  /\ At(c, "ended")
  /\ UnregisterRpc(c, "none", {c})
  /\ UNCHANGED <<result, got, canceled, expiry, ctxDoneCh, outputCh, loop, inputCh, server>>

(* StreamCancelFn, which every caller of a stream is given: SendCancel, on  *)
(* whatever goroutine calls it, sends a Cancel or gives up doing so, and    *)
(* finalizes.  All that the Cancel does is tell the handler, which may end  *)
(* at any time anyway.  A second call finds nothing registered.             *)
SendCancel(c) ==
  /\ call[c].kind = "stream" /\ call[c].at \in {"reading", "blocked", "ended"}
  /\ c \notin canceled
  /\ canceled' = canceled \cup {c}
  /\ UnregisterRpc(c, "none", {c})
  /\ UNCHANGED <<call, result, got, expiry, ctxDoneCh, outputCh, loop, inputCh, server>>

Read(c) == NextResponse(c) \/ ResponseDone(c) \/ ResponseChannelClosed(c) \/ Finalize(c)

TimePasses(c) ==
  /\ ctx[c] = "live"
  /\ ctx' = [ctx EXCEPT ![c] = "expired"]
  /\ UNCHANGED <<callVars, rpcMap, expiry, resCh, resOpen, ctxDoneCh, outputCh, loop,
                 inputCh, server>>

\* mutant of RetrySendTimeout: a full CtxDoneCh is not tried again
RetrySendTimeout_Once(c) ==
  /\ c \in expiry /\ ctx[c] /= "live"
  /\ expiry' = expiry \ {c}
  /\ ctxDoneCh' = IF Len(ctxDoneCh) = DoneCap THEN ctxDoneCh
                    ELSE Append(ctxDoneCh, Id(c))
  /\ UNCHANGED <<callVars, rpcMap, ctx, resCh, resOpen, outputCh, loop, inputCh, server>>

\* mutant of RetrySendTimeout: the goroutine closes the call itself
RetrySendTimeout_Closes(c) ==
  /\ c \in expiry /\ ctx[c] /= "live"
  /\ expiry' = expiry \ {c}
  /\ UnregisterRpc(Id(c), "timeout", {})
  /\ UNCHANGED <<callVars, ctxDoneCh, outputCh, loop, inputCh, server>>

(* The goroutine of registerRpc: once the context is done it tells the      *)
(* loop, as soon as CtxDoneCh has room.                                     *)
RetrySendTimeout(c) ==
  /\ c \in expiry /\ ctx[c] /= "live"
  /\ Len(ctxDoneCh) < DoneCap
  /\ expiry' = expiry \ {c}
  /\ ctxDoneCh' = Append(ctxDoneCh, Id(c))
  /\ UNCHANGED <<callVars, rpcMap, ctx, resCh, resOpen, outputCh, loop, inputCh, server>>

-----------------------------------------------------------------------------
(* The loop.                                                                *)

LoopTo(place) == loop' = [at |-> place, msg |-> None]

TakeTimeout ==
  /\ loop.at = "select"
  /\ ctxDoneCh /= << >>
  /\ ctxDoneCh' = Tail(ctxDoneCh)
  /\ UnregisterRpc(Head(ctxDoneCh), "timeout", {})
  /\ UNCHANGED <<callVars, expiry, outputCh, loop, inputCh, server>>

(* getResponseCh: a response nobody waits for is dropped.                   *)
TakeResponse ==
  /\ loop.at = "select"
  /\ inputCh /= << >>
  /\ inputCh' = Tail(inputCh)
  /\ IF rpcMap[Head(inputCh).call] = None
       THEN UNCHANGED loop
       ELSE loop' = [at |-> "sending", msg |-> Head(inputCh)]
  /\ UNCHANGED <<callVars, rpcMap, ctx, expiry, resCh, resOpen, ctxDoneCh, outputCh, server>>

AfterSending(m) ==
  IF m.last THEN loop' = [at |-> "unregister", msg |-> m] ELSE LoopTo("select")

(* sendRespWithBlockMessage: a send on a closed channel panics.             *)
SendResp ==
  /\ loop.at \in {"sending", "blocked"}
  /\ LET m == loop.msg
     IN  \/ /\ m.call \notin resOpen
            /\ loop' = [loop EXCEPT !.at = "panic"]
            /\ UNCHANGED resCh
         \/ /\ m.call \in resOpen
            /\ Len(resCh[m.call]) < ResCap
            /\ resCh' = [resCh EXCEPT ![m.call] = Append(@, m)]
            /\ AfterSending(m)
  /\ UNCHANGED <<callVars, rpcMap, ctx, expiry, resOpen, ctxDoneCh, outputCh, inputCh, server>>

BlockOnResponse ==
  /\ loop.at = "sending"
  /\ loop.msg.call \in resOpen
  /\ Len(resCh[loop.msg.call]) = ResCap
  /\ loop' = [loop EXCEPT !.at = "blocked"]
  /\ UNCHANGED <<callVars, rpcMap, ctx, expiry, resCh, resOpen, ctxDoneCh, outputCh,
                 inputCh, server>>

\* mutant of FailBlocked: the response is skipped and the call goes on
FailBlocked_Skips ==
  /\ loop.at = "blocked"
  /\ LoopTo("select")
  /\ UNCHANGED <<callVars, rpcMap, ctx, expiry, resCh, resOpen, ctxDoneCh, outputCh, inputCh, server>>

(* The channel stays full for a second: the call is closed, without a word. *)
FailBlocked ==
  /\ loop.at = "blocked"
  /\ LoopTo("select")
  /\ UnregisterRpc(loop.msg.call, "none", {})
  /\ UNCHANGED <<callVars, expiry, ctxDoneCh, outputCh, inputCh, server>>

UnregisterLast ==
  /\ loop.at = "unregister"
  /\ LoopTo("select")
  /\ UnregisterRpc(loop.msg.call, "none", {})
  /\ UNCHANGED <<callVars, expiry, ctxDoneCh, outputCh, inputCh, server>>

Loop == TakeTimeout \/ TakeResponse \/ SendResp \/ BlockOnResponse \/ FailBlocked \/ UnregisterLast

-----------------------------------------------------------------------------
(* The server.                                                              *)

(* handleRequest, in a goroutine of its own; an async handler gets the one  *)
(* that waits for the context.                                              *)
HandleRequest ==
  /\ outputCh /= << >>
  /\ outputCh' = Tail(outputCh)
  /\ LET c == Head(outputCh)
         async == call[c].kind = "stream"
     IN  server' = IF call[c].kind = "command" THEN server
                     ELSE [server EXCEPT ![c] =
                            [Handler EXCEPT !.producer = "running", !.ctx = "live",
                                            !.left = IF async THEN MaxData ELSE 0,
                                            !.waiter = IF async THEN "waiting" ELSE "none"]]
  /\ UNCHANGED <<callVars, rpcMap, ctx, expiry, resCh, resOpen, ctxDoneCh, loop, inputCh>>

ServerTimePasses(c) ==
  /\ server[c].ctx = "live"
  /\ server' = [server EXCEPT ![c].ctx = "done"]
  /\ UNCHANGED <<clientVars, inputCh>>

(* SendResponse or SendResponseError of a handler that is not done.         *)
StartResponse(c) ==
  /\ server[c].producer = "running"
  /\ ~server[c].done
  /\ \/ /\ server[c].left > 0
        /\ server' = [server EXCEPT ![c].producer = "data", ![c].left = @ - 1]
     \/ \E last \in {"end", "error"} : server' = [server EXCEPT ![c].producer = last]
  /\ UNCHANGED <<clientVars, inputCh>>

(* The context of an async handler is done before the handler: Finalize.    *)
FinalizeAsync(c) ==
  /\ server[c].waiter = "waiting"
  /\ server[c].ctx = "done"
  /\ ~server[c].done
  /\ server' = [server EXCEPT ![c].waiter = "end"]
  /\ UNCHANGED <<clientVars, inputCh>>

Response(c, what) ==
  [call |-> c, n |-> server[c].sent + 1, last |-> what /= "data",
   error |-> IF what = "error" THEN "error" ELSE "none"]

(* The response goes out, or is given up because the context is done; a     *)
(* last one closes the handler either way.                                  *)
FinishResponse(c, goroutine) ==
  /\ server[c][goroutine] \in {"data", "end", "error"}
  /\ \/ /\ Len(inputCh) < InCap
        /\ inputCh' = Append(inputCh, Response(c, server[c][goroutine]))
     \/ /\ server[c].ctx = "done"
        /\ UNCHANGED inputCh
  /\ LET last == server[c][goroutine] /= "data"
     IN  server' = [server EXCEPT
           ![c][goroutine] = IF last THEN "ended" ELSE "running",
           ![c].sent = IF inputCh' = inputCh THEN @ ELSE @ + 1,
           ![c].done = last \/ @,
           ![c].ctx = IF last THEN "done" ELSE @]
  /\ UNCHANGED clientVars

Serve(c) ==
  \/ ServerTimePasses(c)
  \/ StartResponse(c)
  \/ FinalizeAsync(c)
  \/ \E goroutine \in {"producer", "waiter"} : FinishResponse(c, goroutine)

-----------------------------------------------------------------------------

Next ==
  \/ \E c \in Calls :
       \/ \E kind \in KindsOf[c] : RegisterRpc(c, kind)
       \/ SendRequest(c)
       \/ TimeoutSending(c)
       \/ Read(c)
       \/ SendCancel(c)
       \/ TimePasses(c)
       \/ RetrySendTimeout(c)
       \/ Serve(c)
  \/ Loop
  \/ HandleRequest

Spec == Init /\ [][Next]_vars

(* Time passes, goroutines that can run do, and a caller reads what it      *)
(* waits for.  Nothing is asked of the other side: it may never answer.     *)
Fairness ==
  /\ WF_vars(Loop)
  /\ \A c \in Calls :
       /\ WF_vars(TimePasses(c))
       /\ WF_vars(RetrySendTimeout(c))
       /\ WF_vars(TimeoutSending(c))
       /\ WF_vars(Read(c))

FairSpec == Spec /\ Fairness

-----------------------------------------------------------------------------

Messages ==
  [call : Calls, n : Nat, last : BOOLEAN, error : {"none", "error", "timeout"}]

Loops ==
  [at : {"select"}, msg : {None}] \cup
  [at : {"sending", "blocked", "unregister", "panic"}, msg : Messages]

Handlers ==
  [producer : {"none", "running", "data", "end", "error", "ended"},
   waiter : {"none", "waiting", "end", "ended"},
   left : Nat, sent : Nat, done : BOOLEAN, ctx : {"none", "live", "done"}]

TypeOK ==
  /\ call \in [Calls -> [kind : {"single", "stream", "command"},
                         at : {"idle", "sending", "reading", "blocked", "finalizing", "ended"}]]
  /\ result \in [Calls -> {"none", "answer", "error", "timeout", "closed", "done", "sent"}]
  /\ rpcMap \in [Ids -> Calls \cup {None}]
  /\ ctx \in [Calls -> {"none", "live", "expired", "canceled"}]
  /\ expiry \subseteq Calls
  /\ resCh \in [Calls -> Seq(Messages)]
  /\ resOpen \subseteq Calls
  /\ ctxDoneCh \in Seq(Ids)
  /\ outputCh \in Seq(Calls)
  /\ inputCh \in Seq(Messages)
  /\ loop \in Loops
  /\ server \in [Calls -> Handlers]
  /\ got \in [Calls -> Nat]
  /\ canceled \subseteq Calls

(* The loop delivers to channels it looked up before, without the lock      *)
(* (wshrpc.go:847), and callers, expirations and the loop itself close them *)
(* meanwhile.  Only one of these can hit it: it panics on a response of a   *)
(* stream whose caller has called StreamCancelFn, and on no other.          *)
LoopSurvives == loop.at = "panic" => loop.msg.call \in canceled

(* Not so, if streams are cancelled: the loop never panics.                 *)
NeverPanics == loop.at /= "panic"

(* A caller reads the responses in the order they were sent and skips none, *)
(* however far it falls behind (sendRespWithBlockMessage).                  *)
ResponsesInOrder ==
  \A c \in Calls : \A i \in 1 .. Len(resCh[c]) :
    \/ resCh[c][i].n = got[c] + i
    \/ resCh[c][i].error = "timeout" /\ i = Len(resCh[c])

(* A call that wants one response fails only because the server said so or  *)
(* its time ran out, never because its channel was closed under it.         *)
FailsForAReason ==
  \A c \in Calls :
    call[c].kind = "single" =>
      /\ result[c] /= "closed"
      /\ result[c] = "timeout" => ctx[c] = "expired"

(* A call that was made comes back, although the server may never answer:   *)
(* its time runs out, and the loop hears of it over a channel that may be   *)
(* full (retrySendTimeout).  Not if the loop has panicked on a cancelled    *)
(* stream: nobody then closes the channels of the others.                   *)
CallsReturn ==
  \A c \in Calls :
    call[c].at \in {"sending", "reading", "blocked"} ~>
      call[c].at = "ended" \/ loop.at = "panic"

=============================================================================
