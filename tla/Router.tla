-------------------------------- MODULE Router --------------------------------
(***************************************************************************)
(* WshRouter, pkg/wshutil/wshrouter.go: a switch for RPC messages.          *)
(*                                                                         *)
(* Each link has a goroutine that receives its messages and puts them into  *)
(* inputCh; one goroutine, runServer, takes them from there.  It finds the  *)
(* link of a request by its route and remembers in rpcMap where the answer  *)
(* has to go; a response is sent to the link the request came from.         *)
(* Sending to a link never blocks: what its client has no room for goes to  *)
(* the link's backlog, which another goroutine drains, woken when the first *)
(* backlog comes into being and polling while there is one.                 *)
(*                                                                         *)
(* Links come and go, are trusted once they have authenticated, and bind    *)
(* routes, on goroutines of the control handlers and of the connections.    *)
(***************************************************************************)
EXTENDS Integers, Sequences, FiniteSets

CONSTANTS
  Links,     \* the links, each registered once
  Upstream,  \* the link to the upstream router, or NoLink for a root router
  NoLink,
  RouteOf,   \* the route each link authenticates for; several may have the same
  Rpcs,      \* the requests, in the order they are made
  ClientCap, \* how many messages the client of a link holds
  InCap,     \* RouterInputChQueueSize
  MaxData,   \* bounds on the responses to each request before the last
  Leaving    \* bound on unregistering: the leaves that may go away

ASSUME RouterAssumption ==
  /\ NoLink \notin Links
  /\ Upstream \in Links \cup {NoLink}
  /\ DOMAIN RouteOf = Links
  /\ Rpcs \subseteq Nat
  /\ ClientCap \in Nat \ {0}
  /\ InCap \in Nat
  /\ MaxData \in [Rpcs -> Nat]
  /\ Leaving \subseteq Links \ {Upstream}

VARIABLES
  link,      \* linkMap: "unknown", "untrusted", "trusted" or "gone"
  closing,   \* how far UnregisterLink has come
  routeMap,
  rpcMap,    \* the source link of the requests that wait for an answer
  inputCh,
  server,    \* runServer: the request that was sent and is not registered yet
  backlog,   \* linkMsgBacklog
  client,    \* what the client of each link holds, on its way to the other side
  pump,      \* processBacklog: "waiting", "awake" or "sleeping"
  rpc,       \* each request: who made it, and how far it and its answer have come
  taken,     \* ghost: how many messages each link's client has passed on
  routed     \* ghost: how many messages were sent to each link

linkVars == <<link, closing, routeMap>>

queueVars == <<backlog, client, pump, routed>>

vars == <<linkVars, rpcMap, inputCh, server, queueVars, rpc, taken>>

Leaves == Links \ {Upstream}

Routes == {RouteOf[l] : l \in Leaves}

(* A request goes to a route, or to a link by its id ("link:").             *)
Targets == Routes \cup Leaves

Registered(l) == link[l] \in {"untrusted", "trusted"}

Init ==
  /\ link = [l \in Links |-> IF l = Upstream THEN "trusted" ELSE "unknown"]
  /\ closing = [l \in Leaves |-> "no"]
  /\ routeMap = [r \in Routes |-> NoLink]
  /\ rpcMap = [i \in Rpcs |-> NoLink]
  /\ inputCh = << >>
  /\ server = << >>
  /\ backlog = [l \in Links |-> << >>]
  /\ client = [l \in Links |-> << >>]
  /\ pump = "waiting"
  /\ rpc = [i \in Rpcs |-> [by |-> NoLink, to |-> NoLink, at |-> "new", left |-> MaxData[i], holder |-> NoLink]]
  /\ taken = [l \in Links |-> 0]
  /\ routed = [l \in Links |-> 0]

-----------------------------------------------------------------------------
(* Sending.                                                                 *)

\* mutant of Direct: the client is tried although older messages wait
Direct_Always(l) == Len(client[l]) < ClientCap

(* The client takes a message only when none waits.                         *)
Direct(l) == backlog[l] = << >> /\ Len(client[l]) < ClientCap

NoBacklog == \A l \in Links : backlog[l] = << >>

\* mutant of Signalled: the goroutine is not woken
Signalled_Never == pump

(* Signal, when the map of backlogs was empty.                              *)
Signalled == IF NoBacklog /\ pump = "waiting" THEN "awake" ELSE pump

(* sendRpcMessageToLink.  The link may have gone since it was looked up.    *)
SendToLink(l, i, kind) ==
  LET m == [rpc |-> i, kind |-> kind, no |-> routed[l] + 1]
  IN  /\ routed' = [routed EXCEPT ![l] = @ + 1]
      /\ IF Direct(l)
           THEN /\ client' = [client EXCEPT ![l] = Append(@, m)]
                /\ UNCHANGED <<backlog, pump>>
           ELSE /\ backlog' = [backlog EXCEPT ![l] = Append(@, m)]
                /\ pump' = Signalled
                /\ UNCHANGED client

(* sendRoutedMessage: the link of a route, or the upstream router if it has *)
(* none here; a link named by its id has no other way.                      *)
Local(route) == {l \in Links : Registered(l) /\ routeMap[route] = l}

Destination(target) ==
  IF target \in Leaves THEN {target} \cap {l \in Leaves : Registered(l)}
    ELSE IF Local(target) /= {} THEN Local(target) ELSE {Upstream} \ {NoLink}

(* Every backlog is drained as far as its client has room; that of a link   *)
(* that is gone is dropped.                                                 *)
Room(l) ==
  LET free == ClientCap - Len(client[l])
  IN  IF free < Len(backlog[l]) THEN free ELSE Len(backlog[l])

ProcessOneBacklogRound ==
  /\ pump = "awake"
  /\ client' = [l \in Links |-> IF Registered(l) THEN client[l] \o SubSeq(backlog[l], 1, Room(l)) ELSE client[l]]
  /\ backlog' = [l \in Links |->
       IF Registered(l) THEN SubSeq(backlog[l], Room(l) + 1, Len(backlog[l])) ELSE << >>]
  /\ pump' = "sleeping"
  /\ UNCHANGED <<linkVars, rpcMap, inputCh, server, rpc, taken, routed>>

(* After 50 ms it goes on, or waits if there is no backlog.                 *)
ProcessBacklog ==
  /\ pump = "sleeping"
  /\ pump' = IF NoBacklog THEN "waiting" ELSE "awake"
  /\ UNCHANGED <<linkVars, rpcMap, inputCh, server, rpc, taken, routed, backlog, client>>

-----------------------------------------------------------------------------
(* runServer.                                                               *)

(* A request with a destination is sent, and then registered; without one   *)
(* an error goes to the route it came from, wherever that leads now         *)
(* (handleNoRoute).                                                         *)
RouteRequest ==
  /\ server = << >>
  /\ inputCh /= << >> /\ Head(inputCh).kind = "request"
  /\ inputCh' = Tail(inputCh)
  /\ LET i == Head(inputCh).rpc
         to == Destination(rpc[i].to)
         back == Destination(RouteOf[rpc[i].by])
     IN  \/ /\ \E l \in to : SendToLink(l, i, "request")
            /\ server' = <<i>>
         \/ /\ to = {}
            /\ \E l \in back : SendToLink(l, i, "noroute")
            /\ UNCHANGED server
         \/ /\ to = {} /\ back = {}
            /\ UNCHANGED <<server, queueVars>>
  /\ UNCHANGED <<linkVars, rpcMap, rpc, taken>>

\* mutant of RegisterRouteInfo: the request is registered for the link it goes to
RegisterRouteInfo_Destination ==
  /\ server /= << >>
  /\ \E l \in Destination(rpc[server[1]].to) : rpcMap' = [rpcMap EXCEPT ![server[1]] = l]
  /\ server' = << >>
  /\ UNCHANGED <<linkVars, inputCh, queueVars, rpc, taken>>

RegisterRouteInfo ==
  /\ server /= << >>
  /\ rpcMap' = [rpcMap EXCEPT ![server[1]] = rpc[server[1]].by]
  /\ server' = << >>
  /\ UNCHANGED <<linkVars, inputCh, queueVars, rpc, taken>>

(* A response goes to the link the request came from, if it is still there. *)
RouteResponse ==
  /\ server = << >>
  /\ inputCh /= << >> /\ Head(inputCh).kind \in {"data", "last"}
  /\ inputCh' = Tail(inputCh)
  /\ LET m == Head(inputCh)
         to == rpcMap[m.rpc]
     IN  /\ IF to /= NoLink /\ Registered(to)
              THEN SendToLink(to, m.rpc, m.kind)
              ELSE UNCHANGED queueVars
         /\ rpcMap' = IF m.kind = "last" THEN [rpcMap EXCEPT ![m.rpc] = NoLink] ELSE rpcMap
  /\ UNCHANGED <<linkVars, server, rpc, taken>>

RunServer == RouteRequest \/ RegisterRouteInfo \/ RouteResponse

-----------------------------------------------------------------------------
(* The links: runLinkClientRecvLoop, and the other side of each.            *)

Receive(i, kind) ==
  /\ Len(inputCh) < InCap
  /\ inputCh' = Append(inputCh, [rpc |-> i, kind |-> kind])

(* A leaf makes a request; one that is not trusted is refused.              *)
RecvRequest(l, i, target) ==
  /\ l /= Upstream /\ Registered(l)
  /\ rpc[i].at = "new" /\ \A j \in 1 .. i - 1 : rpc[j].at /= "new"
  /\ target \notin {l, RouteOf[l]}
  /\ IF link[l] = "trusted"
       THEN /\ Receive(i, "request")
            /\ rpc' = [rpc EXCEPT ![i].by = l, ![i].to = target, ![i].at = "asked"]
            /\ UNCHANGED queueVars
       ELSE /\ SendToLink(l, i, "refused")
            /\ rpc' = [rpc EXCEPT ![i].by = l, ![i].to = target, ![i].at = "refused"]
            /\ UNCHANGED inputCh
  /\ UNCHANGED <<linkVars, rpcMap, server, taken>>

(* The link that holds a request answers it.  From a link that is not       *)
(* trusted only the answer to a request that is registered gets through.    *)
RecvResponse(l, i, kind) ==
  /\ Registered(l)
  /\ rpc[i].at = "held" /\ rpc[i].holder = l
  /\ kind = "data" => rpc[i].left > 0
  /\ IF link[l] = "trusted" \/ rpcMap[i] /= NoLink
       THEN /\ Receive(i, kind)
            /\ rpc' = [rpc EXCEPT ![i].at = IF kind = "last" THEN "answered" ELSE @,
                                  ![i].left = IF kind = "data" THEN @ - 1 ELSE @]
       ELSE /\ rpc' = [rpc EXCEPT ![i].at = "lost"]
            /\ UNCHANGED inputCh
  /\ UNCHANGED <<linkVars, rpcMap, server, queueVars, taken>>

(* The client passes its next message on to the other side.                 *)
Deliver(l) ==
  /\ client[l] /= << >>
  /\ client' = [client EXCEPT ![l] = Tail(@)]
  /\ taken' = [taken EXCEPT ![l] = @ + 1]
  /\ LET m == Head(client[l])
     IN  rpc' = [rpc EXCEPT ![m.rpc] =
           IF m.kind = "request" THEN [@ EXCEPT !.at = "held", !.holder = l]
             ELSE IF m.kind \in {"last", "noroute", "refused"} /\ l = @.by THEN [@ EXCEPT !.at = "done"]
             ELSE @]
  /\ UNCHANGED <<linkVars, rpcMap, inputCh, server, backlog, pump, routed>>

RegisterUntrustedLink(l) ==
  /\ link[l] = "unknown"
  /\ link' = [link EXCEPT ![l] = "untrusted"]
  /\ UNCHANGED <<closing, routeMap, rpcMap, inputCh, server, queueVars, rpc, taken>>

TrustLink(l) ==
  /\ link[l] = "untrusted"
  /\ link' = [link EXCEPT ![l] = "trusted"]
  /\ UNCHANGED <<closing, routeMap, rpcMap, inputCh, server, queueVars, rpc, taken>>

(* bindRouteLocally, after trustLink: the route is this link's now.         *)
BindRoute(l) ==
  /\ l /= Upstream /\ link[l] = "trusted"
  /\ routeMap' = [routeMap EXCEPT ![RouteOf[l]] = l]
  /\ UNCHANGED <<link, closing, rpcMap, inputCh, server, queueVars, rpc, taken>>

(* UnregisterLink reads the routes, unbinds those that are still the        *)
(* link's, and deletes the link, with the lock free in between.             *)
GetRoutesForLink(l) ==
  /\ l \in Leaving /\ Registered(l) /\ closing[l] = "no"
  /\ closing' = [closing EXCEPT ![l] = IF routeMap[RouteOf[l]] = l THEN "unbind" ELSE "delete"]
  /\ UNCHANGED <<link, routeMap, rpcMap, inputCh, server, queueVars, rpc, taken>>

UnbindRoute(l) ==
  /\ l /= Upstream /\ closing[l] = "unbind"
  /\ closing' = [closing EXCEPT ![l] = "delete"]
  /\ routeMap' = [routeMap EXCEPT ![RouteOf[l]] = IF @ = l THEN NoLink ELSE @]
  /\ UNCHANGED <<link, rpcMap, inputCh, server, queueVars, rpc, taken>>

DeleteLink(l) ==
  /\ l /= Upstream /\ closing[l] = "delete"
  /\ closing' = [closing EXCEPT ![l] = "done"]
  /\ link' = [link EXCEPT ![l] = "gone"]
  /\ UNCHANGED <<routeMap, rpcMap, inputCh, server, queueVars, rpc, taken>>

UnregisterLink(l) == GetRoutesForLink(l) \/ UnbindRoute(l) \/ DeleteLink(l)

-----------------------------------------------------------------------------

Next ==
  \/ RunServer
  \/ ProcessOneBacklogRound
  \/ ProcessBacklog
  \/ \E l \in Links :
       \/ \E i \in Rpcs :
            \/ \E target \in Targets : RecvRequest(l, i, target)
            \/ \E kind \in {"data", "last"} : RecvResponse(l, i, kind)
       \/ Deliver(l)
       \/ RegisterUntrustedLink(l)
       \/ TrustLink(l)
       \/ BindRoute(l)
       \/ UnregisterLink(l)

Spec == Init /\ [][Next]_vars

(* The goroutines of the router run, and the other sides read what they are *)
(* sent.  Nothing makes a link answer, register or go away.                 *)
Fairness ==
  /\ WF_vars(RunServer)
  /\ WF_vars(ProcessOneBacklogRound)
  /\ WF_vars(ProcessBacklog)
  /\ \A l \in Links : WF_vars(Deliver(l))

FairSpec == Spec /\ Fairness

-----------------------------------------------------------------------------

Items == [rpc : Rpcs, kind : {"request", "data", "last", "noroute", "refused"}, no : Nat]

TypeOK ==
  /\ link \in [Links -> {"unknown", "untrusted", "trusted", "gone"}]
  /\ closing \in [Leaves -> {"no", "unbind", "delete", "done"}]
  /\ routeMap \in [Routes -> Links \cup {NoLink}]
  /\ rpcMap \in [Rpcs -> Links \cup {NoLink}]
  /\ server \in {<< >>} \cup {<<i>> : i \in Rpcs}
  /\ backlog \in [Links -> Seq(Items)]
  /\ client \in [Links -> Seq(Items)]
  /\ pump \in {"waiting", "awake", "sleeping"}
  /\ taken \in [Links -> Nat]
  /\ routed \in [Links -> Nat]

(* The messages sent to a link reach it in the order they were routed, none *)
(* skipped, whichever of them had to wait in the backlog                    *)
(* (sendRpcMessageToLink, drainLinkBacklog_withLock).                       *)
LinkInOrder ==
  \A l \in Links :
    LET queue == client[l] \o backlog[l]
    IN  \A k \in 1 .. Len(queue) : queue[k].no = taken[l] + k

(* An answer goes to the link that asked, although it is looked up by an id *)
(* that is registered only after the request was sent.                      *)
AnswersReturn ==
  \A l \in Links : \A k \in 1 .. Len(client[l] \o backlog[l]) :
    LET m == (client[l] \o backlog[l])[k]
    IN  m.kind \in {"data", "last"} => rpc[m.rpc].by = l

(* The last answer the router took from a link reaches the link that asked, *)
(* unless that goes away: no answer overtakes the registration of its       *)
(* request, and none stays in a backlog whose goroutine was not woken       *)
(* (wshrouter.go:333, 368).                                                 *)
AnswersArrive ==
  \A i \in Rpcs :
    rpc[i].at = "answered" ~>
      rpc[i].at = "done" \/ \E l \in Leaves : rpc[i].by = l /\ link[l] = "gone"

=============================================================================
