----------------------------- MODULE SshConnection -----------------------------
(***************************************************************************)
(* One SSH connection of the main server, pkg/remote/conncontroller.        *)
(*                                                                         *)
(* Connect, Close and the goroutine that waits for the end of an SSH client *)
(* (waitForDisconnect) exclude each other with lifecycleLock; what each     *)
(* does under it takes several steps, because the fields have a lock of     *)
(* their own that is free in between.  Not under lifecycleLock are the      *)
(* connserver's end and the monitor, which sends keep-alives and reports    *)
(* the health of the connection.                                           *)
(*                                                                         *)
(* An SSH client is a number, 0 for none; its waiter and its monitor have   *)
(* the same number.  Time is abstracted: at a check the last activity may   *)
(* be longer ago than a keep-alive waits for or not, and a keep-alive is    *)
(* late only if the host is silent.                                         *)
(***************************************************************************)
EXTENDS Integers

CONSTANTS
  MaxClients  \* bound on the SSH clients that are made

ASSUME SshConnectionAssumption == MaxClients \in Nat

VARIABLES
  status,
  client,     \* conn.Client
  monitor,    \* conn.Monitor
  health,     \* conn.ConnHealthStatus
  lifecycle,  \* who holds lifecycleLock, and where it is
  ssh,        \* the client's connection: "unmade", "up", "silent", "lost" or "closed"
  server,     \* the client's session with the connserver runs
  waiter,     \* waitForDisconnect: where it is, and the client it waits on
  watch,      \* keepAliveMonitor: where it is
  ping,       \* the keep-alive in flight to the client: "none", "sent", "late", "answered"
  heard       \* LastActivityTime of the client's monitor is not 0

monitorVars == <<watch, ping, heard>>

sshVars == <<status, client, monitor, health, lifecycle, ssh, server, waiter, monitorVars>>

Clients == 1 .. MaxClients

Free == lifecycle.by = "nobody"

NextClient(k) == ssh[k] = "unmade" /\ \A j \in Clients : j < k => ssh[j] # "unmade"

SshInit ==
  /\ status = "init"
  /\ client = 0
  /\ monitor = 0
  /\ health = "good"
  /\ lifecycle = [by |-> "nobody", at |-> "none"]
  /\ ssh = [k \in Clients |-> "unmade"]
  /\ server = FALSE
  /\ waiter = [k \in Clients |-> [at |-> "none", on |-> 0]]
  /\ watch = [k \in Clients |-> "none"]
  /\ ping = "none"
  /\ heard = FALSE

LifecycleAt(place) == lifecycle' = [lifecycle EXCEPT !.at = place]

-----------------------------------------------------------------------------
(* Connect, with lifecycleLock.                                             *)

\* mutant of ConnectAllowed: one that is connected is connected once more
ConnectAllowed_Again == status # "connecting"

ConnectAllowed == status \notin {"connecting", "connected"}

(* By EnsureConnection, which has seen a status some time ago, or by        *)
(* ConnConnectCommand, which has not looked.  Otherwise it is an error and  *)
(* changes nothing.                                                         *)
Connect ==
  /\ Free
  /\ ConnectAllowed
  /\ status' = "connecting"
  /\ lifecycle' = [by |-> "connect", at |-> "dial"]
  /\ UNCHANGED <<client, monitor, health, ssh, server, waiter, monitorVars>>

ConnectFails ==
  /\ lifecycle = [by |-> "connect", at |-> "dial"]
  /\ status' = "error"
  /\ LifecycleAt("stop")
  /\ UNCHANGED <<client, monitor, health, ssh, server, waiter, monitorVars>>

(* connectInternal has a client; the goroutine waitForDisconnect and the    *)
(* one of the monitor start.                                                *)
MakeClient ==
  /\ lifecycle = [by |-> "connect", at |-> "dial"]
  /\ \E k \in Clients :
       /\ NextClient(k)
       /\ ssh' = [ssh EXCEPT ![k] = "up"]
       /\ client' = k
       /\ monitor' = k
       /\ waiter' = [waiter EXCEPT ![k].at = "starting"]
       /\ watch' = [watch EXCEPT ![k] = "idle"]
  /\ health' = "good"
  /\ ping' = "none"
  /\ heard' = FALSE
  /\ LifecycleAt("wsh")
  /\ UNCHANGED <<status, server>>

(* StartConnServer has its session; it waits for the connserver's route.    *)
StartConnServer ==
  /\ lifecycle = [by |-> "connect", at |-> "wsh"]
  /\ ssh[client] = "up"
  /\ server' = TRUE
  /\ LifecycleAt("register")
  /\ UNCHANGED <<status, client, monitor, health, ssh, waiter, monitorVars>>

(* persistWshInstalled, and the end of Connect.  Without wsh, whatever the  *)
(* reason, the connection is made all the same.                             *)
Connected(enabled) ==
  /\ lifecycle.by = "connect"
  /\ lifecycle.at \in (IF enabled THEN {"register"} ELSE {"wsh", "register"})
  /\ status' = "connected"
  /\ lifecycle' = [by |-> "nobody", at |-> "none"]
  /\ UNCHANGED <<client, monitor, health, ssh, server, waiter, monitorVars>>

-----------------------------------------------------------------------------
(* Close and waitForDisconnect.                                             *)

Close ==
  /\ Free
  /\ status' = IF status \in {"connected", "connecting"} THEN "disconnected" ELSE status
  /\ lifecycle' = [by |-> "close", at |-> "stop"]
  /\ UNCHANGED <<client, monitor, health, ssh, server, waiter, monitorVars>>

(* waitForDisconnect takes the client there is when it comes to run.        *)
WaitStarts(k) ==
  /\ waiter[k].at = "starting"
  /\ waiter' = [waiter EXCEPT ![k] =
       IF client = 0 THEN [at |-> "over", on |-> 0] ELSE [at |-> "waiting", on |-> client]]
  /\ UNCHANGED <<status, client, monitor, health, lifecycle, ssh, server, monitorVars>>

WaitReturns(k) ==
  /\ waiter[k].at = "waiting"
  /\ ssh[waiter[k].on] \in {"lost", "closed"}
  /\ waiter' = [waiter EXCEPT ![k].at = "lost"]
  /\ UNCHANGED <<status, client, monitor, health, lifecycle, ssh, server, monitorVars>>

\* mutant of Disconnected: a connection that is being made is left to Connect
Disconnected_Unlocked(k) ==
  /\ waiter[k].at = "lost"
  /\ waiter' = [waiter EXCEPT ![k].at = "over"]
  /\ IF lifecycle.by = "connect"
       THEN UNCHANGED <<status, lifecycle>>
       ELSE /\ Free
            /\ status' = IF status = "error" THEN "error" ELSE "disconnected"
            /\ lifecycle' = [by |-> "waiter", at |-> "stop"]
  /\ UNCHANGED <<client, monitor, health, ssh, server, monitorVars>>

(* With lifecycleLock the waiter takes down whatever client there is.       *)
Disconnected(k) ==
  /\ waiter[k].at = "lost"
  /\ Free
  /\ waiter' = [waiter EXCEPT ![k].at = "over"]
  /\ status' = IF status = "error" THEN "error" ELSE "disconnected"
  /\ lifecycle' = [by |-> "waiter", at |-> "stop"]
  /\ UNCHANGED <<client, monitor, health, ssh, server, monitorVars>>

(* closeInternal_withlifecyclelock, one step for each time it has the lock. *)
StopMonitor ==
  /\ lifecycle.at = "stop"
  /\ monitor' = 0
  /\ LifecycleAt(IF client = 0 THEN "server" ELSE "client")
  /\ UNCHANGED <<status, client, health, ssh, server, waiter, monitorVars>>

(* A keep-alive that is in flight fails.                                    *)
CloseClient ==
  /\ lifecycle.at = "client"
  /\ ssh' = [ssh EXCEPT ![client] = "closed"]
  /\ ping' = "none"
  /\ server' = FALSE
  /\ LifecycleAt("forget")
  /\ UNCHANGED <<status, client, monitor, health, waiter, watch, heard>>

ForgetClient ==
  /\ lifecycle.at = "forget"
  /\ client' = 0
  /\ LifecycleAt("server")
  /\ UNCHANGED <<status, monitor, health, ssh, server, waiter, monitorVars>>

CloseServer ==
  /\ lifecycle.at = "server"
  /\ lifecycle' = [by |-> "nobody", at |-> "none"]
  /\ UNCHANGED <<status, client, monitor, health, ssh, server, waiter, monitorVars>>

CloseInternal == StopMonitor \/ CloseClient \/ ForgetClient \/ CloseServer

(* The session of the connserver ends: with the client, when it is closed,  *)
(* or by itself.                                                            *)
ConnServerEnds ==
  /\ server
  /\ server' = FALSE
  /\ UNCHANGED <<status, client, monitor, health, lifecycle, ssh, waiter, monitorVars>>

-----------------------------------------------------------------------------
(* The monitor.                                                             *)

\* mutant of Reported: whatever client it was made for
Reported_Any(k, now) == now

(* SetConnHealthStatus.                                                     *)
Reported(k, now) == IF client = k THEN now ELSE health

Watched(k) == monitor = k /\ client = k

(* UpdateLastActivityTime.  Input that waits for an answer has it.          *)
Activity ==
  /\ heard' = TRUE
  /\ watch' = [watch EXCEPT ![client] = IF @ = "typed" THEN "idle" ELSE @]
  /\ health' = "good"

Up == client # 0 /\ ssh[client] = "up"

(* Messages of the connserver.                                              *)
RecvMessage ==
  /\ Up /\ server /\ monitor = client
  /\ Activity
  /\ UNCHANGED <<status, client, monitor, lifecycle, ssh, server, waiter, ping>>

NotifyInput(k) ==
  /\ monitor = k
  /\ watch[k] = "idle"
  /\ watch' = [watch EXCEPT ![k] = "typed"]
  /\ UNCHANGED <<status, client, monitor, lifecycle, ssh, server, waiter, health, ping, heard>>

(* A second without an answer: LastActivityTime is read.                    *)
InputUnanswered(k) ==
  /\ watch[k] = "typed"
  /\ watch' = [watch EXCEPT ![k] = "degrading"]
  /\ UNCHANGED <<status, client, monitor, lifecycle, ssh, server, waiter, health, ping, heard>>

SetDegraded(k) ==
  /\ watch[k] = "degrading"
  /\ watch' = [watch EXCEPT ![k] = "checking"]
  /\ health' = Reported(k, "degraded")
  /\ UNCHANGED <<status, client, monitor, lifecycle, ssh, server, waiter, ping, heard>>

(* checkConnection, up to what it says about a late keep-alive; after input *)
(* without an answer, and every five seconds.  The request to a client that *)
(* is closed fails at once.                                                 *)
CheckConnection(k, sends) ==
  /\ watch[k] = "checking" \/ (watch[k] = "idle" /\ Watched(k))
  /\ sends => client = k /\ ssh[k] # "closed" /\ heard /\ ping = "none"
  /\ ping' = IF sends THEN "sent" ELSE ping
  /\ watch' = [watch EXCEPT ![k] =
       IF client = k /\ heard /\ ping \in {"late", "answered"} THEN "stalling" ELSE "idle"]
  /\ UNCHANGED <<status, client, monitor, lifecycle, ssh, server, waiter, health, heard>>

SetStalled(k) ==
  /\ watch[k] = "stalling"
  /\ watch' = [watch EXCEPT ![k] = "idle"]
  /\ health' = Reported(k, "stalled")
  /\ UNCHANGED <<status, client, monitor, lifecycle, ssh, server, waiter, ping, heard>>

MonitorEnds(k) ==
  /\ watch[k] \in {"idle", "typed"}
  /\ ~Watched(k)
  /\ watch' = [watch EXCEPT ![k] = "over"]
  /\ UNCHANGED <<status, client, monitor, lifecycle, ssh, server, waiter, health, ping, heard>>

(* The health is reported first, KeepAliveInFlight cleared after: between,  *)
(* a check can still find that the keep-alive is late.                      *)
KeepAliveAnswered ==
  /\ ping \in {"sent", "late"}
  /\ Up
  /\ ping' = IF ping = "late" THEN "answered" ELSE "none"
  /\ Activity
  /\ UNCHANGED <<status, client, monitor, lifecycle, ssh, server, waiter>>

\* mutant of ClearKeepAlive: only after an error, not deferred
ClearKeepAlive_OnError ==
  /\ ping \in {"sent", "late"} /\ ssh[client] = "lost"
  /\ ping' = "none"
  /\ UNCHANGED <<status, client, monitor, lifecycle, ssh, server, waiter, health, watch, heard>>

(* clearKeepAliveInFlight, deferred in the goroutine of SendKeepAlive.      *)
ClearKeepAlive ==
  /\ ping = "answered" \/ (ping \in {"sent", "late"} /\ ssh[client] = "lost")
  /\ ping' = "none"
  /\ UNCHANGED <<status, client, monitor, lifecycle, ssh, server, waiter, health, watch, heard>>

KeepAliveLate ==
  /\ ping = "sent"
  /\ ssh[client] = "silent"
  /\ ping' = "late"
  /\ UNCHANGED <<status, client, monitor, lifecycle, ssh, server, waiter, health, watch, heard>>

-----------------------------------------------------------------------------
(* The network.                                                             *)

Network(k) ==
  /\ ssh[k] \in {"up", "silent"}
  /\ \E next \in {"up", "silent", "lost"} \ {ssh[k]} : ssh' = [ssh EXCEPT ![k] = next]
  /\ UNCHANGED <<status, client, monitor, health, lifecycle, server, waiter, monitorVars>>

-----------------------------------------------------------------------------

ConnectSteps ==
  ConnectFails \/ MakeClient \/ StartConnServer \/ \E enabled \in BOOLEAN : Connected(enabled)

Waiter(k) == WaitStarts(k) \/ WaitReturns(k) \/ Disconnected(k)

Watch(k) ==
  \/ InputUnanswered(k) \/ SetDegraded(k) \/ SetStalled(k) \/ MonitorEnds(k)
  \/ \E sends \in BOOLEAN : CheckConnection(k, sends)

KeepAlive == KeepAliveAnswered \/ ClearKeepAlive

SshNext ==
  \/ Connect
  \/ ConnectSteps
  \/ Close
  \/ CloseInternal
  \/ ConnServerEnds
  \/ RecvMessage
  \/ KeepAlive
  \/ KeepAliveLate
  \/ \E k \in Clients :
       Waiter(k) \/ NotifyInput(k) \/ Watch(k) \/ Network(k)

SshSpec == SshInit /\ [][SshNext]_sshVars

(* The requests that start the session have no timeout.                     *)
Hangs == lifecycle.at = "wsh" /\ ssh[client] = "silent"

(* Goroutines that can run do, connecting ends in its timeouts where it has *)
(* one, and a host that is up answers.  Nobody has to call, to type or to   *)
(* send, and the network may do anything at any time.                       *)
SshFairness ==
  /\ WF_sshVars(~Hangs /\ ConnectSteps)
  /\ WF_sshVars(CloseInternal)
  /\ WF_sshVars(KeepAlive)
  /\ \A k \in Clients :
       WF_sshVars(Waiter(k)) /\ WF_sshVars(Watch(k)) /\ SF_sshVars(CheckConnection(k, TRUE))

SshFairSpec == SshSpec /\ SshFairness

-----------------------------------------------------------------------------

SshTypeOK ==
  /\ status \in {"init", "connecting", "connected", "disconnected", "error"}
  /\ {client, monitor} \subseteq Clients \cup {0}
  /\ health \in {"good", "degraded", "stalled"}
  /\ lifecycle \in [by : {"nobody", "connect", "close", "waiter"},
                    at : {"none", "dial", "wsh", "register", "stop", "client", "forget",
                          "server"}]
  /\ ssh \in [Clients -> {"unmade", "up", "silent", "lost", "closed"}]
  /\ server \in BOOLEAN
  /\ waiter \in [Clients -> [at : {"none", "starting", "waiting", "lost", "over"},
                            on : Clients \cup {0}]]
  /\ watch \in [Clients -> {"none", "idle", "typed", "degrading", "checking", "stalling", "over"}]
  /\ ping \in {"none", "sent", "late", "answered"}
  /\ heard \in BOOLEAN

(* Every SSH client that was made and not closed is the connection's own,   *)
(* so it can be closed; and a connection has one exactly when it says that  *)
(* it is connected, unless somebody is just changing that (lifecycleLock).  *)
NoClientLost ==
  /\ \A k \in Clients : ssh[k] \in {"up", "silent", "lost"} => client = k
  /\ Free => (client # 0 <=> status = "connected")

(* A connection whose network is gone does not stay connected: its waiter   *)
(* sees it, even if that happens while the connection is being made, or     *)
(* while another one is taken down (waitForDisconnect).                     *)
LossIsNoticed == client # 0 /\ ssh[client] = "lost" ~> client = 0

(* A connection that was reported as degraded or stalled is reported as     *)
(* good once its host answers again, if the host was ever heard: there is   *)
(* always another keep-alive, and the last word is not that of a check that *)
(* began before the answer (checkConnection, SendKeepAlive).                *)
AnswersEndStall == Up /\ heard /\ health # "good" ~> ~Up \/ health = "good"

(* A waiter takes down no connection but the one whose end it has seen.     *)
TakesDownOwn == [][\A k \in Clients : Disconnected(k) => client \in {0, waiter[k].on}]_sshVars

(* As AnswersEndStall, also for a host that was never heard.                *)
DegradedIsCleared == Up /\ health # "good" ~> ~Up \/ health = "good"

=============================================================================
