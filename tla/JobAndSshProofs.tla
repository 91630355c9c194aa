--------------------------- MODULE JobAndSshProofs ---------------------------
(***************************************************************************)
(* Proofs about the two records of a remote job that outlive a connection:  *)
(* SshConnection, where no client is left open that the connection does not *)
(* know, and JobLifecycle, where a job that is recorded as ended has no     *)
(* session left behind and has not ended before its command and its output, *)
(* however often the connection is lost.  The two are proved side by side   *)
(* and share nothing but this module.                                       *)
(***************************************************************************)
EXTENDS SshConnection, JobLifecycle, TLAPS

Open == {"up", "silent", "lost"}

TearingDown == {"stop", "client", "forget", "server"}

(* What the fields say at each place of the goroutine with lifecycleLock.   *)
Place ==
  /\ lifecycle.by = "nobody" <=> lifecycle.at = "none"
  /\ lifecycle.at = "none" => (client # 0 <=> status = "connected")
  /\ lifecycle.at \in {"dial", "wsh", "register"} => status = "connecting"
  /\ lifecycle.at = "dial" => client = 0
  /\ lifecycle.at \in {"wsh", "register"} => client # 0
  /\ lifecycle.at \in TearingDown => status \in {"init", "disconnected", "error"}
  /\ lifecycle.at \in {"client", "forget"} => client # 0
  /\ lifecycle.at = "server" => client = 0
  /\ lifecycle.at = "none" => status # "connecting"

(* The connection's client is open, but for the moment between its closing  *)
(* and its forgetting; every other client is closed or not made.            *)
OpenClients ==
  \A k \in Clients : ssh[k] \in Open <=> client = k /\ lifecycle.at # "forget"

IInv == SshTypeOK /\ Place /\ OpenClients

-----------------------------------------------------------------------------

LEMMA InitIInv == SshInit => IInv
  <1>. SUFFICES ASSUME SshInit PROVE IInv
    OBVIOUS
  <1>1. SshTypeOK
    BY DEF SshInit, SshTypeOK
  <1>2. Place
    BY DEF SshInit, Place, TearingDown
  <1>3. OpenClients
    <2>1. \A k \in Clients : k # 0
      BY SshConnectionAssumption DEF SshConnectionAssumption, Clients
    <2>. QED  BY <2>1 DEF SshInit, OpenClients, Open
  <1>. QED  BY <1>1, <1>2, <1>3 DEF IInv

LEMMA IInvImpliesNoClientLost == IInv => NoClientLost
  BY DEF IInv, SshTypeOK, Place, OpenClients, NoClientLost, Free, Open

(* What every step but those of the goroutine with lifecycleLock keeps.     *)
LEMMA OthersKeep ==
  ASSUME Place, OpenClients,
         UNCHANGED <<status, client, lifecycle, ssh>>
  PROVE  Place' /\ OpenClients'
  BY DEF Place, OpenClients, Clients

LEMMA StepIInv ==
  ASSUME IInv, [SshNext]_sshVars
  PROVE  IInv'
  <1>. USE DEF IInv
  <1>a. MaxClients \in Nat
    BY SshConnectionAssumption DEF SshConnectionAssumption
  <1>b. ASSUME NEW k \in Clients  PROVE k \in Int /\ k # 0
    BY <1>a DEF Clients
  <1>1. CASE Connect
    BY <1>1 DEF Connect, Free, ConnectAllowed, SshTypeOK, Place, OpenClients, Clients, Open,
                TearingDown, monitorVars
  <1>2. CASE ConnectFails
    BY <1>2 DEF ConnectFails, LifecycleAt, SshTypeOK, Place, OpenClients, Clients, Open,
                TearingDown, monitorVars
  <1>3. CASE MakeClient
    <2>1. PICK k \in Clients :
            /\ NextClient(k)
            /\ ssh' = [ssh EXCEPT ![k] = "up"]
            /\ client' = k
            /\ monitor' = k
            /\ waiter' = [waiter EXCEPT ![k].at = "starting"]
            /\ watch' = [watch EXCEPT ![k] = "idle"]
      BY <1>3 DEF MakeClient
    <2>2. lifecycle.at = "dial" /\ lifecycle' = [by |-> "connect", at |-> "wsh"]
      <3>1. lifecycle = [by |-> "connect", at |-> "dial"] /\ LifecycleAt("wsh")
        BY <1>3 DEF MakeClient
      <3>. QED  BY <3>1 DEF LifecycleAt
    <2>3. SshTypeOK'
      <3>1. health' = "good" /\ ping' = "none" /\ heard' = FALSE /\ UNCHANGED <<status, server>>
        BY <1>3 DEF MakeClient
      <3>. QED  BY <2>1, <2>2, <3>1 DEF SshTypeOK
    <2>4. Place'
      <3>1. status' = "connecting" /\ client' # 0
        BY <1>3, <1>b, <2>1, <2>2 DEF MakeClient, Place
      <3>. QED  BY <2>2, <3>1 DEF Place, TearingDown
    <2>5. OpenClients'
      BY <1>b, <2>1, <2>2 DEF SshTypeOK, Place, OpenClients, Open
    <2>. QED  BY <2>3, <2>4, <2>5
  <1>4. CASE StartConnServer
    BY <1>4 DEF StartConnServer, LifecycleAt, SshTypeOK, Place, OpenClients, Open, TearingDown,
                monitorVars
  <1>5. ASSUME NEW enabled \in BOOLEAN, Connected(enabled)  PROVE IInv'
    BY <1>5 DEF Connected, SshTypeOK, Place, OpenClients, Open, TearingDown, monitorVars
  <1>6. CASE Close
    BY <1>6 DEF Close, Free, SshTypeOK, Place, OpenClients, Open, TearingDown, monitorVars
  <1>7. CASE StopMonitor
    BY <1>7 DEF StopMonitor, LifecycleAt, SshTypeOK, Place, OpenClients, Open, TearingDown,
                monitorVars
  <1>8. CASE CloseClient
    BY <1>8, <1>b DEF CloseClient, LifecycleAt, SshTypeOK, Place, OpenClients, Open, TearingDown
  <1>9. CASE ForgetClient
    BY <1>9, <1>b DEF ForgetClient, LifecycleAt, SshTypeOK, Place, OpenClients, Open, TearingDown,
                monitorVars
  <1>10. CASE CloseServer
    BY <1>10 DEF CloseServer, SshTypeOK, Place, OpenClients, Open, TearingDown, monitorVars
  <1>11. ASSUME NEW k \in Clients, Disconnected(k)  PROVE IInv'
    BY <1>11 DEF Disconnected, Free, SshTypeOK, Place, OpenClients, Open, TearingDown, monitorVars
  <1>12. ASSUME NEW k \in Clients, Network(k)  PROVE IInv'
    BY <1>12 DEF Network, SshTypeOK, Place, OpenClients, Open, TearingDown, monitorVars
  <1>13. ASSUME NEW k \in Clients, WaitStarts(k) \/ WaitReturns(k) \/ NotifyInput(k)
         PROVE IInv'
    <2>1. SshTypeOK'
      BY <1>13 DEF WaitStarts, WaitReturns, NotifyInput, SshTypeOK, monitorVars
    <2>. QED  BY <1>13, <2>1, OthersKeep DEF WaitStarts, WaitReturns, NotifyInput
  <1>14. ASSUME NEW k \in Clients, Watch(k)  PROVE IInv'
    <2>1. SshTypeOK'
      <3>1. CASE InputUnanswered(k)
        BY <3>1 DEF InputUnanswered, SshTypeOK
      <3>2. CASE SetDegraded(k)
        BY <3>2 DEF SetDegraded, Reported, SshTypeOK
      <3>3. CASE SetStalled(k)
        BY <3>3 DEF SetStalled, Reported, SshTypeOK
      <3>4. CASE MonitorEnds(k)
        BY <3>4 DEF MonitorEnds, SshTypeOK
      <3>5. ASSUME NEW sends \in BOOLEAN, CheckConnection(k, sends)  PROVE SshTypeOK'
        BY <3>5 DEF CheckConnection, SshTypeOK
      <3>. QED  BY <1>14, <3>1, <3>2, <3>3, <3>4, <3>5 DEF Watch
    <2>2. UNCHANGED <<status, client, lifecycle, ssh>>
      BY <1>14 DEF Watch, InputUnanswered, SetDegraded, SetStalled, MonitorEnds, CheckConnection
    <2>. QED  BY <2>1, <2>2, OthersKeep
  <1>15. CASE ConnServerEnds \/ RecvMessage \/ KeepAlive \/ KeepAliveLate
    <2>1. SshTypeOK'
      BY <1>15 DEF ConnServerEnds, RecvMessage, KeepAlive, KeepAliveAnswered, ClearKeepAlive,
                   KeepAliveLate, Activity, Up, SshTypeOK, monitorVars
    <2>2. UNCHANGED <<status, client, lifecycle, ssh>>
      BY <1>15 DEF ConnServerEnds, RecvMessage, KeepAlive, KeepAliveAnswered, ClearKeepAlive,
                   KeepAliveLate
    <2>. QED  BY <2>1, <2>2, OthersKeep
  <1>16. CASE UNCHANGED sshVars
    <2>1. SshTypeOK'
      BY <1>16 DEF sshVars, monitorVars, SshTypeOK
    <2>. QED  BY <1>16, <2>1, OthersKeep DEF sshVars
  <1>. QED
    BY <1>1, <1>2, <1>3, <1>4, <1>5, <1>6, <1>7, <1>8, <1>9, <1>10, <1>11, <1>12, <1>13, <1>14,
       <1>15, <1>16
       DEF SshNext, ConnectSteps, CloseInternal, Waiter

LEMMA Invariant == SshSpec => []IInv
  <1>1. SshInit => IInv
    BY InitIInv
  <1>2. IInv /\ [SshNext]_sshVars => IInv'
    BY StepIInv
  <1>. QED  BY <1>1, <1>2, PTL DEF SshSpec

-----------------------------------------------------------------------------

(* Every state of a connection is well formed, for any number of clients.   *)
THEOREM TypeCorrect == SshSpec => []SshTypeOK
  <1>1. IInv => SshTypeOK
    BY DEF IInv
  <1>. QED  BY <1>1, Invariant, PTL

(* Whatever the order of connecting, closing and losing clients: a client   *)
(* that is open can still be closed, and with lifecycleLock free the        *)
(* connection has one exactly if it is connected (conncontroller.go).       *)
THEOREM ClientKnown == SshSpec => []NoClientLost
  BY Invariant, IInvImpliesNoClientLost, PTL

-----------------------------------------------------------------------------
(* One job                                                                 *)

Jobs ==
  [status : {"none", "init", "running", "done"},
   reason : {"none", "startuperror", "terminated", "gone"},
   pid : BOOLEAN, exited : BOOLEAN, streamDone : BOOLEAN, terminate : BOOLEAN, attached : BOOLEAN]

Sessions ==
  [manager : {"none", "running", "dying", "gone"}, cmd : {"none", "running", "exited"},
   acked : BOOLEAN]

Reconnects ==
  [at : {"idle", "check", "terminate", "record", "ask", "gone", "routeWait", "prepare", "exited",
         "stream", "done", "lost"},
   done : BOOLEAN]

Records == job \in Jobs /\ session \in Sessions /\ rc \in Reconnects

Places ==
  /\ start \in {"no", "asking", "failed", "started", "lost", "over"}
  /\ block \in {"open", "closing", "waiting", "closed"}
  /\ conn \in {"up", "lost", "down"}
  /\ stream \in {"none", "open", "cut", "ending", "ended"}
  /\ tm \in {"idle", "begin", "ask", "askUnknown", "record"}

Flags == auto \in BOOLEAN /\ early \in BOOLEAN /\ unkilled \in BOOLEAN

Types == Records /\ Places /\ Flags

(* Before StartJob there is nothing.                                        *)
Unstarted ==
  start = "no" => /\ session.manager = "none" /\ session.cmd = "none"
                  /\ tm = "idle" /\ block = "open"

(* The job manager's process is known once StartJob has returned, and then  *)
(* there was one.  Without it the job does not run, nobody reconnects it,   *)
(* and a termination can only be that of a block closed too early.          *)
Pids ==
  /\ job.pid => start = "over" /\ session.manager # "none"
  /\ start = "started" => session.manager # "none"
  /\ ~job.pid => /\ ~Running
                 /\ rc.at = "idle"
                 /\ ~auto
                 /\ start = "over" => job.status = "done"
  /\ block = "open" => ~early
  /\ block = "closing" /\ ~early => start = "over"
  /\ tm = "ask" => job.pid
  /\ ~job.pid /\ tm = "begin" => early \/ job.status = "done"
  /\ tm = "askUnknown" => early

(* Where a call is about to record the job as ended, its job manager has    *)
(* been told to exit, unless it could not be, or is known to be gone.       *)
Ending ==
  /\ rc.at = "gone" => session.manager = "gone"
  /\ rc.at = "record" => unkilled \/ session.manager \in {"dying", "gone"}
  /\ tm = "record" /\ ~early => unkilled \/ session.manager \in {"dying", "gone"}

(* The end of the stream is recorded, or about to be, only after the job    *)
(* manager has sent it.                                                     *)
EndOfStream ==
  /\ stream \in {"ending", "ended"} => session.acked
  /\ rc.done \/ rc.at = "done" => session.acked
  /\ block = "open" /\ job.streamDone => session.acked

(* While the block is open a termination, whoever has begun it and whether  *)
(* or not it failed since, was begun after both ends.                       *)
Terminates ==
  \/ tm # "idle"
  \/ job.terminate
  \/ rc.at \in {"terminate", "record"}
  \/ job.reason = "terminated"

OnlyAtTheEnd == block = "open" /\ Terminates => job.exited /\ session.acked

(* What is recorded of the command is so.                                   *)
Exits ==
  /\ job.exited \/ exitNote = "sent" \/ rc.at = "exited" \/ session.acked => session.cmd = "exited"
  /\ start = "asking" => session.cmd = "none"
  /\ session.manager \in {"dying", "gone"} => start \notin {"no", "asking"}

JobInv ==
  /\ Types /\ Unstarted /\ Pids /\ Ending
  /\ EndOfStream /\ OnlyAtTheEnd /\ Exits /\ DoneMeansEnded

-----------------------------------------------------------------------------

LEMMA InitJobInv == Init => JobInv
  <1>. SUFFICES ASSUME Init PROVE JobInv
    OBVIOUS
  <1>1. Types
    BY DEF Init, Types, Records, Places, Flags, Jobs, Sessions, Reconnects
  <1>. QED
    BY <1>1 DEF Init, JobInv, Unstarted, Pids, Running, Ending, EndOfStream, OnlyAtTheEnd,
                Terminates, Exits, DoneMeansEnded

(* A reconnect moves on to another place, or is over.                       *)
LEMMA RcMoves ==
  ASSUME rc \in Reconnects
  PROVE  /\ \A a \in {"check", "terminate", "record", "ask", "gone", "routeWait", "prepare",
                      "exited", "stream", "done"} : [rc EXCEPT !.at = a] \in Reconnects
         /\ \A d \in BOOLEAN : \A a \in {"idle", "lost", "exited", "stream"} :
              [at |-> a, done |-> d] \in Reconnects
  BY DEF Reconnects

LEMMA RecordsKept ==
  ASSUME Types, Next
  PROVE  Records'
  <1>. USE DEF Types, Records
  <1>1. job' \in Jobs
    <2>1. CASE StartJob
      BY <2>1 DEF StartJob, remoteVars, Places, Flags, Jobs
    <2>2. CASE StartReturns
      BY <2>2 DEF StartReturns, SetRunning, ReconnectJob, remoteVars, Places, Flags, Jobs
    <2>3. CASE StartFails
      BY <2>3 DEF StartFails, remoteVars, Places, Flags, Jobs
    <2>4. CASE RcRecord
      BY <2>4 DEF RcRecord, RecordTerminated, Finish, remoteVars, Places, Flags, Jobs
    <2>5. CASE RcGone
      BY <2>5 DEF RcGone, Finish, remoteVars, Places, Flags, Jobs
    <2>6. CASE RcExited
      BY <2>6 DEF RcExited, TryTerminate, TerminateJobManager, remoteVars, Places, Flags, Jobs
    <2>7. CASE RcStreamDone
      BY <2>7 DEF RcStreamDone, TryTerminate, TerminateJobManager, Finish, remoteVars, Places,
              Flags, Jobs
    <2>8. CASE ExitNoted
      BY <2>8 DEF ExitNoted, TryTerminate, TerminateJobManager, remoteVars, Places, Flags, Jobs
    <2>9. CASE LoopRecords
      BY <2>9 DEF LoopRecords, remoteVars, Places, Flags, Jobs
    <2>10. CASE TmBegin
      BY <2>10 DEF TmBegin, remoteVars, Places, Flags, Jobs
    <2>11. CASE TmRecord
      BY <2>11 DEF TmRecord, RecordTerminated, remoteVars, Places, Flags, Jobs
    <2>12. CASE Detach
      BY <2>12 DEF Detach, remoteVars, Places, Flags, Jobs
    <2>13. CASE UNCHANGED job
      BY <2>13
    <2>. QED
      BY <2>1, <2>2, <2>3, <2>4, <2>5, <2>6, <2>7, <2>8, <2>9, <2>10, <2>11, <2>12, <2>13
         DEF Next, Starting, Handling, Reconciling, Reconnecting, Terminating, Looping, Closing,
             RemoteStartJob, CmdExits, ManagerExits, ManagerDies, Disconnect, ConnLost,
             ConnNoticed, ConnUp, HandleRouteEvent, HandleConnChange, AutoReconnect,
             ReconcileAllConns, ReconcileConn, ReconcileEnds, RcCheck, RcTimesOut, RcTerminate,
             RcAsk, RcAskFails, CooldownOver, RcRouteWait, RcPrepare, RcStartStream, LoopEnds, LoopTries, TmAsk, TmAskFails,
             CloseBlock, BlockCloses, remoteVars
  <1>2. session' \in Sessions
    <2>1. CASE RemoteStartJob
      BY <2>1 DEF RemoteStartJob, remoteVars, Places, Flags, Sessions
    <2>2. CASE CmdExits
      BY <2>2 DEF CmdExits, Answers, remoteVars, Places, Flags, Sessions
    <2>3. CASE ManagerExits
      BY <2>3 DEF ManagerExits, RouteGoes, Answers, remoteVars, Places, Flags, Sessions
    <2>4. CASE ManagerDies
      BY <2>4 DEF ManagerDies, RouteGoes, Answers, remoteVars, Places, Flags, Sessions
    <2>5. CASE RcTerminate
      BY <2>5 DEF RcTerminate, CallLost, SendSigterm, Finish, remoteVars, Places, Flags, Sessions
    <2>6. CASE LoopEnds
      BY <2>6 DEF LoopEnds, remoteVars, Places, Flags, Sessions
    <2>7. CASE TmAsk
      BY <2>7 DEF TmAsk, SendSigterm, remoteVars, Places, Flags, Sessions
    <2>8. CASE UNCHANGED session
      BY <2>8
    <2>. QED
      BY <2>1, <2>2, <2>3, <2>4, <2>5, <2>6, <2>7, <2>8
         DEF Next, Starting, Handling, Reconciling, Reconnecting, Terminating, Looping, Closing,
              StartJob, StartReturns, StartFails, Disconnect, ConnLost, ConnNoticed, ConnUp,
              HandleRouteEvent, HandleConnChange, AutoReconnect, ReconcileAllConns, ReconcileConn,
              ReconcileEnds, CooldownOver, RcCheck, RcTimesOut, RcRecord, RcAsk, RcAskFails, RcGone, RcRouteWait, RcPrepare,
              RcExited, RcStreamDone, RcStartStream, ExitNoted, LoopRecords, LoopTries, TmBegin,
              TmAskFails, TmRecord, CloseBlock, BlockCloses, Detach, remoteVars
  <1>3. rc' \in Reconnects
    <2>1. CASE StartReturns
      BY <2>1, RcMoves DEF StartReturns, SetRunning, ReconnectJob, remoteVars, Places, Flags
    <2>2. CASE AutoReconnect
      BY <2>2, RcMoves DEF AutoReconnect, ReconnectJob, IsConnected, remoteVars, Places, Flags
    <2>3. CASE ReconcileConn
      BY <2>3, RcMoves DEF ReconcileConn, ReconnectJob, remoteVars, Places, Flags
    <2>4. CASE RcCheck
      BY <2>4, RcMoves DEF RcCheck, Finish, IsConnected, remoteVars, Places, Flags
    <2>5. CASE RcTimesOut
      BY <2>5, RcMoves DEF RcTimesOut, Finish, remoteVars, Places, Flags
    <2>6. CASE RcTerminate
      BY <2>6, RcMoves DEF RcTerminate, CallLost, SendSigterm, Finish, remoteVars, Places, Flags
    <2>7. CASE RcRecord
      BY <2>7, RcMoves DEF RcRecord, RecordTerminated, Finish, remoteVars, Places, Flags
    <2>8. CASE RcAsk
      BY <2>8, RcMoves DEF RcAsk, CallLost, Finish, remoteVars, Places, Flags
    <2>9. CASE RcGone
      BY <2>9, RcMoves DEF RcGone, Finish, remoteVars, Places, Flags
    <2>10. CASE RcRouteWait
      BY <2>10, RcMoves DEF RcRouteWait, CallLost, remoteVars, Places, Flags
    <2>11. CASE RcPrepare
      BY <2>11, RcMoves DEF RcPrepare, CallLost, Answers, remoteVars, Places, Flags, Sessions
    <2>12. CASE RcExited
      BY <2>12, RcMoves DEF RcExited, TryTerminate, TerminateJobManager, remoteVars, Places, Flags
    <2>13. CASE RcStreamDone
      BY <2>13, RcMoves DEF RcStreamDone, TryTerminate, TerminateJobManager, Finish, remoteVars,
              Places, Flags
    <2>14. CASE RcStartStream
      BY <2>14, RcMoves DEF RcStartStream, CallLost, Finish, Answers, remoteVars, Places, Flags
    <2>15. CASE RcAskFails
      BY <2>15, RcMoves DEF RcAskFails, Finish, remoteVars, Places, Flags
    <2>16. CASE UNCHANGED rc
      BY <2>16
    <2>. QED
      BY <2>1, <2>2, <2>3, <2>4, <2>5, <2>6, <2>7, <2>8, <2>9, <2>10, <2>11, <2>12,
         <2>13, <2>14, <2>15, <2>16
         DEF Next, Starting, Handling, Reconciling, Reconnecting, Terminating, Looping, Closing,
              StartJob, RemoteStartJob, StartFails, CmdExits, ManagerExits, ManagerDies,
              Disconnect, ConnLost, ConnNoticed, ConnUp, HandleRouteEvent, HandleConnChange,
              ReconcileAllConns, ReconcileEnds, CooldownOver, ExitNoted, LoopEnds, LoopRecords, LoopTries,
              TmBegin, TmAsk, TmAskFails, TmRecord, CloseBlock, BlockCloses, Detach, remoteVars
  <1>. QED  BY <1>1, <1>2, <1>3

(* Whoever sends SIGTERM to a process that is known has told the job        *)
(* manager to exit, or could not.                                           *)
LEMMA Sigterm ==
  ASSUME Types, Pids, SendSigterm
  PROVE  /\ unkilled' \in BOOLEAN /\ (unkilled => unkilled')
         /\ \/ session' = session
            \/ /\ session.manager = "running"
               /\ session' = [session EXCEPT !.manager = "dying"]
         /\ job.pid => unkilled' \/ session'.manager \in {"dying", "gone"}
  <1>1. CASE /\ job.pid /\ session.manager = "running"
             /\ session' = [session EXCEPT !.manager = "dying"] /\ UNCHANGED unkilled
    BY <1>1 DEF Types, Records, Sessions, Flags
  <1>2. CASE UNCHANGED session /\ unkilled'
    BY <1>2, SMT DEF SendSigterm, Types, Flags, Fault
  <1>3. CASE ~(job.pid /\ session.manager = "running") /\ UNCHANGED <<session, unkilled>>
    BY <1>3 DEF Types, Records, Sessions, Flags, Pids
  <1>. QED
    BY <1>1, <1>2, <1>3 DEF SendSigterm

LEMMA StepJobInv ==
  ASSUME JobInv, [Next]_vars
  PROVE  JobInv'
  <1>. USE DEF JobInv, ghostVars, reconVars
  <1>1. CASE StartJob
    <2>1. Records'
      BY <1>1, RecordsKept DEF Next, Starting, Handling, Reconciling, Reconnecting,
         Terminating, Looping, Closing
    <2>. QED
      BY <1>1, <2>1 DEF StartJob, remoteVars, connVars, eventVars, Types, Records, Places, Flags,
         Jobs, Sessions, Reconnects, Unstarted, Pids, Running, Ending, EndOfStream, OnlyAtTheEnd,
         Terminates, Exits, DoneMeansEnded
  <1>2. CASE RemoteStartJob
    <2>1. Records'
      BY <1>2, RecordsKept DEF Next, Starting, Handling, Reconciling, Reconnecting,
         Terminating, Looping, Closing
    <2>2. (Places /\ Flags)'
      BY <1>2, <2>1 DEF RemoteStartJob, Types, Places, Flags, Running, remoteVars, connVars,
         eventVars
    <2>3. (Unstarted /\ Pids /\ Ending)'
      BY <1>2, <2>1 DEF RemoteStartJob, remoteVars, connVars, eventVars, Types, Records, Places,
         Flags, Jobs, Sessions, Reconnects, Unstarted, Pids, Running, Ending, EndOfStream,
         OnlyAtTheEnd, Terminates, Exits, DoneMeansEnded
    <2>4. (EndOfStream /\ OnlyAtTheEnd)'
      BY <1>2, <2>1 DEF RemoteStartJob, remoteVars, connVars, eventVars, Types, Records, Places,
         Flags, Jobs, Sessions, Reconnects, Unstarted, Pids, Running, Ending, EndOfStream,
         OnlyAtTheEnd, Terminates, Exits, DoneMeansEnded
    <2>5. (Exits /\ DoneMeansEnded)'
      BY <1>2, <2>1 DEF RemoteStartJob, remoteVars, connVars, eventVars, Types, Records, Places,
         Flags, Jobs, Sessions, Reconnects, Unstarted, Pids, Running, Ending, EndOfStream,
         OnlyAtTheEnd, Terminates, Exits, DoneMeansEnded
    <2>. QED  BY <2>1, <2>2, <2>3, <2>4, <2>5 DEF Types
  <1>3. CASE StartReturns
    <2>1. Records'
      BY <1>3, RecordsKept DEF Next, Starting, Handling, Reconciling, Reconnecting,
         Terminating, Looping, Closing
    <2>. QED
      BY <1>3, <2>1 DEF StartReturns, SetRunning, ReconnectJob, remoteVars, connVars, eventVars,
         Types, Records, Places, Flags, Jobs, Sessions, Reconnects, Unstarted, Pids, Running,
         Ending, EndOfStream, OnlyAtTheEnd, Terminates, Exits, DoneMeansEnded
  <1>4. CASE StartFails
    <2>1. Records'
      BY <1>4, RecordsKept DEF Next, Starting, Handling, Reconciling, Reconnecting,
         Terminating, Looping, Closing
    <2>. QED
      BY <1>4, <2>1 DEF StartFails, remoteVars, connVars, eventVars, Types, Records, Places,
                        Flags, Jobs, Sessions, Reconnects, Unstarted, Pids, Running, Ending,
                        EndOfStream, OnlyAtTheEnd, Terminates, Exits, DoneMeansEnded
  <1>5. CASE CmdExits
    <2>1. Records'
      BY <1>5, RecordsKept DEF Next, Starting, Handling, Reconciling, Reconnecting,
         Terminating, Looping, Closing
    <2>. QED
      BY <1>5, <2>1 DEF CmdExits, Answers, remoteVars, connVars, eventVars, Types, Records,
                        Places, Flags, Jobs, Sessions, Reconnects, Unstarted, Pids, Running,
                        Ending, EndOfStream, OnlyAtTheEnd, Terminates, Exits, DoneMeansEnded
  <1>6. CASE ManagerExits
    <2>1. Records'
      BY <1>6, RecordsKept DEF Next, Starting, Handling, Reconciling, Reconnecting,
         Terminating, Looping, Closing
    <2>. QED
      BY <1>6, <2>1 DEF ManagerExits, RouteGoes, Answers, remoteVars, connVars, eventVars, Types,
         Records, Places, Flags, Jobs, Sessions, Reconnects, Unstarted, Pids, Running, Ending,
         EndOfStream, OnlyAtTheEnd, Terminates, Exits, DoneMeansEnded
  <1>7. CASE ManagerDies
    <2>1. Records'
      BY <1>7, RecordsKept DEF Next, Starting, Handling, Reconciling, Reconnecting,
         Terminating, Looping, Closing
    <2>. QED
      BY <1>7, <2>1 DEF ManagerDies, RouteGoes, Answers, remoteVars, connVars, eventVars, Types,
         Records, Places, Flags, Jobs, Sessions, Reconnects, Unstarted, Pids, Running, Ending,
         EndOfStream, OnlyAtTheEnd, Terminates, Exits, DoneMeansEnded
  <1>8. CASE Disconnect
    <2>1. Records'
      BY <1>8, RecordsKept DEF Next, Starting, Handling, Reconciling, Reconnecting,
         Terminating, Looping, Closing
    <2>. QED
      BY <1>8, <2>1 DEF Disconnect, RouteGoes, Answers, remoteVars, connVars, eventVars, Types,
         Records, Places, Flags, Jobs, Sessions, Reconnects, Unstarted, Pids, Running, Ending,
         EndOfStream, OnlyAtTheEnd, Terminates, Exits, DoneMeansEnded
  <1>9. CASE ConnLost
    <2>1. Records'
      BY <1>9, RecordsKept DEF Next, Starting, Handling, Reconciling, Reconnecting,
         Terminating, Looping, Closing
    <2>. QED
      BY <1>9, <2>1 DEF ConnLost, remoteVars, connVars, eventVars, Types, Records, Places, Flags,
         Jobs, Sessions, Reconnects, Unstarted, Pids, Running, Ending, EndOfStream, OnlyAtTheEnd,
         Terminates, Exits, DoneMeansEnded
  <1>10. CASE ConnNoticed
    <2>1. Records'
      BY <1>10, RecordsKept DEF Next, Starting, Handling, Reconciling, Reconnecting,
         Terminating, Looping, Closing
    <2>. QED
      BY <1>10, <2>1 DEF ConnNoticed, remoteVars, connVars, eventVars, Types, Records, Places,
         Flags, Jobs, Sessions, Reconnects, Unstarted, Pids, Running, Ending, EndOfStream,
         OnlyAtTheEnd, Terminates, Exits, DoneMeansEnded
  <1>11. CASE ConnUp
    <2>1. Records'
      BY <1>11, RecordsKept DEF Next, Starting, Handling, Reconciling, Reconnecting,
         Terminating, Looping, Closing
    <2>. QED
      BY <1>11, <2>1 DEF ConnUp, remoteVars, connVars, eventVars, Types, Records, Places, Flags,
         Jobs, Sessions, Reconnects, Unstarted, Pids, Running, Ending, EndOfStream, OnlyAtTheEnd,
         Terminates, Exits, DoneMeansEnded
  <1>12. CASE HandleRouteEvent
    <2>1. Records'
      BY <1>12, RecordsKept DEF Next, Starting, Handling, Reconciling, Reconnecting,
         Terminating, Looping, Closing
    <2>. QED
      BY <1>12, <2>1 DEF HandleRouteEvent, RouteUp, RouteDown, remoteVars, connVars, eventVars,
         Types, Records, Places, Flags, Jobs, Sessions, Reconnects, Unstarted, Pids, Running,
         Ending, EndOfStream, OnlyAtTheEnd, Terminates, Exits, DoneMeansEnded
  <1>13. CASE HandleConnChange
    <2>1. Records'
      BY <1>13, RecordsKept DEF Next, Starting, Handling, Reconciling, Reconnecting,
         Terminating, Looping, Closing
    <2>. QED
      BY <1>13, <2>1 DEF HandleConnChange, remoteVars, connVars, eventVars, Types, Records,
                         Places, Flags, Jobs, Sessions, Reconnects, Unstarted, Pids, Running,
                         Ending, EndOfStream, OnlyAtTheEnd, Terminates, Exits, DoneMeansEnded
  <1>14. CASE AutoReconnect
    <2>1. Records'
      BY <1>14, RecordsKept DEF Next, Starting, Handling, Reconciling, Reconnecting,
         Terminating, Looping, Closing
    <2>2. (Places /\ Flags)'
      BY <1>14, <2>1 DEF AutoReconnect, ReconnectJob, IsConnected, Types, Places, Flags, Running,
         remoteVars, connVars, eventVars
    <2>3. (Unstarted /\ Pids /\ Ending)'
      BY <1>14, <2>1 DEF AutoReconnect, ReconnectJob, IsConnected, remoteVars, connVars,
                         eventVars, Types, Records, Places, Flags, Jobs, Sessions, Reconnects,
                         Unstarted, Pids, Running, Ending, EndOfStream, OnlyAtTheEnd, Terminates,
                         Exits, DoneMeansEnded
    <2>4. (EndOfStream /\ OnlyAtTheEnd)'
      BY <1>14, <2>1 DEF AutoReconnect, ReconnectJob, IsConnected, remoteVars, connVars,
                         eventVars, Types, Records, Places, Flags, Jobs, Sessions, Reconnects,
                         Unstarted, Pids, Running, Ending, EndOfStream, OnlyAtTheEnd, Terminates,
                         Exits, DoneMeansEnded
    <2>5. (Exits /\ DoneMeansEnded)'
      BY <1>14, <2>1 DEF AutoReconnect, ReconnectJob, IsConnected, remoteVars, connVars,
                         eventVars, Types, Records, Places, Flags, Jobs, Sessions, Reconnects,
                         Unstarted, Pids, Running, Ending, EndOfStream, OnlyAtTheEnd, Terminates,
                         Exits, DoneMeansEnded
    <2>. QED  BY <2>1, <2>2, <2>3, <2>4, <2>5 DEF Types
  <1>15. CASE ReconcileAllConns
    <2>1. Records'
      BY <1>15, RecordsKept DEF Next, Starting, Handling, Reconciling, Reconnecting,
         Terminating, Looping, Closing
    <2>. QED
      BY <1>15, <2>1 DEF ReconcileAllConns, remoteVars, connVars, eventVars, Types, Records,
         Places, Flags, Jobs, Sessions, Reconnects, Unstarted, Pids, Running, Ending, EndOfStream,
         OnlyAtTheEnd, Terminates, Exits, DoneMeansEnded
  <1>16. CASE ReconcileConn
    <2>1. Records'
      BY <1>16, RecordsKept DEF Next, Starting, Handling, Reconciling, Reconnecting,
         Terminating, Looping, Closing
    <2>. QED
      BY <1>16, <2>1 DEF ReconcileConn, ReconnectJob, remoteVars, connVars, eventVars, Types,
         Records, Places, Flags, Jobs, Sessions, Reconnects, Unstarted, Pids, Running, Ending,
         EndOfStream, OnlyAtTheEnd, Terminates, Exits, DoneMeansEnded
  <1>17. CASE ReconcileEnds
    <2>1. Records'
      BY <1>17, RecordsKept DEF Next, Starting, Handling, Reconciling, Reconnecting,
         Terminating, Looping, Closing
    <2>. QED
      BY <1>17, <2>1 DEF ReconcileEnds, remoteVars, connVars, eventVars, Types, Records, Places,
         Flags, Jobs, Sessions, Reconnects, Unstarted, Pids, Running, Ending, EndOfStream,
         OnlyAtTheEnd, Terminates, Exits, DoneMeansEnded
  <1>18. CASE RcCheck
    <2>1. Records'
      BY <1>18, RecordsKept DEF Next, Starting, Handling, Reconciling, Reconnecting,
         Terminating, Looping, Closing
    <2>. QED
      BY <1>18, <2>1 DEF RcCheck, Finish, IsConnected, remoteVars, connVars, eventVars, Types,
         Records, Places, Flags, Jobs, Sessions, Reconnects, Unstarted, Pids, Running, Ending,
         EndOfStream, OnlyAtTheEnd, Terminates, Exits, DoneMeansEnded
  <1>19. CASE RcTimesOut
    <2>1. Records'
      BY <1>19, RecordsKept DEF Next, Starting, Handling, Reconciling, Reconnecting,
         Terminating, Looping, Closing
    <2>. QED
      BY <1>19, <2>1 DEF RcTimesOut, Finish, remoteVars, connVars, eventVars, Types, Records,
         Places, Flags, Jobs, Sessions, Reconnects, Unstarted, Pids, Running, Ending, EndOfStream,
         OnlyAtTheEnd, Terminates, Exits, DoneMeansEnded
  <1>20. CASE RcTerminate
    <2>1. Records'
      BY <1>20, RecordsKept DEF Next, Starting, Handling, Reconciling, Reconnecting,
         Terminating, Looping, Closing
    <2>2. /\ rc.at = "terminate" /\ job.pid
          /\ UNCHANGED <<job, start, block, conn, stream, exitNote, auto, tm, early>>
      BY <1>20 DEF RcTerminate, remoteVars, connVars, eventVars, Pids
    <2>3. CASE SendSigterm /\ rc' = [rc EXCEPT !.at = "record"]
      <3>1. /\ unkilled' \in BOOLEAN /\ (unkilled => unkilled')
            /\ \/ session' = session
               \/ /\ session.manager = "running"
                  /\ session' = [session EXCEPT !.manager = "dying"]
            /\ unkilled' \/ session'.manager \in {"dying", "gone"}
        BY <2>2, <2>3, Sigterm
      <3>. QED
        BY <2>1, <2>2, <2>3, <3>1 DEF Types, Records, Places, Flags, Jobs, Sessions, Reconnects,
         Unstarted, Pids, Running, Ending, EndOfStream, OnlyAtTheEnd, Terminates, Exits,
         DoneMeansEnded
    <2>4. CASE rc'.at \in {"idle", "lost"} /\ ~rc'.done /\ UNCHANGED <<session, unkilled>>
      BY <2>1, <2>2, <2>4 DEF Types, Records, Places, Flags, Jobs, Sessions, Reconnects,
         Unstarted, Pids, Running, Ending, EndOfStream, OnlyAtTheEnd, Terminates, Exits,
         DoneMeansEnded
    <2>. QED
      BY <1>20, <2>3, <2>4 DEF RcTerminate, CallLost, Finish
  <1>21. CASE RcRecord
    <2>1. Records'
      BY <1>21, RecordsKept DEF Next, Starting, Handling, Reconciling, Reconnecting,
         Terminating, Looping, Closing
    <2>. QED
      BY <1>21, <2>1 DEF RcRecord, RecordTerminated, Finish, remoteVars, connVars, eventVars,
         Types, Records, Places, Flags, Jobs, Sessions, Reconnects, Unstarted, Pids, Running,
         Ending, EndOfStream, OnlyAtTheEnd, Terminates, Exits, DoneMeansEnded
  <1>22. CASE RcAsk
    <2>1. Records'
      BY <1>22, RecordsKept DEF Next, Starting, Handling, Reconciling, Reconnecting,
         Terminating, Looping, Closing
    <2>. QED
      BY <1>22, <2>1 DEF RcAsk, CallLost, Finish, remoteVars, connVars, eventVars, Types, Records,
         Places, Flags, Jobs, Sessions, Reconnects, Unstarted, Pids, Running, Ending, EndOfStream,
         OnlyAtTheEnd, Terminates, Exits, DoneMeansEnded
  <1>23. CASE RcGone
    <2>1. Records'
      BY <1>23, RecordsKept DEF Next, Starting, Handling, Reconciling, Reconnecting,
         Terminating, Looping, Closing
    <2>. QED
      BY <1>23, <2>1 DEF RcGone, Finish, remoteVars, connVars, eventVars, Types, Records, Places,
         Flags, Jobs, Sessions, Reconnects, Unstarted, Pids, Running, Ending, EndOfStream,
         OnlyAtTheEnd, Terminates, Exits, DoneMeansEnded
  <1>24. CASE RcRouteWait
    <2>1. Records'
      BY <1>24, RecordsKept DEF Next, Starting, Handling, Reconciling, Reconnecting,
         Terminating, Looping, Closing
    <2>. QED
      BY <1>24, <2>1 DEF RcRouteWait, CallLost, remoteVars, connVars, eventVars, Types, Records,
         Places, Flags, Jobs, Sessions, Reconnects, Unstarted, Pids, Running, Ending, EndOfStream,
         OnlyAtTheEnd, Terminates, Exits, DoneMeansEnded
  <1>25. CASE RcPrepare
    <2>1. Records'
      BY <1>25, RecordsKept DEF Next, Starting, Handling, Reconciling, Reconnecting,
         Terminating, Looping, Closing
    <2>. QED
      BY <1>25, <2>1 DEF RcPrepare, CallLost, Answers, remoteVars, connVars, eventVars, Types,
         Records, Places, Flags, Jobs, Sessions, Reconnects, Unstarted, Pids, Running, Ending,
         EndOfStream, OnlyAtTheEnd, Terminates, Exits, DoneMeansEnded
  <1>26. CASE RcExited
    <2>1. Records'
      BY <1>26, RecordsKept DEF Next, Starting, Handling, Reconciling, Reconnecting,
         Terminating, Looping, Closing
    <2>. QED
      BY <1>26, <2>1 DEF RcExited, TryTerminate, TerminateJobManager, remoteVars, connVars,
         eventVars, Types, Records, Places, Flags, Jobs, Sessions, Reconnects, Unstarted, Pids,
         Running, Ending, EndOfStream, OnlyAtTheEnd, Terminates, Exits, DoneMeansEnded
  <1>27. CASE RcStreamDone
    <2>1. Records'
      BY <1>27, RecordsKept DEF Next, Starting, Handling, Reconciling, Reconnecting,
         Terminating, Looping, Closing
    <2>. QED
      BY <1>27, <2>1 DEF RcStreamDone, TryTerminate, TerminateJobManager, Finish, remoteVars,
                         connVars, eventVars, Types, Records, Places, Flags, Jobs, Sessions,
                         Reconnects, Unstarted, Pids, Running, Ending, EndOfStream, OnlyAtTheEnd,
                         Terminates, Exits, DoneMeansEnded
  <1>28. CASE RcStartStream
    <2>1. Records'
      BY <1>28, RecordsKept DEF Next, Starting, Handling, Reconciling, Reconnecting,
         Terminating, Looping, Closing
    <2>. QED
      BY <1>28, <2>1 DEF RcStartStream, CallLost, Finish, Answers, remoteVars, connVars,
                         eventVars, Types, Records, Places, Flags, Jobs, Sessions, Reconnects,
                         Unstarted, Pids, Running, Ending, EndOfStream, OnlyAtTheEnd, Terminates,
                         Exits, DoneMeansEnded
  <1>29. CASE ExitNoted
    <2>1. Records'
      BY <1>29, RecordsKept DEF Next, Starting, Handling, Reconciling, Reconnecting,
         Terminating, Looping, Closing
    <2>. QED
      BY <1>29, <2>1 DEF ExitNoted, TryTerminate, TerminateJobManager, remoteVars, connVars,
         eventVars, Types, Records, Places, Flags, Jobs, Sessions, Reconnects, Unstarted, Pids,
         Running, Ending, EndOfStream, OnlyAtTheEnd, Terminates, Exits, DoneMeansEnded
  <1>30. CASE LoopEnds
    <2>1. Records'
      BY <1>30, RecordsKept DEF Next, Starting, Handling, Reconciling, Reconnecting,
         Terminating, Looping, Closing
    <2>. QED
      BY <1>30, <2>1 DEF LoopEnds, remoteVars, connVars, eventVars, Types, Records, Places, Flags,
         Jobs, Sessions, Reconnects, Unstarted, Pids, Running, Ending, EndOfStream, OnlyAtTheEnd,
         Terminates, Exits, DoneMeansEnded
  <1>31. CASE LoopRecords
    <2>1. Records'
      BY <1>31, RecordsKept DEF Next, Starting, Handling, Reconciling, Reconnecting,
         Terminating, Looping, Closing
    <2>. QED
      BY <1>31, <2>1 DEF LoopRecords, remoteVars, connVars, eventVars, Types, Records, Places,
         Flags, Jobs, Sessions, Reconnects, Unstarted, Pids, Running, Ending, EndOfStream,
         OnlyAtTheEnd, Terminates, Exits, DoneMeansEnded
  <1>32. CASE LoopTries
    <2>1. Records'
      BY <1>32, RecordsKept DEF Next, Starting, Handling, Reconciling, Reconnecting,
         Terminating, Looping, Closing
    <2>. QED
      BY <1>32, <2>1 DEF LoopTries, TryTerminate, TerminateJobManager, remoteVars, connVars,
         eventVars, Types, Records, Places, Flags, Jobs, Sessions, Reconnects, Unstarted, Pids,
         Running, Ending, EndOfStream, OnlyAtTheEnd, Terminates, Exits, DoneMeansEnded
  <1>33. CASE TmBegin
    <2>1. Records'
      BY <1>33, RecordsKept DEF Next, Starting, Handling, Reconciling, Reconnecting,
         Terminating, Looping, Closing
    <2>. QED
      BY <1>33, <2>1 DEF TmBegin, remoteVars, connVars, eventVars, Types, Records, Places, Flags,
         Jobs, Sessions, Reconnects, Unstarted, Pids, Running, Ending, EndOfStream, OnlyAtTheEnd,
         Terminates, Exits, DoneMeansEnded
  <1>34. CASE TmAsk
    <2>1. Records'
      BY <1>34, RecordsKept DEF Next, Starting, Handling, Reconciling, Reconnecting,
         Terminating, Looping, Closing
    <2>2. /\ tm \in {"ask", "askUnknown"} /\ tm' = "record"
          /\ UNCHANGED <<job, start, block, conn, stream, exitNote, auto, rc, early>>
      BY <1>34 DEF TmAsk, remoteVars, connVars, eventVars
    <2>3. CASE tm = "ask"
      <3>1. /\ unkilled' \in BOOLEAN /\ (unkilled => unkilled')
            /\ \/ session' = session
               \/ /\ session.manager = "running"
                  /\ session' = [session EXCEPT !.manager = "dying"]
            /\ unkilled' \/ session'.manager \in {"dying", "gone"}
        BY <1>34, <2>3, Sigterm DEF TmAsk, Pids
      <3>. QED
        BY <2>1, <2>2, <2>3, <3>1 DEF Types, Records, Places, Flags, Jobs, Sessions, Reconnects,
         Unstarted, Pids, Running, Ending, EndOfStream, OnlyAtTheEnd, Terminates, Exits,
         DoneMeansEnded
    <2>4. CASE tm = "askUnknown"
      <3>1. UNCHANGED <<session, unkilled>>
        BY <1>34, <2>4 DEF TmAsk
      <3>. QED
        BY <2>1, <2>2, <2>4, <3>1 DEF Types, Records, Places, Flags, Jobs, Sessions, Reconnects,
         Unstarted, Pids, Running, Ending, EndOfStream, OnlyAtTheEnd, Terminates, Exits,
         DoneMeansEnded
    <2>. QED
      BY <2>2, <2>3, <2>4
  <1>35. CASE TmAskFails
    <2>1. Records'
      BY <1>35, RecordsKept DEF Next, Starting, Handling, Reconciling, Reconnecting,
         Terminating, Looping, Closing
    <2>. QED
      BY <1>35, <2>1 DEF TmAskFails, remoteVars, connVars, eventVars, Types, Records, Places,
         Flags, Jobs, Sessions, Reconnects, Unstarted, Pids, Running, Ending, EndOfStream,
         OnlyAtTheEnd, Terminates, Exits, DoneMeansEnded
  <1>36. CASE TmRecord
    <2>1. Records'
      BY <1>36, RecordsKept DEF Next, Starting, Handling, Reconciling, Reconnecting,
         Terminating, Looping, Closing
    <2>. QED
      BY <1>36, <2>1 DEF TmRecord, RecordTerminated, remoteVars, connVars, eventVars, Types,
         Records, Places, Flags, Jobs, Sessions, Reconnects, Unstarted, Pids, Running, Ending,
         EndOfStream, OnlyAtTheEnd, Terminates, Exits, DoneMeansEnded
  <1>37. CASE CloseBlock
    <2>1. Records'
      BY <1>37, RecordsKept DEF Next, Starting, Handling, Reconciling, Reconnecting,
         Terminating, Looping, Closing
    <2>2. early' \in BOOLEAN /\ (early' <=> start # "over")
      BY <1>37 DEF CloseBlock
    <2>3. /\ block = "open" /\ block' = "closing" /\ start # "no"
          /\ UNCHANGED <<job, start, session, conn, stream, exitNote, auto, rc, tm, unkilled>>
      BY <1>37 DEF CloseBlock, remoteVars, connVars, eventVars
    <2>4. (Places /\ Flags)'
      BY <2>1, <2>2, <2>3 DEF Types, Places, Flags
    <2>5. (Unstarted /\ Pids /\ Ending)'
      BY <2>1, <2>2, <2>3 DEF Types, Records, Places, Flags, Jobs, Sessions, Reconnects,
                              Unstarted, Pids, Running, Ending, EndOfStream, OnlyAtTheEnd,
                              Terminates, Exits, DoneMeansEnded
    <2>6. (EndOfStream /\ OnlyAtTheEnd)'
      BY <2>1, <2>2, <2>3 DEF Types, Records, Places, Flags, Jobs, Sessions, Reconnects,
                              Unstarted, Pids, Running, Ending, EndOfStream, OnlyAtTheEnd,
                              Terminates, Exits, DoneMeansEnded
    <2>7. (Exits /\ DoneMeansEnded)'
      BY <2>1, <2>2, <2>3 DEF Types, Records, Places, Flags, Jobs, Sessions, Reconnects,
                              Unstarted, Pids, Running, Ending, EndOfStream, OnlyAtTheEnd,
                              Terminates, Exits, DoneMeansEnded
    <2>. QED  BY <2>1, <2>4, <2>5, <2>6, <2>7 DEF Types
  <1>38. CASE BlockCloses
    <2>1. Records'
      BY <1>38, RecordsKept DEF Next, Starting, Handling, Reconciling, Reconnecting,
         Terminating, Looping, Closing
    <2>. QED
      BY <1>38, <2>1 DEF BlockCloses, TerminateJobManager, remoteVars, connVars, eventVars, Types,
         Records, Places, Flags, Jobs, Sessions, Reconnects, Unstarted, Pids, Running, Ending,
         EndOfStream, OnlyAtTheEnd, Terminates, Exits, DoneMeansEnded
  <1>39. CASE Detach
    <2>1. Records'
      BY <1>39, RecordsKept DEF Next, Starting, Handling, Reconciling, Reconnecting,
         Terminating, Looping, Closing
    <2>. QED
      BY <1>39, <2>1 DEF Detach, remoteVars, connVars, eventVars, Types, Records, Places, Flags,
         Jobs, Sessions, Reconnects, Unstarted, Pids, Running, Ending, EndOfStream, OnlyAtTheEnd,
         Terminates, Exits, DoneMeansEnded
  <1>40. CASE RcAskFails
    <2>1. Records'
      BY <1>40, RecordsKept DEF Next, Starting, Handling, Reconciling, Reconnecting,
         Terminating, Looping, Closing
    <2>. QED
      BY <1>40, <2>1 DEF RcAskFails, RouteGoes, Answers, Finish, remoteVars, connVars, eventVars,
         Types, Records, Places, Flags, Jobs, Sessions, Reconnects, Unstarted, Pids, Running,
         Ending, EndOfStream, OnlyAtTheEnd, Terminates, Exits, DoneMeansEnded
  <1>41. CASE CooldownOver
    <2>1. Records'
      BY <1>41, RecordsKept DEF Next, Starting, Handling, Reconciling, Reconnecting,
         Terminating, Looping, Closing
    <2>. QED
      BY <1>41, <2>1 DEF CooldownOver, remoteVars, connVars, eventVars, Types, Records, Places,
         Flags, Jobs, Sessions, Reconnects, Unstarted, Pids, Running, Ending, EndOfStream,
         OnlyAtTheEnd, Terminates, Exits, DoneMeansEnded
  <1>42. CASE UNCHANGED vars
    BY <1>42 DEF vars, remoteVars, connVars, eventVars, Types, Records, Places, Flags, Unstarted,
                 Pids, Running, Ending, EndOfStream, OnlyAtTheEnd, Terminates, Exits,
                 DoneMeansEnded
  <1>. QED
    BY <1>1, <1>2, <1>3, <1>4, <1>5, <1>6, <1>7, <1>8, <1>9, <1>10, <1>11, <1>12, <1>13, <1>14,
       <1>15, <1>16, <1>17, <1>18, <1>19, <1>20, <1>21, <1>22, <1>23, <1>24, <1>25, <1>26, <1>27,
       <1>28, <1>29, <1>30, <1>31, <1>32, <1>33, <1>34, <1>35, <1>36, <1>37, <1>38, <1>39, <1>40,
       <1>41, <1>42
       DEF Next, Starting, Handling, Reconciling, Reconnecting, Terminating, Looping, Closing

LEMMA JobInvariant == Spec => []JobInv
  BY InitJobInv, StepJobInv, PTL DEF Spec

-----------------------------------------------------------------------------

(* Every state of the model is well formed, with any number of faults.      *)
THEOREM JobTypeCorrect == Spec => []TypeOK
  <1>1. JobInv => TypeOK
    BY DEF JobInv, Types, Records, Places, Jobs, Sessions, TypeOK
  <1>. QED  BY <1>1, JobInvariant, PTL

(* No job is recorded as ended (remoteTerminateJobManager, doReconnectJob)  *)
(* while its job manager goes on, in whatever order the events are handled  *)
(* and whatever calls were lost or failed in between, outside the three     *)
(* cases that DoneMeansEnded names.                                         *)
THEOREM NoSessionLeft == Spec => []DoneMeansEnded
  <1>1. JobInv => DoneMeansEnded
    BY DEF JobInv
  <1>. QED  BY <1>1, JobInvariant, PTL

(* A job whose block is open is not terminated by tryTerminateJobManager,   *)
(* nor by a reconnect that finds the flag set, before the exit of its       *)
(* command is recorded and the end of its output was read.                  *)
THEOREM NotBeforeTheEnd == Spec => []OutputBeforeEnd
  <1>1. JobInv => OutputBeforeEnd
    BY DEF JobInv, OnlyAtTheEnd, Terminates, OutputBeforeEnd
  <1>. QED  BY <1>1, JobInvariant, PTL

(* An exit that is recorded, or about to be by HandleCmdJobExited, did      *)
(* happen.                                                                  *)
THEOREM ExitIsTrue == Spec => [](job.exited \/ exitNote = "sent" => session.cmd = "exited")
  <1>1. JobInv => (job.exited \/ exitNote = "sent" => session.cmd = "exited")
    BY DEF JobInv, Exits
  <1>. QED  BY <1>1, JobInvariant, PTL

=============================================================================
