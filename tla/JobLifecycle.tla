----------------------------- MODULE JobLifecycle -----------------------------
(***************************************************************************)
(* The life of one durable job as the main server sees it,                  *)
(* pkg/jobcontroller/jobcontroller.go: started for a block, reconnected     *)
(* when its connection comes back, ended when its command has exited and    *)
(* its output is stored, or when its block is closed.                       *)
(*                                                                         *)
(* The record of the job is in the database; the processes are on a remote  *)
(* host, behind a connection that may be lost, and noticed to be lost only  *)
(* later.  Events of the connection, of the job's route and of the block    *)
(* arrive as calls of handlers, each on a goroutine of its own, so in any   *)
(* order; reconnecting and terminating are calls that one goroutine makes   *)
(* for all that ask for it at the time (singleflight).                      *)
(* How the output travels is DurableStream's matter: here a stream is open, *)
(* cut off, or at its end.                                                  *)
(***************************************************************************)
EXTENDS Integers, SequencesExt

CONSTANTS
  MaxFaults  \* how often the connection or the route is lost, the job manager dies, the remote
             \* side fails at what it is asked, or the block is closed while the job starts

ASSUME FaultsAssumption == MaxFaults \in Nat

VARIABLES
  job,         \* the record in the database
  start,       \* StartJob: "no", "asking", "failed", "started", "lost" or "over"
  block,       \* the block: "open", "closing" (the event is on its way), "waiting" or "closed"
  session,     \* the remote host: the job manager, the command, and whether its end is acknowledged
  conn,        \* the connection: "up", "lost" (nobody has noticed) or "down"
  route,       \* the route of the job is registered
  connected,   \* jobConnStates
  stream,      \* the output loop: "none", "open", "cut", "ending" (has read the end) or "ended"
  routeEvents, \* those of the route, published and not handled yet: "up" or "down"
  connEvents,  \* those of the connection
  exitNote,    \* the notification of the exit: "no" or "sent"
  auto,        \* attemptAutoReconnect sleeps
  tried,       \* lastAutoReconnectAttempt: within AutoReconnectCooldown
  recon,       \* the connState of the connection, and what reconcileConn does
  signal,      \* reconcileCh
  rc,          \* what the singleflight reconnect does
  tm,          \* what the singleflight termination does
  faults,
  missed,      \* ghost: a call nobody repeats failed, an automatic attempt was dropped, or a
               \* route was reported to be there after it was reported to be gone again
  early,       \* ghost: the block was closed while StartJob ran
  unkilled,    \* ghost: SIGTERM could not be sent, and the call succeeded
  late         \* ghost: an event was handled before one of the other kind that preceded it

remoteVars == <<session, route, stream, exitNote>>

connVars == <<conn, faults>>

pending == <<routeEvents, connEvents>>

reconVars == <<auto, tried, recon, signal, connected>>

eventVars == <<pending, reconVars>>

ghostVars == <<missed, early, unkilled, late>>

vars == <<job, start, block, remoteVars, connVars, eventVars, rc, tm, ghostVars>>

IsConnected == conn # "down"

Running == job.status = "running"

(* Goroutines that are ready run before what takes a second: the sleep of   *)
(* attemptAutoReconnect, and setting up a connection, by which time a call  *)
(* that was to be made has been made too.                                   *)
Handled ==
  /\ pending = << << >>, << >> >>
  /\ ~signal
  /\ recon.doing = "none" \/ (recon.doing = "wait" /\ rc.at # "idle")

Settled == Handled /\ rc.at \in {"idle", "lost"} /\ tm = "idle"

(* One more of the things that go wrong.                                    *)
Fault == faults < MaxFaults /\ faults' = faults + 1

Init ==
  /\ job = [status |-> "none", reason |-> "none", pid |-> FALSE, exited |-> FALSE,
            streamDone |-> FALSE, terminate |-> FALSE, attached |-> FALSE]
  /\ start = "no"
  /\ block = "open"
  /\ session = [manager |-> "none", cmd |-> "none", acked |-> FALSE]
  /\ conn = "up"
  /\ route = FALSE
  /\ connected = FALSE
  /\ stream = "none"
  /\ routeEvents = << >>
  /\ connEvents = << >>
  /\ exitNote = "no"
  /\ auto = FALSE
  /\ tried = FALSE
  /\ recon = [actual |-> TRUE, processed |-> TRUE, target |-> TRUE, doing |-> "none"]
  /\ signal = FALSE
  /\ rc = [at |-> "idle", done |-> FALSE]
  /\ tm = "idle"
  /\ faults = 0
  /\ missed = FALSE
  /\ early = FALSE
  /\ unkilled = FALSE
  /\ late = FALSE

-----------------------------------------------------------------------------
(* The two singleflight groups: a call starts one, or joins the one that    *)
(* runs.                                                                    *)

ReconnectJob == rc' = IF rc.at = "idle" THEN [rc EXCEPT !.at = "check"] ELSE rc

TerminateJobManager == tm' = IF tm = "idle" THEN "begin" ELSE tm

Finish == rc' = [at |-> "idle", done |-> FALSE]

(* A call of a reconnect is lost: its caller waits for the timeout, and     *)
(* all that ask for a reconnect meanwhile wait with it.                     *)
CallLost == rc' = [at |-> "lost", done |-> FALSE] /\ missed' = TRUE

(* The job manager answers a call on the route of the job.                  *)
Answers == route /\ conn = "up"

TryTerminate_Either ==
  IF job'.status = "running" /\ (job'.exited \/ job'.streamDone) THEN TerminateJobManager ELSE UNCHANGED tm

(* tryTerminateJobManager, by one that has just recorded the exit, the end  *)
(* of the stream, or both.                                                  *)
TryTerminate ==
  IF job'.status = "running" /\ job'.exited /\ job'.streamDone THEN TerminateJobManager ELSE UNCHANGED tm

(* RemoteTerminateJobManagerCommand: a process that is not running, or that *)
(* is not known, counts as terminated, and so does one that could not be    *)
(* sent SIGTERM.                                                            *)
SendSigterm ==
  IF job.pid /\ session.manager = "running"
  THEN \/ session' = [session EXCEPT !.manager = "dying"] /\ UNCHANGED <<faults, unkilled>>
       \/ Fault /\ unkilled' = TRUE /\ UNCHANGED session
  ELSE UNCHANGED <<session, faults, unkilled>>

(* The end of remoteTerminateJobManager.                                    *)
RecordTerminated ==
  job' = [job EXCEPT !.status = "done", !.reason = "terminated", !.terminate = FALSE, !.streamDone = TRUE]

-----------------------------------------------------------------------------
(* Starting.                                                                *)

StartJob ==
  /\ start = "no" /\ block = "open" /\ IsConnected
  /\ start' = IF conn = "up" THEN "asking" ELSE "lost"
  /\ job' = [job EXCEPT !.status = "init", !.attached = TRUE]
  /\ UNCHANGED <<block, remoteVars, connVars, eventVars, rc, tm, ghostVars>>

(* RemoteStartJobCommand: starts the job manager, connects to it, and asks  *)
(* it to start the command with its output connected.                       *)
RemoteStartJob ==
  /\ start = "asking"
  /\ \/ /\ start' = "started"
        /\ session' = [session EXCEPT !.manager = "running", !.cmd = "running"]
        /\ route' = TRUE
        /\ stream' = "open"
        /\ routeEvents' = Append(routeEvents, "up")
     \/ /\ start' = "failed"
        /\ UNCHANGED <<session, route, stream, routeEvents>>
  /\ UNCHANGED <<job, block, exitNote, connVars, connEvents, reconVars, rc, tm, ghostVars>>

(* The controller of the block reconnects the job it has started.           *)
SetRunning == job' = [job EXCEPT !.status = "running", !.pid = TRUE]

StartReturns ==
  /\ start = "started"
  /\ start' = "over"
  /\ SetRunning
  /\ ReconnectJob
  /\ UNCHANGED <<block, remoteVars, connVars, eventVars, tm, ghostVars>>

StartFails ==
  /\ start \in {"failed", "lost"}
  /\ start' = "over"
  /\ job' = [job EXCEPT !.status = "done", !.reason = "startuperror"]
  /\ UNCHANGED <<block, remoteVars, connVars, eventVars, rc, tm, ghostVars>>

-----------------------------------------------------------------------------
(* The remote host.                                                         *)

(* The connection to the job manager is gone; the main server hears of it   *)
(* if it has a connection itself.                                           *)
RouteGoes ==
  /\ route' = (route /\ ~Answers)
  /\ stream' = IF stream = "open" THEN "cut" ELSE stream
  /\ routeEvents' = IF Answers THEN Append(routeEvents, "down") ELSE routeEvents

(* sendJobExited: nobody is told when no client is attached.                *)
CmdExits ==
  /\ session.cmd = "running"
  /\ session' = [session EXCEPT !.cmd = "exited"]
  /\ exitNote' = IF Answers THEN "sent" ELSE "no"
  /\ UNCHANGED <<job, start, block, route, stream, connVars, eventVars, rc, tm, ghostVars>>

(* The job manager has no handler for SIGTERM; the PTY closes with it.      *)
ManagerExits ==
  /\ session.manager = "dying"
  /\ session' = [session EXCEPT !.manager = "gone", !.cmd = "exited"]
  /\ RouteGoes
  /\ UNCHANGED <<job, start, block, exitNote, connVars, connEvents, reconVars, rc, tm, ghostVars>>

ManagerDies ==
  /\ session.manager = "running" /\ start = "over" /\ Fault
  /\ session' = [session EXCEPT !.manager = "gone", !.cmd = "exited"]
  /\ RouteGoes
  /\ UNCHANGED <<job, start, block, exitNote, conn, connEvents, reconVars, rc, tm, ghostVars>>

(* DisconnectJob: the connection to the job manager is closed.              *)
Disconnect ==
  /\ route /\ conn = "up" /\ start = "over" /\ Fault
  /\ RouteGoes
  /\ UNCHANGED <<job, start, block, session, exitNote, conn, connEvents, reconVars, rc, tm, ghostVars>>

-----------------------------------------------------------------------------
(* The connection.  What is under way on it is lost.                        *)

ConnLost ==
  /\ conn = "up" /\ Fault
  /\ conn' = "lost"
  /\ start' = IF start \in {"asking", "started"} THEN "lost" ELSE start
  /\ exitNote' = "no"
  /\ stream' = IF stream = "open" THEN "cut" ELSE stream
  /\ UNCHANGED <<job, block, session, route, eventVars, rc, tm, ghostVars>>

(* waitForDisconnect, and the link of the connection that closes: its       *)
(* routes go.                                                               *)
ConnNoticed ==
  /\ conn = "lost"
  /\ conn' = "down"
  /\ route' = FALSE
  /\ routeEvents' = IF route THEN Append(routeEvents, "down") ELSE routeEvents
  /\ connEvents' = Append(connEvents, "down")
  /\ UNCHANGED <<job, start, block, session, stream, exitNote, faults, reconVars, rc, tm, ghostVars>>

ConnUp ==
  /\ conn = "down" /\ Settled
  /\ conn' = "up"
  /\ connEvents' = Append(connEvents, "up")
  /\ UNCHANGED <<job, start, block, remoteVars, faults, routeEvents, reconVars, rc, tm, ghostVars>>

-----------------------------------------------------------------------------
(* Events.                                                                  *)

(* Every EventRecv is a goroutine of its own: any of the events may be the  *)
(* next, and so overtake those before it.                                   *)
Overtakes(events, i) == \E j \in 1 .. i - 1 : events[j] # events[i]

(* handleRouteEvent: a route that goes while the job runs makes one         *)
(* automatic attempt, unless there was one within AutoReconnectCooldown.    *)
RouteUp ==
  /\ connected' = TRUE
  /\ UNCHANGED <<auto, tried, missed>>

RouteDown_KeepsStatus(overtakes) ==
  /\ tried' = (tried \/ Running)
  /\ auto' = (auto \/ (Running /\ ~tried))
  /\ missed' = (missed \/ overtakes \/ (Running /\ tried /\ conn = "up"))
  /\ UNCHANGED connected

RouteDown(overtakes) ==
  /\ connected' = FALSE
  /\ tried' = (tried \/ Running)
  /\ auto' = (auto \/ (Running /\ ~tried))
  /\ missed' = (missed \/ overtakes \/ (Running /\ tried /\ conn = "up"))

HandleRouteEvent ==
  \E i \in 1 .. Len(routeEvents) :
    /\ routeEvents' = RemoveAt(routeEvents, i)
    /\ late' = (late \/ Overtakes(routeEvents, i))
    /\ IF routeEvents[i] = "up" THEN RouteUp ELSE RouteDown(Overtakes(routeEvents, i))
    /\ UNCHANGED <<job, start, block, remoteVars, connVars, connEvents, recon, signal, rc, tm, early, unkilled>>

HandleConnChange ==
  \E i \in 1 .. Len(connEvents) :
    /\ connEvents' = RemoveAt(connEvents, i)
    /\ late' = (late \/ Overtakes(connEvents, i))
    /\ recon' = [recon EXCEPT !.actual = (connEvents[i] = "up")]
    /\ signal' = TRUE
    /\ UNCHANGED <<job, start, block, remoteVars, connVars, routeEvents, auto, tried, connected, rc, tm,
                   missed, early, unkilled>>

(* Half a minute goes by.                                                   *)
CooldownOver ==
  /\ tried /\ ~auto /\ Settled
  /\ tried' = FALSE
  /\ UNCHANGED <<job, start, block, remoteVars, connVars, pending, auto, recon, signal, connected, rc, tm, ghostVars>>

AutoReconnect ==
  /\ auto /\ Handled
  /\ auto' = FALSE
  /\ IF IsConnected THEN ReconnectJob ELSE UNCHANGED rc
  /\ UNCHANGED <<job, start, block, remoteVars, connVars, pending, tried, recon, signal, connected, tm, ghostVars>>

-----------------------------------------------------------------------------
(* The reconciler.                                                          *)

ReconcileAllConns ==
  /\ signal
  /\ signal' = FALSE
  /\ recon' = IF recon.doing # "none" \/ recon.actual = recon.processed THEN recon
              ELSE [recon EXCEPT !.target = recon.actual, !.doing = "go"]
  /\ UNCHANGED <<job, start, block, remoteVars, connVars, pending, auto, tried, connected, rc, tm, ghostVars>>

(* onConnectionUp reconnects the jobs that run and waits for each.          *)
ReconcileConn ==
  /\ recon.doing = "go"
  /\ recon' = [recon EXCEPT !.doing = "wait"]
  /\ IF recon.target /\ Running THEN ReconnectJob ELSE UNCHANGED rc
  /\ UNCHANGED <<job, start, block, remoteVars, connVars, pending, auto, tried, signal, connected, tm, ghostVars>>

ReconcileEnds ==
  /\ recon.doing = "wait" /\ (rc.at = "idle" \/ ~recon.target)
  /\ recon' = [recon EXCEPT !.processed = recon.target, !.doing = "none"]
  /\ signal' = TRUE
  /\ UNCHANGED <<job, start, block, remoteVars, connVars, pending, auto, tried, connected, rc, tm, ghostVars>>

-----------------------------------------------------------------------------
(* doReconnectJob and restartStreaming.                                     *)

RcCheck ==
  /\ rc.at = "check"
  /\ IF connected \/ ~IsConnected THEN Finish
     ELSE rc' = [rc EXCEPT !.at = IF job.terminate THEN "terminate" ELSE "ask"]
  /\ UNCHANGED <<job, start, block, remoteVars, connVars, eventVars, tm, ghostVars>>

RcTimesOut ==
  /\ rc.at = "lost"
  /\ Finish
  /\ UNCHANGED <<job, start, block, remoteVars, connVars, eventVars, tm, ghostVars>>

RcTerminate ==
  /\ rc.at = "terminate"
  /\ IF conn = "up"
     THEN \/ SendSigterm /\ rc' = [rc EXCEPT !.at = "record"] /\ UNCHANGED missed
          \/ Fault /\ Finish /\ missed' = TRUE /\ UNCHANGED <<session, unkilled>>
     ELSE CallLost /\ UNCHANGED <<session, faults, unkilled>>
  /\ UNCHANGED <<job, start, block, route, stream, exitNote, conn, eventVars, tm, early, late>>

RcRecord ==
  /\ rc.at = "record"
  /\ RecordTerminated
  /\ Finish
  /\ UNCHANGED <<start, block, remoteVars, connVars, eventVars, tm, ghostVars>>

(* RemoteReconnectToJobManagerCommand: the connection there is to the job   *)
(* manager makes way for a new one.                                         *)
RcAsk ==
  /\ rc.at = "ask"
  /\ IF conn # "up" THEN CallLost /\ UNCHANGED <<route, stream, routeEvents>>
     ELSE \/ /\ session.manager \in {"none", "gone"}
             /\ rc' = [rc EXCEPT !.at = "gone"]
             /\ UNCHANGED <<route, stream, routeEvents, missed>>
          \/ /\ session.manager = "running"
             /\ rc' = [rc EXCEPT !.at = "routeWait"]
             /\ route' = TRUE
             /\ stream' = IF stream = "open" THEN "cut" ELSE stream
             /\ routeEvents' = routeEvents \o (IF route THEN <<"down", "up">> ELSE <<"up">>)
             /\ UNCHANGED missed
  /\ UNCHANGED <<job, start, block, session, exitNote, connVars, connEvents, reconVars, tm, early, unkilled, late>>

(* Its failing answer: the process cannot be looked up, or the connection   *)
(* there is was closed and no other comes about.  Only the route that went  *)
(* may lead to another attempt.                                             *)
RcAskFails ==
  /\ rc.at = "ask" /\ conn = "up"
  /\ Finish
  /\ \/ session.manager = "dying" /\ RouteGoes /\ UNCHANGED <<faults, missed>>
     \/ session.manager = "running" /\ Fault /\ RouteGoes /\ missed' = (missed \/ ~route)
     \/ Fault /\ UNCHANGED <<route, stream, routeEvents>> /\ missed' = TRUE
  /\ UNCHANGED <<job, start, block, session, exitNote, conn, connEvents, reconVars, tm,
                 early, unkilled, late>>

RcGone ==
  /\ rc.at = "gone"
  /\ job' = [job EXCEPT !.status = "done", !.reason = "gone"]
  /\ Finish
  /\ UNCHANGED <<start, block, remoteVars, connVars, eventVars, tm, ghostVars>>

RcRouteWait ==
  /\ rc.at = "routeWait"
  /\ IF route THEN rc' = [rc EXCEPT !.at = "prepare"] /\ connected' = TRUE /\ UNCHANGED missed
     ELSE CallLost /\ UNCHANGED connected
  /\ UNCHANGED <<job, start, block, remoteVars, connVars, pending, auto, tried, recon, signal, tm, early, unkilled, late>>

RcPrepare_ForgetsExit ==
  /\ rc.at = "prepare"
  /\ stream' = IF stream = "ended" THEN stream ELSE "none"
  /\ IF Answers THEN rc' = [rc EXCEPT !.at = "stream"] /\ UNCHANGED missed
     ELSE CallLost
  /\ UNCHANGED <<job, start, block, session, route, exitNote, connVars, eventVars, tm, early, unkilled, late>>

(* The new stream supersedes the one there is, whose loop ends without a    *)
(* word at its next read.                                                   *)
RcPrepare ==
  /\ rc.at = "prepare"
  /\ stream' = IF stream = "ended" THEN stream ELSE "none"
  /\ IF Answers THEN /\ rc' = [at |-> IF session.cmd = "exited" THEN "exited" ELSE "stream", done |-> session.acked]
                     /\ UNCHANGED missed
     ELSE CallLost
  /\ UNCHANGED <<job, start, block, session, route, exitNote, connVars, eventVars, tm, early, unkilled, late>>

(* HandleCmdJobExited, with what PrepareConnect has said of the command.    *)
RcExited ==
  /\ rc.at = "exited"
  /\ job' = [job EXCEPT !.exited = TRUE]
  /\ TryTerminate
  /\ rc' = [rc EXCEPT !.at = IF rc.done THEN "done" ELSE "stream"]
  /\ UNCHANGED <<start, block, remoteVars, connVars, eventVars, ghostVars>>

(* It has waited for the termination, if there is one.  A stream that is    *)
(* done was ended by a command that has exited.                             *)
RcStreamDone ==
  /\ rc.at = "done" /\ tm = "idle"
  /\ job' = [job EXCEPT !.streamDone = TRUE]
  /\ TryTerminate
  /\ Finish
  /\ UNCHANGED <<start, block, remoteVars, connVars, eventVars, ghostVars>>

RcStartStream ==
  /\ rc.at = "stream" /\ tm = "idle"
  /\ IF Answers THEN stream' = "open" /\ Finish /\ UNCHANGED missed
     ELSE CallLost /\ UNCHANGED stream
  /\ UNCHANGED <<job, start, block, session, route, exitNote, connVars, eventVars, tm, early, unkilled, late>>

-----------------------------------------------------------------------------
(* The end of the command and of its output.                                *)

(* HandleCmdJobExited                                                       *)
ExitNoted ==
  /\ exitNote = "sent"
  /\ exitNote' = "no"
  /\ job' = [job EXCEPT !.exited = TRUE]
  /\ TryTerminate
  /\ UNCHANGED <<start, block, session, route, stream, connVars, eventVars, rc, ghostVars>>

(* runOutputLoop reads the end of the stream, records it, and tries.        *)
LoopEnds ==
  /\ stream = "open" /\ start = "over" /\ session.cmd = "exited"
  /\ stream' = "ending"
  /\ session' = [session EXCEPT !.acked = TRUE]
  /\ UNCHANGED <<job, start, block, route, exitNote, connVars, eventVars, rc, tm, ghostVars>>

LoopRecords ==
  /\ stream = "ending"
  /\ stream' = "ended"
  /\ job' = [job EXCEPT !.streamDone = TRUE]
  /\ UNCHANGED <<start, block, session, route, exitNote, connVars, eventVars, rc, tm, ghostVars>>

LoopTries ==
  /\ stream = "ended"
  /\ stream' = "none"
  /\ UNCHANGED job
  /\ TryTerminate
  /\ UNCHANGED <<start, block, session, route, exitNote, connVars, eventVars, rc, ghostVars>>

-----------------------------------------------------------------------------
(* Terminating: doTerminateJobManager and remoteTerminateJobManager.        *)

TmBegin_ForgetsFlag ==
  /\ tm = "begin"
  /\ tm' = IF job.status = "done" THEN "idle" ELSE IF job.pid THEN "ask" ELSE "askUnknown"
  /\ UNCHANGED <<job, start, block, remoteVars, connVars, eventVars, rc, ghostVars>>

TmBegin ==
  /\ tm = "begin"
  /\ IF job.status = "done" THEN tm' = "idle" /\ UNCHANGED job
     ELSE /\ job' = [job EXCEPT !.terminate = TRUE]
          /\ tm' = IF job.pid THEN "ask" ELSE "askUnknown"
  /\ UNCHANGED <<start, block, remoteVars, connVars, eventVars, rc, ghostVars>>

TmAsk ==
  /\ tm \in {"ask", "askUnknown"} /\ conn = "up"
  /\ tm' = "record"
  /\ IF tm = "ask" THEN SendSigterm ELSE UNCHANGED <<session, faults, unkilled>>
  /\ UNCHANGED <<job, start, block, route, stream, exitNote, conn, eventVars, rc, missed, early, late>>

TmAskFails_Records ==
  /\ tm \in {"ask", "askUnknown"} /\ conn # "up"
  /\ tm' = "record"
  /\ UNCHANGED <<job, start, block, remoteVars, connVars, eventVars, rc, ghostVars>>

(* Without a route to the host the call fails at once; on a connection      *)
(* nobody knows to be lost it times out, and the five seconds of the        *)
(* handler that closes the block are over too.  Or the remote side cannot   *)
(* look the process up; nobody then asks again.                             *)
TmAskFails ==
  /\ tm \in {"ask", "askUnknown"}
  /\ tm' = "idle"
  /\ \/ conn # "up" /\ UNCHANGED <<faults, missed>>
     \/ conn = "up" /\ Fault /\ missed' = TRUE
  /\ block' = IF block = "waiting" /\ conn = "lost" THEN "closed" ELSE block
  /\ UNCHANGED <<job, start, remoteVars, conn, eventVars, rc, early, unkilled, late>>

TmRecord ==
  /\ tm = "record"
  /\ RecordTerminated
  /\ tm' = "idle"
  /\ UNCHANGED <<start, block, remoteVars, connVars, eventVars, rc, ghostVars>>

(* The block is deleted; its event finds the jobs attached to it.           *)
CloseBlock ==
  /\ block = "open" /\ start # "no"
  /\ block' = "closing"
  /\ IF start = "over" THEN UNCHANGED faults ELSE Fault
  /\ early' = (start # "over")
  /\ UNCHANGED <<job, start, remoteVars, conn, eventVars, rc, tm, missed, unkilled, late>>

(* handleBlockCloseEvent and TerminateAndDetachJob.                         *)
BlockCloses ==
  /\ block = "closing"
  /\ block' = "waiting"
  /\ TerminateJobManager
  /\ UNCHANGED <<job, start, remoteVars, connVars, eventVars, rc, ghostVars>>

Detach ==
  /\ block = "waiting" /\ tm = "idle"
  /\ block' = "closed"
  /\ job' = [job EXCEPT !.attached = FALSE]
  /\ UNCHANGED <<start, remoteVars, connVars, eventVars, rc, tm, ghostVars>>

-----------------------------------------------------------------------------
Reconnecting ==
  \/ RcCheck \/ RcTimesOut \/ RcTerminate \/ RcRecord \/ RcAsk \/ RcAskFails \/ RcGone \/ RcRouteWait
  \/ RcPrepare \/ RcExited \/ RcStreamDone \/ RcStartStream

Terminating == TmBegin \/ TmAsk \/ TmAskFails \/ TmRecord

Starting == RemoteStartJob \/ StartReturns \/ StartFails

Handling == HandleRouteEvent \/ HandleConnChange

Looping == LoopEnds \/ LoopRecords \/ LoopTries

Closing == BlockCloses \/ Detach

Reconciling == ReconcileConn \/ ReconcileEnds

Next ==
  \/ StartJob \/ Starting
  \/ CmdExits \/ ManagerExits \/ ManagerDies \/ Disconnect
  \/ ConnLost \/ ConnNoticed \/ ConnUp
  \/ Handling \/ CooldownOver \/ AutoReconnect
  \/ ReconcileAllConns \/ Reconciling
  \/ Reconnecting \/ Terminating
  \/ ExitNoted \/ Looping
  \/ CloseBlock \/ Closing

Spec == Init /\ [][Next]_vars

(* What goes on by itself: the goroutines, the remote host and its links.   *)
(* Nobody has to close the block, and the command need not exit; a          *)
(* connection need not come back.                                           *)
System ==
  \/ Starting \/ ManagerExits \/ ConnNoticed
  \/ Handling \/ AutoReconnect
  \/ ReconcileAllConns \/ Reconciling
  \/ Reconnecting \/ Terminating
  \/ ExitNoted \/ Looping \/ Closing

(* One of them makes a step while any of them can, in whatever order.       *)
FairSpec == Spec /\ WF_vars(System)

-----------------------------------------------------------------------------
TypeOK ==
  /\ job.status \in {"none", "init", "running", "done"}
  /\ job.reason \in {"none", "startuperror", "terminated", "gone"}
  /\ start \in {"no", "asking", "failed", "started", "lost", "over"}
  /\ block \in {"open", "closing", "waiting", "closed"}
  /\ session.manager \in {"none", "running", "dying", "gone"}
  /\ conn \in {"up", "lost", "down"}
  /\ stream \in {"none", "open", "cut", "ending", "ended"}
  /\ tm \in {"idle", "begin", "ask", "askUnknown", "record"}

(* A job that is recorded as ended has no session left behind: whatever     *)
(* calls are lost, its job manager has exited or has been told to.  Three   *)
(* ways to get there are excluded: a start whose answer was lost, a block   *)
(* closed while the job starts, when StartJob has no process id yet, and a  *)
(* SIGTERM that cannot be sent, which RemoteTerminateJobManagerCommand only *)
(* logs.                                                                    *)
DoneMeansEnded ==
  job.status = "done" /\ job.reason # "startuperror" /\ ~early /\ ~unkilled => session.manager \in {"dying", "gone"}

(* While its block is open, a job is terminated only when its command has   *)
(* exited and the end of its output was read.                               *)
OutputBeforeEnd ==
  block = "open" /\ job.reason = "terminated" => job.exited /\ session.acked

ConnLasts == <>[](conn = "up")

(* Once a connection lasts, a job whose command has exited is not recorded  *)
(* as running for ever: the exit is learned, by the notification or by a    *)
(* reconnect, and the end of the output too.  That is not so after a call   *)
(* that failed and nobody repeats, an automatic attempt that the cooldown   *)
(* dropped, or a route reported to be there after it was reported gone,     *)
(* which keeps doReconnectJob from doing anything.                          *)
JobEnds ==
  ConnLasts => []<>(Running /\ session.cmd = "exited" => missed)

(* Once a connection lasts, a job that runs has a session that is           *)
(* reconnected and output that flows, again and again.  The exceptions are  *)
(* those of JobEnds and any other event that came late: a route reported    *)
(* gone after it was reported to be back makes an attempt that may join the *)
(* reconnect of the route that is back, and leaves the job disconnected.    *)
Reattached ==
  ConnLasts => []<>(Running => missed \/ late \/ (connected /\ stream # "cut"))

(* Once a connection lasts, the session of a block that was closed ends, if *)
(* need be by the next reconnect; but not after what JobEnds excludes, nor  *)
(* what DoneMeansEnded does.                                                *)
ClosedIsCleanedUp ==
  ConnLasts => []<>(block # "open" /\ job.status \in {"running", "done"} /\ job.reason # "startuperror"
                      => missed \/ early \/ unkilled \/ session.manager = "gone")

(* Not so: with nothing on its way, a job that is connected has a route.    *)
StatusIsTrue ==
  pending = << << >>, << >> >> /\ conn = "up" /\ connected => route
=============================================================================
