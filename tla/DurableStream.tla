---------------------------- MODULE DurableStream ----------------------------
(***************************************************************************)
(* A durable session's output from the remote PTY to the main server's     *)
(* file: the job manager (StreamManager, and the connect protocol of       *)
(* pkg/jobmanager/jobmanager.go), the main server's reader of each stream  *)
(* (StreamReader), its output loops and its restartStreaming (pkg/         *)
(* jobcontroller/jobcontroller.go), over a connection that drops, with a   *)
(* main server that crashes.                                               *)
(*                                                                         *)
(* A reconnect makes one attempt to restart the streaming, with a new      *)
(* stream id (doReconnectJob skips a job that is connected), so stream and *)
(* connection share a number.  The brokers' queues are left to StreamPipe: *)
(* here an ack goes straight to the network.                               *)
(***************************************************************************)
EXTENDS StreamReader, FiniteSets

CONSTANTS
  MaxSize, MaxWrite, MaxTotal, CwndSize, MaxStreams,  \* see StreamManager
  MaxCrashes,    \* bound on the main server's crashes
  RestartsFinish, \* TRUE: a connection lasts until restartStreaming is over
  OldLoop        \* what the output loop of the old connection is assumed to do
                 \* while the streaming is restarted

ASSUME DurableAssumption ==
  /\ MaxSize \in Nat \ {0}
  /\ MaxWrite \in 1 .. MaxSize
  /\ MaxTotal \in Nat
  /\ CwndSize \in 1 .. MaxSize
  /\ MaxStreams \in Nat \ {0}
  /\ MaxCrashes \in Nat
  /\ RestartsFinish \in BOOLEAN
  /\ OldLoop \in {"settles",  \* it has appended all that was delivered before the Stat
                  "pauses",   \* it appends nothing between the Stat of the file and
                              \* the Set of jobStreamIds
                  "races"}    \* whatever the code allows

VARIABLES
  head, total, syncMode, windowSize, writer,
  sm, pty, sender, lockHeld,         \* the job manager's StreamManager
  jm,          \* JobManager: the connected and the pending stream (0: none), and
               \* the PrepareConnect it is handling
  attached,    \* streams attached as writers to a broker of the job manager
  up,          \* the connection is up
  conn,        \* its number, and that of the stream restarted over it
  dataNet, ackNet,
  rpc,         \* the RPC restartStreaming waits for, and then its answer
  restart,     \* where restartStreaming is, and its currentSeq
  current,     \* jobStreamIds: the stream whose output loop may append
  readers,     \* stream -> its Reader
  known,       \* streams in the readers map of the main server's broker
  loops,       \* stream -> its output loop, with the bytes it has in hand
  file, totalGap, streamDone,        \* the job's output file and its metadata
  crashes,
  flushed,     \* the file's length and gap as they were last written to disk
  dropped,     \* history: bytes the job manager let go of unacknowledged
  discarded    \* history: bytes the main server acknowledged and threw away or lost

smVars == <<head, total, syncMode, windowSize, writer, sm, pty, sender, lockHeld>>
jmVars == <<jm, attached>>
netVars == <<up, conn, dataNet, ackNet>>
loopVars == <<current, readers, known, loops>>
fileVars == <<file, totalGap, streamDone>>
crashVars == <<crashes, flushed>>

history == <<dropped, discarded>>

vars == <<smVars, jmVars, netVars, rpc, restart, loopVars, fileVars, crashVars, history>>

SM == INSTANCE StreamManager WITH MaxRwnd <- ReadWindow

Streams == 1 .. MaxStreams

NoReader == [closed |-> TRUE]

NoLoop == [at |-> "none", hand |-> << >>]

Idle == [at |-> "idle", seq |-> 0]

NoRpc == [at |-> "none", seq |-> 0]

\* StartJob has connected stream 1, before the PTY is read.
Init ==
  /\ head = 0
  /\ total = 0
  /\ syncMode = TRUE
  /\ windowSize = SM!EffectiveWindow(ReadWindow)
  /\ writer = "running"
  /\ sm = [streamId |-> 1, connected |-> TRUE, eofPos |-> -1, terminalEvent |-> "none",
           rwndSize |-> ReadWindow, sentNotAcked |-> 0, maxAckedSeq |-> 0,
           maxAckedRwnd |-> 0, terminalEventSent |-> FALSE, terminalEventAcked |-> FALSE]
  /\ pty = [at |-> "reading", left |-> 0]
  /\ sender = [at |-> "running", pk |-> SM!NoPacket]
  /\ lockHeld = SM!Free
  /\ jm = [client |-> 1, pending |-> 0, step |-> "idle", id |-> 1, seq |-> 0]
  /\ attached = {1}
  /\ up = TRUE
  /\ conn = 1
  /\ dataNet = {}
  /\ ackNet = {}
  /\ rpc = NoRpc
  /\ restart = Idle
  /\ current = 1
  /\ readers = [id \in Streams |-> IF id = 1 THEN NewReaderWithSeq(1, 0) ELSE NoReader]
  /\ known = {1}
  /\ loops = [id \in Streams |-> IF id = 1 THEN [NoLoop EXCEPT !.at = "reading"] ELSE NoLoop]
  /\ file = << >>
  /\ totalGap = 0
  /\ streamDone = "no"
  /\ crashes = 0
  /\ flushed = [size |-> 0, gap |-> 0]
  /\ dropped = {}
  /\ discarded = {}

-----------------------------------------------------------------------------
(* The job manager.                                                        *)

\* The bytes from position seq on that the buffer lets go of in this step.
Drops(seq) == dropped' = dropped \cup (SM!Buf!Larger(head, seq) .. head' - 1)

elsewhere == <<jmVars, netVars, rpc, restart, loopVars, fileVars, crashVars, discarded>>

\* The application under the PTY writes, or exits.
ApplicationRuns ==
  /\ \/ \E n \in 1 .. MaxWrite : SM!ReadPty(n)
     \/ \E event \in {"eof", "error"} : SM!HandleTerminalEvent(event)
  /\ UNCHANGED <<elsewhere, dropped>>

ReadLoopRuns ==
  /\ \/ SM!WritePty /\ Drops(head)
     \/ SM!SignalWritten /\ UNCHANGED dropped
  /\ UNCHANGED elsewhere

SenderRuns ==
  /\ SM!PrepareNextPacket
  /\ UNCHANGED <<elsewhere, dropped>>

RecvAckEnds ==
  /\ SM!RecvAckResize
  /\ UNCHANGED <<elsewhere, dropped>>

\* A packet for a connection that is gone is lost.
SendPacket ==
  /\ SM!SendPacket
  /\ dataNet' = IF up /\ sender.pk.id = conn THEN dataNet \cup {sender.pk} ELSE dataNet
  /\ UNCHANGED <<jmVars, up, conn, ackNet, rpc, restart, loopVars, fileVars, crashVars,
                 history>>

\* processRecvAck of the job manager's brokers.
RecvAck(ack) ==
  /\ ackNet' = ackNet \ {ack}
  /\ IF ack.id \in attached THEN SM!RecvAck(ack) ELSE UNCHANGED smVars
  /\ attached' = IF ack.fin \/ ack.cancel THEN attached \ {ack.id} ELSE attached
  /\ UNCHANGED <<jm, up, conn, dataNet, rpc, restart, loopVars, fileVars, crashVars,
                 history>>

\* What the handler answers goes to the connection that asked, if it is still there.
Answer(at, seq) ==
  rpc' = IF rpc.at = "prepare" /\ jm.id = conn THEN [at |-> at, seq |-> seq] ELSE rpc

\* mutant of HandlePrepare: the stream counts as done once its end is known
HandlePrepare_WhenKnown ==
  /\ up /\ rpc.at = "prepare" /\ jm.step = "idle" /\ lockHeld = SM!Free
  /\ IF sm.terminalEvent /= "none"
       THEN rpc' = [rpc EXCEPT !.at = "streamDone"] /\ UNCHANGED jm
       ELSE jm' = [jm EXCEPT !.step = "disconnect", !.id = conn, !.seq = rpc.seq]
            /\ UNCHANGED rpc
  /\ UNCHANGED <<smVars, attached, netVars, restart, loopVars, fileVars, crashVars, history>>

\* PrepareConnect, under jm.lock.
HandlePrepare ==
  /\ up /\ rpc.at = "prepare" /\ jm.step = "idle" /\ lockHeld = SM!Free
  /\ IF sm.terminalEventAcked
       THEN rpc' = [rpc EXCEPT !.at = "streamDone"] /\ UNCHANGED jm
       ELSE jm' = [jm EXCEPT !.step = "disconnect", !.id = conn, !.seq = rpc.seq]
            /\ UNCHANGED rpc
  /\ UNCHANGED <<smVars, attached, netVars, restart, loopVars, fileVars, crashVars, history>>

\* connectToStreamHelper: the old stream's writer stays attached, in the broker
\* of the old connection.
DisconnectOld ==
  /\ jm.step = "disconnect"
  /\ IF jm.client /= 0
       THEN SM!ClientDisconnected /\ Drops(head)
       ELSE UNCHANGED <<smVars, dropped>>
  /\ jm' = [jm EXCEPT !.step = "connect", !.client = 0]
  /\ UNCHANGED <<attached, netVars, rpc, restart, loopVars, fileVars, crashVars, discarded>>

\* mutant of ConnectNew: the connection is not corked
ConnectNew_Uncorked ==
  /\ jm.step = "connect"
  /\ SM!ConnectReadHead(jm.id, ReadWindow, jm.seq)
  /\ jm' = [jm EXCEPT !.step = "connecting"]
  /\ UNCHANGED <<attached, netVars, rpc, restart, loopVars, fileVars, crashVars, history>>

\* The corked connection: a window of 0 until StartStream.
ConnectNew ==
  /\ jm.step = "connect"
  /\ SM!ConnectReadHead(jm.id, 0, jm.seq)
  /\ jm' = [jm EXCEPT !.step = "connecting"]
  /\ UNCHANGED <<attached, netVars, rpc, restart, loopVars, fileVars, crashVars, history>>

\* The PTY may have overwritten bytes since the head was read; then more are
\* consumed than the client has.
ConnectConsume ==
  /\ SM!ConnectConsume \/ SM!ConnectReread
  /\ Drops(jm.seq)
  /\ UNCHANGED <<jmVars, netVars, rpc, restart, loopVars, fileVars, crashVars, discarded>>

ConnectFails ==
  /\ \/ jm.step = "connect" /\ lockHeld = SM!Free /\ ~SM!Connectable /\ UNCHANGED smVars
     \/ SM!ConnectRefused
  /\ Answer("refused", 0)
  /\ jm' = [jm EXCEPT !.step = "idle"]
  /\ UNCHANGED <<attached, netVars, restart, loopVars, fileVars, crashVars, history>>

Connected ==
  /\ SM!ConnectEnter
  /\ Answer("prepared", SM!StartSeq)
  /\ jm' = [jm EXCEPT !.step = "idle", !.client = jm.id, !.pending = jm.id]
  /\ UNCHANGED <<attached, netVars, restart, loopVars, fileVars, crashVars, history>>

\* StartStream: the writer is attached before the window is opened.
HandleStart ==
  /\ up /\ rpc.at = "start" /\ jm.step = "idle"
  /\ jm.pending /= 0
  /\ SM!SetRwndSize(ReadWindow)
  /\ attached' = attached \cup {jm.pending}
  /\ jm' = [jm EXCEPT !.pending = 0]
  /\ rpc' = [rpc EXCEPT !.at = "started"]
  /\ UNCHANGED <<netVars, restart, loopVars, fileVars, crashVars, history>>

-----------------------------------------------------------------------------
(* The main server: packets arriving at its broker, and the output loops.  *)

CancelFrom(r) == AckPacket(r, FALSE, TRUE)

CancelUnknown(pk) ==
  [id |-> pk.id, seq |-> pk.seq, rwnd |-> 0, fin |-> FALSE, cancel |-> TRUE]

RecvKnown(pk) ==
  /\ pk.id \in known
  /\ readers' = [readers EXCEPT ![pk.id] = RecvData(@, pk)]
  /\ IF AcksData(readers[pk.id], pk)
       THEN LET ack == DataAck(readers[pk.id], pk)
            IN  /\ ackNet' = ackNet \cup {ack}
                /\ known' = IF ack.fin THEN known \ {pk.id} ELSE known
       ELSE UNCHANGED <<ackNet, known>>

RecvUnknown(pk) ==
  /\ pk.id \notin known
  /\ ackNet' \in {ackNet, ackNet \cup {CancelUnknown(pk)}}
  /\ UNCHANGED <<readers, known>>

RecvPacket(pk) ==
  /\ dataNet' = dataNet \ {pk}
  /\ RecvKnown(pk) \/ RecvUnknown(pk)
  /\ UNCHANGED <<smVars, jmVars, up, conn, rpc, restart, current, loops, fileVars, crashVars,
                 history>>

Elements(s) == {s[i] : i \in 1 .. Len(s)}

\* What Read acknowledges, when it opens the window again.
ReadAcks(id) ==
  IF AcksRead(readers[id], MaxWrite)
    THEN {AckPacket(AfterTaking(readers[id], MaxWrite), FALSE, FALSE)}
    ELSE {}

\* reader.Close(), and what the broker does with the Cancel it sends.
CloseReader(id, readAcks) ==
  /\ readers' = [readers EXCEPT ![id] = NoReader]
  /\ ackNet' = ackNet \cup readAcks \cup {CancelFrom(Close(readers[id]))}
  /\ known' = known \ {id}
  /\ discarded' = discarded \cup Elements(readers[id].buffer)

\* Read returns bytes, and the loop finds that its stream is the current one.
LoopTakes(id) ==
  /\ loops[id].at = "reading"
  /\ current = id
  /\ ReadsBytes(readers[id])
  /\ OldLoop = "pauses" => restart.at /= "create"
  /\ loops' = [loops EXCEPT ![id] = [at |-> "appending", hand |-> Taken(readers[id], MaxWrite)]]
  /\ readers' = [readers EXCEPT ![id] = Read(@, MaxWrite)]
  /\ ackNet' = ackNet \cup ReadAcks(id)
  /\ UNCHANGED <<smVars, jmVars, up, conn, dataNet, rpc, restart, current, known, fileVars,
                 crashVars, history>>

LoopAppends(id) ==
  /\ loops[id].at = "appending"
  /\ file' = file \o loops[id].hand
  /\ loops' = [loops EXCEPT ![id] = [at |-> "reading", hand |-> << >>]]
  /\ UNCHANGED <<smVars, jmVars, netVars, rpc, restart, current, readers, known, totalGap,
                 streamDone, crashVars, history>>

\* What the loop has just read, and what it would read next, is thrown away.
LoopSuperseded(id) ==
  /\ loops[id].at = "reading"
  /\ current /= id
  /\ Readable(readers[id])
  /\ CloseReader(id, IF ReadsBytes(readers[id]) THEN ReadAcks(id) ELSE {})
  /\ loops' = [loops EXCEPT ![id] = NoLoop]
  /\ UNCHANGED <<smVars, jmVars, up, conn, dataNet, rpc, restart, current, fileVars, crashVars,
                 dropped>>

LoopEnds(id) ==
  /\ loops[id].at = "reading"
  /\ current = id
  /\ Readable(readers[id]) /\ ~ReadsBytes(readers[id])
  /\ CloseReader(id, {})
  /\ loops' = [loops EXCEPT ![id] = NoLoop]
  /\ streamDone' = IF readers[id].err = "none" THEN "eof" ELSE "error"
  /\ UNCHANGED <<smVars, jmVars, up, conn, dataNet, rpc, restart, current, file, totalGap,
                 crashVars, dropped>>

-----------------------------------------------------------------------------
(* restartStreaming.                                                       *)

\* mutant of Position: the file's size is left out
Position_GapOnly == totalGap

Position == Len(file) + totalGap

NoneAppending == \A id \in Streams : loops[id].at /= "appending"

Settled ==
  /\ dataNet = {}
  /\ NoneAppending
  /\ \A id \in Streams :
       loops[id].at = "reading" /\ current = id => ~Readable(readers[id])

Reconnect ==
  /\ ~up
  /\ restart = Idle
  /\ up' = TRUE
  /\ conn' = conn + 1
  /\ restart' = [Idle EXCEPT !.at = "stat"]
  /\ UNCHANGED <<smVars, jmVars, dataNet, ackNet, rpc, loopVars, fileVars, crashVars,
                 history>>

StatFile ==
  /\ restart.at = "stat"
  /\ OldLoop = "pauses" => NoneAppending
  /\ OldLoop = "settles" => Settled
  /\ restart' = [at |-> "create", seq |-> Position]
  /\ UNCHANGED <<smVars, jmVars, netVars, rpc, loopVars, fileVars, crashVars, history>>

\* mutant of CreateReader: jobStreamIds keeps the old stream
CreateReader_KeepsCurrent ==
  /\ restart.at = "create"
  /\ readers' = [readers EXCEPT ![conn] = NewReaderWithSeq(conn, restart.seq)]
  /\ known' = known \cup {conn}
  /\ rpc' = [at |-> IF up THEN "prepare" ELSE "failed", seq |-> restart.seq]
  /\ restart' = [restart EXCEPT !.at = "prepare"]
  /\ UNCHANGED <<smVars, jmVars, netVars, current, loops, fileVars, crashVars, history>>

CreateReader ==
  /\ restart.at = "create"
  /\ readers' = [readers EXCEPT ![conn] = NewReaderWithSeq(conn, restart.seq)]
  /\ known' = known \cup {conn}
  /\ current' = conn
  /\ rpc' = [at |-> IF up THEN "prepare" ELSE "failed", seq |-> restart.seq]
  /\ restart' = [restart EXCEPT !.at = "prepare"]
  /\ UNCHANGED <<smVars, jmVars, netVars, loops, fileVars, crashVars, history>>

\* An RPC failed or timed out, or the stream was already done.
RestartStops ==
  /\ restart.at \in {"prepare", "start"}
  /\ rpc.at \in {"failed", "refused", "streamDone"}
  /\ CloseReader(conn, {})
  /\ streamDone' = IF rpc.at = "streamDone" /\ streamDone = "no"
                     THEN sm.terminalEvent ELSE streamDone
  /\ rpc' = NoRpc
  /\ restart' = Idle
  /\ UNCHANGED <<smVars, jmVars, up, conn, dataNet, current, loops, file, totalGap, crashVars,
                 dropped>>

\* mutant of GapAfter: the gap is counted from the start of the output
GapAfter_FromStart(seq) == totalGap + seq

GapAfter(seq) == totalGap + (seq - restart.seq)

\* The job manager starts at rpc.seq; what lies before it is gone.
RestartContinues ==
  /\ restart.at = "prepare"
  /\ rpc.at = "prepared"
  /\ IF rpc.seq > restart.seq
       THEN /\ totalGap' = GapAfter(rpc.seq)
            /\ readers' = [readers EXCEPT ![conn] = UpdateNextSeq(@, rpc.seq)]
       ELSE UNCHANGED <<totalGap, readers>>
  /\ rpc' = [at |-> "start", seq |-> 0]
  /\ restart' = [restart EXCEPT !.at = "start"]
  /\ UNCHANGED <<smVars, jmVars, netVars, current, known, loops, file, streamDone, crashVars,
                 history>>

RestartDone ==
  /\ restart.at = "start"
  /\ rpc.at = "started"
  /\ loops' = [loops EXCEPT ![conn] = [NoLoop EXCEPT !.at = "reading"]]
  /\ rpc' = NoRpc
  /\ restart' = Idle
  /\ UNCHANGED <<smVars, jmVars, netVars, current, readers, known, fileVars, crashVars,
                 history>>

-----------------------------------------------------------------------------
(* The environment.  The last connection lasts.                            *)

\* Whatever is on its way may be lost.  The job manager does not notice: the
\* handler's deferred disconnectFromStreamHelper ran when the connection was made.
Drop ==
  /\ up
  /\ conn < MaxStreams
  /\ RestartsFinish => restart = Idle
  /\ up' = FALSE
  /\ \E lostData \in SUBSET dataNet, lostAcks \in SUBSET ackNet :
       dataNet' = dataNet \ lostData /\ ackNet' = ackNet \ lostAcks
  /\ rpc' = IF restart.at \in {"prepare", "start"} THEN [at |-> "failed", seq |-> 0] ELSE rpc
  /\ UNCHANGED <<smVars, jmVars, conn, restart, loopVars, fileVars, crashVars, history>>

\* The bytes the main server holds on their way to the file.
OnTheWay ==
  UNION {Elements(loops[id].hand) \cup
           (IF readers[id] = NoReader THEN {} ELSE Elements(readers[id].buffer)) :
         id \in Streams}

\* The file store's flusher: the file and its metadata are in one cache entry.
\* What is on disk matters only while a crash may come.
FlushCache ==
  /\ crashes < MaxCrashes /\ conn < MaxStreams
  /\ flushed' = [size |-> Len(file), gap |-> totalGap]
  /\ UNCHANGED <<smVars, jmVars, netVars, rpc, restart, loopVars, fileVars, crashes, history>>

\* The main server starts over with the file as it was last flushed; the job's
\* record, which has streamDone, is not cached.
Crash ==
  /\ crashes < MaxCrashes
  /\ conn < MaxStreams
  /\ crashes' = crashes + 1
  /\ up' = FALSE
  /\ dataNet' = {}
  /\ ackNet' \in SUBSET ackNet
  /\ rpc' = NoRpc
  /\ restart' = Idle
  /\ current' = 0
  /\ readers' = [id \in Streams |-> NoReader]
  /\ known' = {}
  /\ loops' = [id \in Streams |-> NoLoop]
  /\ file' = SubSeq(file, 1, flushed.size)
  /\ totalGap' = flushed.gap
  /\ discarded' = discarded \cup OnTheWay \cup (Elements(file) \ Elements(file'))
  /\ UNCHANGED <<smVars, jmVars, conn, streamDone, flushed, dropped>>

-----------------------------------------------------------------------------

Loop(id) == LoopTakes(id) \/ LoopAppends(id) \/ LoopSuperseded(id) \/ LoopEnds(id)

HandleConnect ==
  \/ HandlePrepare
  \/ DisconnectOld
  \/ ConnectNew
  \/ ConnectConsume
  \/ ConnectFails
  \/ Connected
  \/ HandleStart

RestartStreaming ==
  \/ StatFile
  \/ CreateReader
  \/ RestartStops
  \/ RestartContinues
  \/ RestartDone

Next ==
  \/ ApplicationRuns
  \/ ReadLoopRuns
  \/ SenderRuns
  \/ SendPacket
  \/ RecvAckEnds
  \/ \E ack \in ackNet : RecvAck(ack)
  \/ HandleConnect
  \/ \E pk \in dataNet : RecvPacket(pk)
  \/ \E id \in Streams : Loop(id)
  \/ Reconnect
  \/ RestartStreaming
  \/ Drop
  \/ FlushCache
  \/ Crash

Spec == Init /\ [][Next]_vars

(* Every goroutine that can run does, and what the network holds is          *)
(* delivered.  Nothing makes the application write or the user reconnect.    *)
Fairness ==
  /\ WF_vars(ReadLoopRuns)
  /\ WF_vars(SenderRuns)
  /\ WF_vars(SendPacket)
  /\ WF_vars(RecvAckEnds)
  /\ WF_vars(\E ack \in ackNet : RecvAck(ack))
  /\ WF_vars(HandleConnect)
  /\ WF_vars(\E pk \in dataNet : RecvPacket(pk))
  /\ \A id \in Streams : WF_vars(Loop(id))
  /\ WF_vars(RestartStreaming)

FairSpec == Spec /\ Fairness

ReconnectingSpec == FairSpec /\ WF_vars(Reconnect)

-----------------------------------------------------------------------------

Packets == [id : Streams, seq : Nat, data : Seq(Nat), eof : BOOLEAN, error : BOOLEAN]

Acks == [id : Streams, seq : Nat, rwnd : 0 .. ReadWindow, fin : BOOLEAN, cancel : BOOLEAN]

Readers ==
  [id : Streams, nextSeq : Nat, buffer : Seq(Nat), eof : BOOLEAN, err : {"none", "stream"},
   closed : {FALSE}, lastRwndSent : Nat, oooPackets : SUBSET Packets]

LinkTypes ==
  /\ jm \in [client : 0 .. MaxStreams, pending : 0 .. MaxStreams,
             step : {"idle", "disconnect", "connect", "connecting"},
             id : Streams, seq : Nat]
  /\ attached \subseteq Streams
  /\ up \in BOOLEAN
  /\ conn \in Streams
  /\ dataNet \subseteq Packets
  /\ ackNet \subseteq Acks
  /\ rpc \in [at : {"none", "prepare", "prepared", "refused", "streamDone", "start",
                    "started", "failed"}, seq : Nat]
  /\ restart \in [at : {"idle", "stat", "create", "prepare", "start"}, seq : Nat]

LoopTypes ==
  /\ current \in 0 .. MaxStreams
  /\ known \subseteq Streams
  /\ readers \in [Streams -> Readers \cup {NoReader}]
  /\ loops \in [Streams -> [at : {"none", "reading", "appending"}, hand : Seq(Nat)]]

FileTypes ==
  /\ file \in Seq(Nat)
  /\ totalGap \in Nat
  /\ flushed \in [size : 0 .. Len(file), gap : Nat]
  /\ streamDone \in {"no", "eof", "error"}
  /\ crashes \in 0 .. MaxCrashes
  /\ dropped \subseteq Nat
  /\ discarded \subseteq Nat

TypeOK == SM!TypeOK /\ LinkTypes /\ LoopTypes /\ FileTypes

(* The file is the output in order, each byte at most once, across           *)
(* reconnects that resend what was not acked.                                *)
FileInOrder == \A i \in 1 .. Len(file) - 1 : file[i] < file[i + 1]

(* The job manager lets go of a byte only once the main server has it: its   *)
(* buffer starts no later than the first byte that is neither in the file    *)
(* nor on its way there.                                                     *)
ReleasedOnlyWhenHeld ==
  0 .. head - 1 \subseteq Elements(file) \cup OnTheWay \cup dropped \cup discarded

\* Bytes acked by the reader of a superseded stream: its loop will throw them
\* away as soon as it runs.
Superseded ==
  UNION {IF readers[id] = NoReader THEN {} ELSE Elements(readers[id].buffer) :
         id \in Streams \ {current}}

Lost == dropped \cup discarded \cup Superseded

(* The position the main server resumes from accounts for every byte: what   *)
(* lies before it is in the file, or one of the two sides lost it, and was   *)
(* counted in the gap.                                                       *)
PositionIsExact == 0 .. Position - 1 \subseteq Elements(file) \cup Lost

(* The cork: no output of a stream travels before StartStream has attached   *)
(* its writer (its acks would be dropped) and the main server has moved its  *)
(* reader past the gap.                                                      *)
CorkHolds ==
  \A pk \in dataNet : pk.data /= << >> => pk.id /= jm.pending

(* What is sent to a reader and not yet taken by its output loop fits the    *)
(* window, across the window's restart with every stream.                    *)
FlowControl ==
  \A pk \in dataNet :
    pk.id \in known =>
      PacketEnd(pk) - (readers[pk.id].nextSeq - Len(readers[pk.id].buffer)) <= ReadWindow

(* When the main server records the clean end of the stream, nothing is      *)
(* missing that was still on its way: every byte behind its position was     *)
(* lost, to an overrun, to the loop of a superseded stream, or in a crash.   *)
(* No gap counts those bytes.  Where nothing was lost, the file and the gaps *)
(* are the whole output.                                                     *)
EofMeansComplete ==
  streamDone = "eof" => Position .. total - 1 \subseteq Lost

(* Output reaches the file once a connection lasts.                          *)
OutputArrives ==
  \A p \in 0 .. MaxTotal - 1 :
    total > p ~> p \in Elements(file) \cup dropped \cup discarded

(* The end of the stream is recorded, although its packet or the ack may be  *)
(* lost with a connection.                                                   *)
EndIsRecorded == sm.terminalEvent /= "none" ~> streamDone /= "no"

-----------------------------------------------------------------------------
(* What the documentation promises and the code does not keep.               *)

(* While the connection is down the application keeps running: a PTY write   *)
(* that found the connected window full is let go on, into the rest of the   *)
(* buffer.  (docs/docs/durable-sessions.mdx:32, "Buffers terminal output     *)
(* while disconnected".)                                                     *)
BuffersWhileDisconnected ==
  (writer = "waiting" /\ ~up) ~> (writer = "running" \/ up)

(* After a reconnect, whichever way the PTY's output ended, all of it is in  *)
(* the file.  (docs/docs/durable-sessions.mdx:19, "Full scrollback buffer    *)
(* preserved across reconnections".)                                         *)
EndHasWholeOutput ==
  conn > 1 /\ streamDone /= "no" => Position = total

=============================================================================
