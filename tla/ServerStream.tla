---------------------------- MODULE ServerStream ----------------------------
(***************************************************************************)
(* One request to /host/stream (api/stream.rs): the web server sits        *)
(* between the browser's Web Socket and the streamer process it launches,  *)
(* whose stdin and stdout carry the messages (common/src/ipc.rs).          *)
(*                                                                         *)
(* One task reads the Web Socket, configures and launches the streamer and *)
(* then forwards what the browser says; a second one forwards what the     *)
(* streamer says, and cleans up when there is nothing more to forward.     *)
(* Each direction is a channel, the task that writes it and an operating   *)
(* system pipe, here one bounded queue.  Messages are numbered; their kind *)
(* is what the tasks decide upon.  Of the streamer only the loop that      *)
(* waits for Init and the way it ends are modelled, see StreamerSession    *)
(* for the rest.                                                           *)
(***************************************************************************)
EXTENDS Naturals, Sequences

CONSTANTS Capacity,   \* messages that fit between the server and the streamer
          MaxClient,  \* bound: messages of the browser
          MaxStreamer \* bound: messages of the streamer

ASSUME ServerStreamAssumption ==
    /\ Capacity \in Nat \ {0}
    /\ MaxClient \in Nat \ {0}
    /\ MaxStreamer \in Nat \ {0}

VARIABLES
    ws,         \* the Web Socket is open
    fromClient, \* messages of the browser on their way to the server
    said,       \* number of messages the browser sent
    seen,       \* number of the last message of the streamer the browser got
    reader,     \* the task that reads the Web Socket
    toStreamer, \* on their way to the streamer
    streamer,   \* the streamer process
    transport,  \* what would tell the streamer that the browser has left
    heard,      \* number of the last message the streamer took
    ignored,    \* number of messages it took before it had an Init
    toServer,   \* messages of the streamer on their way to the server
    spoken,     \* number of messages the streamer sent
    writer      \* the task that writes the Web Socket

client == <<fromClient, said>>
process == <<streamer, transport, heard, ignored>>
serverVars == <<ws, client, seen, reader, toStreamer, process, toServer, spoken, writer>>

ClientKinds == {"init", "text", "binary", "bad"}
ClientMessages == [kind : ClientKinds, n : 1..MaxClient]
StreamerMessages == [kind : {"text", "binary", "stop"}, n : 1..MaxStreamer + 1]

ServerTypeOK ==
    /\ ws \in BOOLEAN
    /\ fromClient \in Seq(ClientMessages)
    /\ said \in 0..MaxClient
    /\ seen \in 0..MaxStreamer
    /\ reader \in {"init", "setup", "launch", "configure", "forward", "ended"}
    /\ toStreamer \in Seq(ClientMessages)
    /\ streamer \in {"none", "waiting", "running", "stopping", "gone"}
    /\ transport \in {"none", "peer", "frames"}
    /\ heard \in 0..MaxClient
    /\ ignored \in 0..MaxClient
    /\ toServer \in Seq(StreamerMessages)
    /\ spoken \in 0..MaxStreamer + 1
    /\ writer \in {"none", "forward", "close", "kill", "ended"}

ServerInit ==
    /\ ws = TRUE
    /\ fromClient = <<>> /\ said = 0 /\ seen = 0
    /\ reader = "init"
    /\ toStreamer = <<>>
    /\ streamer = "none" /\ transport = "none" /\ heard = 0 /\ ignored = 0
    /\ toServer = <<>> /\ spoken = 0
    /\ writer = "none"

-------------------------------------------------------------------------------
(* The browser *)

ClientSends(kind) ==
    /\ ws
    /\ said < MaxClient
    /\ said' = said + 1
    /\ fromClient' = Append(fromClient, [kind |-> kind, n |-> said + 1])
    /\ UNCHANGED <<ws, seen, reader, toStreamer, process, toServer, spoken, writer>>

\* The page is closed or the connection is lost.
ClientLeaves ==
    /\ ws
    /\ ws' = FALSE
    /\ UNCHANGED <<client, seen, reader, toStreamer, process, toServer, spoken, writer>>

-------------------------------------------------------------------------------
(* start_host, the task that reads the Web Socket *)

\* A return before the second task exists drops the session, which closes it.
GiveUp ==
    /\ reader' = "ended"
    /\ ws' = FALSE
    /\ UNCHANGED <<said, seen, toStreamer, process, toServer, spoken, writer>>

\* The first message has to be Init.
ReadInit ==
    /\ reader = "init"
    /\ fromClient # <<>>
    /\ fromClient' = Tail(fromClient)
    /\ IF Head(fromClient).kind = "init"
       THEN /\ reader' = "setup"
            /\ UNCHANGED <<ws, said, seen, toStreamer, process, toServer, spoken, writer>>
       ELSE GiveUp

ReadNothing ==
    /\ reader = "init"
    /\ fromClient = <<>> /\ ~ws
    /\ GiveUp
    /\ UNCHANGED fromClient

\* The host, the app, its address and the pairing are looked up one after the
\* other; the first that is missing ends the request.
SetUp ==
    /\ reader = "setup"
    /\ \/ /\ reader' = "launch"
          /\ UNCHANGED <<ws, said, seen, toStreamer, process, toServer, spoken, writer>>
       \/ GiveUp
    /\ UNCHANGED fromClient

\* Faulty: the streamer is told what it is for after the first message.
LaunchForwarding ==
    /\ reader = "launch"
    /\ \/ /\ reader' = "forward"
          /\ streamer' = "waiting"
          /\ writer' = "forward"
          /\ UNCHANGED <<ws, said, seen, toStreamer, transport, heard, ignored, toServer, spoken>>
       \/ GiveUp
    /\ UNCHANGED fromClient

\* The second task is spawned before Init has been sent.
Launch ==
    /\ reader = "launch"
    /\ \/ /\ reader' = "configure"
          /\ streamer' = "waiting"
          /\ writer' = "forward"
          /\ UNCHANGED <<ws, said, seen, toStreamer, transport, heard, ignored, toServer, spoken>>
       \/ GiveUp
    /\ UNCHANGED fromClient

\* IpcSender::send waits for room; the message of a closed channel is dropped.
SendIpc(message) ==
    \/ /\ streamer # "gone"
       /\ Len(toStreamer) < Capacity
       /\ toStreamer' = Append(toStreamer, message)
    \/ /\ streamer = "gone"
       /\ UNCHANGED toStreamer

\* The Init of the browser is the message that becomes the one of the streamer.
Configure ==
    /\ reader = "configure"
    /\ SendIpc([kind |-> "init", n |-> 1])
    /\ reader' = "forward"
    /\ UNCHANGED <<ws, client, seen, process, toServer, spoken, writer>>

\* A second Init of the browser is forwarded like any other message, wrapped up.
Forward ==
    /\ reader = "forward"
    /\ fromClient # <<>>
    /\ fromClient' = Tail(fromClient)
    /\ IF Head(fromClient).kind = "bad"
       THEN reader' = "ended" /\ UNCHANGED toStreamer
       ELSE SendIpc([Head(fromClient) EXCEPT !.kind = "text"]) /\ UNCHANGED reader
    /\ UNCHANGED <<ws, said, seen, process, toServer, spoken, writer>>

\* The loop ends with the Web Socket, and the ipc_sender is dropped.
ReaderEnds ==
    /\ reader = "forward"
    /\ fromClient = <<>> /\ ~ws
    /\ reader' = "ended"
    /\ UNCHANGED <<ws, client, seen, toStreamer, process, toServer, spoken, writer>>

-------------------------------------------------------------------------------
(* The task that writes the Web Socket *)

\* A text that comes too late is dropped; binary data ends the loop.
WriteWs ==
    /\ writer = "forward"
    /\ toServer # <<>>
    /\ toServer' = Tail(toServer)
    /\ IF ws /\ Head(toServer).kind # "stop"
       THEN seen' = Head(toServer).n /\ UNCHANGED writer
       ELSE /\ writer' = IF Head(toServer).kind = "text" THEN "forward" ELSE "close"
            /\ UNCHANGED seen
    /\ UNCHANGED <<ws, client, reader, toStreamer, process, spoken>>

\* Faulty: only Stop ends the loop.
WriterEofIgnored ==
    /\ writer = "forward"
    /\ toServer = <<>> /\ streamer = "gone"
    /\ UNCHANGED serverVars

\* recv returns None when the process is gone and the pipe has been read.
WriterEof ==
    /\ writer = "forward"
    /\ toServer = <<>> /\ streamer = "gone"
    /\ writer' = "close"
    /\ UNCHANGED <<ws, client, seen, reader, toStreamer, process, toServer, spoken>>

CloseWs ==
    /\ writer = "close"
    /\ ws' = FALSE
    /\ writer' = "kill"
    /\ UNCHANGED <<client, seen, reader, toStreamer, process, toServer, spoken>>

Kill ==
    /\ writer = "kill"
    /\ writer' = "ended"
    /\ streamer' = "gone"
    /\ toStreamer' = <<>>
    /\ UNCHANGED <<ws, client, seen, reader, transport, heard, ignored, toServer, spoken>>

-------------------------------------------------------------------------------
(* The streamer *)

\* The loop at the start of main passes over anything but an Init.
TakeInit ==
    /\ streamer = "waiting"
    /\ toStreamer # <<>>
    /\ toStreamer' = Tail(toStreamer)
    /\ IF Head(toStreamer).kind = "init"
       THEN streamer' = "running" /\ heard' = 1 /\ UNCHANGED ignored
       ELSE ignored' = ignored + 1 /\ UNCHANGED <<streamer, heard>>
    /\ UNCHANGED <<ws, client, seen, reader, transport, toServer, spoken, writer>>

\* A message may set up a transport, or start the Moonlight stream over one.
TakeMessage ==
    /\ streamer = "running"
    /\ toStreamer # <<>>
    /\ toStreamer' = Tail(toStreamer)
    /\ heard' = Head(toStreamer).n
    /\ transport' \in {transport, "peer", "frames"}
    /\ UNCHANGED <<ws, client, seen, reader, streamer, ignored, toServer, spoken, writer>>

Speak(kind) ==
    /\ Len(toServer) < Capacity
    /\ toServer' = Append(toServer, [kind |-> kind, n |-> spoken + 1])
    /\ spoken' = spoken + 1
    /\ UNCHANGED <<ws, client, seen, reader, toStreamer, transport, heard, ignored, writer>>

StreamerSpeaks ==
    /\ streamer \in {"waiting", "running"}
    /\ spoken < MaxStreamer
    /\ Speak("text")
    /\ UNCHANGED streamer

\* Frames of a running stream do not end, so their number is not bounded: the
\* ones beyond the bound are all the last one.
SendFrame ==
    /\ streamer = "running" /\ transport = "frames"
    /\ \/ spoken < MaxStreamer /\ Speak("binary")
       \/ /\ spoken = MaxStreamer
          /\ Len(toServer) < Capacity
          /\ toServer' = Append(toServer, [kind |-> "binary", n |-> spoken])
          /\ UNCHANGED <<ws, client, seen, reader, toStreamer, transport, heard, ignored,
                         spoken, writer>>
    /\ UNCHANGED streamer

\* Faulty: Stop overtakes what is still to be written.
SendStopFirst ==
    /\ streamer = "running"
    /\ spoken <= MaxStreamer
    /\ Len(toServer) < Capacity
    /\ toServer' = <<[kind |-> "stop", n |-> spoken + 1]>> \o toServer
    /\ spoken' = spoken + 1
    /\ UNCHANGED <<ws, client, seen, reader, toStreamer, transport, heard, ignored, writer>>
    /\ streamer' = "stopping"

\* StreamConnection::stop sends Stop, waits a little and lets main exit.
SendStop ==
    /\ streamer = "running"
    /\ spoken <= MaxStreamer
    /\ Speak("stop")
    /\ streamer' = "stopping"

\* What has not been written when the process exits is lost.
Exit ==
    /\ streamer' = "gone"
    /\ toStreamer' = <<>>
    /\ \E k \in 0..Len(toServer) : toServer' = SubSeq(toServer, 1, k)
    /\ UNCHANGED <<ws, client, seen, reader, transport, heard, ignored, spoken, writer>>

StopExits == streamer = "stopping" /\ Exit

\* A panic exits as well.
Panic == streamer \in {"waiting", "running"} /\ Exit

-------------------------------------------------------------------------------
Reader ==
    \/ ReadInit \/ ReadNothing \/ SetUp \/ Launch \/ Configure \/ Forward \/ ReaderEnds

Writer == WriteWs \/ WriterEof \/ CloseWs \/ Kill

ServerNext ==
    \/ (\E kind \in ClientKinds : ClientSends(kind)) \/ ClientLeaves
    \/ Reader \/ Writer
    \/ TakeInit \/ TakeMessage
    \/ StreamerSpeaks \/ SendFrame \/ SendStop \/ StopExits \/ Panic

ServerSpec == ServerInit /\ [][ServerNext]_serverVars

\* The runtimes poll the tasks, the browser reads its Web Socket and the
\* streamer its stdin, a running stream has frames, a streamer whose peer is lost
\* stops (LostPeerEndsSession in StreamerSession), and one that stops exits.
ServerFairness ==
    /\ WF_serverVars(Reader) /\ WF_serverVars(Writer)
    /\ WF_serverVars(TakeInit \/ TakeMessage)
    /\ SF_serverVars(SendFrame)
    /\ WF_serverVars(transport = "peer" /\ ~ws /\ SendStop)
    /\ WF_serverVars(StopExits)

ServerFairSpec == ServerSpec /\ ServerFairness

-------------------------------------------------------------------------------
(* Properties *)

\* The streamer's first message is the Init, although both tasks and the process
\* are at work before it is sent: nothing the browser says falls victim to the
\* loop that waits for it.
NothingIgnored == ignored = 0

\* What the browser says after Init reaches the streamer in order and without a
\* gap, and is not forwarded before the streamer has been configured.
ClientOrder ==
    /\ \A i \in 1..Len(toStreamer) : toStreamer[i].n = heard + i
    /\ reader = "forward" /\ streamer # "gone" =>
        \A i \in 1..Len(fromClient) : fromClient[i].n = heard + Len(toStreamer) + i

\* What the browser says is heard from the first moment, whole and in order: the
\* two parts above together.
ClientIsHeard == NothingIgnored /\ ClientOrder

\* What the streamer says reaches the browser in order; nothing is left out
\* before the socket is closed, so whatever went before Stop has been seen.
StreamerOrder ==
    /\ ws /\ writer = "forward" /\ toServer # <<>> => Head(toServer).n \in {seen, seen + 1}
    /\ ws /\ writer = "close" /\ streamer = "stopping" => seen = spoken - 1

\* Nothing is left behind by a streamer that is gone, also when it went before it
\* was configured: the Web Socket is closed, as the comment in start_host says, and
\* both tasks end, even if the reader was waiting for room in the pipe.
TasksEnd == streamer = "gone" ~> ~ws /\ reader = "ended" /\ writer = "ended"

\* A browser that leaves a running stream does not leave its process behind.
LeaverFreesStreamer == ~ws /\ transport # "none" ~> streamer = "gone"

\* Whichever side goes first, the other side is released: the two above together.
RequestEnds == TasksEnd /\ LeaverFreesStreamer
===============================================================================
