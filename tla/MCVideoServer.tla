---------------------------- MODULE MCVideoServer ----------------------------
(***************************************************************************)
(* One track with a queue of two frames, which may hold one frame more and *)
(* two IDR frames, and runs longer than the queue; and a request whose     *)
(* pipes hold two messages, so that both tasks may have to wait.  The two  *)
(* share no state; `part` says which of them a behaviour is about, and the *)
(* other stays at its start.                                               *)
(***************************************************************************)
EXTENDS WebRtcVideo, ServerStream

VARIABLE part

allVars == <<part, videoVars, serverVars>>

BothInit == part \in {"video", "server"} /\ VideoInit /\ ServerInit

TrackNext == part = "video" /\ VideoNext /\ UNCHANGED <<part, serverVars>>

RequestNext == part = "server" /\ ServerNext /\ UNCHANGED <<part, videoVars>>

BothNext == TrackNext \/ RequestNext

\* SteadyFairness, when the behaviour is about the track.
TrackFairness ==
    /\ WF_videoVars(part = "video" /\ Decode)
    /\ SF_videoVars(part = "video" /\ ReportNeedIdr)
    /\ \A w \in Senders : WF_videoVars(part = "video" /\ SampleSender(w))
    /\ WF_videoVars(part = "video" /\ \E n \in 1..MaxRun : Submit(n))
    /\ SF_videoVars(part = "video" /\ requested /\ Submit(0))

\* ServerFairness, when the behaviour is about the request.
RequestFairness ==
    /\ WF_serverVars(part = "server" /\ Reader)
    /\ WF_serverVars(part = "server" /\ Writer)
    /\ WF_serverVars(part = "server" /\ (TakeInit \/ TakeMessage))
    /\ SF_serverVars(part = "server" /\ SendFrame)
    /\ WF_serverVars(part = "server" /\ transport = "peer" /\ ~ws /\ SendStop)
    /\ WF_serverVars(part = "server" /\ StopExits)

BothSpec ==
    BothInit /\ [][BothNext]_allVars /\ TrackFairness /\ RequestFairness

\* Every variable of the track and of the request keeps its type.
TypesOK == VideoTypeOK /\ ServerTypeOK
===============================================================================
