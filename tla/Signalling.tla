------------------------------ MODULE Signalling ------------------------------
(***************************************************************************)
(* Offers, answers and candidates between the page                         *)
(* (web/stream/transport/webrtc.ts) and the streamer                       *)
(* (streamer/src/transport/webrtc), over one ordered connection each way.  *)
(*                                                                         *)
(* The page makes the first offer, which the streamer does not accept: it  *)
(* makes its own one, and one more for every track it adds, and the page   *)
(* withdraws its offer for it.  Messages are handled without waiting for   *)
(* the one before, so two offers in a row queue their operations on the    *)
(* peer of the page: both are set before either is answered, and the       *)
(* second call that was meant to answer makes an offer instead.            *)
(*                                                                         *)
(* What a peer does with a description is the WebRTC standard's: a queue   *)
(* of operations, and an offer that is withdrawn for one that comes in.    *)
(* Left out: the contents of descriptions but for the tracks in them.      *)
(***************************************************************************)
EXTENDS Integers, Sequences

CONSTANTS Tracks,        \* what the streamer adds once the stream starts
          MaxCandidates  \* bound: candidates a side finds for one description

VARIABLES
    \* The page.
    chain,       \* operations queued on the RTCPeerConnection
    signaling,   \* signalingState of the page
    heard,       \* the offer of the streamer in remoteDescription, or 0
    gathering,   \* what the page finds candidates for: "none", "offer" or "answer"
    found,       \* how many it has found for it
    \* The streamer.
    added,       \* the tracks of the peer
    offers,      \* the offers made: the tracks in each
    unanswered,  \* the signaling state is have-local-offer
    described,   \* a remote description is set
    making,      \* making[w]: the offer that is set and not sent yet, or 0
    searched,    \* how many candidates the streamer has found
    \* The connection.
    toPage, toStreamer,
    refused      \* candidates that came before the description they need

pageVars == <<chain, signaling, heard, gathering, found>>
streamerVars == <<added, offers, unanswered, described, making, searched>>
vars == <<pageVars, streamerVars, toPage, toStreamer, refused>>

Makers == {"reply", "setup"}
Offer(n) == [kind |-> "offer", of |-> n]
Answer(n) == [kind |-> "answer", of |-> n]
Candidate(n) == [kind |-> "candidate", of |-> n]
Operation(op, n) == [op |-> op, of |-> n]
Operations == [op : {"setRemote", "setLocal", "add"}, of : Nat]
Messages == [kind : {"offer", "answer", "candidate"}, of : Nat]

TypeOK ==
    /\ chain \in Seq(Operations)
    /\ signaling \in {"stable", "have-local-offer", "have-remote-offer"}
    /\ heard \in 0..Len(offers)
    /\ gathering \in {"none", "offer", "answer"} /\ found \in 0..MaxCandidates
    /\ added \subseteq Tracks /\ offers \in Seq(SUBSET Tracks)
    /\ unanswered \in BOOLEAN /\ described \in BOOLEAN
    /\ making \in [Makers -> 0..Len(offers)]
    /\ searched \in 0..MaxCandidates
    /\ toPage \in Seq(Messages) /\ toStreamer \in Seq(Messages)
    /\ refused \subseteq {"page", "streamer"}

\* initPeer has called onNegotiationNeeded.
Init ==
    /\ chain = <<Operation("setLocal", 0)>> /\ signaling = "stable" /\ heard = 0
    /\ gathering = "none" /\ found = 0
    /\ added = {} /\ offers = <<>> /\ unanswered = FALSE /\ described = FALSE
    /\ making = [w \in Makers |-> 0] /\ searched = 0
    /\ toPage = <<>> /\ toStreamer = <<>> /\ refused = {}

-----------------------------------------------------------------------------
(* The page *)

\* onReceiveMessage: a description or a candidate starts an operation.
PageReceives ==
    /\ toPage # <<>>
    /\ toPage' = Tail(toPage)
    /\ chain' = Append(chain, Operation(IF Head(toPage).kind = "offer" THEN "setRemote" ELSE "add",
                                        Head(toPage).of))
    /\ UNCHANGED <<signaling, heard, gathering, found, streamerVars, toStreamer, refused>>

Runs(op) == chain # <<>> /\ Head(chain).op = op

\* handleRemoteDescription after setRemoteDescription, for which an own offer is withdrawn:
\* the answer is asked for.
SetRemote ==
    /\ Runs("setRemote")
    /\ signaling' = "have-remote-offer"
    /\ heard' = Head(chain).of
    /\ chain' = Append(Tail(chain), Operation("setLocal", 0))
    /\ gathering' = IF signaling = "have-local-offer" /\ gathering = "offer" THEN "none"
                                                                             ELSE gathering
    /\ UNCHANGED <<found, streamerVars, toPage, toStreamer, refused>>

\* setLocalDescription without a description answers the offer that was set, or makes an
\* offer when there is none; what came of it is sent.
SetLocal ==
    /\ Runs("setLocal")
    /\ chain' = Tail(chain)
    /\ IF signaling = "have-remote-offer"
       THEN /\ toStreamer' = Append(toStreamer, Answer(heard))
            /\ signaling' = "stable"
            /\ gathering' = "answer"
       ELSE /\ toStreamer' = Append(toStreamer, Offer(0))
            /\ signaling' = "have-local-offer"
            /\ gathering' = IF gathering = "none" THEN "offer" ELSE gathering
    /\ found' = IF gathering' = gathering THEN found ELSE 0
    /\ UNCHANGED <<heard, streamerVars, toPage, refused>>

\* addIceCandidate is refused without a remote description.
AddCandidate ==
    /\ Runs("add")
    /\ chain' = Tail(chain)
    /\ refused' = IF heard = 0 THEN refused \cup {"page"} ELSE refused
    /\ UNCHANGED <<signaling, heard, gathering, found, streamerVars, toPage, toStreamer>>

\* onIceCandidate; the candidates found for an own offer count for nothing once it is
\* withdrawn.
PageCandidate ==
    /\ gathering # "none" /\ found < MaxCandidates
    /\ found' = found + 1
    /\ toStreamer' = Append(toStreamer, Candidate(IF gathering = "answer" THEN 1 ELSE 0))
    /\ UNCHANGED <<chain, signaling, heard, gathering, streamerVars, toPage, refused>>

-----------------------------------------------------------------------------
(* The streamer *)

\* send_offer up to set_local_description, for the tracks there are by then.
MakeOffer(w, tracks) ==
    /\ added' = tracks
    /\ offers' = Append(offers, tracks)
    /\ unanswered' = TRUE
    /\ making' = [making EXCEPT ![w] = Len(offers) + 1]

\* The rest of send_offer.
SendOffer(w) ==
    /\ making[w] # 0
    /\ toPage' = Append(toPage, Offer(making[w]))
    /\ making' = [making EXCEPT ![w] = 0]
    /\ UNCHANGED <<pageVars, added, offers, unanswered, described, searched, toStreamer, refused>>

\* on_ice_candidate runs beside send_offer: a candidate may overtake the offer.
StreamerCandidate ==
    /\ offers # <<>> /\ searched < MaxCandidates
    /\ searched' = searched + 1
    /\ toPage' = Append(toPage, Candidate(1))
    /\ UNCHANGED <<pageVars, added, offers, unanswered, described, making, toStreamer, refused>>

StreamerMessage(kind) ==
    /\ making["reply"] = 0
    /\ toStreamer # <<>> /\ Head(toStreamer).kind = kind
    /\ toStreamer' = Tail(toStreamer)

\* An offer is answered by an offer.
OnOffer ==
    /\ StreamerMessage("offer")
    /\ MakeOffer("reply", added)
    /\ UNCHANGED <<pageVars, described, searched, toPage, refused>>

\* An answer is taken for the offer made last, whichever it answers; without an offer that
\* waits for one it is refused, and logged.
OnAnswer ==
    /\ StreamerMessage("answer")
    /\ unanswered' = FALSE
    /\ described' = (described \/ unanswered)
    /\ UNCHANGED <<pageVars, added, offers, making, searched, toPage, refused>>

\* A candidate without a remote description is refused, and logged.
OnCandidate ==
    /\ StreamerMessage("candidate")
    /\ refused' = IF ~described /\ Head(toStreamer).of = 1 THEN refused \cup {"streamer"}
                                                           ELSE refused
    /\ UNCHANGED <<pageVars, streamerVars, toPage>>

\* Faulty: a track that is added is not negotiated.
SetUpQuietly(t) ==
    /\ described /\ making["setup"] = 0
    /\ t \notin added
    /\ added' = added \cup {t}
    /\ UNCHANGED <<pageVars, offers, unanswered, described, making, searched, toPage,
                   toStreamer, refused>>

\* The audio and the video of a stream that starts, one after the other.
SetUp(t) ==
    /\ described /\ making["setup"] = 0
    /\ t \notin added
    /\ MakeOffer("setup", added \cup {t})
    /\ UNCHANGED <<pageVars, described, searched, toPage, toStreamer, refused>>

Next ==
    \/ PageReceives \/ SetRemote \/ SetLocal \/ AddCandidate \/ PageCandidate
    \/ StreamerCandidate \/ OnOffer \/ OnAnswer \/ OnCandidate
    \/ \E w \in Makers : SendOffer(w)
    \/ \E t \in Tracks : SetUp(t)

Spec == Init /\ [][Next]_vars

-----------------------------------------------------------------------------
(* Properties *)

Quiet == chain = <<>> /\ toPage = <<>> /\ toStreamer = <<>> /\ \A w \in Makers : making[w] = 0

\* However the offers of the two sides cross, once nothing is on its way both sides are
\* settled, and what the page has heard last names every track of the streamer.
SettledIsComplete ==
    Quiet => /\ signaling = "stable" /\ ~unanswered
             /\ heard # 0 /\ offers[heard] = added

\* The candidates the page finds for its answer come after the description they belong to:
\* the streamer takes every one of them.
AnsweredCandidatesCount == "streamer" \notin refused
=============================================================================
