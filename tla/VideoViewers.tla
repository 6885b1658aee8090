---------------------------- MODULE VideoViewers ----------------------------
(***************************************************************************)
(* The viewers of preview streams: transport/sdk_ws_video_server.cpp with  *)
(* the stream bindings of application/video_session_service.cpp, composed  *)
(* with the sessions of Authorization, whose tokens open a stream.         *)
(*                                                                         *)
(* The command io thread binds and unbinds streams; a provider thread      *)
(* unbinds them when a device is removed and publishes frames; the video   *)
(* io thread validates, opens and closes viewers and runs what the others  *)
(* posted, in order; the rotation thread may restart the listener.         *)
(***************************************************************************)
EXTENDS Authorization, Sequences

CONSTANTS
  Viewers,     \* video connections
  MaxStreams,  \* bound on next_stream_id_, for model checking
  MaxPosted    \* bound on frames waiting on the video io thread, for model checking

Streams == 1..MaxStreams
ASSUME VideoAssumption ==
  /\ MaxStreams \in Nat /\ MaxPosted \in Nat
  /\ None \notin [conn : Conns, token : Tokens]

VARIABLES
  bindings,    \* streams_: connection and token of a bound stream
  nextStream,  \* next_stream_id_
  video,       \* the video request the command io thread is in
  removing,    \* the streams a device removal has unbound and not yet closed
  producing,   \* streams whose frames the provider publishes
  serving,     \* is there an impl_ ?
  viewer,      \* pending, active and connections: where each viewer is
  posted,      \* tasks of the video io thread
  told,        \* history: streams video.start answered with
  late         \* history: viewers whose stream was closed before they were opened

videoVars == <<bindings, nextStream, video, removing, producing, serving, viewer, posted,
               told, late>>
allVars == <<vars, videoVars>>

Away == [at |-> "away", stream |-> 0]
Resting == [op |-> "idle", conn |-> None, token |-> None, todo |-> {}]

VideoInit ==
  /\ Init
  /\ bindings = [s \in Streams |-> None]
  /\ nextStream = 1
  /\ video = Resting
  /\ removing = {}
  /\ producing = {}
  /\ serving = TRUE
  /\ viewer = [v \in Viewers |-> Away]
  /\ posted = <<>>
  /\ told = {}
  /\ late = {}

IoFree == call["io"] = Idle /\ video = Resting
StreamsOf(c) == {s \in Streams : bindings[s] # None /\ bindings[s].conn = c}
Unbound(S) == bindings' = [s \in Streams |-> IF s \in S THEN None ELSE bindings[s]]
Attached(s) == {v \in Viewers : viewer[v].stream = s /\ viewer[v].at \in {"active", "closing"}}

(* The command io thread.                                                  *)

\* The token is read here; the binding that keeps it is made in a later step.
VideoStart(c) ==
  /\ IoFree /\ c \in open /\ sessions[c] # None
  /\ video' = [Resting EXCEPT !.op = "register", !.conn = c, !.token = sessions[c].token]
  /\ UNCHANGED <<vars, bindings, nextStream, removing, producing, serving, viewer, posted,
                 told, late>>

RegisterStream ==
  /\ video.op = "register" /\ nextStream \in Streams
  /\ bindings' = [bindings EXCEPT ![nextStream] = [conn |-> video.conn, token |-> video.token]]
  /\ nextStream' = nextStream + 1
  /\ video' = [video EXCEPT !.op = "start", !.todo = {nextStream}]
  /\ UNCHANGED <<vars, removing, producing, serving, viewer, posted, told, late>>

\* A stream that cannot be started is unbound, and nobody else is told.
ProviderStarts ==
  /\ video.op = "start"
  /\ \/ /\ producing' = producing \cup video.todo
        /\ told' = told \cup video.todo
        /\ UNCHANGED bindings
     \/ /\ Unbound(video.todo)
        /\ UNCHANGED <<producing, told>>
  /\ video' = Resting
  /\ UNCHANGED <<vars, nextStream, removing, serving, viewer, posted, late>>

\* video.stop; auth.destroy_session and the close handler unbind what a connection has.
\* The close handler forgets the session first, destroy_session last.
VideoStop(c) ==
  /\ IoFree /\ c \in open /\ sessions[c] # None
  /\ \E s \in StreamsOf(c) :
       /\ producing' = producing \ {s}
       /\ Unbound({s})
       /\ video' = [Resting EXCEPT !.op = "stop", !.todo = {s}]
  /\ UNCHANGED <<vars, nextStream, removing, serving, viewer, posted, told, late>>

Destroy(c) ==
  /\ IoFree /\ c \in open
  /\ Unbound(StreamsOf(c))
  /\ video' = [Resting EXCEPT !.op = "destroy", !.conn = c, !.todo = StreamsOf(c)]
  /\ UNCHANGED <<vars, nextStream, removing, producing, serving, viewer, posted, told, late>>

Close(c) ==
  /\ IoFree /\ ClearConnection(c)
  /\ Unbound(StreamsOf(c))
  /\ video' = [Resting EXCEPT !.op = "stop", !.todo = StreamsOf(c)]
  /\ UNCHANGED <<nextStream, removing, producing, serving, viewer, posted, told, late>>

Cleared ==
  /\ video.op \in {"stop", "destroy"} /\ video.todo = {}
  /\ video' = Resting
  /\ IF video.op = "destroy" THEN DestroySession(video.conn) ELSE UNCHANGED vars
  /\ UNCHANGED <<bindings, nextStream, removing, producing, serving, viewer, posted, told, late>>

(* CloseStream: the viewers attached at this moment will be closed.        *)

\* Mutant: the viewers of a closed stream are left to go by themselves.
CloseStreamQuietly(s) ==
  /\ UNCHANGED posted
  /\ late' = late \cup {v \in Viewers : viewer[v] = [at |-> "pending", stream |-> s]}

CloseStream(s) ==
  /\ posted' = IF serving /\ Attached(s) # {}
               THEN Append(posted, [kind |-> "close", stream |-> s, targets |-> Attached(s)])
               ELSE posted
  /\ late' = late \cup {v \in Viewers : viewer[v] = [at |-> "pending", stream |-> s]}

\* The provider's stream is stopped before; when that fails it goes on.
StreamClosed(s) ==
  /\ video.op \in {"stop", "destroy"} /\ s \in video.todo
  /\ \/ producing' = producing \ {s}
     \/ UNCHANGED producing
  /\ CloseStream(s)
  /\ video' = [video EXCEPT !.todo = @ \ {s}]
  /\ UNCHANGED <<vars, bindings, nextStream, removing, serving, viewer, told>>

(* The provider: a removed device, frames.                                 *)

DeviceRemoved ==
  /\ removing = {}
  /\ \E s \in producing :
       /\ removing' = IF bindings[s] # None THEN {s} ELSE {}
       /\ producing' = producing \ {s}
       /\ Unbound({s})
  /\ UNCHANGED <<vars, nextStream, video, serving, viewer, posted, told, late>>

RemovedStreamClosed ==
  \E s \in removing :
    /\ CloseStream(s)
    /\ removing' = removing \ {s}
    /\ UNCHANGED <<vars, bindings, nextStream, video, producing, serving, viewer, told>>

PublishFrame(s) ==
  /\ serving /\ s \in producing /\ Attached(s) # {}
  /\ Len(posted) < MaxPosted
  /\ posted' = Append(posted, [kind |-> "frame", stream |-> s, targets |-> Attached(s)])
  /\ UNCHANGED <<vars, bindings, nextStream, video, removing, producing, serving, viewer,
                 told, late>>

(* The video io thread.                                                    *)

Validate(token, s) == bindings[s] # None /\ bindings[s].token = token

Connect(v) ==
  /\ serving /\ viewer[v] = Away
  /\ \E s \in Streams, token \in Tokens :
       /\ Validate(token, s)
       /\ viewer' = [viewer EXCEPT ![v] = [at |-> "pending", stream |-> s]]
  /\ UNCHANGED <<vars, bindings, nextStream, video, removing, producing, serving, posted,
                 told, late>>

Moves(v, from, to) ==
  /\ serving /\ viewer[v].at \in from
  /\ viewer' = [viewer EXCEPT ![v].at = to]
  /\ UNCHANGED <<vars, bindings, nextStream, video, removing, producing, serving, posted,
                 told, late>>

OpenViewer(v) == Moves(v, {"pending"}, "active")
CloseHandler(v) == Moves(v, {"closing"}, "left")
ViewerLeaves(v) == Moves(v, {"pending", "active"}, "left")

\* Mutant: a posted close looks for its stream again, which is no longer bound.
RunPostedIfBound ==
  /\ serving /\ posted # <<>>
  /\ posted' = Tail(posted)
  /\ viewer' = IF Head(posted).kind = "frame" THEN viewer
               ELSE [v \in Viewers |->
                      IF v \in Head(posted).targets /\ viewer[v].at = "active"
                           /\ bindings[viewer[v].stream] # None
                      THEN [viewer[v] EXCEPT !.at = "closing"] ELSE viewer[v]]
  /\ UNCHANGED <<vars, bindings, nextStream, video, removing, producing, serving, told, late>>

RunPosted ==
  /\ serving /\ posted # <<>>
  /\ posted' = Tail(posted)
  /\ viewer' = IF Head(posted).kind = "frame" THEN viewer
               ELSE [v \in Viewers |->
                      IF v \in Head(posted).targets /\ viewer[v].at = "active"
                      THEN [viewer[v] EXCEPT !.at = "closing"] ELSE viewer[v]]
  /\ UNCHANGED <<vars, bindings, nextStream, video, removing, producing, serving, told, late>>

(* ReloadTls: Stop drops every viewer and what was posted, Start begins anew. *)

StopListener ==
  /\ serving
  /\ serving' = FALSE
  /\ posted' = <<>>
  /\ viewer' = [v \in Viewers |-> IF viewer[v] = Away THEN Away
                                  ELSE [viewer[v] EXCEPT !.at = "left"]]
  /\ UNCHANGED <<vars, bindings, nextStream, video, removing, producing, told, late>>

StartListener ==
  /\ ~serving
  /\ serving' = TRUE
  /\ UNCHANGED <<vars, bindings, nextStream, video, removing, producing, viewer, posted,
                 told, late>>

\* What Authorization does, with the command io thread shared; ending a session is above.
SessionStep ==
  /\ \/ \E c \in Conns :
          \/ IoFree /\ (CreateSession(c) \/ RefreshSession(c))
          \/ IoFree /\ (ActivateOffline("io", c) \/ ConsumeQuota("io", c))
          \/ ActivateOffline("http", c)
          \/ ConsumeQuota("grab", c)
          \/ \E m \in Methods, need \in RequiredTiers : IoFree /\ UseFeature(c, m, need)
     \/ RequireFeatureEntitlement
     \/ BindFeature
     \/ \E th \in Threads : ThreadStep(th)
  /\ UNCHANGED videoVars

IoStep ==
  \/ RegisterStream
  \/ ProviderStarts
  \/ \E s \in Streams : StreamClosed(s)
  \/ Cleared

VideoNext ==
  \/ SessionStep
  \/ \E c \in Conns : VideoStart(c) \/ VideoStop(c) \/ Destroy(c) \/ Close(c)
  \/ IoStep
  \/ DeviceRemoved
  \/ RemovedStreamClosed
  \/ \E s \in Streams : PublishFrame(s)
  \/ \E v \in Viewers : Connect(v) \/ OpenViewer(v) \/ CloseHandler(v) \/ ViewerLeaves(v)
  \/ RunPosted
  \/ StopListener
  \/ StartListener

VideoSpec == VideoInit /\ [][VideoNext]_allVars

\* The video io thread runs what is posted to it and sees the end of a connection it closed.
Fairness ==
  /\ WF_allVars(RunPosted)
  /\ \A v \in Viewers : WF_allVars(CloseHandler(v))

FairVideoSpec == VideoSpec /\ Fairness

-----------------------------------------------------------------------------
(* Properties.                                                             *)

ClosePosted(v) ==
  \E i \in DOMAIN posted : posted[i].kind = "close" /\ v \in posted[i].targets
CloseDue(s) == s \in video.todo \/ s \in removing

\* A viewer stays with a stream that is no longer bound only while its close is on the way,
\* unless the stream was closed between its validation and its opening (two callbacks), or
\* it guessed the id of a stream that never started.
OnlyLateViewersLinger ==
  \A v \in Viewers :
    LET s == viewer[v].stream
    IN viewer[v].at = "active" /\ bindings[s] = None =>
         CloseDue(s) \/ ClosePosted(v) \/ v \in late \/ s \notin told

\* A viewer that was attached when its stream was closed is gone in the end, whatever frames
\* and restarts come in between.
ClosedViewersLeave == \A v \in Viewers : ClosePosted(v) ~> viewer[v].at = "left"
=============================================================================
