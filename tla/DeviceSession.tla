--------------------------- MODULE DeviceSession ---------------------------
(***************************************************************************)
(* Command connections, their sessions, opened devices and preview stream  *)
(* bindings (application/command_application_service.cpp with              *)
(* video_session_service.cpp and authorization_service.cpp), the command   *)
(* server whose io thread runs every handler one at a time                 *)
(* (transport/sdk_ws_command_server.cpp), and the device provider          *)
(* (providers/mock), whose stream threads report a removed device while a  *)
(* handler is running.                                                     *)
(*                                                                         *)
(* A handler is one step per lock it takes or provider call it makes.      *)
(* Provider StopVideo joins the stream thread, so it waits until a removal *)
(* that thread is reporting is over.  A session is the set of devices its  *)
(* auth context allows.                                                    *)
(***************************************************************************)
EXTENDS Naturals, FiniteSets

CONSTANTS
  Devices,      \* the devices the provider knows
  Scopes,       \* the device scopes of the tokens clients present
  MaxConns,     \* bound on next_connection_id, for model checking
  MaxStreams,   \* bound on next_stream_id_, for model checking
  TlsEnabled,   \* config_.tls.enabled: may the listeners be reloaded?
  NoSession, NoDevice

Conns == 1..MaxConns
Streams == 1..MaxStreams
NoStream == 0

\* Stream ids are strings: up to stream-9 the map's order is the numeric one.
ASSUME DeviceSessionAssumption ==
  /\ MaxConns \in Nat \ {0}
  /\ MaxStreams \in 1..9
  /\ TlsEnabled \in BOOLEAN
  /\ \A s \in Scopes : s \subseteq Devices
  /\ NoSession \notin Scopes
  /\ NoDevice \notin Devices

VARIABLES
  phase,       \* of the command server
  nextConn,    \* next_connection_id
  connected,   \* ids in connection_entries
  orphaned,    \* ids whose entry a reload cleared: their close handler never ran
  session,     \* sessions_
  opened,      \* opened_devices_by_connection_
  bindings,    \* streams_ of the video session service
  nextStream,  \* next_stream_id_
  io,          \* the handler the io thread is running
  openDev,     \* the provider's opened_devices_
  removed,     \* the provider's removed_device_ids_
  preview,     \* the provider's streams_: the stream running on a device; an entry
               \* whose thread has left its loop is joined before any use of it
  removal,     \* where that thread is in reporting a removal
  unclaimed    \* devices forgotten by a removal after they were opened again

server == <<phase, nextConn, connected, orphaned>>
provider == <<openDev, removed, preview>>
vars == <<server, session, opened, bindings, nextStream, io, provider, removal, unclaimed>>

Binding == [id : Streams, conn : Conns, dev : Devices]
Idle == [op |-> "idle", at |-> "idle", conn |-> 0, dev |-> NoDevice, sid |-> NoStream, todo |-> {}]

TypeOK ==
  /\ phase \in {"up", "reloading", "drained", "stopped"}
  /\ nextConn \in 1..(MaxConns + 1)
  /\ connected \subseteq Conns
  /\ orphaned \subseteq Conns
  /\ session \in [Conns -> Scopes \cup {NoSession}]
  /\ opened \in [Conns -> SUBSET Devices]
  /\ bindings \subseteq Binding
  /\ nextStream \in 1..(MaxStreams + 1)
  /\ io \in [op : {"idle", "open", "close", "start", "stop", "destroy", "gone", "shutdown"},
             at : {"idle", "provider", "remember", "halt", "forget", "format", "reply", "unbind",
                   "streams", "holdings", "devices"},
             conn : Conns \cup {0}, dev : Devices \cup {NoDevice},
             sid : Streams \cup {NoStream}, todo : SUBSET Devices]
  /\ openDev \subseteq Devices
  /\ removed \subseteq Devices \ openDev
  /\ preview \in [Devices -> Streams \cup {NoStream}]
  /\ removal \in [Devices -> {"none", "marked", "forgotten", "cleared", "added"}]
  /\ unclaimed \subseteq Devices

Init ==
  /\ phase = "up" /\ nextConn = 1 /\ connected = {} /\ orphaned = {}
  /\ session = [c \in Conns |-> NoSession]
  /\ opened = [c \in Conns |-> {}]
  /\ bindings = {} /\ nextStream = 1
  /\ io = Idle
  /\ openDev = {} /\ removed = {}
  /\ preview = [d \in Devices |-> NoStream]
  /\ removal = [d \in Devices |-> "none"]
  /\ unclaimed = {}

Serving == phase \in {"up", "drained"}
Ready(c) == Serving /\ io = Idle /\ c \in connected
Run(op, at, c, d) == io' = [Idle EXCEPT !.op = op, !.at = at, !.conn = c, !.dev = d]
At(op, at) == io.op = op /\ io.at = at
Goto(at) == io' = [io EXCEPT !.at = at]
Finish == io' = Idle

BindingsOf(c) == {b \in bindings : b.conn = c}
Matching(c, d) == {b \in BindingsOf(c) : b.dev = d}
FirstOf(S) == CHOOSE b \in S : \A o \in S : b.id <= o.id

(***************************************************************************)
(* The facade and the provider.                                            *)
(***************************************************************************)

\* LookupDevice finds the device and the scope allows it.
Allowed(c, d) == d \notin removed /\ d \in session[c]

\* The device calls that follow a lookup also reach a device just removed.
Reachable(c, d) == d \in removed \/ d \in session[c]

Running(d) == preview[d] # NoStream

\* StopVideo: drop the stream and join its thread.
StopPreview(d) ==
  /\ removal[d] = "none"
  /\ preview' = [preview EXCEPT ![d] = NoStream]

\* Mutant: closing a device leaves its preview running.
CloseProviderKeepsPreview(d) ==
  /\ removal[d] = "none"
  /\ openDev' = openDev \ {d}
  /\ unclaimed' = unclaimed \ {d}
  /\ UNCHANGED <<preview, removed>>

\* CloseDevice: stop the preview, then forget that the device is open.
CloseProvider(d) ==
  /\ StopPreview(d)
  /\ openDev' = openDev \ {d}
  /\ unclaimed' = unclaimed \ {d}
  /\ UNCHANGED removed

(***************************************************************************)
(* Connections and sessions.                                               *)
(***************************************************************************)

Connect ==
  /\ Serving /\ io = Idle /\ nextConn <= MaxConns
  /\ connected' = connected \cup {nextConn}
  /\ orphaned' = orphaned \ {nextConn}
  /\ nextConn' = nextConn + 1
  /\ UNCHANGED <<phase, session, opened, bindings, nextStream, io, provider, removal, unclaimed>>

\* auth.create_session; a refresh or an activation also replaces the session.
CreateSession(c) ==
  /\ Ready(c)
  /\ \E scope \in Scopes : session' = [session EXCEPT ![c] = scope]
  /\ UNCHANGED <<server, opened, bindings, nextStream, io, provider, removal, unclaimed>>

\* ClearConnection or ClearAll: the bindings go, their previews are to be stopped.
TakeStreams(op, c, S) ==
  /\ bindings' = bindings \ S
  /\ io' = [Idle EXCEPT !.op = op, !.at = "streams", !.conn = c, !.todo = {b.dev : b \in S}]

DestroySession(c) ==
  /\ Ready(c)
  /\ TakeStreams("destroy", c, BindingsOf(c))
  /\ UNCHANGED <<server, session, opened, nextStream, provider, removal, unclaimed>>

\* The close handler: the entry goes, then OnConnectionClosed clears the session first.
Disconnect(c) ==
  /\ Ready(c)
  /\ connected' = connected \ {c}
  /\ session' = [session EXCEPT ![c] = NoSession]
  /\ TakeStreams("gone", c, BindingsOf(c))
  /\ UNCHANGED <<phase, nextConn, orphaned, opened, nextStream, provider, removal, unclaimed>>

\* SdkApp::Stop has ShutdownActiveSessions run on the io thread.
Shutdown ==
  /\ phase = "up" /\ io = Idle
  /\ phase' = "drained"
  /\ TakeStreams("shutdown", 0, bindings)
  /\ UNCHANGED <<nextConn, connected, orphaned, session, opened, nextStream, provider, removal,
                 unclaimed>>

\* The cleanup's loop over the removed bindings.
ReleaseStream ==
  /\ io.at = "streams"
  /\ IF io.todo = {}
       THEN Goto("holdings") /\ UNCHANGED preview
       ELSE \E d \in io.todo : StopPreview(d) /\ io' = [io EXCEPT !.todo = @ \ {d}]
  /\ UNCHANGED <<server, session, opened, bindings, nextStream, openDev, removed, removal, unclaimed>>

\* Mutant: the devices stay in the connection's record.
TakeHoldingsKeepsOpened ==
  /\ io.at = "holdings"
  /\ LET holders == IF io.op = "shutdown" THEN Conns ELSE {io.conn} IN
       io' = [io EXCEPT !.at = "devices", !.todo = UNION {opened[c] : c \in holders}]
  /\ UNCHANGED <<server, session, opened, bindings, nextStream, provider, removal, unclaimed>>

\* Mutant: the record is cleared and no device is closed.
TakeHoldingsClosesNothing ==
  /\ io.at = "holdings"
  /\ LET holders == IF io.op = "shutdown" THEN Conns ELSE {io.conn} IN
       /\ io' = [io EXCEPT !.at = "devices", !.todo = {}]
       /\ opened' = [c \in Conns |-> IF c \in holders THEN {} ELSE opened[c]]
  /\ UNCHANGED <<server, session, bindings, nextStream, provider, removal, unclaimed>>

\* ClearOpenedDevices or ClearAllOpenedDevices.
TakeHoldings ==
  /\ io.at = "holdings"
  /\ LET holders == IF io.op = "shutdown" THEN Conns ELSE {io.conn} IN
       /\ io' = [io EXCEPT !.at = "devices", !.todo = UNION {opened[c] : c \in holders}]
       /\ opened' = [c \in Conns |-> IF c \in holders THEN {} ELSE opened[c]]
  /\ UNCHANGED <<server, session, bindings, nextStream, provider, removal, unclaimed>>

\* Its loop over the devices; destroy and shutdown clear the sessions last.
ReleaseDevice ==
  /\ io.at = "devices"
  /\ IF io.todo = {}
       THEN /\ Finish
            /\ session' = [c \in Conns |-> IF io.op = "shutdown" \/ (io.op = "destroy" /\ io.conn = c)
                                             THEN NoSession ELSE session[c]]
            /\ UNCHANGED <<provider, unclaimed>>
       ELSE /\ \E d \in io.todo : CloseProvider(d) /\ io' = [io EXCEPT !.todo = @ \ {d}]
            /\ UNCHANGED session
  /\ UNCHANGED <<server, opened, bindings, nextStream, removal>>

(***************************************************************************)
(* device.open, device.close, video.start and video.stop.                  *)
(***************************************************************************)

DeviceOpen(c, d) ==
  /\ Ready(c) /\ session[c] # NoSession /\ Allowed(c, d)
  /\ Run("open", "provider", c, d)
  /\ UNCHANGED <<server, session, opened, bindings, nextStream, provider, removal, unclaimed>>

OpenProvider ==
  /\ At("open", "provider")
  /\ openDev' = openDev \cup {io.dev}
  /\ removed' = removed \ {io.dev}
  /\ Goto("remember")
  /\ UNCHANGED <<server, session, opened, bindings, nextStream, preview, removal, unclaimed>>

RememberOpenedDevice ==
  /\ At("open", "remember")
  /\ opened' = [opened EXCEPT ![io.conn] = @ \cup {io.dev}]
  /\ Finish
  /\ UNCHANGED <<server, session, bindings, nextStream, provider, removal, unclaimed>>

\* StopStream: erase the first binding of the connection for the device.
StopStream(c, d) ==
  bindings' = IF Matching(c, d) = {} THEN bindings ELSE bindings \ {FirstOf(Matching(c, d))}

DeviceClose(c, d) ==
  /\ Ready(c) /\ session[c] # NoSession
  /\ StopStream(c, d)
  /\ Run("close", IF Matching(c, d) = {} THEN "provider" ELSE "halt", c, d)
  /\ UNCHANGED <<server, session, opened, nextStream, provider, removal, unclaimed>>

\* StopVideo fails outside the scope: the request ends, the binding is gone already.
CloseStopVideo ==
  /\ At("close", "halt")
  /\ IF Reachable(io.conn, io.dev)
       THEN StopPreview(io.dev) /\ Goto("provider")
       ELSE Finish /\ UNCHANGED preview
  /\ UNCHANGED <<server, session, opened, bindings, nextStream, openDev, removed, removal, unclaimed>>

CloseAtProvider ==
  /\ At("close", "provider")
  /\ IF Reachable(io.conn, io.dev)
       THEN CloseProvider(io.dev) /\ Goto("forget")
       ELSE Finish /\ UNCHANGED <<provider, unclaimed>>
  /\ UNCHANGED <<server, session, opened, bindings, nextStream, removal>>

ForgetOpenedDevice ==
  /\ At("close", "forget")
  /\ opened' = [opened EXCEPT ![io.conn] = @ \ {io.dev}]
  /\ Finish
  /\ UNCHANGED <<server, session, bindings, nextStream, provider, removal, unclaimed>>

\* RegisterStream, before the provider is asked.
VideoStart(c, d) ==
  /\ Ready(c) /\ session[c] # NoSession /\ nextStream <= MaxStreams
  /\ bindings' = bindings \cup {[id |-> nextStream, conn |-> c, dev |-> d]}
  /\ nextStream' = nextStream + 1
  /\ io' = [op |-> "start", at |-> "provider", conn |-> c, dev |-> d, sid |-> nextStream, todo |-> {}]
  /\ UNCHANGED <<server, session, opened, provider, removal, unclaimed>>

\* StartVideo; when it fails the new binding is erased (StopStreamById).
StartVideo ==
  /\ At("start", "provider")
  /\ IF Allowed(io.conn, io.dev) /\ io.dev \in openDev /\ ~Running(io.dev)
       THEN /\ preview' = [preview EXCEPT ![io.dev] = io.sid]
            /\ Goto("format")
            /\ UNCHANGED bindings
       ELSE /\ bindings' = {b \in bindings : b.id # io.sid}
            /\ Finish
            /\ UNCHANGED preview
  /\ UNCHANGED <<server, session, opened, nextStream, openDev, removed, removal, unclaimed>>

\* The response names the first binding of the connection for the device.
UpdateStreamFormat ==
  /\ At("start", "format")
  /\ IF Matching(io.conn, io.dev) = {}
       THEN Finish
       ELSE io' = [io EXCEPT !.at = "reply", !.sid = FirstOf(Matching(io.conn, io.dev)).id]
  /\ UNCHANGED <<server, session, opened, bindings, nextStream, provider, removal, unclaimed>>

StartReply ==
  /\ At("start", "reply")
  /\ Finish
  /\ UNCHANGED <<server, session, opened, bindings, nextStream, provider, removal, unclaimed>>

VideoStop(c, d) ==
  /\ Ready(c) /\ session[c] # NoSession
  /\ Run("stop", "halt", c, d)
  /\ UNCHANGED <<server, session, opened, bindings, nextStream, provider, removal, unclaimed>>

\* The provider stops whatever runs on the device, whoever started it.
StopAtProvider ==
  /\ At("stop", "halt")
  /\ IF Reachable(io.conn, io.dev)
       THEN StopPreview(io.dev) /\ Goto("unbind")
       ELSE Finish /\ UNCHANGED preview
  /\ UNCHANGED <<server, session, opened, bindings, nextStream, openDev, removed, removal, unclaimed>>

StopUnbind ==
  /\ At("stop", "unbind")
  /\ StopStream(io.conn, io.dev)
  /\ Finish
  /\ UNCHANGED <<server, session, opened, nextStream, provider, removal, unclaimed>>

(***************************************************************************)
(* A stream thread reports that its device was removed.                    *)
(***************************************************************************)

MarkRemoved(d) ==
  /\ Running(d) /\ removal[d] = "none"
  /\ removed' = removed \cup {d}
  /\ openDev' = openDev \ {d}
  /\ unclaimed' = unclaimed \ {d}
  /\ removal' = [removal EXCEPT ![d] = "marked"]
  /\ UNCHANGED <<server, session, opened, bindings, nextStream, io, preview>>

\* DispatchDeviceEvent: ForgetOpenedDeviceFromAllConnections, then ClearDevice.
ForgetEverywhere(d) ==
  /\ removal[d] = "marked"
  /\ opened' = [c \in Conns |-> opened[c] \ {d}]
  /\ unclaimed' = unclaimed \cup ({d} \cap openDev)
  /\ removal' = [removal EXCEPT ![d] = "forgotten"]
  /\ UNCHANGED <<server, session, bindings, nextStream, io, provider>>

ClearDevice(d) ==
  /\ removal[d] = "forgotten"
  /\ bindings' = {b \in bindings : b.dev # d}
  /\ removal' = [removal EXCEPT ![d] = "cleared"]
  /\ UNCHANGED <<server, session, opened, nextStream, io, provider, unclaimed>>

\* The device may be found again at once, while the stream thread still runs.
AddedAgain(d) ==
  /\ removal[d] = "cleared"
  /\ removed' = removed \ {d}
  /\ removal' = [removal EXCEPT ![d] = "added"]
  /\ UNCHANGED <<server, session, opened, bindings, nextStream, io, openDev, preview, unclaimed>>

\* Mutant: the reporting thread never ends.
EndThreadLoops(d) == removal[d] \in {"cleared", "added"} /\ UNCHANGED vars

\* The report is over: the thread leaves its loop.
EndThread(d) ==
  /\ removal[d] \in {"cleared", "added"}
  /\ preview' = [preview EXCEPT ![d] = NoStream]
  /\ removal' = [removal EXCEPT ![d] = "none"]
  /\ UNCHANGED <<server, session, opened, bindings, nextStream, io, openDev, removed, unclaimed>>

(***************************************************************************)
(* The listeners are reloaded after a certificate rotation, or stopped.    *)
(***************************************************************************)

\* Stop clears connection_entries at once and joins a handler that is running.
ReloadStop ==
  /\ TlsEnabled /\ phase = "up"
  /\ phase' = "reloading"
  /\ connected' = {}
  /\ orphaned' = orphaned \cup connected
  /\ UNCHANGED <<nextConn, session, opened, bindings, nextStream, io, provider, removal, unclaimed>>

\* Start makes a new Impl, whose next_connection_id is 1 again.
ReloadStart ==
  /\ phase = "reloading" /\ io = Idle
  /\ phase' = "up"
  /\ nextConn' = 1
  /\ UNCHANGED <<connected, orphaned, session, opened, bindings, nextStream, io, provider, removal,
                 unclaimed>>

ServerStop ==
  /\ phase = "drained" /\ io.op # "shutdown"
  /\ phase' = "stopped"
  /\ connected' = {}
  /\ orphaned' = orphaned \cup connected
  /\ UNCHANGED <<nextConn, session, opened, bindings, nextStream, io, provider, removal, unclaimed>>

IoStep ==
  \/ ReleaseStream \/ TakeHoldings \/ ReleaseDevice
  \/ OpenProvider \/ RememberOpenedDevice
  \/ CloseStopVideo \/ CloseAtProvider \/ ForgetOpenedDevice
  \/ StartVideo \/ UpdateStreamFormat \/ StartReply
  \/ StopAtProvider \/ StopUnbind

RemovalStep(d) == ForgetEverywhere(d) \/ ClearDevice(d) \/ EndThread(d)

Next ==
  \/ Connect \/ Shutdown \/ ReloadStop \/ ReloadStart \/ ServerStop
  \/ IoStep
  \/ \E c \in Conns : CreateSession(c) \/ DestroySession(c) \/ Disconnect(c)
  \/ \E c \in Conns, d \in Devices :
       DeviceOpen(c, d) \/ DeviceClose(c, d) \/ VideoStart(c, d) \/ VideoStop(c, d)
  \/ \E d \in Devices : MarkRemoved(d) \/ AddedAgain(d) \/ RemovalStep(d)

Spec == Init /\ [][Next]_vars

\* A handler that started and a stream thread that is reporting go on.
Fairness == WF_vars(IoStep) /\ \A d \in Devices : WF_vars(RemovalStep(d))
FairSpec == Spec /\ Fairness

(***************************************************************************)
(* Properties.                                                             *)
(***************************************************************************)

Holds(c) == opened[c] # {} \/ BindingsOf(c) # {}

\* OnConnectionClosed leaves nothing behind: a connection that is gone, and whose
\* close handler is over, has no opened device and no stream binding.
ClosedHoldNothing ==
  \A c \in Conns : Holds(c) => c \in connected \/ c \in orphaned \/ io.conn = c

\* The running handler will still release, register or close the device.
InFlight(d) == io.dev = d \/ d \in io.todo

\* A device open at the provider is held by a connection, whose end closes it, as
\* long as no removal report overtook its opening.
OpenDevicesAreHeld ==
  \A d \in openDev : InFlight(d) \/ d \in unclaimed \/ \E c \in Conns : d \in opened[c]

\* A running preview never outlives everybody: a connection's end stops it, through
\* its binding or through the opened device, or its device is being removed.
PreviewsCanBeStopped ==
  \A d \in Devices : Running(d) =>
    \/ InFlight(d) \/ removal[d] # "none" \/ d \in unclaimed
    \/ \E b \in bindings : b.id = preview[d]
    \/ \E c \in Conns : d \in opened[c]

\* A closed connection is cleaned up to the end, though it stops previews whose
\* threads are reporting a removal.
CleanupEnds ==
  \A c \in Conns : (io.op = "gone" /\ io.conn = c) ~> (~Holds(c) \/ c \in connected)

\* A new connection starts without the session, devices and streams of another one
\* (a session is bound to its connection).
NewConnectionsStartClean ==
  [][\A c \in connected' \ connected : session[c] = NoSession /\ ~Holds(c)]_vars

=============================================================================
