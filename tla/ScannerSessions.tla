--------------------------- MODULE ScannerSessions ---------------------------
(***************************************************************************)
(* Watches of scanners and opened TWAIN sources                            *)
(* (application/command_application_service.cpp): what a connection        *)
(* starts, what the close of the connection and the shutdown give back,    *)
(* and the scan that may be running on a source that is to be closed.      *)
(*                                                                         *)
(* Every handler runs on the io thread; scans run on at the provider.  A   *)
(* step of the cleanup is one loop round or one wait.  What a scan writes  *)
(* is in ScanTasks, the other holdings of a connection in DeviceSession.   *)
(* SANE devices are not here: sane.open leaves no record, so nothing of    *)
(* the service depends on them and nobody but sane.close closes them.      *)
(***************************************************************************)
EXTENDS Naturals, FiniteSets

CONSTANTS
  Clients,   \* connection ids
  Protocols, \* whose watches there are: "sane", "twain"; they work alike and do not meet
  Sources,   \* the session ids the provider will hand out for opened sources
  MaxPolls   \* how often WaitTwainTasksTerminal looks: 20

ASSUME ScannerAssumption == MaxPolls \in Nat

NoClient == "none"
ASSUME NoClientAssumption == NoClient \notin Clients

VARIABLES
  serverPhase, \* of the command server
  conn,        \* where each connection is
  known,       \* command_connections_
  remembered,  \* sane_watch_connections_, twain_watch_connections_
  watching,    \* the connections the providers watch for
  unstopped,   \* watches the provider refused to stop when their connection closed
  record,      \* opened_twain_sessions_by_connection_
  used,        \* session ids handed out
  source,      \* opened sources at the provider, and the scan on each
  table,       \* twain_tasks_, by the source of the task
  stuck,       \* sources whose close failed in a cleanup
  cleanup      \* the cleanup the io thread is in

watches == <<remembered, watching, unstopped>>
sources == <<record, used, source, table, stuck>>
scannerVars == <<serverPhase, conn, known, watches, sources, cleanup>>

NoCleanup ==
  [op |-> "none", at |-> "idle", conn |-> NoClient, todo |-> {}, wait |-> {}, polls |-> 0]

ScannerInit ==
  /\ serverPhase = "up"
  /\ conn = [c \in Clients |-> "new"]
  /\ known = {}
  /\ remembered = [p \in Protocols |-> {}]
  /\ watching = [p \in Protocols |-> {}]
  /\ unstopped = [p \in Protocols |-> {}]
  /\ record = [c \in Clients |-> {}]
  /\ used = {}
  /\ source = [s \in Sources |-> "closed"]
  /\ table = [s \in Sources |-> "none"]
  /\ stuck = {}
  /\ cleanup = NoCleanup

MayRequest(c) == serverPhase # "stopped" /\ cleanup = NoCleanup /\ conn[c] = "open"
Opened(s) == source[s] # "closed"
Proceed(at) == cleanup' = [cleanup EXCEPT !.at = at]

\* RememberCommandConnection comes first in every request.
Request(c) ==
  /\ MayRequest(c)
  /\ known' = known \cup {c}

ClientConnects(c) ==
  /\ serverPhase # "stopped" /\ cleanup = NoCleanup /\ conn[c] = "new"
  /\ conn' = [conn EXCEPT ![c] = "open"]
  /\ UNCHANGED <<serverPhase, known, watches, sources, cleanup>>

(* sane.watch_start, twain.watch_start and the stops.  A refusal changes   *)
(* nothing.                                                                *)

RememberWatchConnection(p, c) == [remembered EXCEPT ![p] = @ \cup {c}]
ForgetWatchConnection(p, c) == [remembered EXCEPT ![p] = @ \ {c}]

WatchStart(c, p) ==
  /\ Request(c)
  /\ watching' = [watching EXCEPT ![p] = @ \cup {c}]
  /\ remembered' = RememberWatchConnection(p, c)
  /\ UNCHANGED <<serverPhase, conn, unstopped, sources, cleanup>>

WatchStop(c, p) ==
  /\ Request(c)
  /\ watching' = [watching EXCEPT ![p] = @ \ {c}]
  /\ remembered' = ForgetWatchConnection(p, c)
  /\ UNCHANGED <<serverPhase, conn, unstopped, sources, cleanup>>

(* twain.open, twain.close, twain.scan and its cancellation.  No handler   *)
(* asks whose session it is.                                               *)

RememberOpenedTwainSession(c, s) == [record EXCEPT ![c] = @ \cup {s}]
ForgetOpenedTwainSession(c, s) == [record EXCEPT ![c] = @ \ {s}]

TwainOpen(c, s) ==
  /\ Request(c) /\ s \notin used
  /\ used' = used \cup {s}
  /\ source' = [source EXCEPT ![s] = "open"]
  /\ record' = RememberOpenedTwainSession(c, s)
  /\ UNCHANGED <<serverPhase, conn, watches, table, stuck, cleanup>>

\* A source that is scanning is not closed, and its record stays.
TwainClose(c, s) ==
  /\ Request(c) /\ s \in used
  /\ source[s] \in {"open", "closed"}
  /\ source' = [source EXCEPT ![s] = "closed"]
  /\ record' = ForgetOpenedTwainSession(c, s)
  /\ UNCHANGED <<serverPhase, conn, watches, used, table, stuck, cleanup>>

TwainScan(c, s) ==
  /\ Request(c) /\ source[s] = "open"
  /\ source' = [source EXCEPT ![s] = "scanning"]
  /\ table' = [table EXCEPT ![s] = "active"]
  /\ UNCHANGED <<serverPhase, conn, watches, record, used, stuck, cleanup>>

Cancelled(s) == IF source[s] = "scanning" THEN "cancelling" ELSE source[s]

TwainScanCancel(c, s) ==
  /\ Request(c) /\ table[s] = "active"
  /\ source' = [source EXCEPT ![s] = Cancelled(s)]
  /\ UNCHANGED <<serverPhase, conn, watches, record, used, table, stuck, cleanup>>

\* The provider's side: a scan ends, or heeds a cancellation.
ScanEnds(s) ==
  /\ source[s] \in {"scanning", "cancelling"}
  /\ source' = [source EXCEPT ![s] = "open"]
  /\ UNCHANGED <<serverPhase, conn, known, watches, record, used, table, stuck, cleanup>>

\* The provider's snapshot of the task is stored: by its event, by twain.scan_get or by a
\* cleanup that polls.  A scan in another process sends no event.
Seen(s) == IF source[s] \in {"scanning", "cancelling"} THEN table[s] ELSE "ended"

ScanSeen(s) ==
  /\ table[s] = "active" /\ Seen(s) = "ended"
  /\ table' = [table EXCEPT ![s] = "ended"]
  /\ UNCHANGED <<serverPhase, conn, known, watches, record, used, source, stuck, cleanup>>

(* OnConnectionClosed and ShutdownActiveSessions.                          *)

ClientLeaves(c) ==
  /\ MayRequest(c)
  /\ conn' = [conn EXCEPT ![c] = "gone"]
  /\ known' = known \ {c}
  /\ cleanup' = [NoCleanup EXCEPT !.op = "gone", !.at = "watches", !.conn = c]
  /\ UNCHANGED <<serverPhase, watches, sources>>

ShutdownSessions ==
  /\ serverPhase = "up" /\ cleanup = NoCleanup
  /\ serverPhase' = "drained"
  /\ cleanup' = [NoCleanup EXCEPT !.op = "shutdown", !.at = "sessions"]
  /\ UNCHANGED <<conn, known, watches, sources>>

\* Each watch of the connections is forgotten and then stopped; a provider that refuses is
\* not asked again.
StopWatches(closing) ==
  /\ remembered' = [p \in Protocols |-> remembered[p] \ closing]
  /\ \E refused \in [Protocols -> BOOLEAN] :
       LET stops(p) == IF refused[p] THEN {} ELSE remembered[p] \cap closing
       IN /\ watching' = [p \in Protocols |-> watching[p] \ stops(p)]
          /\ unstopped' = [p \in Protocols |->
                             unstopped[p] \cup ((remembered[p] \cap closing) \ stops(p))]

ForgetWatches ==
  /\ cleanup.op = "gone" /\ cleanup.at = "watches"
  /\ StopWatches({cleanup.conn})
  /\ Proceed("sessions")
  /\ UNCHANGED <<serverPhase, conn, known, sources>>

\* Mutant: the records are read and kept.
ClearNothing(owners) == record

\* ClearOpenedTwainSessions, ClearAllOpenedTwainSessions.
ClearOpenedTwainSessions(owners) == [c \in Clients |-> IF c \in owners THEN {} ELSE record[c]]

TakeSessions ==
  /\ cleanup.at = "sessions"
  /\ LET owners == IF cleanup.op = "shutdown" THEN Clients ELSE {cleanup.conn}
     IN /\ record' = ClearOpenedTwainSessions(owners)
        /\ cleanup' = [cleanup EXCEPT !.at = "cancel", !.todo = UNION {record[c] : c \in owners}]
  /\ UNCHANGED <<serverPhase, conn, known, watches, used, source, table, stuck>>

ActiveTasks(sessions) == {s \in sessions : table[s] = "active"}

\* CancelActiveTwainTasksForSessions.  What CancelScan returns is stored, too.
CancelActiveTasks ==
  /\ cleanup.at = "cancel"
  /\ LET tasks == ActiveTasks(cleanup.todo)
     IN /\ source' = [s \in Sources |-> IF s \in tasks THEN Cancelled(s) ELSE source[s]]
        /\ table' = [s \in Sources |-> IF s \in tasks THEN Seen(s) ELSE table[s]]
        /\ cleanup' = [cleanup EXCEPT !.at = "wait", !.wait = tasks]
  /\ UNCHANGED <<serverPhase, conn, known, watches, record, used, stuck>>

PollsLeft == cleanup.polls < MaxPolls
NextPoll(n) == n + 1

AllTerminal == \A s \in cleanup.wait : table[s] = "ended"

\* WaitTwainTasksTerminal: look, ask the provider, sleep.
PollTasks ==
  /\ cleanup.at = "wait" /\ PollsLeft /\ ~AllTerminal
  /\ table' = [s \in Sources |-> IF s \in cleanup.wait THEN Seen(s) ELSE table[s]]
  /\ cleanup' = [cleanup EXCEPT !.polls = NextPoll(@)]
  /\ UNCHANGED <<serverPhase, conn, known, watches, record, used, source, stuck>>

WaitIsOver ==
  /\ cleanup.at = "wait" /\ (AllTerminal \/ ~PollsLeft)
  /\ Proceed("close")
  /\ UNCHANGED <<serverPhase, conn, known, watches, sources>>

CloseSource ==
  /\ cleanup.at = "close"
  /\ \E s \in cleanup.todo :
       /\ source[s] \in {"open", "closed"}
       /\ source' = [source EXCEPT ![s] = "closed"]
       /\ cleanup' = [cleanup EXCEPT !.todo = @ \ {s}]
  /\ UNCHANGED <<serverPhase, conn, known, watches, record, used, table, stuck>>

\* Mutant: the session is forgotten although it is open.
LoseSession(s) == record

\* The connection keeps its record of what could not be closed; the shutdown does not.
KeepSession(s) ==
  IF cleanup.op = "gone" THEN RememberOpenedTwainSession(cleanup.conn, s) ELSE record

CloseFails ==
  /\ cleanup.at = "close"
  /\ \E s \in cleanup.todo :
       /\ source[s] \in {"scanning", "cancelling"}
       /\ record' = KeepSession(s)
       /\ stuck' = stuck \cup {s}
       /\ cleanup' = [cleanup EXCEPT !.todo = @ \ {s}]
  /\ UNCHANGED <<serverPhase, conn, known, watches, used, source, table>>

\* The shutdown stops the watches last, of the connections that are known.
CleanupDone ==
  /\ cleanup.at = "close" /\ cleanup.todo = {}
  /\ IF cleanup.op = "shutdown" THEN StopWatches(known) /\ known' = {}
     ELSE UNCHANGED <<watches, known>>
  /\ cleanup' = NoCleanup
  /\ UNCHANGED <<serverPhase, conn, sources>>

\* The server stops after that: connections end without their close handler.
ServerStops ==
  /\ serverPhase = "drained" /\ cleanup = NoCleanup
  /\ serverPhase' = "stopped"
  /\ UNCHANGED <<conn, known, watches, sources, cleanup>>

CleanupStep ==
  \/ ForgetWatches \/ TakeSessions \/ CancelActiveTasks \/ PollTasks \/ WaitIsOver
  \/ CloseSource \/ CloseFails \/ CleanupDone

ScannerNext ==
  \/ \E c \in Clients : ClientConnects(c) \/ ClientLeaves(c)
  \/ \E c \in Clients, p \in Protocols : WatchStart(c, p) \/ WatchStop(c, p)
  \/ \E c \in Clients, s \in Sources :
       TwainOpen(c, s) \/ TwainClose(c, s) \/ TwainScan(c, s) \/ TwainScanCancel(c, s)
  \/ \E s \in Sources : ScanEnds(s) \/ ScanSeen(s)
  \/ ShutdownSessions \/ CleanupStep \/ ServerStops

ScannerSpec == ScannerInit /\ [][ScannerNext]_scannerVars

-----------------------------------------------------------------------------

ScannerTypeOK ==
  /\ serverPhase \in {"up", "drained", "stopped"}
  /\ conn \in [Clients -> {"new", "open", "gone"}]
  /\ known \subseteq Clients
  /\ remembered \in [Protocols -> SUBSET Clients]
  /\ watching \in [Protocols -> SUBSET Clients]
  /\ unstopped \in [Protocols -> SUBSET Clients]
  /\ record \in [Clients -> SUBSET Sources]
  /\ used \subseteq Sources
  /\ source \in [Sources -> {"closed", "open", "scanning", "cancelling"}]
  /\ table \in [Sources -> {"none", "active", "ended"}]
  /\ stuck \subseteq Sources
  /\ cleanup \in [op : {"none", "gone", "shutdown"}, conn : Clients \cup {NoClient},
                  at : {"idle", "watches", "sessions", "cancel", "wait", "close"},
                  todo : SUBSET Sources, wait : SUBSET Sources, polls : 0..MaxPolls]

\* No opened source is lost: as long as the provider has it open, a connection's record
\* names it, or the running cleanup does, or it hung when the shutdown wanted to close it.
\* Closes by a client that did not open it and closes that fail are the cases to get right.
OpenSourcesAreRecorded ==
  \A s \in Sources : Opened(s) =>
    \/ \E c \in Clients : s \in record[c]
    \/ s \in cleanup.todo
    \/ s \in stuck /\ serverPhase # "up"

\* A connection that is gone keeps nothing but sources that hung through the whole wait of
\* its close handler, and no watch but one the provider refused to stop.
GoneConnectionsHoldNothing ==
  \A c \in Clients : conn[c] = "gone" /\ cleanup.conn # c =>
    /\ record[c] \subseteq stuck
    /\ \A p \in Protocols : c \in watching[p] => c \in unstopped[p]

=============================================================================
