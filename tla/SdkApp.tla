------------------------------- MODULE SdkApp -------------------------------
(***************************************************************************)
(* The life of the service process (runtime/sdk_app.cpp, sdk_open_main.cpp *)
(* and Start, Stop and ReloadTls of the three servers): the main thread    *)
(* that checks the certificate, starts the listeners and stops them, and   *)
(* the monitor thread that rotates the certificate and restarts the TLS    *)
(* listeners.  LeafCertificates is the certificate on disk, where other    *)
(* processes renew it at the same time; TLS is enabled.                    *)
(*                                                                         *)
(* tls_rotation_mu_ is left out: the monitor thread alone locks it.        *)
(***************************************************************************)
EXTENDS LeafCertificates

CONSTANTS App,         \* the updater that is the service process
          HttpEnabled  \* kSdkOpenHttpServerEnabled

ASSUME SdkAppAssumption == App \in Updaters /\ HttpEnabled \in BOOLEAN

\* The servers in the order Start starts them; Stop goes through them backwards.
Servers == <<"admin", "demo", "asset", "command", "video">>
TlsServers == <<"asset", "command", "video">>
HasTls(s) == s \in {"asset", "command", "video"}

VARIABLES
  main,     \* the main thread
  running,  \* running_
  stop,     \* tls_rotation_stop_
  monitor,  \* the monitor thread
  up,       \* servers whose listeners run
  serves,   \* the pair a TLS server has loaded
  rotated,  \* the last pair the process itself rotated to
  reloaded  \* what ReloadTlsListeners returned last

appVars == <<main, running, stop, monitor, up, serves, rotated, reloaded>>
vars == <<leafVars, appVars>>

NoMonitor == [at |-> "none", attempt |-> 1, n |-> 1, ok |-> TRUE]

Init ==
  /\ LeafInit
  /\ main = [at |-> "off", n |-> 1]
  /\ running = FALSE
  /\ stop = FALSE
  /\ monitor = NoMonitor
  /\ up = {}
  /\ serves = [s \in {"asset", "command", "video"} |-> None]
  /\ rotated = None
  /\ reloaded = TRUE

TypeOK ==
  /\ LeafTypeOK
  /\ main \in [at : {"off", "check", "start", "run", "flag", "notify", "join", "halt"}, n : 1..5]
  /\ running \in BOOLEAN /\ stop \in BOOLEAN /\ reloaded \in BOOLEAN
  /\ monitor \in [at : {"none", "test", "park", "wait", "rotate", "halt", "start"},
                  attempt : 1..2, n : 1..3, ok : BOOLEAN]
  /\ up \subseteq {"admin", "demo", "asset", "command", "video"}
  /\ serves \in [{"asset", "command", "video"} -> Pairs \cup {None}]
  /\ rotated \in Pairs \cup {None}

-----------------------------------------------------------------------------
\* ConfigureSdkTlsServerContext: both files are there and belong together.
PairLoads == HasPair /\ disk["key"] = disk["cert"]

\* Start of a server that does not run: the plain port, then the TLS context and port.
Starts(s) ==
  /\ HasTls(s) => PairLoads
  /\ up' = up \cup {s}
  /\ serves' = IF HasTls(s) THEN [serves EXCEPT ![s] = disk["cert"]] ELSE serves
  /\ UNCHANGED faults

StartFails(s) ==
  /\ \/ HasTls(s) /\ ~PairLoads /\ UNCHANGED faults
     \/ Fail("bind")

Halts(ss) ==
  /\ up' = up \ ss
  /\ serves' = [s \in DOMAIN serves |-> IF s \in ss THEN None ELSE serves[s]]

GoMain(step, n) == main' = [at |-> step, n |-> n]

\* CreateSdkOpenApp: RotateIfNeeded, and no service when that fails.
Boot ==
  /\ main.at = "off"
  /\ BeginRotate(App)
  /\ GoMain("check", 1)
  /\ rotated' = None
  /\ reloaded' = TRUE
  /\ UNCHANGED <<running, stop, monitor, up, serves>>

CreateApp ==
  /\ main.at = "check"
  /\ At(App, "idle")
  /\ IF job[App].result = "failed" \/ ~PairLoads
       THEN GoMain("off", 1) /\ UNCHANGED rotated
       ELSE /\ GoMain("start", IF HttpEnabled THEN 1 ELSE 3)
            /\ rotated' = IF job[App].result = "done" THEN state.leaf ELSE rotated
  /\ UNCHANGED <<leafVars, running, stop, monitor, up, serves, reloaded>>

\* A round of Start; the last one starts the monitor thread.
StartServer ==
  /\ main.at = "start"
  /\ Starts(Servers[main.n])
  /\ IF main.n < 5
       THEN GoMain("start", main.n + 1) /\ UNCHANGED <<running, stop, monitor>>
       ELSE /\ GoMain("run", 5)
            /\ running' = TRUE
            /\ stop' = FALSE
            /\ monitor' = [NoMonitor EXCEPT !.at = "test"]
  /\ UNCHANGED <<disk, root, state, lock, job, made, due, rotated, reloaded>>

\* What Start has started is stopped again; ~SdkApp, with running_ false, stops nothing.
StartRolledBack ==
  /\ main.at = "start"
  /\ StartFails(Servers[main.n])
  /\ Halts({Servers[i] : i \in 1..(main.n - 1)})
  /\ GoMain("off", 1)
  /\ UNCHANGED <<disk, root, state, lock, job, made, due, running, stop, monitor, rotated, reloaded>>

\* Stop: running_ first, then the flag and the notification, the join, and the servers.
StopRequested ==
  /\ main.at = "run"
  /\ running' = FALSE
  /\ GoMain("flag", 5)
  /\ UNCHANGED <<leafVars, stop, monitor, up, serves, rotated, reloaded>>

\* Mutant: the waiters are notified of a flag nobody has set.
SetNoStopFlag ==
  /\ main.at = "flag"
  /\ GoMain("notify", 5)
  /\ UNCHANGED <<leafVars, running, stop, monitor, up, serves, rotated, reloaded>>

SetStopFlag ==
  /\ main.at = "flag"
  /\ stop' = TRUE
  /\ GoMain("notify", 5)
  /\ UNCHANGED <<leafVars, running, monitor, up, serves, rotated, reloaded>>

\* notify_all without the mutex: a monitor that has tested the flag but does not wait yet
\* misses it, and sleeps its six hours.
Notify ==
  /\ main.at = "notify"
  /\ monitor' = IF monitor.at = "wait" THEN [monitor EXCEPT !.at = "test"] ELSE monitor
  /\ GoMain("join", 5)
  /\ UNCHANGED <<leafVars, running, stop, up, serves, rotated, reloaded>>

\* Mutant: nobody waits for the monitor.
JoinDetaches ==
  /\ main.at = "join"
  /\ GoMain("halt", 5)
  /\ UNCHANGED <<leafVars, running, stop, monitor, up, serves, rotated, reloaded>>

Join ==
  /\ main.at = "join"
  /\ monitor.at = "none"
  /\ GoMain("halt", 5)
  /\ UNCHANGED <<leafVars, running, stop, monitor, up, serves, rotated, reloaded>>

StopServer ==
  /\ main.at = "halt"
  /\ Halts({Servers[main.n]})
  /\ IF main.n > (IF HttpEnabled THEN 1 ELSE 3) THEN GoMain("halt", main.n - 1) ELSE GoMain("off", 1)
  /\ UNCHANGED <<leafVars, running, stop, monitor, rotated, reloaded>>

-----------------------------------------------------------------------------
\* RunTlsRotationMonitor: the predicate, the wait, and the wait that ends with the interval.
TestFlag ==
  /\ monitor.at = "test"
  /\ monitor' = IF stop THEN NoMonitor ELSE [monitor EXCEPT !.at = "park"]
  /\ UNCHANGED <<leafVars, main, running, stop, up, serves, rotated, reloaded>>

Park ==
  /\ monitor.at = "park"
  /\ monitor' = [monitor EXCEPT !.at = "wait"]
  /\ UNCHANGED <<leafVars, main, running, stop, up, serves, rotated, reloaded>>

IntervalOver ==
  /\ monitor.at = "wait"
  /\ IF stop
       THEN monitor' = NoMonitor /\ UNCHANGED leafVars
       ELSE /\ monitor' = [monitor EXCEPT !.at = "rotate"]
            /\ BeginRotate(App)
  /\ UNCHANGED <<main, running, stop, up, serves, rotated, reloaded>>

\* RotateIfNeeded is over.  ReloadTlsListeners does nothing when the service is stopping.
Checked ==
  /\ monitor.at = "rotate"
  /\ At(App, "idle")
  /\ LET done == job[App].result = "done"
     IN  /\ rotated' = IF done THEN state.leaf ELSE rotated
         /\ monitor' = [NoMonitor EXCEPT !.at = IF done /\ running THEN "halt" ELSE "test"]
         /\ reloaded' = IF done THEN ~running \/ reloaded ELSE reloaded
  /\ UNCHANGED <<leafVars, main, running, stop, up, serves>>

\* ReloadTls of one server: Stop when it runs, and Start.
ReloadStops ==
  /\ monitor.at = "halt"
  /\ Halts({TlsServers[monitor.n]})
  /\ monitor' = [monitor EXCEPT !.at = "start"]
  /\ UNCHANGED <<leafVars, main, running, stop, rotated, reloaded>>

\* Mutant: the last server's answer counts.
RoundOkLast(ok) == ok

\* asset_ok && command_ok && video_ok, as far as the round has come.
RoundOk(ok) == monitor.ok /\ ok

ReloadStarts ==
  /\ monitor.at = "start"
  /\ \E ok \in BOOLEAN :
       /\ IF ok THEN Starts(TlsServers[monitor.n])
            ELSE StartFails(TlsServers[monitor.n]) /\ UNCHANGED <<up, serves>>
       /\ LET all == RoundOk(ok)
              next == IF monitor.n < 3
                        THEN [monitor EXCEPT !.at = "halt", !.n = @ + 1, !.ok = all]
                        ELSE IF ~all /\ monitor.attempt = 1
                               THEN [NoMonitor EXCEPT !.at = "halt", !.attempt = 2]
                               ELSE [NoMonitor EXCEPT !.at = "test"]
          IN  /\ monitor' = next
              /\ reloaded' = IF next.at = "test" THEN all ELSE reloaded
  /\ UNCHANGED <<disk, root, state, lock, job, made, due, main, running, stop, rotated>>

-----------------------------------------------------------------------------
\* The process is killed: its threads and listeners are gone, its lock is free.
Killed ==
  /\ main.at # "off"
  /\ Dies(App)
  /\ main' = [at |-> "off", n |-> 1]
  /\ running' = FALSE
  /\ monitor' = NoMonitor
  /\ Halts(up)
  /\ UNCHANGED <<stop, rotated, reloaded>>

\* The update the service itself has begun.
OwnUpdate == LeafStep(App) /\ UNCHANGED appVars

\* The installer, the command line, the customer and time.
Others ==
  /\ \/ \E p \in Updaters \ {App} : BeginProvision(p) \/ BeginRenew(p) \/ LeafStep(p) \/ Dies(p)
     \/ Ages
     \/ CustomerReplaces
  /\ UNCHANGED appVars

MainStep ==
  \/ CreateApp \/ StartServer \/ StartRolledBack
  \/ SetStopFlag \/ Notify \/ Join \/ StopServer
MonitorStep == TestFlag \/ Park \/ IntervalOver \/ Checked \/ ReloadStops \/ ReloadStarts

Next == Boot \/ StopRequested \/ MainStep \/ MonitorStep \/ OwnUpdate \/ Killed \/ Others

\* Threads run, and an interval ends; nobody has to start or stop the service.
Fairness == WF_vars(MainStep) /\ WF_vars(MonitorStep) /\ WF_vars(OwnUpdate)

Spec == Init /\ [][Next]_vars
FairSpec == Spec /\ Fairness

-----------------------------------------------------------------------------
\* Whatever the main thread does to end the service, also after a start that failed half
\* way, no listener and no monitor is left: a reload under way cannot bring one back.
OffIsSilent == main.at = "off" => up = {} /\ monitor.at = "none"

\* Between two rotations of its own, unless the reload has reported failure, every TLS
\* listener of the running service is up and serves the pair the service rotated to or a
\* later one.
ListenersServeRotated ==
  running /\ monitor.at \in {"test", "park", "wait"} /\ reloaded =>
    \A s \in DOMAIN serves : s \in up /\ serves[s] # None /\ serves[s] >= rotated

\* A stop that was asked for ends, a lost notification and a reload under way included.
StopEnds == (main.at = "flag") ~> (main.at = "off")

=============================================================================
