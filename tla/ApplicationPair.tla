---------------------------- MODULE ApplicationPair ----------------------------
(***************************************************************************)
(* The daemon and the tray as one application: the watchdog of the daemon, *)
(* which starts the tray again or gives up and ends the daemon, the start  *)
(* of the tray, its listener, which starts the daemon again or gives up    *)
(* and ends the tray, and Quit (runtime.rs, daemon/mod.rs, tray/,          *)
(* system/user_services.rs).  systemd runs both as user services: it       *)
(* restarts what ended with a failure, and starting the tray starts the    *)
(* daemon (debian/*.user.service, Restart=on-failure and Wants).           *)
(***************************************************************************)
EXTENDS Integers

CONSTANTS
  TrayAttempts,     \* MAX_TRAY_RECOVERY_ATTEMPTS
  DaemonAttempts,   \* MAX_DAEMON_RECOVERY_ATTEMPTS
  InitialAttempts,  \* INITIAL_STATE_RETRY_ATTEMPTS
  MaxFaults, MaxLaunches

ASSUME AttemptsPositive == TrayAttempts > 0 /\ DaemonAttempts > 0 /\ InitialAttempts > 0

VARIABLES
  broken,     \* the services that cannot be started at all
  daemon,     \* "off", "starting", "up" (it has its name) or "failed"
  exiting,    \* RuntimeState::should_exit
  dog,        \* the watchdog: "off", "sleep", "probe", "start", "reprobe"
  tries,      \* attempts it has left
  tray,       \* "off", "claim", "ensure", "start", "initial", "run", "quitting",
              \* "failed"
  listener,   \* "off", "check", "start", "subscribe", "listen", "sleep"
  left,       \* attempts of the tray's current loop that are left
  quit,       \* history: the user has quit, and nothing has failed since: "no",
              \* "settled" (the watchdog slept and the listener listened) or
              \* "busy" (one of them was past its look at the other side)
  faults, launches

daemonVars == <<daemon, exiting, dog, tries>>
trayVars == <<tray, listener, left>>
boundVars == <<broken, faults, launches>>
vars == <<daemonVars, trayVars, quit, boundVars>>

Init ==
  /\ broken \in {{}, {"tray"}, {"daemon"}}
  /\ daemon = "off" /\ exiting = FALSE /\ dog = "off" /\ tries = 0
  /\ tray = "off" /\ listener = "off" /\ left = 0
  /\ quit = "no" /\ faults = 0 /\ launches = 0

NoFault == UNCHANGED <<faults, quit>>
Fault == faults < MaxFaults /\ faults' = faults + 1 /\ quit' = "no"

\* The tray has its name on the bus.
TrayPresent == tray \in {"ensure", "start", "initial", "run", "quitting"}
DaemonAvailable == daemon = "up"

DaemonEnds(how) ==
  /\ daemon' = how /\ dog' = "off" /\ tries' = 0 /\ exiting' = FALSE

\* systemctl --user start of the daemon: nothing, when it runs, even if it is
\* about to end.
StartDaemonService ==
  IF daemon \in {"off", "failed"}
  THEN daemon' = "starting" /\ dog' = "sleep" /\ tries' = 0 /\ exiting' = FALSE
  ELSE UNCHANGED daemonVars

\* systemctl --user start of the tray, from the watchdog: the daemon runs.
StartTrayService ==
  IF tray \in {"off", "failed"}
  THEN tray' = "claim" /\ UNCHANGED <<listener, left>>
  ELSE UNCHANGED trayVars

--------------------------------------------------------------------------------
\* The daemon.

\* run(): the watchdog is running when the name is requested.
DaemonGetsName ==
  /\ daemon = "starting"
  /\ \/ NoFault /\ daemon' = "up" /\ UNCHANGED <<exiting, dog, tries>>
     \/ Fault /\ DaemonEnds("failed")
  /\ UNCHANGED <<trayVars, broken, launches>>

\* The event loop sees should_exit; the end of the process may be a failure.
DaemonExits ==
  /\ daemon = "up" /\ exiting
  /\ \/ NoFault /\ DaemonEnds("off")
     \/ Fault /\ DaemonEnds("failed")
  /\ UNCHANGED <<trayVars, broken, launches>>

DaemonFails ==
  /\ daemon = "up" /\ ~exiting
  /\ Fault /\ DaemonEnds("failed")
  /\ UNCHANGED <<trayVars, broken, launches>>

SystemdRestartsDaemon ==
  /\ daemon = "failed"
  /\ IF "daemon" \in broken THEN DaemonEnds("off") ELSE StartDaemonService
  /\ UNCHANGED <<trayVars, quit, boundVars>>

--------------------------------------------------------------------------------
\* The watchdog.

\* The end of the sleep: the loop of start_tray_watchdog.
DogWakes ==
  /\ dog = "sleep"
  /\ dog' = IF exiting THEN "off" ELSE "probe"
  /\ UNCHANGED <<daemon, exiting, tries, trayVars, quit, boundVars>>

\* The first probe of run_tray_watchdog_iteration; an error counts as absent.
DogProbes ==
  /\ dog = "probe"
  /\ \/ NoFault /\ TrayPresent /\ dog' = "sleep" /\ UNCHANGED tries
     \/ (IF TrayPresent THEN Fault ELSE NoFault) /\ dog' = "start" /\ tries' = TrayAttempts
  /\ UNCHANGED <<daemon, exiting, trayVars, broken, launches>>

\* Mutant: the daemon stays when the tray cannot be started.
AttemptFailsForEver ==
  /\ tries' = tries - 1
  /\ dog' = IF tries > 1 THEN "start" ELSE "sleep"
  /\ UNCHANGED exiting

\* An attempt failed: the next one, or the end of the daemon.
AttemptFails ==
  /\ tries' = tries - 1
  /\ IF tries > 1
     THEN dog' = "start" /\ UNCHANGED exiting
     ELSE dog' = "sleep" /\ exiting' = TRUE

DogStarts ==
  /\ dog = "start"
  /\ \/ /\ "tray" \notin broken /\ NoFault
        /\ StartTrayService
        /\ dog' = "reprobe" /\ UNCHANGED <<exiting, tries>>
     \/ /\ IF "tray" \in broken THEN NoFault ELSE Fault
        /\ AttemptFails /\ UNCHANGED trayVars
  /\ UNCHANGED <<daemon, broken, launches>>

\* The probe after a start.  A tray that is started asks for its name at once:
\* the delays of the other attempts are time enough.
DogReprobes ==
  /\ dog = "reprobe" /\ (tries = 1 => tray # "claim")
  /\ \/ NoFault /\ TrayPresent /\ dog' = "sleep" /\ UNCHANGED <<exiting, tries>>
     \/ (IF TrayPresent THEN Fault ELSE NoFault) /\ AttemptFails
  /\ UNCHANGED <<daemon, trayVars, broken, launches>>

--------------------------------------------------------------------------------
\* The tray.

TrayEnds == tray' = "off" /\ listener' = "off" /\ left' = 0

\* acquire_tray_instance.
TrayClaimsName ==
  /\ tray = "claim"
  /\ \/ NoFault /\ tray' = "ensure" /\ left' = DaemonAttempts /\ UNCHANGED listener
     \/ Fault /\ TrayEnds
  /\ UNCHANGED <<daemonVars, broken, launches>>

\* An attempt of start_daemon_with_retry: on to started when systemctl succeeds,
\* to gaveUp when the last attempt failed.
StartDaemonAttempt(started, gaveUp) ==
  \/ "daemon" \notin broken /\ NoFault /\ StartDaemonService /\ started
  \/ /\ IF "daemon" \in broken THEN NoFault ELSE Fault
     /\ UNCHANGED daemonVars
     /\ IF left > 1 THEN left' = left - 1 /\ UNCHANGED <<tray, listener>> ELSE gaveUp

TrayGoesOn == tray' = "initial" /\ left' = InitialAttempts /\ UNCHANGED listener

\* ensure_daemon_running: a query that fails ends the tray.
TrayEnsuresDaemon ==
  /\ tray = "ensure"
  /\ \/ DaemonAvailable /\ NoFault /\ TrayGoesOn
     \/ ~DaemonAvailable /\ NoFault /\ tray' = "start" /\ UNCHANGED <<listener, left>>
     \/ Fault /\ TrayEnds
  /\ UNCHANGED <<daemonVars, broken, launches>>

TrayStartsDaemon ==
  /\ tray = "start" /\ StartDaemonAttempt(TrayGoesOn, TrayEnds)
  /\ UNCHANGED <<broken, launches>>

\* initial_state_with_retry, then the application and its listener.  The delays
\* of the first attempts are time enough for a daemon to get its name.
TrayReadsState ==
  /\ tray = "initial" /\ (left = 1 => daemon # "starting")
  /\ \/ /\ DaemonAvailable /\ NoFault
        /\ tray' = "run" /\ listener' = "check" /\ left' = DaemonAttempts
     \/ /\ IF DaemonAvailable THEN Fault ELSE NoFault
        /\ IF left > 1 THEN left' = left - 1 /\ UNCHANGED <<tray, listener>> ELSE TrayEnds
  /\ UNCHANGED <<daemonVars, broken, launches>>

\* The application ends on TrayCommand::Quit.
TrayQuits ==
  /\ tray = "quitting" /\ TrayEnds
  /\ UNCHANGED <<daemonVars, quit, boundVars>>

TrayFails ==
  /\ TrayPresent /\ Fault
  /\ tray' = "failed" /\ listener' = "off" /\ left' = 0
  /\ UNCHANGED <<daemonVars, broken, launches>>

\* systemd restarts the tray, and with it what it wants.
SystemdRestartsTray ==
  /\ tray = "failed"
  /\ IF "tray" \in broken
     THEN TrayEnds /\ UNCHANGED daemonVars
     ELSE /\ tray' = "claim" /\ UNCHANGED <<listener, left>>
          /\ IF "daemon" \in broken THEN UNCHANGED daemonVars ELSE StartDaemonService
  /\ UNCHANGED <<quit, boundVars>>

--------------------------------------------------------------------------------
\* The listener of the tray: spawn_listener, a thread until the tray has ended.

Listening(at) == listener = at /\ tray \in {"run", "quitting"}

\* A query that fails counts as a daemon that is not there.
ListenerChecks ==
  /\ Listening("check")
  /\ \/ DaemonAvailable /\ NoFault /\ listener' = "subscribe" /\ UNCHANGED left
     \/ /\ IF DaemonAvailable THEN Fault ELSE NoFault
        /\ listener' = "start" /\ left' = DaemonAttempts
  /\ UNCHANGED <<daemonVars, tray, broken, launches>>

ListenerStartsDaemon ==
  /\ Listening("start")
  /\ StartDaemonAttempt(listener' = "subscribe" /\ UNCHANGED <<tray, left>>,
                        tray' = "quitting" /\ listener' = "off" /\ left' = 0)
  /\ UNCHANGED <<broken, launches>>

\* The proxy and receive_status_changed.  The stream of signals lasts as long as
\* the connection to the bus: it does not end when the daemon leaves the bus.
ListenerSubscribes ==
  /\ Listening("subscribe")
  /\ \/ NoFault /\ listener' = "listen"
     \/ Fault /\ listener' = "sleep"
  /\ UNCHANGED <<daemonVars, tray, left, broken, launches>>

\* The end of RECONNECT_DELAY.
ListenerWakes ==
  /\ Listening("sleep")
  /\ listener' = "check"
  /\ UNCHANGED <<daemonVars, tray, left, quit, boundVars>>

--------------------------------------------------------------------------------
\* The user.

\* The item of the menu: request_exit, and Quit when the call succeeded.  The
\* daemon may be gone before it has answered.
Quit ==
  /\ tray = "run" /\ daemon = "up" /\ exiting' = TRUE
  /\ \/ /\ tray' = "quitting" /\ UNCHANGED faults
        /\ quit' = IF dog = "sleep" /\ listener = "listen" THEN "settled" ELSE "busy"
     \/ Fault /\ UNCHANGED tray
  /\ UNCHANGED <<daemon, dog, tries, listener, left, broken, launches>>

\* open-switcher-launch starts the service of the tray.
Launch ==
  /\ launches < MaxLaunches /\ tray = "off"
  /\ "tray" \notin broken
  /\ launches' = launches + 1 /\ quit' = "no"
  /\ tray' = "claim" /\ UNCHANGED <<listener, left>>
  /\ IF "daemon" \in broken THEN UNCHANGED daemonVars ELSE StartDaemonService
  /\ UNCHANGED <<broken, faults>>

\* The service of the daemon is started alone.
LaunchDaemon ==
  /\ launches < MaxLaunches /\ daemon = "off"
  /\ "daemon" \notin broken
  /\ launches' = launches + 1 /\ quit' = "no"
  /\ StartDaemonService
  /\ UNCHANGED <<trayVars, broken, faults>>

Daemon == DaemonGetsName \/ DaemonExits \/ SystemdRestartsDaemon
Watchdog == DogWakes \/ DogProbes \/ DogStarts \/ DogReprobes
Tray == \/ TrayClaimsName \/ TrayEnsuresDaemon \/ TrayStartsDaemon \/ TrayReadsState
        \/ TrayQuits \/ SystemdRestartsTray
Listener == \/ ListenerChecks \/ ListenerStartsDaemon \/ ListenerSubscribes
            \/ ListenerWakes

Next == \/ Daemon \/ Watchdog \/ Tray \/ Listener
        \/ DaemonFails \/ TrayFails \/ Quit \/ Launch \/ LaunchDaemon

\* Every thread runs, and systemd restarts what failed.
Spec == /\ Init /\ [][Next]_vars
        /\ WF_vars(Daemon) /\ WF_vars(Watchdog) /\ WF_vars(Tray) /\ WF_vars(Listener)

--------------------------------------------------------------------------------
Both == daemon = "up" /\ tray = "run"
Neither == daemon = "off" /\ tray = "off"

\* The exception: a listener that waits for a signal does not notice that the
\* daemon has left, so that the tray stays when nobody brings the daemon back.
Deaf == daemon = "off" /\ tray = "run" /\ listener = "listen"

\* README.md: "daemon + tray are treated as one application lifecycle".  Whichever
\* of the two is missing, because it failed, was started alone or cannot be
\* started at all, both run in the end or none does: a daemon, which has the
\* keyboard, never stays without a tray, no tray is stuck on its way, and a tray
\* stays without a daemon only when it is Deaf.  And Quit ends the application
\* for good, although the watchdog of the daemon and the listener of the tray
\* each see the other side leave, unless one of them is past its look.
PairRunsTogether ==
  /\ []<>(Both \/ Neither \/ Deaf)
  /\ <>[](quit = "settled") => <>[]Neither

================================================================================
