---------------------------- MODULE ConfigReload ----------------------------
(***************************************************************************)
(* Reloading the configuration: config/watcher.go, Load of                 *)
(* config/config.go, the configuration goroutine of main.go with           *)
(* UpdateConfig, and the notifier of pkg/slacknotifier it reconfigures.    *)
(*                                                                         *)
(* Whoever runs the program edits the file and sends SIGHUP; the watcher's *)
(* goroutine loads the file and hands the result over an unbuffered        *)
(* channel; the configuration goroutine applies it field by field, while   *)
(* goroutines that send alerts read the notifier without a lock and the    *)
(* main goroutine makes its discovery ticker.  A SIGHUP that finds one     *)
(* waiting in reloadChan is dropped.                                       *)
(*                                                                         *)
(* Of a configuration only what a reload applies or validation relates to  *)
(* it is kept.  A content stands for the configured profile of the file; a *)
(* file that cannot be read or parsed, that has no such profile, or whose  *)
(* other fields are invalid is Broken.                                     *)
(***************************************************************************)
EXTENDS Integers

CONSTANTS
  Contents,            \* [poll, discovery, webhook] records a file may hold
  Broken,
  Environments,        \* the same, for the variables that override them
  Unset, Unparsable,   \* a variable that is not set, or is no duration
  URLs, NoURL, Torn,   \* webhook URLs, "", and a string read while written
  MinInterval, MaxPoll, MaxDiscovery,   \* the limits of the validate tags
  DefaultPoll, DefaultDiscovery,        \* setDefaults
  Nothing,             \* neither a configuration nor an interval
  Senders              \* goroutines that send alerts

ASSUME ReloadAssumption ==
  /\ MinInterval \in Nat \ {0} /\ MaxPoll \in Nat /\ MaxDiscovery \in Nat
  /\ Broken \notin Contents
  /\ NoURL \notin URLs /\ Torn \notin URLs /\ Torn # NoURL

VARIABLES
  file,           \* what Load would find
  env,            \* the process's environment, fixed when it starts
  announced,      \* a SIGHUP was sent after the last edit
  signalled,      \* reloadChan holds a signal
  watcher,        \* Watcher.watch: select, load, send, done
  loaded,         \* the configuration it sends, or Nothing
  config,         \* startConfigWatcher's goroutine: select, in UpdateConfig, done
  cfg,            \* a.cfg
  pollInterval,   \* the monitor's poll interval
  webhookURL,     \* Notifier.webhookURL
  enabled,        \* Notifier.enabled
  alert,          \* where each sender is in SendAlert
  ticker,         \* the interval of the discovery ticker, Nothing until it is made
  shutdown        \* performGracefulShutdown, from configWatcher.Stop on

input    == <<file, env, announced>>
watching == <<signalled, watcher, loaded>>
notifier == <<webhookURL, enabled>>
applied  == <<config, cfg, pollInterval, notifier>>
others   == <<alert, ticker, shutdown>>
vars == <<input, watching, applied, others>>

\* The contexts of the watcher and of the application are done; SIGHUP goes to
\* reloadChan.
Stopped   == shutdown # "none"
AppDone   == shutdown = "cancelled"
Alive     == shutdown # "killed"
Notifying == shutdown \in {"none", "watcher"}
-----------------------------------------------------------------------------
\* applyEnvironmentOverrides: a variable that is set, and parses, wins.
Override(setting, value) ==
  IF setting \in {Unset, Unparsable} THEN value ELSE setting

\* setDefaults: a zero is a field that was left out.
Default(value, default) == IF value = 0 THEN default ELSE value

\* Load, before it validates.
Loaded(content) ==
  [poll      |-> Default(Override(env.poll, content.poll), DefaultPoll),
   discovery |-> Default(Override(env.discovery, content.discovery),
                         DefaultDiscovery),
   webhook   |-> Override(env.webhook, content.webhook)]

\* Validate, by the fields' tags: the intervals, ...
ValidIntervals(c) ==
  /\ c.poll \in MinInterval..MaxPoll
  /\ c.discovery \in MinInterval..MaxDiscovery
  /\ c.discovery >= c.poll

\* Mutants: the webhook's tag does not ask for a URL; intervals have no lower limit.
ValidAnyURL(c) == ValidIntervals(c)
ValidBelow(c) == c.poll <= MaxPoll /\ c.discovery <= MaxDiscovery

\* ... and the webhook, a URL if it is not empty.
Valid(c) == ValidIntervals(c) /\ c.webhook \in URLs \cup {NoURL}

\* Load returns a configuration, which is Loaded(f), and not an error.
Loads(f) == f # Broken /\ Valid(Loaded(f))

\* main loaded a configuration, New and Run put it everywhere and have started
\* their goroutines; the first scan is under way.
Init ==
  /\ env \in Environments
  /\ file \in {f \in Contents : Loads(f)}
  /\ announced = FALSE
  /\ signalled = FALSE
  /\ watcher = "select"
  /\ cfg = Loaded(file)
  /\ loaded = Nothing
  /\ config = "select"
  /\ pollInterval = cfg.poll
  /\ webhookURL = cfg.webhook
  /\ enabled = (cfg.webhook # NoURL)
  /\ alert = [s \in Senders |-> "idle"]
  /\ ticker = Nothing
  /\ shutdown = "none"
-----------------------------------------------------------------------------
\* What the steps of the watcher, and of the configuration goroutine, leave alone.
ByWatcher == UNCHANGED <<input, applied, others>>
ByConfig  == UNCHANGED <<input, watching, cfg, others>>
ByOthers  == UNCHANGED <<input, watching, applied>>

\* The file is edited.
Edit ==
  /\ file' \in (Contents \cup {Broken}) \ {file}
  /\ announced' = FALSE
  /\ UNCHANGED <<env, watching, applied, others>>

\* Mutant: the signal is lost unless the watcher is waiting for it.
HangupUnbuffered ==
  /\ Notifying
  /\ signalled' = (signalled \/ watcher = "select")
  /\ announced' = TRUE
  /\ UNCHANGED <<file, env, watcher, loaded, applied, others>>

\* SIGHUP, one of which reloadChan holds, ...
Hangup ==
  /\ Notifying
  /\ signalled' = TRUE
  /\ announced' = TRUE
  /\ UNCHANGED <<file, env, watcher, loaded, applied, others>>

\* ... and which ends the process once signal.Stop has given it back its default.
HangupKills ==
  /\ ~Notifying
  /\ shutdown' = "killed"
  /\ ByOthers /\ UNCHANGED <<alert, ticker>>

\* watch, its select: the context is done, ...
WatchSeesDone ==
  /\ Stopped /\ watcher = "select"
  /\ watcher' = "done"
  /\ ByWatcher /\ UNCHANGED <<signalled, loaded>>

\* ... or a signal came.
WatchReceives ==
  /\ signalled /\ watcher = "select"
  /\ signalled' = FALSE
  /\ watcher' = "load"
  /\ ByWatcher /\ UNCHANGED loaded

\* Mutant: an error ends the watcher.
WatchLoadsOrEnds ==
  /\ watcher = "load"
  /\ IF Loads(file)
     THEN watcher' = "send" /\ loaded' = Loaded(file)
     ELSE watcher' = "done" /\ UNCHANGED loaded
  /\ ByWatcher /\ UNCHANGED signalled

\* The file is loaded; an error is logged.
WatchLoads ==
  /\ watcher = "load"
  /\ IF Loads(file)
     THEN watcher' = "send" /\ loaded' = Loaded(file)
     ELSE watcher' = "select" /\ UNCHANGED loaded
  /\ ByWatcher /\ UNCHANGED signalled

\* The channel has no buffer: the configuration goroutine receives in its
\* select what the watcher sends, and UpdateConfig begins.
HandsOver ==
  /\ watcher = "send" /\ config = "select"
  /\ cfg' = loaded
  /\ loaded' = Nothing
  /\ watcher' = "select"
  /\ config' = "interval"
  /\ UNCHANGED <<input, signalled, pollInterval, notifier, others>>

\* UpdatePollInterval, under the monitor's mutex.
UpdatesPollInterval ==
  /\ config = "interval"
  /\ pollInterval' = cfg.poll
  /\ config' = "url"
  /\ ByConfig /\ UNCHANGED notifier

\* UpdateWebhookURL: a string that differs is not written in one piece, nor under
\* a lock.
WritesURL ==
  /\ config = "url"
  /\ IF webhookURL = cfg.webhook
     THEN config' = "enabled" /\ UNCHANGED webhookURL
     ELSE config' = "rest" /\ webhookURL' = Torn
  /\ ByConfig /\ UNCHANGED <<pollInterval, enabled>>

WritesRest ==
  /\ config = "rest"
  /\ webhookURL' = cfg.webhook
  /\ config' = "enabled"
  /\ ByConfig /\ UNCHANGED <<pollInterval, enabled>>

\* The flag follows the URL.
WritesEnabled ==
  /\ config = "enabled"
  /\ enabled' = (cfg.webhook # NoURL)
  /\ config' = "select"
  /\ ByConfig /\ UNCHANGED <<pollInterval, webhookURL>>

\* The configuration goroutine ends with the application's context.
ConfigSeesDone ==
  /\ AppDone /\ config = "select"
  /\ config' = "done"
  /\ ByConfig /\ UNCHANGED <<pollInterval, notifier>>
-----------------------------------------------------------------------------
\* SendAlert or SendMessage finds the notifier enabled, ...
Sends(s) ==
  /\ alert[s] = "idle"
  /\ enabled
  /\ alert' = [alert EXCEPT ![s] = "post"]
  /\ ByOthers /\ UNCHANGED <<ticker, shutdown>>

\* ... and sendPayload posts to the URL of that moment.
Posts(s) ==
  /\ alert[s] = "post"
  /\ alert' = [alert EXCEPT ![s] = "idle"]
  /\ ByOthers /\ UNCHANGED <<ticker, shutdown>>

\* runMainLoop makes its ticker, after the first scan and once and for all.
MakesTicker ==
  /\ ticker = Nothing
  /\ ticker' = cfg.discovery
  /\ ByOthers /\ UNCHANGED <<alert, shutdown>>

\* The shutdown goes on.
ShutdownGoes(from, to) ==
  /\ shutdown = from /\ shutdown' = to
  /\ ByOthers /\ UNCHANGED <<alert, ticker>>

\* Mutant: the last step of the shutdown is left out.
ShutdownNeverCancels ==
  ShutdownGoes("none", "watcher") \/ ShutdownGoes("watcher", "signals")

\* performGracefulShutdown: Stop cancels the watcher's context and stops the
\* notification, and then the application's context is cancelled.
Shutdown ==
  \/ ShutdownGoes("none", "watcher")
  \/ ShutdownGoes("watcher", "signals")
  \/ ShutdownGoes("signals", "cancelled")

Watch     == WatchSeesDone \/ WatchReceives \/ WatchLoads
Configure == UpdatesPollInterval \/ WritesURL \/ WritesRest \/ WritesEnabled

Next ==
  /\ Alive
  /\ \/ Edit \/ Hangup \/ HangupKills
     \/ Watch \/ HandsOver \/ Configure \/ ConfigSeesDone
     \/ \E s \in Senders : Sends(s) \/ Posts(s)
     \/ MakesTicker \/ Shutdown

Spec == Init /\ [][Next]_vars

\* Goroutines run, and a shutdown that began goes on; nobody has to edit, signal
\* or shut down.
FairSpec ==
  /\ Spec
  /\ WF_vars(Alive /\ Watch)
  /\ WF_vars(Alive /\ HandsOver)
  /\ WF_vars(Alive /\ Configure)
  /\ WF_vars(Alive /\ ConfigSeesDone)
  /\ WF_vars(Alive /\ Stopped /\ Shutdown)
-----------------------------------------------------------------------------
Configurations == [poll : Int, discovery : Int, webhook : URLs \cup {NoURL}]

TypeOK ==
  /\ file \in Contents \cup {Broken}
  /\ env \in Environments
  /\ announced \in BOOLEAN
  /\ signalled \in BOOLEAN
  /\ watcher \in {"select", "load", "send", "done"}
  /\ loaded \in Configurations \cup {Nothing}
  /\ config \in {"select", "interval", "url", "rest", "enabled", "done"}
  /\ cfg \in Configurations
  /\ pollInterval \in Int
  /\ webhookURL \in URLs \cup {NoURL, Torn}
  /\ enabled \in BOOLEAN
  /\ alert \in [Senders -> {"idle", "post"}]
  /\ ticker \in Int \cup {Nothing}
  /\ shutdown \in {"none", "watcher", "signals", "cancelled", "killed"}

\* time.NewTicker and Ticker.Reset panic unless the interval is positive: no
\* file, environment or reload gives the monitors or the main loop one that is
\* not, or an interval that validation would refuse.
IntervalsValid ==
  /\ pollInterval \in MinInterval..MaxPoll
  /\ ticker # Nothing => ticker \in MinInterval..MaxDiscovery

\* UpdateConfig applies a configuration as a whole: between two reloads the
\* monitor and the notifier agree with a.cfg.
AppliedWhole ==
  config \in {"select", "done"} =>
    /\ pollInterval = cfg.poll
    /\ webhookURL = cfg.webhook
    /\ enabled = (cfg.webhook # NoURL)

\* watcher.go:28, a channel for one signal is enough: when both goroutines wait
\* and no signal is left, what is in force, in the monitor and in the notifier
\* too, is the file as it was when last announced, however signals, edits and
\* loads were interleaved.
SettledIsCurrent ==
  /\ announced /\ Loads(file) /\ ~signalled
  /\ watcher = "select" /\ config = "select" /\ shutdown = "none"
  => cfg = Loaded(file) /\ AppliedWhole

\* A change that was announced is applied, unless the file changes again or the
\* program is shut down; a file that failed to load before does not prevent it.
AnnouncedIsApplied ==
  announced /\ Loads(file) ~>
    \/ Loads(file) /\ cfg = Loaded(file) /\ config = "select"
    \/ ~announced \/ Stopped

\* A reload under way does not keep the program from ending: performCleanup's
\* wg.Wait gets the configuration goroutine's Done.
ConfigEnds == Stopped ~> config = "done" \/ ~Alive
-----------------------------------------------------------------------------
\* watcher.go:40, Stop stops the configuration watcher: its goroutine ends.
WatcherStops == Stopped ~> watcher = "done" \/ ~Alive

\* config.go:96, gtefield=PollInterval: what is in force has the same relation
\* that validation asks of a file.
DiscoveryNotFaster == ticker # Nothing => ticker >= pollInterval

\* slack.go:14, graceful handling of disabled notifiers (empty webhook URL): no
\* alert is posted to an empty one.
DisabledPostsNothing ==
  [][\A s \in Senders :
       alert[s] = "post" /\ alert'[s] = "idle" => webhookURL # NoURL]_vars
=============================================================================
