------------------------- MODULE ConfigReload_proofs --------------------------
(***************************************************************************)
(* Only valid configurations come into force, whole, and the one that was  *)
(* announced last is the one that does, for any files, environments and    *)
(* limits.                                                                 *)
(*                                                                         *)
(* What is on its way from the watcher to the fields has been validated    *)
(* (ValidatedFirst); UpdateConfig has applied the fields before the one it *)
(* is at (AppliedSoFar); and after an announcement the configuration of    *)
(* the file is ahead of the watcher, with it, or in force (NewestAhead).   *)
(***************************************************************************)
EXTENDS ConfigReload, TLAPS

ValidatedFirst ==
  /\ Valid(cfg)
  /\ watcher = "send" => loaded \in Configurations /\ Valid(loaded)

AppliedSoFar ==
  /\ config \in {"url", "rest", "enabled", "select", "done"} => pollInterval = cfg.poll
  /\ config \in {"enabled", "select", "done"} => webhookURL = cfg.webhook
  /\ config \in {"select", "done"} => enabled = (cfg.webhook # NoURL)

NewestAhead ==
  announced /\ Loads(file) /\ ~signalled /\ shutdown = "none" =>
    /\ watcher = "select" => cfg = Loaded(file)
    /\ watcher = "send" => loaded = Loaded(file)

ReloadInv == TypeOK /\ ValidatedFirst /\ IntervalsValid /\ AppliedSoFar /\ NewestAhead
-----------------------------------------------------------------------------
\* What Load returns is a configuration.
LEMMA LoadedIsConfiguration ==
  ASSUME NEW f, Loads(f)
  PROVE  Loaded(f) \in Configurations /\ Valid(Loaded(f))
<1>1. /\ Loaded(f) = [poll |-> Loaded(f).poll, discovery |-> Loaded(f).discovery,
                       webhook |-> Loaded(f).webhook]
      /\ Valid(Loaded(f))
  BY DEF Loads, Loaded
<1>2. /\ Loaded(f).poll \in Int /\ Loaded(f).discovery \in Int
      /\ Loaded(f).webhook \in URLs \cup {NoURL}
  BY <1>1, ReloadAssumption DEF Valid, ValidIntervals
<1>. QED
  BY <1>1, <1>2 DEF Configurations

LEMMA ReloadInit == Init => ReloadInv
<1>. SUFFICES ASSUME Init PROVE ReloadInv
  OBVIOUS
<1>1. cfg = Loaded(file) /\ cfg \in Configurations /\ Valid(cfg)
  BY LoadedIsConfiguration DEF Init
<1>2. TypeOK
  BY <1>1 DEF Init, TypeOK, Configurations
<1>3. ValidatedFirst /\ AppliedSoFar /\ NewestAhead
  BY <1>1 DEF Init, ValidatedFirst, AppliedSoFar, NewestAhead
<1>4. IntervalsValid
  BY <1>1 DEF Init, IntervalsValid, Valid, ValidIntervals
<1>. QED
  BY <1>2, <1>3, <1>4 DEF ReloadInv
-----------------------------------------------------------------------------
\* Edits, signals and the end.
LEMMA OutsideKeeps ==
  ASSUME ReloadInv, Edit \/ Hangup \/ HangupKills \/ Shutdown
  PROVE  ReloadInv'
<1>. USE DEF input, watching, notifier, applied, others, ByOthers
<1>1. /\ UNCHANGED <<env, watcher, loaded, applied, alert, ticker>>
      /\ file' \in Contents \cup {Broken} /\ announced' \in BOOLEAN
      /\ signalled' \in BOOLEAN
      /\ shutdown' \in {"none", "watcher", "signals", "cancelled", "killed"}
  BY DEF ReloadInv, TypeOK, Edit, Hangup, HangupKills, Shutdown, ShutdownGoes
<1>2. TypeOK' /\ ValidatedFirst' /\ IntervalsValid' /\ AppliedSoFar'
  BY <1>1 DEF ReloadInv, TypeOK, ValidatedFirst, IntervalsValid, AppliedSoFar
<1>3. \/ announced' = FALSE \/ signalled' = TRUE \/ shutdown' # "none"
  BY DEF Edit, Hangup, HangupKills, Shutdown, ShutdownGoes
<1>4. NewestAhead'
  BY <1>3 DEF NewestAhead
<1>. QED
  BY <1>2, <1>4 DEF ReloadInv

\* The watcher loads the file; what does not load or is not valid it drops.
LEMMA WatchKeeps ==
  ASSUME ReloadInv, Watch
  PROVE  ReloadInv'
<1>. USE DEF input, watching, notifier, applied, others, ByWatcher
<1>1. UNCHANGED <<input, applied, others>>
  BY DEF Watch, WatchSeesDone, WatchReceives, WatchLoads
<1>2. IntervalsValid' /\ AppliedSoFar' /\ Valid(cfg)'
  BY <1>1 DEF ReloadInv, ValidatedFirst, IntervalsValid, AppliedSoFar, Valid,
              ValidIntervals
<1>3. CASE WatchSeesDone
  BY <1>1, <1>2, <1>3
     DEF WatchSeesDone, ReloadInv, TypeOK, ValidatedFirst, NewestAhead
<1>4. CASE WatchReceives
  BY <1>1, <1>2, <1>4
     DEF WatchReceives, ReloadInv, TypeOK, ValidatedFirst, NewestAhead
<1>5. CASE WatchLoads /\ Loads(file)
  <2>1. /\ watcher' = "send" /\ loaded' = Loaded(file) /\ UNCHANGED signalled
        /\ Loaded(file)' = Loaded(file)
    BY <1>1, <1>5 DEF WatchLoads, Loaded
  <2>2. Loaded(file) \in Configurations /\ Valid(Loaded(file))
    BY <1>5, LoadedIsConfiguration
  <2>3. TypeOK' /\ ValidatedFirst'
    BY <1>1, <1>2, <2>1, <2>2 DEF ReloadInv, TypeOK, ValidatedFirst, Valid, ValidIntervals
  <2>4. NewestAhead'
    BY <2>1 DEF NewestAhead
  <2>. QED
    BY <1>2, <2>3, <2>4 DEF ReloadInv
<1>6. CASE WatchLoads /\ ~Loads(file)
  <2>1. watcher' = "select" /\ UNCHANGED <<loaded, signalled>>
    BY <1>6 DEF WatchLoads
  <2>2. ~Loads(file)'
    BY <1>1, <1>6 DEF Loads, Loaded, Valid, ValidIntervals
  <2>. QED
    BY <1>1, <1>2, <2>1, <2>2 DEF ReloadInv, TypeOK, ValidatedFirst, NewestAhead
<1>. QED
  BY <1>3, <1>4, <1>5, <1>6 DEF Watch

\* The watcher's configuration is what UpdateConfig begins with.
LEMMA HandsOverKeeps ==
  ASSUME ReloadInv, HandsOver
  PROVE  ReloadInv'
<1>1. /\ watcher = "send" /\ cfg' = loaded /\ loaded' = Nothing
      /\ watcher' = "select" /\ config' = "interval"
      /\ UNCHANGED <<file, env, announced, signalled, pollInterval, webhookURL, enabled,
                     alert, ticker, shutdown>>
  BY DEF HandsOver, input, notifier, others
<1>2. loaded \in Configurations /\ Valid(loaded)
  BY <1>1 DEF ReloadInv, ValidatedFirst
<1>3. TypeOK' /\ IntervalsValid' /\ AppliedSoFar'
  BY <1>1, <1>2 DEF ReloadInv, TypeOK, IntervalsValid, AppliedSoFar
<1>4. ValidatedFirst'
  BY <1>1, <1>2 DEF ValidatedFirst, Valid, ValidIntervals
<1>5. NewestAhead'
  <2>1. Loaded(file)' = Loaded(file) /\ (Loads(file)' <=> Loads(file))
    BY <1>1 DEF Loaded, Loads, Valid, ValidIntervals
  <2>. QED
    BY <1>1, <2>1 DEF ReloadInv, NewestAhead
<1>. QED
  BY <1>3, <1>4, <1>5 DEF ReloadInv

\* UpdateConfig goes from field to field, and its goroutine ends between two of
\* them; alerts are sent and the ticker is made, of a valid configuration.
LEMMA ApplyingKeeps ==
  ASSUME ReloadInv,
         \/ Configure \/ ConfigSeesDone \/ MakesTicker
         \/ \E s \in Senders : Sends(s) \/ Posts(s)
  PROVE  ReloadInv'
<1>. USE DEF input, watching, notifier, applied, others, ByConfig, ByOthers
<1>1. UNCHANGED <<input, watching, cfg, shutdown>>
  BY DEF Configure, UpdatesPollInterval, WritesURL, WritesRest, WritesEnabled,
         ConfigSeesDone, MakesTicker, Sends, Posts
<1>2. ValidatedFirst' /\ NewestAhead'
  <2>1. Loaded(file)' = Loaded(file) /\ (Loads(file)' <=> Loads(file))
    BY <1>1 DEF Loaded, Loads, Valid, ValidIntervals
  <2>. QED
    BY <1>1, <2>1 DEF ReloadInv, ValidatedFirst, NewestAhead, Valid, ValidIntervals
<1>3. cfg \in Configurations /\ Valid(cfg)
  BY DEF ReloadInv, TypeOK, ValidatedFirst
<1>4. /\ cfg.poll \in Int /\ cfg.discovery \in Int /\ cfg.webhook \in URLs \cup {NoURL}
      /\ cfg.poll \in MinInterval..MaxPoll
      /\ cfg.discovery \in MinInterval..MaxDiscovery
  BY <1>3 DEF Configurations, Valid, ValidIntervals
<1>5. CASE UpdatesPollInterval
  BY <1>1, <1>2, <1>4, <1>5
     DEF UpdatesPollInterval, ReloadInv, TypeOK, IntervalsValid, AppliedSoFar
<1>6. CASE WritesURL
  BY <1>1, <1>2, <1>4, <1>6
     DEF WritesURL, ReloadInv, TypeOK, IntervalsValid, AppliedSoFar
<1>7. CASE WritesRest
  BY <1>1, <1>2, <1>4, <1>7
     DEF WritesRest, ReloadInv, TypeOK, IntervalsValid, AppliedSoFar
<1>8. CASE WritesEnabled
  BY <1>1, <1>2, <1>4, <1>8
     DEF WritesEnabled, ReloadInv, TypeOK, IntervalsValid, AppliedSoFar
<1>9. CASE ConfigSeesDone
  BY <1>1, <1>2, <1>9
     DEF ConfigSeesDone, ReloadInv, TypeOK, IntervalsValid, AppliedSoFar
<1>10. CASE MakesTicker
  BY <1>1, <1>2, <1>4, <1>10
     DEF MakesTicker, ReloadInv, TypeOK, IntervalsValid, AppliedSoFar
<1>11. ASSUME NEW s \in Senders, Sends(s) \/ Posts(s) PROVE ReloadInv'
  BY <1>1, <1>2, <1>11
     DEF Sends, Posts, ReloadInv, TypeOK, IntervalsValid, AppliedSoFar
<1>. QED
  BY <1>5, <1>6, <1>7, <1>8, <1>9, <1>10, <1>11 DEF Configure

LEMMA ReloadNext == ReloadInv /\ [Next]_vars => ReloadInv'
<1>. SUFFICES ASSUME ReloadInv, [Next]_vars PROVE ReloadInv'
  OBVIOUS
<1>1. CASE Next
  BY <1>1, OutsideKeeps, WatchKeeps, HandsOverKeeps, ApplyingKeeps DEF Next
<1>2. CASE UNCHANGED vars
  BY <1>2 DEF vars, input, watching, notifier, applied, others, ReloadInv, TypeOK,
              ValidatedFirst, IntervalsValid, AppliedSoFar, NewestAhead, Loads, Loaded,
              Valid, ValidIntervals
<1>. QED
  BY <1>1, <1>2

LEMMA AlwaysReloadInv == Spec => []ReloadInv
BY ReloadInit, ReloadNext, PTL DEF Spec

\* Type correctness of the reload.
THEOREM ReloadTyped == Spec => []TypeOK
<1>1. ReloadInv => TypeOK
  BY DEF ReloadInv
<1>. QED
  BY <1>1, AlwaysReloadInv, PTL

\* No file, environment or reload gives the monitors or the main loop an interval
\* that time.NewTicker panics on or that validation refuses.
THEOREM IntervalsStayValid == Spec => []IntervalsValid
<1>1. ReloadInv => IntervalsValid
  BY DEF ReloadInv
<1>. QED
  BY <1>1, AlwaysReloadInv, PTL

\* One place in reloadChan is enough (watcher.go:28): when the goroutines wait and
\* no signal is left, the file that was announced last is in force as a whole.
THEOREM SettledCurrent == Spec => []SettledIsCurrent
<1>1. ReloadInv => SettledIsCurrent
  BY DEF ReloadInv, SettledIsCurrent, NewestAhead, AppliedSoFar, AppliedWhole
<1>. QED
  BY <1>1, AlwaysReloadInv, PTL
=============================================================================
