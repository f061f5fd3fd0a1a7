------------------------------ MODULE StartupProofs ------------------------------
(* Proof of what can make the process panic once Load has accepted its variables. *)
EXTENDS Startup, TLAPS

\* The release interval is compared with zero before anything is started, and the
\* goroutines are started after everything is loaded.
ReleaseIntervalIsChecked ==
    /\ stage \notin {"loadDatabase", "loadThresholds", "loadRelease", "exited"} =>
          config["RELEASE_POLL_INTERVAL_SECONDS"] \in {"positive", "excessive"}
    /\ \A g \in Goroutines :
          running[g] # "none" => stage \in {"startRelease", "listen", "serving",
                                            "exited", "panicked"}

StartupInv == TypeOK /\ ReleaseIntervalIsChecked /\ PanicHasACause

LEMMA StartupInvInitially == Init => StartupInv
  BY DEF Init, StartupInv, TypeOK, ReleaseIntervalIsChecked, PanicHasACause, Stages,
         Loading, Starting, Settings, Number, Goroutines, Steps

\* What a variable that parses is read as.
LEMMA ReadNumbersAreNumbers ==
  ASSUME NEW env \in Env, Parses(env)
  PROVE  AsInt(env) \in Number
  BY DEF Env, Parses, AsInt, Number

LEMMA LoadKeepsInv ==
  ASSUME StartupInv,
         \/ \E url \in BOOLEAN, conns \in Env : LoadDatabaseConfig(url, conns)
         \/ \E workers, poll, cron \in Env, others \in BOOLEAN :
               LoadThresholdConfig(workers, poll, cron, others)
         \/ \E poll \in Env, others \in BOOLEAN : LoadReleaseConfig(poll, others)
         \/ \E alg, isDefault \in BOOLEAN, file, localFile \in {"missing", "bad", "good"} :
               LoadJWTConfig(alg, isDefault, file, localFile)
  PROVE  StartupInv'
  <1> USE DEF StartupInv
  <1>1. /\ config \in [Settings -> Number] /\ running \in [Goroutines -> Steps]
        /\ \A g \in Goroutines : stage \in Loading => running[g] = "none"
    BY DEF TypeOK, ReleaseIntervalIsChecked, Loading
  <1>2. stage \in Loading /\ running' = running
    BY DEF LoadDatabaseConfig, LoadThresholdConfig, LoadReleaseConfig, LoadJWTConfig, Loading
  <1>3. stage' \in Loading \cup {"connect", "exited"}
    BY DEF LoadDatabaseConfig, LoadThresholdConfig, LoadReleaseConfig, LoadJWTConfig,
           GoOnIf, Loading
  <1>4. config' \in [Settings -> Number]
    <2>1. ASSUME NEW url \in BOOLEAN, NEW conns \in Env, LoadDatabaseConfig(url, conns)
          PROVE  config' \in [Settings -> Number]
      BY <1>1, <2>1, ReadNumbersAreNumbers DEF LoadDatabaseConfig
    <2>2. ASSUME NEW workers \in Env, NEW poll \in Env, NEW cron \in Env,
                 NEW others \in BOOLEAN, LoadThresholdConfig(workers, poll, cron, others)
          PROVE  config' \in [Settings -> Number]
      BY <1>1, <2>2, ReadNumbersAreNumbers DEF LoadThresholdConfig
    <2>3. ASSUME NEW poll \in Env, NEW others \in BOOLEAN, LoadReleaseConfig(poll, others)
          PROVE  config' \in [Settings -> Number]
      BY <1>1, <2>3, ReadNumbersAreNumbers DEF LoadReleaseConfig
    <2> QED
      BY <1>1, <2>1, <2>2, <2>3 DEF LoadJWTConfig
  <1>5. TypeOK'
    BY <1>1, <1>2, <1>3, <1>4 DEF TypeOK, Stages, Starting
  <1>6. stage' \notin {"loadDatabase", "loadThresholds", "loadRelease", "exited"} =>
           config'["RELEASE_POLL_INTERVAL_SECONDS"] \in {"positive", "excessive"}
    <2>1. ASSUME NEW poll \in Env, NEW others \in BOOLEAN, LoadReleaseConfig(poll, others),
                 stage' # "exited"
          PROVE  config'["RELEASE_POLL_INTERVAL_SECONDS"] \in {"positive", "excessive"}
      <3>1. Parses(poll) /\ AsInt(poll) \notin {"negative", "zero"}
        BY <2>1 DEF LoadReleaseConfig, GoOnIf
      <3>2. config'["RELEASE_POLL_INTERVAL_SECONDS"] = AsInt(poll)
        BY <1>1, <2>1, <3>1 DEF LoadReleaseConfig, Settings
      <3> QED
        BY <3>1, <3>2, ReadNumbersAreNumbers DEF Number
    <2>2. ASSUME NEW url \in BOOLEAN, NEW conns \in Env, LoadDatabaseConfig(url, conns)
          PROVE  stage' \in {"loadThresholds", "exited"}
      BY <2>2 DEF LoadDatabaseConfig, GoOnIf
    <2>3. ASSUME NEW workers \in Env, NEW poll \in Env, NEW cron \in Env,
                 NEW others \in BOOLEAN, LoadThresholdConfig(workers, poll, cron, others)
          PROVE  stage' \in {"loadRelease", "exited"}
      BY <2>3 DEF LoadThresholdConfig, GoOnIf
    <2>4. ASSUME NEW alg \in BOOLEAN, NEW isDefault \in BOOLEAN,
                 NEW file \in {"missing", "bad", "good"},
                 NEW localFile \in {"missing", "bad", "good"},
                 LoadJWTConfig(alg, isDefault, file, localFile)
          PROVE  stage = "loadJWT" /\ config' = config
      BY <2>4 DEF LoadJWTConfig
    <2> QED
      BY <2>1, <2>2, <2>3, <2>4 DEF ReleaseIntervalIsChecked
  <1>7. ReleaseIntervalIsChecked'
    BY <1>1, <1>2, <1>6 DEF ReleaseIntervalIsChecked
  <1>8. PanicHasACause'
    BY <1>3 DEF PanicHasACause, Loading
  <1> QED
    BY <1>5, <1>7, <1>8

\* The Duration of a positive number is positive.
LEMMA PositiveStaysPositive ==
  ASSUME NEW n \in Number, NEW d \in Duration(n), d # "positive"
  PROVE  n # "positive"
  BY DEF Duration

LEMMA MainKeepsInv ==
  ASSUME StartupInv,
         \/ \E ok \in BOOLEAN : Connect(ok) \/ Listen(ok)
         \/ \E d \in Number : StartScheduler(d)
         \/ StartWorkerPool
         \/ StartReleaseWorker
  PROVE  StartupInv'
  <1> USE DEF StartupInv, TypeOK, Stages, Loading, Starting
  <1>1. ASSUME NEW ok \in BOOLEAN, Connect(ok) \/ Listen(ok)
        PROVE  StartupInv'
    BY <1>1 DEF Connect, Listen, GoOnIf, ReleaseIntervalIsChecked, PanicHasACause
  <1>2. ASSUME NEW d \in Number, StartScheduler(d)
        PROVE  StartupInv'
    <2>1. config["CRON_INTERVAL_MINUTES"] \in Number
      BY DEF Settings
    <2>2. d # "positive" => config["CRON_INTERVAL_MINUTES"] # "positive"
      BY <1>2, <2>1, PositiveStaysPositive DEF StartScheduler
    <2> QED
      BY <1>2, <2>2 DEF StartScheduler, Panic, ReleaseIntervalIsChecked, PanicHasACause
  <1>3. CASE StartWorkerPool \/ StartReleaseWorker
    <2>1. PICK g \in Goroutines :
             /\ running' = [running EXCEPT ![g] = "newTicker"] /\ config' = config
             /\ stage \in {"startPool", "startRelease"}
             /\ stage' \in {"startRelease", "listen"}
      BY <1>3 DEF StartWorkerPool, StartReleaseWorker, StartGoroutine, Goroutines
    <2>2. TypeOK'
      BY <2>1 DEF Steps
    <2>3. ReleaseIntervalIsChecked'
      BY <2>1 DEF ReleaseIntervalIsChecked
    <2> QED
      BY <2>1, <2>2, <2>3 DEF PanicHasACause
  <1> QED
    BY <1>1, <1>2, <1>3

LEMMA GoroutinesKeepInv ==
  ASSUME StartupInv,
         (\E g \in Goroutines, d \in Number : NewTicker(g, d)) \/ FirstCycle
  PROVE  StartupInv'
  <1> USE DEF StartupInv, TypeOK, Stages, Loading, Starting
  <1>1. ASSUME NEW g \in Goroutines, NEW d \in Number, NewTicker(g, d), d # "positive"
        PROVE  StartupInv'
    <2>1. Interval(g) \in Number
      BY DEF Interval, Settings
    <2>2. Interval(g) # "positive"
      BY <1>1, <2>1, PositiveStaysPositive DEF NewTicker
    <2>3. running[g] # "none" /\ Alive /\ stage' = "panicked" /\ UNCHANGED <<config, running>>
      BY <1>1 DEF NewTicker, Panic
    <2>4. config["RELEASE_POLL_INTERVAL_SECONDS"] \in {"positive", "excessive"}
      BY <2>3 DEF ReleaseIntervalIsChecked, Alive
    <2>5. PanicHasACause'
      BY <2>2, <2>3, <2>4 DEF PanicHasACause, Interval
    <2>6. ReleaseIntervalIsChecked'
      BY <2>3, <2>4 DEF ReleaseIntervalIsChecked
    <2> QED
      BY <2>3, <2>5, <2>6
  <1>2. CASE FirstCycle /\ stage' = "panicked"
    <2>1. /\ config["MAX_WORKERS"] = "negative" \/ config["MAX_WORKERS"] = "zero"
          /\ running["pool"] = "ticking" /\ stage \notin {"exited", "panicked"}
          /\ stage' = "panicked"
      BY <1>2 DEF FirstCycle, Alive
    <2>2. config["MAX_WORKERS"] = "negative" /\ UNCHANGED <<config, running>>
      BY <1>2, <2>1 DEF FirstCycle, Panic
    <2>3. config["RELEASE_POLL_INTERVAL_SECONDS"] \in {"positive", "excessive"}
      BY <2>1 DEF ReleaseIntervalIsChecked, Goroutines
    <2>4. ReleaseIntervalIsChecked'
      BY <2>1, <2>2, <2>3 DEF ReleaseIntervalIsChecked
    <2> QED
      BY <2>1, <2>2, <2>4 DEF PanicHasACause
  <1>3. ASSUME NEW g \in Goroutines, NEW step \in {"ticking", "blocked"},
               running[g] # "none",
               running' = [running EXCEPT ![g] = step], UNCHANGED <<stage, config>>
        PROVE  StartupInv'
    <2>1. TypeOK'
      BY <1>3 DEF Steps
    <2>2. ReleaseIntervalIsChecked'
      BY <1>3 DEF ReleaseIntervalIsChecked
    <2> QED
      BY <1>3, <2>1, <2>2 DEF PanicHasACause
  <1>4. ASSUME NEW g \in Goroutines, NEW d \in Number, NewTicker(g, d), d = "positive"
        PROVE  StartupInv'
    BY <1>3, <1>4 DEF NewTicker
  <1>5. CASE FirstCycle /\ stage' # "panicked"
    BY <1>3, <1>5 DEF FirstCycle, Panic, Goroutines
  <1> QED
    BY <1>1, <1>2, <1>4, <1>5

\* A panic of a started process comes from an interval of the pool or of the cron that
\* is not positive, from an interval that wraps around, or from a negative MAX_WORKERS,
\* and from nothing else: Load's own check of the release interval is effective.
THEOREM PanicsAreExplained == Spec => [](TypeOK /\ PanicHasACause)
  <1>1. StartupInv /\ [Next]_vars => StartupInv'
    <2> SUFFICES ASSUME StartupInv, [Next]_vars PROVE StartupInv'
      OBVIOUS
    <2>1. CASE UNCHANGED vars
      BY <2>1 DEF vars, StartupInv, TypeOK, ReleaseIntervalIsChecked, PanicHasACause
    <2> QED
      BY <2>1, LoadKeepsInv, MainKeepsInv, GoroutinesKeepInv DEF Next
  <1>2. StartupInv => TypeOK /\ PanicHasACause
    BY DEF StartupInv
  <1> QED
    BY <1>1, <1>2, StartupInvInitially, PTL DEF Spec
================================================================================
