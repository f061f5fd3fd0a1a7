--------------------------------- MODULE Startup ---------------------------------
(* From the environment variables to the running process: Load of
   internal/platform/config/config.go, then the start sequence of cmd/server/main.go
   and what the goroutines it starts do first with the numbers they were given.

   A number is known by its sign and by whether it is excessive: more than an int32
   holds, or so many seconds or minutes that the product with time.Second or
   time.Minute wraps around in the 64 bits of a time.Duration. *)

VARIABLES
    stage,   \* what main does next, or how the process ended
    config,  \* the numbers that Load has accepted and that matter later
    running  \* the background goroutines, with what each does next

vars == <<stage, config, running>>

\* What a variable of the environment may hold, and what is read from it.
Env == {"unset", "unparsable", "negative", "zero", "positive", "excessive"}
Number == {"negative", "zero", "positive", "excessive"}

Settings == {"DATABASE_MAX_CONNS", "MAX_WORKERS", "WORKER_POLL_INTERVAL_SECONDS",
             "CRON_INTERVAL_MINUTES", "RELEASE_POLL_INTERVAL_SECONDS"}

Loading == {"loadDatabase", "loadThresholds", "loadRelease", "loadJWT"}
Starting == {"connect", "startScheduler", "startPool", "startRelease", "listen"}
Stages == Loading \cup Starting \cup {"serving", "exited", "panicked"}

Goroutines == {"pool", "release"}
Steps == {"none", "newTicker", "ticking", "blocked"}

TypeOK ==
    /\ stage \in Stages
    /\ config \in [Settings -> Number]
    /\ running \in [Goroutines -> Steps]

\* Every default is a positive number.
Init ==
    /\ stage = "loadDatabase"
    /\ config = [s \in Settings |-> "positive"]
    /\ running = [g \in Goroutines |-> "none"]

--------------------------------------------------------------------------------
(* Load.  An error ends the process with exit code 1. *)

Parses(env) == env # "unparsable"

\* getEnvAsInt of a variable that parses.
AsInt(env) == IF env = "unset" THEN "positive" ELSE env

GoOnIf(ok, next) == stage' = IF ok THEN next ELSE "exited"

\* loadDatabaseConfig: the URL is required, the number of connections an int32 >= 0.
LoadDatabaseConfig(urlIsSet, conns) ==
    /\ stage = "loadDatabase"
    /\ GoOnIf(urlIsSet /\ Parses(conns) /\ AsInt(conns) \notin {"negative", "excessive"},
              "loadThresholds")
    /\ config' = IF Parses(conns) THEN [config EXCEPT !["DATABASE_MAX_CONNS"] = AsInt(conns)]
                 ELSE config
    /\ UNCHANGED running

\* loadThresholdConfig: all of them, and the thresholds of kilometres and days, have
\* to parse.
LoadThresholdConfig(workers, poll, cron, othersParse) ==
    /\ stage = "loadThresholds"
    /\ GoOnIf(Parses(workers) /\ Parses(poll) /\ Parses(cron) /\ othersParse, "loadRelease")
    /\ config' = IF Parses(workers) /\ Parses(poll) /\ Parses(cron)
                 THEN [config EXCEPT !["MAX_WORKERS"] = AsInt(workers),
                                     !["WORKER_POLL_INTERVAL_SECONDS"] = AsInt(poll),
                                     !["CRON_INTERVAL_MINUTES"] = AsInt(cron)]
                 ELSE config
    /\ UNCHANGED running

\* The release settings and the client timeout; only this interval has to be > 0.
LoadReleaseConfig(poll, othersParse) ==
    /\ stage = "loadRelease"
    /\ GoOnIf(Parses(poll) /\ AsInt(poll) \notin {"negative", "zero"} /\ othersParse, "loadJWT")
    /\ config' = IF Parses(poll)
                 THEN [config EXCEPT !["RELEASE_POLL_INTERVAL_SECONDS"] = AsInt(poll)]
                 ELSE config
    /\ UNCHANGED running

\* loadJWTConfig: the file at the path, or the local one if the path is the default
\* and nothing is there; "bad" is a file that cannot be read or holds no RSA key.
LoadJWTConfig(algorithmIsKnown, isDefault, file, localFile) ==
    LET key == IF isDefault /\ file = "missing" /\ localFile # "missing" THEN localFile
               ELSE file
    IN  /\ stage = "loadJWT"
        /\ GoOnIf(algorithmIsKnown /\ key = "good", "connect")
        /\ UNCHANGED <<config, running>>

--------------------------------------------------------------------------------
(* main. *)

\* NewPostgresPool, which refuses a pool of no connection, and the two SQS clients.
Connect(reachable) ==
    /\ stage = "connect"
    /\ GoOnIf(reachable /\ config["DATABASE_MAX_CONNS"] # "zero", "startScheduler")
    /\ UNCHANGED <<config, running>>

\* The signs the Duration of a number may have once it is multiplied.
Duration(n) == IF n = "excessive" THEN Number \ {"excessive"} ELSE {n}

\* The process dies with the goroutine that panics.
Panic ==
    /\ stage' = "panicked"
    /\ UNCHANGED <<config, running>>

\* preventiveSvc.Start makes its ticker before its goroutine; NewTicker panics unless
\* the interval is positive.
StartScheduler(d) ==
    /\ stage = "startScheduler"
    /\ d \in Duration(config["CRON_INTERVAL_MINUTES"])
    /\ \/ d = "positive" /\ stage' = "startPool" /\ UNCHANGED <<config, running>>
       \/ d # "positive" /\ Panic

StartGoroutine(g, from, next) ==
    /\ stage = from
    /\ stage' = next
    /\ running' = [running EXCEPT ![g] = "newTicker"]
    /\ UNCHANGED config

StartWorkerPool == StartGoroutine("pool", "startPool", "startRelease")
StartReleaseWorker == StartGoroutine("release", "startRelease", "listen")

\* The server listens, or main gives up.
Listen(ok) ==
    /\ stage = "listen"
    /\ GoOnIf(ok, "serving")
    /\ UNCHANGED <<config, running>>

--------------------------------------------------------------------------------
(* The goroutines. *)

Alive == stage \notin {"exited", "panicked"}

Interval(g) == IF g = "pool" THEN config["WORKER_POLL_INTERVAL_SECONDS"]
               ELSE config["RELEASE_POLL_INTERVAL_SECONDS"]

NewTicker(g, d) ==
    /\ Alive /\ running[g] = "newTicker"
    /\ d \in Duration(Interval(g))
    /\ \/ /\ d = "positive"
          /\ running' = [running EXCEPT ![g] = "ticking"]
          /\ UNCHANGED <<stage, config>>
       \/ d # "positive" /\ Panic

\* A tick of the pool with rows in the queue: the channel of MAX_WORKERS tokens cannot
\* be negative, and with none the loop waits for its first token for ever.
FirstCycle ==
    /\ Alive /\ running["pool"] = "ticking"
    /\ \/ config["MAX_WORKERS"] = "negative" /\ Panic
       \/ /\ config["MAX_WORKERS"] = "zero"
          /\ running' = [running EXCEPT !["pool"] = "blocked"]
          /\ UNCHANGED <<stage, config>>

Next ==
    \/ \E url \in BOOLEAN, conns \in Env : LoadDatabaseConfig(url, conns)
    \/ \E workers, poll, cron \in Env, others \in BOOLEAN :
          LoadThresholdConfig(workers, poll, cron, others)
    \/ \E poll \in Env, others \in BOOLEAN : LoadReleaseConfig(poll, others)
    \/ \E alg, isDefault \in BOOLEAN, file, localFile \in {"missing", "bad", "good"} :
          LoadJWTConfig(alg, isDefault, file, localFile)
    \/ \E ok \in BOOLEAN : Connect(ok) \/ Listen(ok)
    \/ \E d \in Number : StartScheduler(d)
    \/ StartWorkerPool \/ StartReleaseWorker
    \/ \E g \in Goroutines, d \in Number : NewTicker(g, d)
    \/ FirstCycle

Spec == Init /\ [][Next]_vars

--------------------------------------------------------------------------------
(* Properties. *)

\* "It returns an error if any required variable is missing or invalid": no value that
\* Load accepts brings the process down once it has started (Load, main).
AcceptedValuesAreValid == stage # "panicked"

\* The other way round: a panic comes from one of these numbers, the release interval
\* only where the product wraps around, because it is the one that Load compares with
\* zero (the ReleasePollIntervalSecs check of Load).
PanicHasACause ==
    stage = "panicked" =>
       \/ config["WORKER_POLL_INTERVAL_SECONDS"] # "positive"
       \/ config["CRON_INTERVAL_MINUTES"] # "positive"
       \/ config["RELEASE_POLL_INTERVAL_SECONDS"] = "excessive"
       \/ config["MAX_WORKERS"] = "negative"
================================================================================
