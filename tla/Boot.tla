--------------------------------- MODULE Boot ---------------------------------
(***************************************************************************)
(* The server process: config.Load and the order in which cmd/server/main   *)
(* brings the parts up, what runs while it is up, and the order in which    *)
(* its deferred calls take them down after a signal.  A part that cannot be *)
(* set up ends the process with os.Exit, which runs no deferred call.       *)
(***************************************************************************)
EXTENDS Naturals, Sequences

CONSTANTS
    MaxWorkers,    \* jobs river runs at a time
    MaxRequests,   \* bound: requests that run at a time
    MaxBoots       \* bound: how often the process is started

ASSUME BootAssumption == {MaxWorkers, MaxRequests, MaxBoots} \subseteq Nat

VARIABLES
    conf,          \* the environment variables that decide whether it may start
    upTo,          \* how many parts of Startup are up
    shut,          \* deferred calls still to run
    life,          \* "down", "starting", "up", "draining", "stopping"
    schema,        \* the migrations of this release are applied
    staged,        \* the sample dump is on the disk of the machine
    poolOpen, fetching,
    requests, jobs,
    late,          \* history: a time-out of the shutdown ran out
    boots

bootVars == <<conf, upTo, shut, life, schema, staged, poolOpen, fetching, requests, jobs, late, boots>>

Confs == [env : {"dev", "staging", "prod"}, base : BOOLEAN, key : BOOLEAN, skipMigrate : BOOLEAN]

BootInit ==
    /\ conf = [env |-> "dev", base |-> FALSE, key |-> FALSE, skipMigrate |-> FALSE]
    /\ upTo = 0 /\ shut = <<>> /\ life = "down"
    /\ schema = FALSE /\ staged = FALSE /\ poolOpen = FALSE /\ fetching = FALSE
    /\ requests = 0 /\ jobs = 0 /\ late = FALSE /\ boots = 0

-----------------------------------------------------------------------------
(* Coming up. *)

\* Outside dev, BASE_URL and SESSION_KEY are required; DATABASE_URL always is.
Load(c) == c.env # "dev" => c.base /\ c.key

\* The order of main.
Startup == <<"load", "migrate", "open", "sample", "keys", "river", "listen">>

\* A new release, or a restart on a fresh disk, with the environment it is given.
Launch ==
    /\ life = "down" /\ boots < MaxBoots
    /\ conf' \in Confs
    /\ life' = "starting" /\ boots' = boots + 1
    /\ upTo' = 0 /\ shut' = <<>> /\ late' = FALSE
    /\ schema' \in BOOLEAN /\ staged' = FALSE
    /\ poolOpen' = FALSE /\ fetching' = FALSE /\ requests' = 0 /\ jobs' = 0

\* os.Exit(1).
Exit ==
    /\ life' = "down" /\ upTo' = 0 /\ shut' = <<>>
    /\ poolOpen' = FALSE /\ fetching' = FALSE /\ requests' = 0 /\ jobs' = 0
    /\ UNCHANGED <<conf, schema, staged, late, boots>>

\* Mutant: the calls are deferred in the order they should run.
Deferred_Fifo(part) == Append(shut, part)

\* defer: the last part that came up is taken down first.
Deferred(part) == <<part>> \o shut

\* The next part comes up.
BringUp ==
    /\ life = "starting" /\ upTo < Len(Startup)
    /\ LET part == Startup[upTo + 1] IN
        /\ part = "load" => Load(conf)
        /\ schema' = (schema \/ (part = "migrate" /\ ~conf.skipMigrate))
        /\ poolOpen' = (poolOpen \/ part = "open")
        /\ staged' = (staged \/ part = "sample")
        /\ fetching' = (fetching \/ part = "river")
        /\ shut' = IF part \in {"open", "river"} THEN Deferred(part) ELSE shut
        /\ life' = IF part = "listen" THEN "up" ELSE life
    /\ upTo' = upTo + 1
    /\ UNCHANGED <<conf, requests, jobs, late, boots>>

\* The part fails: every error of main up to the queue's start is fatal.
StartFails ==
    /\ life = "starting" /\ upTo < Len(Startup) - 1
    /\ Exit

-----------------------------------------------------------------------------
(* Working. *)

Request ==
    /\ life = "up" /\ requests < MaxRequests
    /\ requests' = requests + 1
    /\ UNCHANGED <<conf, upTo, shut, life, schema, staged, poolOpen, fetching, jobs, late, boots>>

RequestEnds ==
    /\ requests > 0 /\ requests' = requests - 1
    /\ UNCHANGED <<conf, upTo, shut, life, schema, staged, poolOpen, fetching, jobs, late, boots>>

SlotFree == jobs < MaxWorkers

\* External: river works jobs from its start until it is told to stop.
Job ==
    /\ fetching /\ SlotFree
    /\ jobs' = jobs + 1
    /\ UNCHANGED <<conf, upTo, shut, life, schema, staged, poolOpen, fetching, requests, late, boots>>

JobEnds ==
    /\ jobs > 0 /\ jobs' = jobs - 1
    /\ UNCHANGED <<conf, upTo, shut, life, schema, staged, poolOpen, fetching, requests, late, boots>>

-----------------------------------------------------------------------------
(* Going down. *)

\* SIGTERM, or ListenAndServe returned an error: the root context is done, the server
\* takes no more requests; river, started under that context, fetches no more jobs.
Signal ==
    /\ life = "up"
    /\ life' = "draining" /\ fetching' = FALSE
    /\ UNCHANGED <<conf, upTo, shut, schema, staged, poolOpen, requests, jobs, late, boots>>

\* srv.Shutdown waits for the requests, or for its time-out.
ShutdownReturns ==
    /\ life = "draining"
    /\ life' = "stopping"
    /\ \/ requests = 0 /\ UNCHANGED late
       \/ requests > 0 /\ late' = TRUE
    /\ UNCHANGED <<conf, upTo, shut, schema, staged, poolOpen, fetching, requests, jobs, boots>>

\* riverClient.Stop waits for the jobs, or for its time-out; pool.Close.
RunDeferred ==
    /\ life = "stopping" /\ shut # <<>>
    /\ \/ /\ Head(shut) = "river"
          /\ \/ jobs = 0 /\ UNCHANGED late
             \/ jobs > 0 /\ late' = TRUE
          /\ UNCHANGED poolOpen
       \/ /\ Head(shut) = "open"
          /\ poolOpen' = FALSE
          /\ UNCHANGED late
    /\ shut' = Tail(shut)
    /\ UNCHANGED <<conf, upTo, life, schema, staged, fetching, requests, jobs, boots>>

\* main returns.
Returns ==
    /\ life = "stopping" /\ shut = <<>>
    /\ Exit

\* The platform kills the process, at any time.
Killed ==
    /\ life # "down"
    /\ Exit

BootNext ==
    \/ Launch \/ BringUp \/ StartFails
    \/ Request \/ RequestEnds \/ Job \/ JobEnds
    \/ Signal \/ ShutdownReturns \/ RunDeferred \/ Returns \/ Killed

BootSpec == BootInit /\ [][BootNext]_bootVars

-----------------------------------------------------------------------------
(* Properties. *)

\* Every variable has its type; river runs no more jobs than it has workers.
BootTypeOK ==
    /\ conf \in Confs /\ upTo \in 0..Len(Startup)
    /\ life \in {"down", "starting", "up", "draining", "stopping"}
    /\ requests \in 0..MaxRequests /\ jobs \in 0..MaxWorkers
    /\ schema \in BOOLEAN /\ staged \in BOOLEAN /\ poolOpen \in BOOLEAN /\ late \in BOOLEAN

\* No request is answered outside dev with the built-in session key, or with links made
\* from the Host header.
ServedConfigured ==
    requests > 0 => conf.env = "dev" \/ (conf.base /\ conf.key)

\* Nothing works before what it needs: a job finds the sample dump on the disk, a job or
\* a request the schema of its release, unless migrating was switched off.
ReadyBeforeWork ==
    jobs + requests > 0 => staged /\ (schema \/ conf.skipMigrate)

\* The pool is not closed under a request or a job, unless the shutdown had waited for
\* it as long as it would.
PoolOutlivesWork ==
    life \in {"up", "draining", "stopping"} /\ jobs + requests > 0 => poolOpen \/ late

\* Nothing is served before what it needs is up, or after it is down (main.go).
BootSafe == BootTypeOK /\ ServedConfigured /\ ReadyBeforeWork /\ PoolOutlivesWork

=============================================================================
