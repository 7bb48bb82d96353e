-------------------------------- MODULE Flags --------------------------------
(***************************************************************************)
(* The feature flags of internal/flags with PostHog behind them: requests   *)
(* read a cache and never wait, a goroutine per distinct id refreshes it,   *)
(* and the environment answers when PostHog has not.                        *)
(***************************************************************************)
EXTENDS Naturals

CONSTANTS
    Actors,        \* distinct ids
    MaxFetches     \* bound: refreshes that are started

ASSUME FlagsAssumption == MaxFetches \in Nat

VARIABLES
    remote,        \* external: PostHog's answer for the flag, of each id
    cached,        \* cache: [Actors -> [has, fresh, flag]]
    inflight,
    fetches,       \* goroutines running refresh, of each id
    evaluated,     \* what each of them has fetched
    default,       \* FEATURE_<NAME> or the compiled default
    given,         \* what the last request of each id was told, and by whom
    begun

flagVars == <<remote, cached, inflight, fetches, evaluated, default, given, begun>>

\* A flag in the JSON answer: missing, a boolean or the name of a variant.
FlagValues == {"absent", "true", "false", "", "variant"}

FlagsInit ==
    /\ remote \in [Actors -> FlagValues]
    /\ cached = [i \in Actors |-> [has |-> FALSE, fresh |-> FALSE, flag |-> "absent"]]
    /\ inflight = [i \in Actors |-> FALSE]
    /\ fetches = [i \in Actors |-> 0]
    /\ evaluated = [i \in Actors |-> "none"]
    /\ default \in BOOLEAN
    /\ given = [i \in Actors |-> [by |-> "none", on |-> FALSE]]
    /\ begun = 0

-----------------------------------------------------------------------------

\* lookup starts a refresh when the entry is missing or stale and none is under way.
Starts(i) == (~cached[i].has \/ ~cached[i].fresh) /\ ~inflight[i]

\* fetch: a boolean as it is; of the variants, "" and "false" are off.
IsOn(flag) == flag \in {"true", "variant"}

Enabled(i) ==
    /\ Starts(i) => begun < MaxFetches
    /\ IF Starts(i)
       THEN /\ inflight' = [inflight EXCEPT ![i] = TRUE]
            /\ fetches' = [fetches EXCEPT ![i] = @ + 1]
            /\ begun' = begun + 1
       ELSE UNCHANGED <<inflight, fetches, begun>>
    /\ given' = [given EXCEPT ![i] =
            IF cached[i].has /\ cached[i].flag # "absent"
            THEN [by |-> "posthog", on |-> IsOn(cached[i].flag)]
            ELSE [by |-> "default", on |-> default]]
    /\ UNCHANGED <<remote, cached, evaluated, default>>

\* The request of a refresh is answered.
fetch(i) ==
    /\ fetches[i] > 0 /\ evaluated[i] = "none"
    /\ evaluated' = [evaluated EXCEPT ![i] = remote[i]]
    /\ UNCHANGED <<remote, cached, inflight, fetches, default, given, begun>>

\* The deferred delete runs on every return.
MarkAfter(i) == FALSE

\* A failed fetch leaves the old entry.
Kept(i) == cached[i]

\* The answer goes into the cache, under the lock.
refresh(i) ==
    /\ evaluated[i] \in FlagValues
    /\ cached' = [cached EXCEPT ![i] = [has |-> TRUE, fresh |-> TRUE, flag |-> evaluated[i]]]
    /\ evaluated' = [evaluated EXCEPT ![i] = "stored"]
    /\ UNCHANGED <<remote, inflight, fetches, default, given, begun>>

\* refresh returns, after the fetch has failed or its answer was stored.
RefreshReturns(i) ==
    /\ fetches[i] > 0 /\ evaluated[i] \in {"none", "stored"}
    /\ cached' = [cached EXCEPT ![i] = IF evaluated[i] = "none" THEN Kept(i) ELSE @]
    /\ evaluated' = [evaluated EXCEPT ![i] = "none"]
    /\ fetches' = [fetches EXCEPT ![i] = @ - 1]
    /\ inflight' = [inflight EXCEPT ![i] = MarkAfter(i)]
    /\ UNCHANGED <<remote, default, given, begun>>

\* decideCacheTTL.
EntryAges(i) ==
    /\ cached[i].has /\ cached[i].fresh
    /\ cached' = [cached EXCEPT ![i].fresh = FALSE]
    /\ UNCHANGED <<remote, inflight, fetches, evaluated, default, given, begun>>

\* External: somebody moves the flag in PostHog.
Rollout(i) ==
    /\ \E a \in FlagValues \ {remote[i]} : remote' = [remote EXCEPT ![i] = a]
    /\ UNCHANGED <<cached, inflight, fetches, evaluated, default, given, begun>>

FlagsNext == \E i \in Actors :
    \/ Enabled(i) \/ fetch(i) \/ refresh(i) \/ RefreshReturns(i)
    \/ EntryAges(i) \/ Rollout(i)

FlagsSpec == FlagsInit /\ [][FlagsNext]_flagVars

-----------------------------------------------------------------------------
(* Properties. *)

\* Every variable has its type.
FlagsTypeOK ==
    /\ remote \in [Actors -> FlagValues]
    /\ cached \in [Actors -> [has : BOOLEAN, fresh : BOOLEAN, flag : FlagValues]]
    /\ inflight \in [Actors -> BOOLEAN]
    /\ fetches \in [Actors -> 0..1]

\* The mark of a refresh stands exactly while one runs: a mark left behind would keep
\* the flag of that id as it is until the next restart.
MarkedWhileRunning == \A i \in Actors : inflight[i] <=> fetches[i] > 0

\* PostHog out of reach never takes an answer back: an id that was told what PostHog
\* says is told the default again only after PostHog has dropped the flag.
AnswersKept ==
    [][\A i \in Actors : (given[i].by = "posthog" /\ given'[i].by = "default")
                          => (cached[i].has /\ cached[i].flag = "absent")]_flagVars

\* One refresh per id, marked for as long as it runs (flags.go).
FlagsSafe == FlagsTypeOK /\ MarkedWhileRunning

=============================================================================
