------------------------------ MODULE MCServer ------------------------------
(***************************************************************************)
(* The parts of the server around the drills, for model checking.  They      *)
(* share no row with one another: rights, plans, keys and flags are read      *)
(* afresh in every request, which is how each module lets them change.  A     *)
(* behaviour of several parts is therefore an interleaving of one of each,    *)
(* every property speaks of one part, and each part is explored with the      *)
(* others at rest.                                                          *)
(***************************************************************************)
EXTENDS RateLimiter, Listing, Catalog, Handover, Readiness, Checks,
        Flags, Devices, Boot, JobQueue, Retention, DataExport

VARIABLE part      \* the part this behaviour is about

requestVars == <<limiterVars, listVars, dbVars>>
reportVars == <<handVars, readyVars, checkVars>>
processVars == <<flagVars, deviceVars, bootVars>>
jobTableVars == <<queueVars, retentionVars, exportVars>>
vars == <<part, requestVars, reportVars, processVars, jobTableVars>>

\* Members, databases, assertions, drills and their results, as the exporter reads them.
SectionOf == <<0, 0, 2, 2, 4>>

Parts == {"limiter", "listing", "catalog", "handover", "readiness", "checks",
          "flags", "devices", "boot", "queue", "retention", "export"}

\* A part at rest is explored from one of its initial states only.
Init ==
    /\ part \in Parts
    /\ RateInit
    /\ ListingInit /\ (part # "listing" => feed = "drills")
    /\ CatalogInit
    /\ HandoverInit /\ (part # "handover" => taker = "api" /\ active = 1)
    /\ ReadinessInit /\ (part # "readiness" => cadence = "off")
    /\ CheckInit /\ (part # "checks" => restored = CHOOSE db \in RestoredDbs : TRUE)
    /\ FlagsInit /\ (part # "flags" => ~default /\ \A i \in Actors : remote[i] = "absent")
    /\ DevicesInit /\ BootInit /\ QueueInit /\ RetentionInit /\ ExportInit

RequestNext ==
    \/ part = "limiter" /\ RateNext /\ UNCHANGED <<listVars, dbVars>>
    \/ part = "listing" /\ ListingNext /\ UNCHANGED <<limiterVars, dbVars>>
    \/ part = "catalog" /\ CatalogNext /\ UNCHANGED <<limiterVars, listVars>>

ReportNext ==
    \/ part = "handover" /\ HandoverNext /\ UNCHANGED <<readyVars, checkVars>>
    \/ part = "readiness" /\ ReadinessNext /\ UNCHANGED <<handVars, checkVars>>
    \/ part = "checks" /\ CheckNext /\ UNCHANGED <<handVars, readyVars>>

ProcessNext ==
    \/ part = "flags" /\ FlagsNext /\ UNCHANGED <<deviceVars, bootVars>>
    \/ part = "devices" /\ DevicesNext /\ UNCHANGED <<flagVars, bootVars>>
    \/ part = "boot" /\ BootNext /\ UNCHANGED <<flagVars, deviceVars>>

JobTableNext ==
    \/ part = "queue" /\ QueueNext /\ UNCHANGED <<retentionVars, exportVars>>
    \/ part = "retention" /\ RetentionNext /\ UNCHANGED <<queueVars, exportVars>>
    \/ part = "export" /\ ExportNext /\ UNCHANGED <<queueVars, retentionVars>>

Next ==
    \/ RequestNext /\ UNCHANGED <<part, reportVars, processVars, jobTableVars>>
    \/ ReportNext /\ UNCHANGED <<part, requestVars, processVars, jobTableVars>>
    \/ ProcessNext /\ UNCHANGED <<part, requestVars, reportVars, jobTableVars>>
    \/ JobTableNext /\ UNCHANGED <<part, requestVars, reportVars, processVars>>

Spec == Init /\ [][Next]_vars

-----------------------------------------------------------------------------
\* What a drill concludes, and what the badge makes of it (assertions.go, readiness.go).
VerdictsSafe == ChecksSafe /\ ReadinessSafe

\* What the process starts, keeps in memory and takes down (main.go, flags.go, push.go).
ProcessSafe == BootSafe /\ FlagsSafe /\ DevicesSafe

\* Jobs and the statements they run over tables that others use (drill_quota.go, retention.go,
\* export.go).
JobTablesSafe == QueueSafe /\ RetentionSafe /\ ExportSafe

\* A score rises only by a drill that proves something, and a flag PostHog answered is not
\* lost to a failed refresh.
OnlyForward == RisesByProof /\ AnswersKept

=============================================================================
