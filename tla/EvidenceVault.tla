--------------------------- MODULE EvidenceVault ---------------------------
(***************************************************************************)
(* The evidence of one account: the per-account key, the encrypted files,  *)
(* their signature rows, the retention sweep and the erasure of the        *)
(* account (internal/evidence, internal/compliance, cmd/evidence-keys).    *)
(*                                                                         *)
(* One action is one SQL statement or one call of the file store; nothing  *)
(* is held between two of them.  Writers run Finalize (the report worker   *)
(* and the staff regeneration), Readers run Verify.  A PDF is a number     *)
(* (its digest), a data key is a number, a master key is a number.         *)
(***************************************************************************)
EXTENDS Integers, FiniteSets

CONSTANTS
    Drills,         \* the drills of the account
    Writers,        \* processes that may be inside Finalize
    Readers,        \* processes that may be inside Verify
    MaxPDFs,        \* bound: PDFs rendered
    MaxRotations,   \* bound: changes of the master keys
    MaxAttempts,    \* River's attempts of the purge job
    MaxFaults,      \* bound: failed statements and dead workers
    HasHeartbeats,  \* the account once had a heartbeat monitor
    S3,             \* evidence is in S3Store, not in LocalStore
    MayLoseMaster,  \* the operator may lose a master key
    FiresEarly      \* the purge job may fire before purge_after

Procs == Writers \cup Readers

ASSUME VaultAssumption ==
    /\ Drills # {} /\ Writers \cap Readers = {}
    /\ MaxPDFs \in Nat /\ MaxRotations \in Nat /\ MaxFaults \in Nat
    /\ MaxAttempts \in Nat \ {0}
    /\ S3 \in BOOLEAN /\ HasHeartbeats \in BOOLEAN
    /\ MayLoseMaster \in BOOLEAN /\ FiresEarly \in BOOLEAN

VARIABLES
    acct, graceOver,                    \* the accounts row: deleted_at, purge_after
    dek, minted,                        \* the account_evidence_keys row
    master, retired,                    \* the configured master keys
    file, sig, path,                    \* file store, evidence_signatures, evidence_path
    pdfs,                               \* PDFs rendered so far
    pc, drill, body, blob, wrapped,     \* the locals of Finalize and Verify
    verdict,                            \* what Verify returned
    expired, deleting,                  \* the locals of PurgeExpired
    request, job, attempts,             \* the deletion request and its River job
    ppc, paths,                         \* the locals of HardDelete
    opc, okey,                          \* the evidence-keys command
    faults,
    shredded, lost, rivals, disturbed   \* history, for the properties

keyVars == <<dek, minted>>
cfgVars == <<master, retired>>
rowVars == <<file, sig, path>>
locals == <<body, blob, wrapped>>
procVars == <<pdfs, pc, drill, locals, verdict>>
sweepVars == <<expired, deleting>>
eraseVars == <<acct, graceOver, request, job, attempts, ppc, paths>>
opVars == <<opc, okey>>
history == <<shredded, lost, rivals, disturbed>>
vars == <<keyVars, cfgVars, rowVars, procVars, sweepVars, eraseVars, opVars, faults, history>>

NoKey == [id |-> 0, by |-> 0]
NoFile == [body |-> 0, key |-> 0]
NoSig == [body |-> 0, expired |-> FALSE]
WrappedKeys == [id : Nat, by : Nat]
Blobs == [body : Nat, key : Nat]
Signatures == [body : Nat, expired : BOOLEAN]

TypeOK ==
    /\ acct \in {"live", "deleted", "gone"} /\ graceOver \in BOOLEAN
    /\ dek \in WrappedKeys /\ minted \in Nat
    /\ master \in Nat /\ retired \subseteq Nat
    /\ file \in [Drills -> Blobs]
    /\ sig \in [Drills -> Signatures]
    /\ path \in [Drills -> BOOLEAN]
    /\ pdfs \in Nat
    /\ pc \in [Procs -> {"idle", "read", "load", "mint", "reload", "unwrap",
                         "put", "sign", "mark", "check"}]
    /\ drill \in [Procs -> Drills] /\ body \in [Procs -> Nat]
    /\ blob \in [Procs -> Blobs] /\ wrapped \in [Procs -> WrappedKeys]
    /\ verdict \in [Readers -> {"none", "unsigned", "unreadable", "shredded", "tampered", "valid"}]
    /\ expired \subseteq (Drills \X BOOLEAN) /\ deleting \subseteq Drills
    /\ request \in {"none", "insert", "done"}
    /\ job \in {"none", "scheduled", "running", "noop", "done", "discarded"}
    /\ attempts \in Nat
    /\ ppc \in {"idle", "list", "shred", "files", "row", "complete"} /\ paths \subseteq Drills
    /\ opc \in {"idle", "rewrap", "shred"} /\ okey \in WrappedKeys
    /\ faults \in Nat
    /\ shredded \in BOOLEAN /\ lost \subseteq Nat /\ rivals \subseteq Drills
    /\ disturbed \subseteq Readers

Init ==
    /\ acct = "live" /\ graceOver = FALSE
    /\ dek = NoKey /\ minted = 0
    /\ master = 1 /\ retired = {}
    /\ file = [d \in Drills |-> NoFile] /\ sig = [d \in Drills |-> NoSig]
    /\ path = [d \in Drills |-> FALSE]
    /\ pdfs = 0
    /\ pc = [p \in Procs |-> "idle"] /\ drill = [p \in Procs |-> CHOOSE d \in Drills : TRUE]
    /\ body = [p \in Procs |-> 0] /\ blob = [p \in Procs |-> NoFile]
    /\ wrapped = [p \in Procs |-> NoKey]
    /\ verdict = [p \in Readers |-> "none"]
    /\ expired = {} /\ deleting = {}
    /\ request = "none" /\ job = "none" /\ attempts = 0
    /\ ppc = "idle" /\ paths = {}
    /\ opc = "idle" /\ okey = NoKey
    /\ faults = 0
    /\ shredded = FALSE /\ lost = {} /\ rivals = {} /\ disturbed = {}

-----------------------------------------------------------------------------
\* Helpers

Goto(p, l) == pc' = [pc EXCEPT ![p] = l]
Continue(p, l) == Goto(p, l) /\ UNCHANGED locals
Return(p) ==
    /\ Goto(p, "idle")
    /\ body' = [body EXCEPT ![p] = 0] /\ blob' = [blob EXCEPT ![p] = NoFile]
    /\ wrapped' = [wrapped EXCEPT ![p] = NoKey]
MayFail == faults < MaxFaults /\ faults' = faults + 1

\* The writers of d, and the ones whose file is not signed yet.
Writing(d) == {p \in Writers : pc[p] # "idle" /\ drill[p] = d}
Unsigned(d) == {p \in Writing(d) : pc[p] = "sign"}
Verifying(d) == {p \in Readers : pc[p] # "idle" /\ drill[p] = d}
Sweeping(d) == d \in deleting \/ \E b \in BOOLEAN : <<d, b>> \in expired

\* openAAD with the active or a retired master key
CanUnwrap(k) == k.by = master \/ k.by \in retired

\* UPDATE account_evidence_keys SET wrapped_dek: no row, no effect.
Rewrapped(k) == IF dek = NoKey THEN NoKey ELSE [id |-> k.id, by |-> master]

-----------------------------------------------------------------------------
\* Cipher.accountDEK, for Finalize (which makes a missing key) and Verify

LoadWrappedDEK(p) ==
    /\ pc[p] = "load"
    /\ IF dek # NoKey
       THEN /\ wrapped' = [wrapped EXCEPT ![p] = dek]
            /\ Goto(p, "unwrap") /\ UNCHANGED <<body, blob, verdict>>
       ELSE IF p \in Writers THEN Continue(p, "mint") /\ UNCHANGED verdict
       ELSE Return(p) /\ verdict' = [verdict EXCEPT ![p] = "shredded"]
    /\ UNCHANGED <<keyVars, cfgVars, rowVars, pdfs, drill, sweepVars, eraseVars, opVars, faults,
                   history>>

\* Mutant: ON CONFLICT DO UPDATE, so the last first writer wins.
MintDEK_Overwrite(p) ==
    /\ pc[p] = "mint"
    /\ Continue(p, "reload")
    /\ minted' = minted + 1 /\ dek' = [id |-> minted + 1, by |-> master]
    /\ UNCHANGED <<cfgVars, rowVars, pdfs, drill, verdict, sweepVars, eraseVars, opVars, faults,
                   history>>

\* INSERT ... ON CONFLICT DO NOTHING; the row references its account.
MintDEK(p) ==
    /\ pc[p] = "mint"
    /\ \/ acct = "gone" /\ Return(p) /\ UNCHANGED keyVars
       \/ acct # "gone" /\ dek # NoKey /\ Continue(p, "reload") /\ UNCHANGED keyVars
       \/ /\ acct # "gone" /\ dek = NoKey
          /\ Continue(p, "reload")
          /\ minted' = minted + 1 /\ dek' = [id |-> minted + 1, by |-> master]
    /\ UNCHANGED <<cfgVars, rowVars, pdfs, drill, verdict, sweepVars, eraseVars, opVars, faults,
                   history>>

\* mintDEK returns whichever row won; none is an error.
ReloadDEK(p) ==
    /\ pc[p] = "reload"
    /\ \/ dek = NoKey /\ Return(p)
       \/ /\ dek # NoKey /\ Goto(p, "unwrap")
          /\ wrapped' = [wrapped EXCEPT ![p] = dek] /\ UNCHANGED <<body, blob>>
    /\ UNCHANGED <<keyVars, cfgVars, rowVars, pdfs, drill, verdict, sweepVars, eraseVars, opVars,
                   faults, history>>

\* A key that only a retired master key opens is re-wrapped, best effort.
UnwrapDEK(p) ==
    /\ pc[p] = "unwrap"
    /\ IF CanUnwrap(wrapped[p])
       THEN Continue(p, IF p \in Writers THEN "put" ELSE "check") /\ UNCHANGED verdict
       ELSE /\ Return(p)
            /\ verdict' = IF p \in Readers THEN [verdict EXCEPT ![p] = "tampered"] ELSE verdict
    /\ \/ UNCHANGED dek
       \/ wrapped[p].by \in retired /\ dek' = Rewrapped(wrapped[p])
    /\ UNCHANGED <<minted, cfgVars, rowVars, pdfs, drill, sweepVars, eraseVars, opVars, faults,
                   history>>

-----------------------------------------------------------------------------
\* Finalize and the caller's MarkEvidence

\* The caller found the drill and rendered the PDF; Finalize signs it.
StartFinalize(p, d) ==
    /\ pc[p] = "idle" /\ acct # "gone" /\ pdfs < MaxPDFs
    /\ pdfs' = pdfs + 1
    /\ Goto(p, "load")
    /\ drill' = [drill EXCEPT ![p] = d] /\ body' = [body EXCEPT ![p] = pdfs + 1]
    /\ rivals' = IF Writing(d) # {} \/ Sweeping(d) THEN rivals \cup {d} ELSE rivals
    /\ disturbed' = disturbed \cup Verifying(d)
    /\ UNCHANGED <<keyVars, cfgVars, rowVars, blob, wrapped, verdict, sweepVars, eraseVars,
                   opVars, faults, shredded, lost>>

\* Store.Put replaces the file of the drill.
PutFile(p) ==
    /\ pc[p] = "put"
    /\ file' = [file EXCEPT ![drill[p]] = [body |-> body[p], key |-> wrapped[p].id]]
    /\ Continue(p, "sign")
    /\ UNCHANGED <<keyVars, cfgVars, sig, path, pdfs, drill, verdict, sweepVars, eraseVars, opVars,
                   faults, history>>

\* Mutant: ON CONFLICT DO NOTHING keeps the first signature.
RecordSignature_KeepFirst(p) ==
    /\ pc[p] = "sign" /\ acct # "gone" /\ Continue(p, "mark")
    /\ sig' = IF sig[drill[p]] # NoSig THEN sig
              ELSE [sig EXCEPT ![drill[p]] = [body |-> body[p], expired |-> FALSE]]
    /\ UNCHANGED <<keyVars, cfgVars, file, path, pdfs, drill, verdict, sweepVars, eraseVars, opVars,
                   faults, history>>

\* The upsert of the signature row, which references the drill.
RecordSignature(p) ==
    /\ pc[p] = "sign"
    /\ \/ acct = "gone" /\ Return(p) /\ UNCHANGED sig
       \/ /\ acct # "gone" /\ Continue(p, "mark")
          /\ sig' = [sig EXCEPT ![drill[p]] = [body |-> body[p], expired |-> FALSE]]
    /\ UNCHANGED <<keyVars, cfgVars, file, path, pdfs, drill, verdict, sweepVars, eraseVars, opVars,
                   faults, history>>

MarkEvidence(p) ==
    /\ pc[p] = "mark"
    /\ path' = IF acct = "gone" THEN path ELSE [path EXCEPT ![drill[p]] = TRUE]
    /\ Return(p)
    /\ UNCHANGED <<keyVars, cfgVars, file, sig, pdfs, drill, verdict, sweepVars, eraseVars, opVars,
                   faults, history>>

-----------------------------------------------------------------------------
\* Verify

\* The page of a drill with a path calls Verify: GetSignature, and without a
\* signature row the evidence is "not signed".
StartVerify(p, d) ==
    /\ pc[p] = "idle" /\ path[d]
    /\ drill' = [drill EXCEPT ![p] = d]
    /\ \/ /\ sig[d] = NoSig
          /\ verdict' = [verdict EXCEPT ![p] = "unsigned"]
          /\ UNCHANGED <<pc, body, disturbed>>
       \/ /\ sig[d] # NoSig
          /\ body' = [body EXCEPT ![p] = sig[d].body]
          /\ Goto(p, "read") /\ verdict' = [verdict EXCEPT ![p] = "none"]
          /\ disturbed' = IF Writing(d) = {} /\ ~Sweeping(d)
                           THEN disturbed \ {p} ELSE disturbed \cup {p}
    /\ UNCHANGED <<keyVars, cfgVars, rowVars, pdfs, blob, wrapped, sweepVars, eraseVars, opVars,
                   faults, shredded, lost, rivals>>

\* A missing file is an error of LocalStore and an empty blob of S3Store.
ReadFile(p) ==
    /\ pc[p] = "read"
    /\ IF file[drill[p]] = NoFile /\ ~S3
       THEN Return(p) /\ verdict' = [verdict EXCEPT ![p] = "unreadable"]
       ELSE /\ Goto(p, "load")
            /\ blob' = [blob EXCEPT ![p] = file[drill[p]]] /\ UNCHANGED <<body, wrapped, verdict>>
    /\ UNCHANGED <<keyVars, cfgVars, rowVars, pdfs, drill, sweepVars, eraseVars, opVars, faults,
                   history>>

\* Decrypting with another key fails, and so does another PDF's digest.
CheckSignature(p) ==
    /\ pc[p] = "check"
    /\ verdict' = [verdict EXCEPT ![p] =
           IF blob[p].key = wrapped[p].id /\ blob[p].body = body[p] THEN "valid" ELSE "tampered"]
    /\ Return(p)
    /\ UNCHANGED <<keyVars, cfgVars, rowVars, pdfs, drill, sweepVars, eraseVars, opVars, faults,
                   history>>

\* A statement of Finalize fails, or its worker dies.
FailFinalize(p) ==
    /\ pc[p] # "idle"
    /\ MayFail
    /\ Return(p)
    /\ rivals' = IF pc[p] = "sign" THEN rivals \cup {drill[p]} ELSE rivals
    /\ UNCHANGED <<keyVars, cfgVars, rowVars, pdfs, drill, verdict, sweepVars, eraseVars, opVars,
                   shredded, lost, disturbed>>

\* Verify reports a failed read of the file or of the key as a verdict.
FailVerify(p) ==
    /\ pc[p] \in {"read", "load"}
    /\ Return(p)
    /\ disturbed' = disturbed \cup {p}
    /\ verdict' = [verdict EXCEPT ![p] = IF pc[p] = "read" THEN "unreadable" ELSE "tampered"]
    /\ UNCHANGED <<keyVars, cfgVars, rowVars, pdfs, drill, sweepVars, eraseVars, opVars, faults,
                   shredded, lost, rivals>>

-----------------------------------------------------------------------------
\* Retention: PurgeExpired

\* Seven years go by.
Expire(d) ==
    /\ sig[d] # NoSig /\ ~sig[d].expired
    /\ sig' = [sig EXCEPT ![d] = [body |-> sig[d].body, expired |-> TRUE]]
    /\ UNCHANGED <<keyVars, cfgVars, file, path, procVars, sweepVars, eraseVars, opVars,
                   faults, history>>

SelectExpired ==
    /\ expired = {} /\ deleting = {}
    /\ \E d \in Drills : sig[d].expired
    /\ expired' = {<<d, path[d]>> : d \in {e \in Drills : sig[e].expired}}
    /\ rivals' = rivals \cup {d \in Drills : sig[d].expired /\ Writing(d) # {}}
    /\ disturbed' = disturbed \cup {p \in Readers : pc[p] # "idle" /\ sig[drill[p]].expired}
    /\ UNCHANGED <<keyVars, cfgVars, rowVars, procVars, deleting, eraseVars, opVars, faults,
                   shredded, lost>>

\* The file goes if the row had a path when it was selected.
DeleteExpiredFile(d, p) ==
    /\ deleting = {} /\ <<d, p>> \in expired
    /\ expired' = expired \ {<<d, p>>}
    /\ deleting' = {d}
    /\ file' = IF p THEN [file EXCEPT ![d] = NoFile] ELSE file
    /\ UNCHANGED <<keyVars, cfgVars, sig, path, procVars, eraseVars, opVars, faults, history>>

DeleteExpiredSignature(d) ==
    /\ d \in deleting
    /\ deleting' = {}
    /\ sig' = [sig EXCEPT ![d] = NoSig]
    /\ UNCHANGED <<keyVars, cfgVars, file, path, procVars, expired, eraseVars, opVars, faults,
                   history>>

\* A failed deletion ends the sweep.
FailSweep ==
    /\ expired # {} \/ deleting # {}
    /\ MayFail
    /\ expired' = {} /\ deleting' = {}
    /\ rivals' = rivals \cup deleting
    /\ UNCHANGED <<keyVars, cfgVars, rowVars, procVars, eraseVars, opVars, shredded, lost,
                   disturbed>>

-----------------------------------------------------------------------------
\* Erasure: the deletion request, and the purge job's HardDelete

SoftDelete ==
    /\ acct = "live"
    /\ acct' = "deleted" /\ request' = "insert"
    /\ UNCHANGED <<keyVars, cfgVars, rowVars, procVars, sweepVars, graceOver, job, attempts,
                   ppc, paths, opVars, faults, history>>

\* The insert of the purge job; a failure is only logged.
SchedulePurge ==
    /\ request = "insert"
    /\ request' = "done"
    /\ \/ job' = "scheduled" /\ UNCHANGED faults
       \/ MayFail /\ UNCHANGED job
    /\ UNCHANGED <<keyVars, cfgVars, rowVars, procVars, sweepVars, acct, graceOver, attempts,
                   ppc, paths, opVars, history>>

GracePasses ==
    /\ acct = "deleted" /\ ~graceOver
    /\ graceOver' = TRUE
    /\ UNCHANGED <<keyVars, cfgVars, rowVars, procVars, sweepVars, acct, request, job, attempts,
                   ppc, paths, opVars, faults, history>>

\* Mutant: the first error ends the job.
Retried_Never == "discarded"

\* River runs the job again until its attempts are used up.
Retried == IF attempts < MaxAttempts THEN "scheduled" ELSE "discarded"

\* HardDelete loads the account: a missing row is an error, an account inside
\* its grace window ends the job without an error.
StartHardDelete ==
    /\ job = "scheduled"
    /\ graceOver \/ FiresEarly
    /\ attempts' = attempts + 1
    /\ \/ /\ acct = "gone"
          /\ job' = IF attempts + 1 < MaxAttempts THEN "scheduled" ELSE "discarded"
          /\ UNCHANGED ppc
       \/ acct # "gone" /\ ~graceOver /\ job' = "noop" /\ UNCHANGED ppc
       \/ acct # "gone" /\ graceOver /\ job' = "running" /\ ppc' = "list"
    /\ UNCHANGED <<keyVars, cfgVars, rowVars, procVars, sweepVars, acct, graceOver, request,
                   paths, opVars, faults, history>>

\* Mutant: the files are deleted before the key is destroyed.
ListPaths_FilesFirst ==
    /\ ppc = "list"
    /\ paths' = {d \in Drills : path[d]}
    /\ ppc' = IF paths' = {} THEN "shred" ELSE "files"
    /\ UNCHANGED <<keyVars, cfgVars, rowVars, procVars, sweepVars, acct, graceOver, request, job,
                   attempts, opVars, faults, history>>

ListPaths ==
    /\ ppc = "list"
    /\ paths' = {d \in Drills : path[d]}
    /\ ppc' = "shred"
    /\ UNCHANGED <<keyVars, cfgVars, rowVars, procVars, sweepVars, acct, graceOver, request, job,
                   attempts, opVars, faults, history>>

ShredAccount ==
    /\ ppc = "shred"
    /\ dek' = NoKey /\ shredded' = TRUE
    /\ ppc' = IF paths = {} THEN "row" ELSE "files"
    /\ UNCHANGED <<minted, cfgVars, rowVars, procVars, sweepVars, acct, graceOver, request, job,
                   attempts, paths, opVars, faults, lost, rivals, disturbed>>

DeleteKey(d) ==
    /\ ppc = "files" /\ d \in paths
    /\ file' = [file EXCEPT ![d] = NoFile]
    /\ paths' = paths \ {d}
    /\ ppc' = IF paths = {d} THEN "row" ELSE "files"
    /\ UNCHANGED <<keyVars, cfgVars, sig, path, procVars, sweepVars, acct, graceOver, request,
                   job, attempts, opVars, faults, history>>

\* DELETE FROM accounts cascades to the drills, their signatures and the key;
\* the heartbeats row of the account refuses it.
DeleteAccount ==
    /\ ppc = "row" /\ ~HasHeartbeats
    /\ acct' = "gone" /\ dek' = NoKey
    /\ sig' = [d \in Drills |-> NoSig] /\ path' = [d \in Drills |-> FALSE]
    /\ ppc' = "complete"
    /\ UNCHANGED <<minted, cfgVars, file, procVars, sweepVars, graceOver, request, job, attempts,
                   paths, opVars, faults, history>>

CompletePurge ==
    /\ ppc = "complete"
    /\ ppc' = "idle" /\ job' = "done"
    /\ UNCHANGED <<keyVars, cfgVars, rowVars, procVars, sweepVars, acct, graceOver, request,
                   attempts, paths, opVars, faults, history>>

FailPurge ==
    /\ ppc # "idle"
    /\ IF ppc = "row" /\ HasHeartbeats THEN UNCHANGED faults ELSE MayFail
    /\ ppc' = "idle" /\ paths' = {} /\ job' = Retried
    /\ UNCHANGED <<keyVars, cfgVars, rowVars, procVars, sweepVars, acct, graceOver, request,
                   attempts, opVars, history>>

-----------------------------------------------------------------------------
\* Master keys: the evidence-keys command, and restarts with other keys

\* The command classifies the row it read and remembers what to do with it.
Classify(cmd) ==
    /\ opc = "idle" /\ dek # NoKey
    /\ IF cmd = "rewrap" THEN dek.by \in retired ELSE ~CanUnwrap(dek)
    /\ opc' = cmd /\ okey' = dek
    /\ UNCHANGED <<keyVars, cfgVars, rowVars, procVars, sweepVars, eraseVars, faults, history>>

RewrapAll ==
    /\ opc = "rewrap"
    /\ dek' = Rewrapped(okey)
    /\ opc' = "idle" /\ okey' = NoKey
    /\ UNCHANGED <<minted, cfgVars, rowVars, procVars, sweepVars, eraseVars, faults, history>>

ShredPoison ==
    /\ opc = "shred"
    /\ dek' = NoKey
    /\ opc' = "idle" /\ okey' = NoKey
    /\ UNCHANGED <<minted, cfgVars, rowVars, procVars, sweepVars, eraseVars, faults, history>>

\* A statement of the command fails and it exits.
FailCommand ==
    /\ opc # "idle"
    /\ opc' = "idle" /\ okey' = NoKey
    /\ UNCHANGED <<keyVars, cfgVars, rowVars, procVars, sweepVars, eraseVars, faults, history>>

\* Everything in flight dies (the command is not run across a change of keys)
\* and River retries the purge job.
Restart ==
    /\ pc' = [p \in Procs |-> "idle"]
    /\ body' = [p \in Procs |-> 0] /\ blob' = [p \in Procs |-> NoFile]
    /\ wrapped' = [p \in Procs |-> NoKey]
    /\ rivals' = rivals \cup {d \in Drills : Unsigned(d) # {}} \cup deleting
    /\ expired' = {} /\ deleting' = {}
    /\ request' = IF request = "insert" THEN "done" ELSE request
    /\ ppc' = "idle" /\ paths' = {}
    /\ job' = IF job = "running" THEN Retried ELSE job
    /\ opc' = "idle" /\ okey' = NoKey
    /\ UNCHANGED <<keyVars, rowVars, pdfs, drill, verdict, acct, graceOver, attempts, faults,
                   shredded, disturbed>>

\* The rotation of the runbook: the old key becomes a retired one, ...
RotateMaster ==
    /\ master <= MaxRotations
    /\ master' = master + 1 /\ retired' = retired \cup {master}
    /\ Restart /\ UNCHANGED lost

\* ... and is dropped once no row needs it.
DropRetired ==
    /\ retired # {} /\ dek.by \notin retired
    /\ retired' = {}
    /\ Restart /\ UNCHANGED <<master, lost>>

\* The master key was not kept (an ephemeral key, a lost secret).
LoseMaster ==
    /\ MayLoseMaster /\ master <= MaxRotations
    /\ master' = master + 1 /\ retired' = {}
    /\ lost' = lost \cup {dek.id}
    /\ Restart

-----------------------------------------------------------------------------
AccountDEK(p) == LoadWrappedDEK(p) \/ MintDEK(p) \/ ReloadDEK(p) \/ UnwrapDEK(p)

Finalize(p) ==
    \/ \E d \in Drills : StartFinalize(p, d)
    \/ PutFile(p) \/ RecordSignature(p) \/ MarkEvidence(p) \/ FailFinalize(p)

Verify(p) ==
    \/ \E d \in Drills : StartVerify(p, d)
    \/ ReadFile(p) \/ CheckSignature(p) \/ FailVerify(p)

Sweep ==
    \/ SelectExpired
    \/ \E d \in Drills, p \in BOOLEAN : DeleteExpiredFile(d, p)
    \/ \E d \in Drills : DeleteExpiredSignature(d)
    \/ FailSweep

HardDelete ==
    \/ StartHardDelete \/ ListPaths \/ ShredAccount
    \/ \E d \in Drills : DeleteKey(d)
    \/ DeleteAccount \/ CompletePurge \/ FailPurge

EvidenceKeys ==
    Classify("rewrap") \/ Classify("shred") \/ RewrapAll \/ ShredPoison \/ FailCommand

Next ==
    \/ \E p \in Procs : AccountDEK(p)
    \/ \E p \in Writers : Finalize(p)
    \/ \E p \in Readers : Verify(p)
    \/ \E d \in Drills : Expire(d)
    \/ Sweep
    \/ SoftDelete \/ SchedulePurge \/ GracePasses \/ HardDelete
    \/ EvidenceKeys \/ RotateMaster \/ DropRetired \/ LoseMaster

Spec == Init /\ [][Next]_vars

\* Time passes, and River runs a scheduled job and its statements.
FairSpec == Spec /\ WF_vars(GracePasses) /\ WF_vars(HardDelete)

-----------------------------------------------------------------------------
\* Properties

\* Erasure (purge.go:117-129): once the accounts row is gone there is no key
\* in the database, whatever Finalize, Verify or evidence-keys was doing.
Erased == acct = "gone" => dek = NoKey

\* Envelope encryption (cipher.go:173-193): until the purge shreds the account,
\* every stored file is sealed with the key in the database and a configured
\* master key opens it; only files of a lost master key are excepted.
StaysReadable ==
    \A d \in Drills : file[d] # NoFile /\ ~shredded /\ file[d].key \notin lost
        => dek.id = file[d].key /\ CanUnwrap(dek)

\* The grace period (purge.go:26, :93): evidence is shredded only after it.
GraceKept == shredded => graceOver

\* Finalize (service.go:39-72): the signature row belongs to the stored file
\* when nobody is at work on it, unless two of Finalize and the sweep met on
\* this drill or one of them died between its two writes.
SignedFile ==
    \A d \in Drills : sig[d] # NoSig /\ Writing(d) = {} /\ d \notin deleting
        => file[d].body = sig[d].body \/ d \in rivals \/ shredded

\* Verify (service.go:110-154) reads row, file and key one after the other: it
\* calls evidence tampered only where Finalize or the sweep was at work on the
\* drill meanwhile or its own read failed, two of them had met before, or the
\* key was destroyed or lost.
NoFalseAccusation ==
    \A p \in Readers : verdict[p] = "tampered"
        => p \in disturbed \/ drill[p] \in rivals \/ shredded \/ lost # {}

\* Retention (service.go:180-182): a file or a signature disappears only when
\* its horizon has passed or the account is being erased, or when it was
\* signed again after the sweep selected it.
KeptUntilExpiry ==
    [][\A d \in Drills :
          /\ file[d] # NoFile /\ file'[d] = NoFile
                => sig[d].expired \/ shredded \/ d \in rivals
          /\ sig[d] # NoSig /\ sig'[d] = NoSig
                => sig[d].expired \/ acct' = "gone" \/ d \in rivals]_vars

\* The purge job (purge.go:160-168): a scheduled erasure happens, unless the
\* job fired early and ended as a no-op.
ErasureHappens == job = "scheduled" ~> acct = "gone" \/ job = "noop"

\* The account's key (cipher.go, purge.go): it opens every stored file until the purge, the purge
\* keeps the grace, and after it no key comes back.
KeySafe == StaysReadable /\ Erased /\ GraceKept

\* File and signature belong together, and Verify calls nothing tampered without a cause
\* (service.go), but for the drills where two writers met.
EvidenceSound == SignedFile /\ NoFalseAccusation

=============================================================================
