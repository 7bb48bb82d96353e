------------------------------- MODULE Handover -------------------------------
(***************************************************************************)
(* Evidence outside the house: the report and its detached signature, as    *)
(* Finalize stores them, as the API and the evidence bundle hand them out,  *)
(* and as an auditor checks them, online at /verify or offline with         *)
(* dokaz-verify and the published keys, while reports are rendered anew and *)
(* signing keys are rotated.  Cryptography is symbolic: a signature is the  *)
(* key and the message it was made of.                                      *)
(***************************************************************************)
EXTENDS Integers, Sequences, FiniteSets

CONSTANTS
    Reports,       \* drills with evidence; each of a database of its own
    SignKeys,      \* fingerprints of this instance's keys, numbers
    Outsider,      \* a key of somebody else, a number
    Micro,         \* ticks of the clock in one unit of a TIMESTAMPTZ
    MaxTick,       \* bound: the last tick
    MaxVersions,   \* bound: how often a PDF is rendered
    MaxRotations   \* bound: how often the signing key is changed

ASSUME HandoverAssumption ==
    /\ SignKeys \subseteq Nat /\ IsFiniteSet(SignKeys) /\ Outsider \in Nat \ SignKeys
    /\ Micro \in Nat \ {0} /\ {MaxTick, MaxVersions, MaxRotations} \subseteq Nat

VARIABLES
    taker,         \* who takes the evidence in this behaviour: "api" or "bundle"
    active,        \* the key the server signs with
    retired,       \* the keys of EVIDENCE_VERIFICATION_KEYS
    pem,           \* the auditor's copy of the published keys
    pdf,           \* the stored file of each report: the number of its rendering, 0 none
    sigRow,        \* evidence_signatures
    worker,        \* a Finalize between its Put and its upsert, per report
    versions, rotations,
    sees,          \* databases the member's teams show
    zip,           \* the bundle that is being streamed
    hand,          \* the halves an API client has fetched of one report
    issued         \* history: what Sign returned, with the rendering

keyVars == <<active, retired, rotations>>
fileVars == <<pdf, sigRow, worker, versions, issued>>
handVars == <<taker, keyVars, fileVars, pem, sees, zip, hand>>

Ticks == 0..MaxTick
NoSig == [keyID |-> 0, digest |-> 0, signedAt |-> 0, value |-> <<>>]
NoHalf == [pdf |-> 0, sig |-> NoSig]
\* before: history, the databases that were shown when the request began
NoZip == [phase |-> "none", todo |-> {}, before |-> {}, names |-> {}, part |-> <<0, 0>>, out |-> {}]
NoHand == [report |-> 0, pdf |-> 0, sig |-> NoSig]

HandoverInit ==
    /\ taker \in {"api", "bundle"}
    /\ active \in SignKeys /\ retired = {} /\ rotations = 0 /\ pem = <<>>
    /\ pdf = [r \in Reports |-> 0]
    /\ sigRow = [r \in Reports |-> NoSig]
    /\ worker = [r \in Reports |-> NoHalf]
    /\ versions = 0 /\ sees = Reports /\ zip = NoZip
    /\ hand = NoHand /\ issued = {}

-----------------------------------------------------------------------------
(* Keys and signatures. *)

\* NewSignerWithVerificationKeys: a new configuration is a restart; the operator
\* keeps the keys he was told to keep, or not.
NewSignerWithVerificationKeys ==
    /\ rotations < MaxRotations /\ rotations' = rotations + 1
    /\ \E k \in SignKeys \ {active} : active' = k
    /\ retired' \in SUBSET (retired \cup {active})
    /\ worker' = [r \in Reports |-> NoHalf]
    /\ zip' = NoZip
    /\ UNCHANGED <<taker, pem, pdf, sigRow, versions, issued, sees, hand>>

VerificationKeys == retired \cup {active}

\* Before the i-th key in fingerprint order there are i - 1.
Sorted(keys) ==
    [i \in 1 .. Cardinality(keys) |-> CHOOSE k \in keys : Cardinality({l \in keys : l < k}) = i - 1]

\* The active key leads, the retired ones follow in fingerprint order.
AllPublicKeysPEM == <<active>> \o Sorted(VerificationKeys \ {active})

evidenceSigningKeys ==
    /\ taker = "api" /\ pem # AllPublicKeysPEM
    /\ pem' = AllPublicKeysPEM
    /\ UNCHANGED <<taker, keyVars, fileVars, sees, zip, hand>>

\* Sign: the signed message is the digest and the time.
Sign(v, t) == [keyID |-> active, digest |-> v, signedAt |-> t, value |-> <<active, v, t>>]

Verify(pub, v, sig) ==
    /\ sig.digest = v
    /\ sig.value = <<pub, v, sig.signedAt>>

\* The /verify page finds the key by its fingerprint.
verifyEvidence(v, sig) == sig.keyID \in VerificationKeys /\ Verify(sig.keyID, v, sig)

\* dokaz-verify: parsePublicKey takes the first block of the file it is given.
dokazVerify(file, v, sig) ==
    /\ file # <<>>
    /\ sig.keyID = file[1]
    /\ Verify(file[1], v, sig)

-----------------------------------------------------------------------------
(* Finalize. *)

\* A TIMESTAMPTZ column keeps microseconds.
Stored(t) == t - (t % Micro)

\* Mutant: time.Now() is signed as it is.
SignedAt_Raw(t) == t

\* time.Now() truncated to what the column keeps.
SignedAt(t) == t - (t % Micro)

\* The file is replaced first; another Finalize of the report may be under way.
Put(r) ==
    /\ versions < MaxVersions
    /\ worker[r] = NoHalf
    /\ \E t \in Ticks :
        LET v == versions + 1  sig == Sign(v, SignedAt(t)) IN
        /\ worker' = [worker EXCEPT ![r] = [pdf |-> v, sig |-> sig]]
        /\ pdf' = [pdf EXCEPT ![r] = v]
        /\ issued' = issued \cup {[pdf |-> v, by |-> active]}
    /\ versions' = versions + 1
    /\ UNCHANGED <<taker, keyVars, sigRow, pem, sees, zip, hand>>

\* The upsert of the signature, which may fail: the job is tried again, and renders anew.
RecordSignature(r) ==
    /\ worker[r] # NoHalf
    /\ \/ sigRow' = [sigRow EXCEPT ![r] =
              [worker[r].sig EXCEPT !.signedAt = Stored(worker[r].sig.signedAt)]]
       \/ UNCHANGED sigRow
    /\ worker' = [worker EXCEPT ![r] = NoHalf]
    /\ UNCHANGED <<taker, keyVars, pdf, versions, issued, pem, sees, zip, hand>>

\* PurgeExpired, or the keys of the account are shredded: the file cannot be read again.
Purge(r) ==
    /\ pdf[r] # 0
    /\ pdf' = [pdf EXCEPT ![r] = 0]
    /\ UNCHANGED <<taker, keyVars, sigRow, worker, versions, issued, pem, sees, zip, hand>>

-----------------------------------------------------------------------------
(* Handing out. *)

\* GET /v1/drills/{id}/evidence, and the same file by drillEvidence.
v1GetEvidence(r) ==
    /\ taker = "api" /\ pdf[r] # 0 /\ hand.pdf = 0 /\ hand.report \in {0, r}
    /\ hand' = [hand EXCEPT !.report = r, !.pdf = pdf[r]]
    /\ UNCHANGED <<taker, keyVars, fileVars, pem, sees, zip>>

\* GET /v1/drills/{id}/signature, before or after.
v1GetSignature(r) ==
    /\ taker = "api" /\ sigRow[r] # NoSig /\ hand.sig = NoSig /\ hand.report \in {0, r}
    /\ hand' = [hand EXCEPT !.report = r, !.sig = sigRow[r]]
    /\ UNCHANGED <<taker, keyVars, fileVars, pem, sees, zip>>

\* An administrator takes a database from the member's teams.
Unassign(r) ==
    /\ taker = "bundle" /\ r \in sees
    /\ sees' = sees \ {r}
    /\ UNCHANGED <<taker, keyVars, fileVars, pem, zip, hand>>

\* The error of ListTargets is dropped and the map of names stays empty.
NamesUnread == {}

\* evidenceBundle lists the drills that have evidence, then the databases in scope.
evidenceBundle ==
    /\ taker = "bundle" /\ zip.phase = "none"
    /\ zip' = [NoZip EXCEPT !.phase = "listed", !.before = sees,
                            !.todo = {r \in Reports : pdf[r] # 0}]
    /\ UNCHANGED <<taker, keyVars, fileVars, pem, sees, hand>>

ListNames ==
    /\ zip.phase = "listed"
    /\ \E names \in {sees, NamesUnread} :
        zip' = [zip EXCEPT !.phase = "stream", !.names = names]
    /\ UNCHANGED <<taker, keyVars, fileVars, pem, sees, hand>>

\* One report: skipped when it cannot be read or is out of scope.
BundlePDF(r) ==
    /\ zip.phase = "stream" /\ zip.part = <<0, 0>> /\ r \in zip.todo
    /\ zip' = IF pdf[r] # 0 /\ r \in zip.names
              THEN [zip EXCEPT !.part = <<r, pdf[r]>>]
              ELSE [zip EXCEPT !.todo = @ \ {r}]
    /\ UNCHANGED <<taker, keyVars, fileVars, pem, sees, hand>>

\* Its signature, when there is one and it can be read.
BundleSignature ==
    /\ zip.phase = "stream" /\ zip.part # <<0, 0>>
    /\ LET r == zip.part[1] IN
        \E sig \in {sigRow[r], NoSig} :
            zip' = [zip EXCEPT !.part = <<0, 0>>, !.todo = @ \ {r},
                        !.out = @ \cup {[report |-> r, pdf |-> zip.part[2], sig |-> sig]}]
    /\ UNCHANGED <<taker, keyVars, fileVars, pem, sees, hand>>

HandoverNext ==
    \/ NewSignerWithVerificationKeys
    \/ evidenceSigningKeys
    \/ \E r \in Reports :
        Put(r) \/ RecordSignature(r) \/ Purge(r) \/ v1GetEvidence(r) \/ v1GetSignature(r)
        \/ Unassign(r) \/ BundlePDF(r)
    \/ evidenceBundle \/ ListNames \/ BundleSignature

HandoverSpec == HandoverInit /\ [][HandoverNext]_handVars

-----------------------------------------------------------------------------
(* Properties. *)

Sigs == [keyID : SignKeys \cup {Outsider, 0}, digest : 0..MaxVersions, signedAt : Ticks,
         value : {<<>>} \cup ((SignKeys \cup {Outsider}) \X (1..MaxVersions) \X Ticks)]

\* Pairs of a rendering and a signature that are in somebody's hands.
Held ==
    {[pdf |-> hand.pdf, sig |-> hand.sig]}
    \cup {[pdf |-> p.pdf, sig |-> p.sig] : p \in zip.out}

\* What somebody could write who has seen every signature issued and owns the
\* outsider's key: values the server made, or that key made, under any name.
Forgeries ==
    LET seen == {p.sig.value : p \in Held} \cup {sigRow[r].value : r \in Reports}
                \cup {<<Outsider, v, t>> : v \in 1..MaxVersions, t \in Ticks}
    IN [keyID : SignKeys \cup {Outsider}, digest : 1..MaxVersions, signedAt : Ticks, value : seen]

\* Every variable has its type.
HandoverTypeOK ==
    /\ active \in SignKeys /\ retired \subseteq SignKeys
    /\ pem \in Seq(SignKeys)
    /\ pdf \in [Reports -> 0..MaxVersions] /\ versions \in 0..MaxVersions
    /\ \A r \in Reports : {sigRow[r], worker[r].sig, hand.sig} \subseteq Sigs
    /\ sees \subseteq Reports
    /\ zip.todo \subseteq Reports /\ zip.names \subseteq Reports

\* A document that either verifier accepts was rendered here and signed here with
\* the key it is accepted under, whatever halves are put together.
Genuine ==
    \A v \in 1..MaxVersions, sig \in Forgeries :
        verifyEvidence(v, sig) \/ dokazVerify(pem, v, sig)
        => [pdf |-> v, by |-> sig.keyID] \in issued

\* A report handed out with its own signature verifies online for as long as the
\* server keeps the key: what was signed has the precision of what is stored.
HandedOutVerifies ==
    \A p \in Held :
        p.sig # NoSig /\ p.pdf = p.sig.digest /\ p.sig.keyID \in VerificationKeys
        => verifyEvidence(p.pdf, p.sig)

\* With a copy of the published keys taken now, dokaz-verify accepts every report
\* signed with the key in use, whatever was retired before.
PublishedVerifies ==
    \A p \in Held :
        p.sig # NoSig /\ p.pdf = p.sig.digest /\ p.sig.keyID = active
        /\ pem = AllPublicKeysPEM
        => dokazVerify(pem, p.pdf, p.sig)

\* No report of a database that was taken from the member before the bundle was
\* begun is in it, also when the names could not be listed.
BundleInScope == \A p \in zip.out : p.report \in zip.before

\* Evidence outside the house: what verifies was signed here; what was handed out verifies online
\* after any rotation while the server keeps its key, and offline with the published keys if its
\* key is the one in use, the only one dokaz-verify takes; and a bundle holds what its reader may
\* see (Finalize, verifyEvidence, dokaz-verify).
HandoverSafe ==
    /\ HandoverTypeOK /\ Genuine /\ HandedOutVerifies /\ PublishedVerifies
    /\ BundleInScope

=============================================================================
