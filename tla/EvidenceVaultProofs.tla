------------------------ MODULE EvidenceVaultProofs ------------------------
(****************************************************************************)
(* For any number of drills, writers, readers, rotations and faults: the    *)
(* vault keeps its types, an erased account has no key, shredding waits for *)
(* the grace period, evidence stays readable until then and is deleted by   *)
(* its horizon or an erasure only, and a verdict of tampering has a cause.  *)
(****************************************************************************)
EXTENDS EvidenceVault, TLAPS

-----------------------------------------------------------------------------
\* What the key protocol keeps, beside the properties themselves.

\* Master keys are numbered from one, so no configured key opens NoKey.
MastersNumbered == master >= 1 /\ 0 \notin retired

\* HardDelete runs after the grace period and destroys the key first.
ShredFirst ==
    /\ ppc # "idle" => graceOver
    /\ ppc \in {"files", "row", "complete"} => shredded

\* A process that holds a wrapped key it can open holds the current key.
KeyHeld ==
    \A p \in Procs : pc[p] \in {"unwrap", "put", "check"} =>
        /\ ~shredded /\ CanUnwrap(wrapped[p]) => dek.id = wrapped[p].id /\ CanUnwrap(dek)
        /\ pc[p] # "unwrap" => CanUnwrap(wrapped[p])

\* The evidence-keys command still sees the row it classified.
CommandCurrent ==
    ~shredded =>
        /\ opc = "rewrap" => dek.id = okey.id /\ CanUnwrap(dek)
        /\ opc = "shred" => dek # NoKey /\ ~CanUnwrap(dek)

KeyInv ==
    /\ MastersNumbered /\ ShredFirst /\ KeyHeld /\ CommandCurrent /\ StaysReadable
    /\ GraceKept /\ Erased

-----------------------------------------------------------------------------
\* The absent key, file and signature have their types.
LEMMA Nulls == NoKey \in WrappedKeys /\ NoFile \in Blobs /\ NoSig \in Signatures
BY DEF NoKey, NoFile, NoSig, WrappedKeys, Blobs, Signatures

\* Every action keeps the types.
LEMMA TypeStep ==
    ASSUME TypeOK, [Next]_vars
    PROVE  TypeOK'
<1> USE VaultAssumption DEF vars, keyVars, cfgVars, rowVars, procVars, locals,
           sweepVars, eraseVars, opVars, history
<1>1. ASSUME NEW p \in Procs, LoadWrappedDEK(p) PROVE TypeOK'
  <2>1. CASE dek # NoKey
    BY <1>1, <2>1, Nulls DEF LoadWrappedDEK, Goto, Continue, Return, TypeOK, Procs
  <2>2. CASE dek = NoKey /\ p \in Writers
    BY <1>1, <2>2, Nulls DEF LoadWrappedDEK, Goto, Continue, Return, TypeOK, Procs
  <2>3. CASE dek = NoKey /\ p \notin Writers
    BY <1>1, <2>3, Nulls DEF LoadWrappedDEK, Goto, Continue, Return, TypeOK, Procs
  <2> QED
    BY <2>1, <2>2, <2>3
<1>2. ASSUME NEW p \in Procs, MintDEK(p) PROVE TypeOK'
  <2>0. [id |-> minted + 1, by |-> master] \in WrappedKeys
    BY DEF TypeOK, WrappedKeys
  <2>1. CASE acct = "gone"
    BY <1>2, <2>1, <2>0, Nulls DEF MintDEK, Goto, Continue, Return, TypeOK
  <2>2. CASE acct # "gone" /\ dek # NoKey
    BY <1>2, <2>2, <2>0, Nulls DEF MintDEK, Goto, Continue, Return, TypeOK
  <2>3. CASE acct # "gone" /\ dek = NoKey
    BY <1>2, <2>3, <2>0, Nulls DEF MintDEK, Goto, Continue, Return, TypeOK
  <2> QED
    BY <2>1, <2>2, <2>3
<1>3. ASSUME NEW p \in Procs, ReloadDEK(p) PROVE TypeOK'
  <2>1. CASE dek = NoKey
    BY <1>3, <2>1, Nulls DEF ReloadDEK, Goto, Return, TypeOK
  <2>2. CASE dek # NoKey
    BY <1>3, <2>2, Nulls DEF ReloadDEK, Goto, Return, TypeOK
  <2> QED
    BY <2>1, <2>2
<1>4. ASSUME NEW p \in Procs, UnwrapDEK(p) PROVE TypeOK'
  <2>1. dek' \in WrappedKeys
    BY <1>4, Nulls DEF UnwrapDEK, Rewrapped, TypeOK, WrappedKeys
  <2>2. CASE CanUnwrap(wrapped[p])
    BY <1>4, <2>1, <2>2 DEF UnwrapDEK, Goto, Continue, TypeOK
  <2>3. CASE ~CanUnwrap(wrapped[p])
    BY <1>4, <2>1, <2>3, Nulls DEF UnwrapDEK, Goto, Return, TypeOK
  <2> QED
    BY <2>2, <2>3
<1>5. ASSUME NEW p \in Writers, NEW d \in Drills, StartFinalize(p, d) PROVE TypeOK'
    BY <1>5 DEF StartFinalize, Goto, Verifying, TypeOK, Procs
<1>6. ASSUME NEW p \in Writers, PutFile(p) PROVE TypeOK'
  <2>1. [body |-> body[p], key |-> wrapped[p].id] \in Blobs
    BY DEF TypeOK, Procs, Blobs, WrappedKeys
  <2> QED
    BY <1>6, <2>1 DEF PutFile, Goto, Continue, TypeOK, Procs
<1>7. ASSUME NEW p \in Writers, RecordSignature(p) PROVE TypeOK'
  <2>0. [body |-> body[p], expired |-> FALSE] \in Signatures
    BY DEF TypeOK, Procs, Signatures
  <2>1. CASE acct = "gone"
    BY <1>7, <2>1, <2>0, Nulls DEF RecordSignature, Goto, Continue, Return, TypeOK
  <2>2. CASE acct # "gone"
    BY <1>7, <2>2, <2>0, Nulls DEF RecordSignature, Goto, Continue, Return, TypeOK
  <2> QED
    BY <2>1, <2>2
<1>8. ASSUME NEW p \in Writers, MarkEvidence(p) PROVE TypeOK'
    BY <1>8, Nulls DEF MarkEvidence, Goto, Continue, Return, Procs, TypeOK
<1>9. ASSUME NEW p \in Writers, FailFinalize(p) PROVE TypeOK'
    BY <1>9, Nulls DEF FailFinalize, Goto, Continue, Return, MayFail, Procs, TypeOK
<1>10. ASSUME NEW p \in Readers, NEW d \in Drills, StartVerify(p, d) PROVE TypeOK'
  <2>0. sig[d].body \in Nat
    BY DEF TypeOK, Signatures
  <2>1. CASE sig[d] = NoSig
    BY <1>10, <2>1, <2>0, Nulls DEF StartVerify, Goto, TypeOK, Procs
  <2>2. CASE sig[d] # NoSig
    BY <1>10, <2>2, <2>0, Nulls DEF StartVerify, Goto, TypeOK, Procs
  <2> QED
    BY <2>1, <2>2
<1>11. ASSUME NEW p \in Readers, ReadFile(p) PROVE TypeOK'
  <2>1. CASE file[drill[p]] = NoFile /\ ~S3
    BY <1>11, <2>1, Nulls DEF ReadFile, Goto, Return, TypeOK, Procs
  <2>2. CASE ~(file[drill[p]] = NoFile /\ ~S3)
    BY <1>11, <2>2, Nulls DEF ReadFile, Goto, Return, TypeOK, Procs
  <2> QED
    BY <2>1, <2>2
<1>12. ASSUME NEW p \in Readers, CheckSignature(p) PROVE TypeOK'
    BY <1>12, Nulls DEF CheckSignature, Goto, Continue, Return, Procs, TypeOK
<1>13. ASSUME NEW p \in Readers, FailVerify(p) PROVE TypeOK'
    BY <1>13, Nulls DEF FailVerify, Goto, Continue, Return, Procs, TypeOK
<1>14. ASSUME NEW d \in Drills, Expire(d) PROVE TypeOK'
  <2>1. [body |-> sig[d].body, expired |-> TRUE] \in Signatures
    BY DEF TypeOK, Signatures
  <2> QED
    BY <1>14, <2>1 DEF Expire, TypeOK
<1>15. ASSUME NEW d \in Drills, DeleteExpiredSignature(d) PROVE TypeOK'
    BY <1>15, Nulls DEF DeleteExpiredSignature, TypeOK
<1>16. ASSUME NEW d \in Drills, DeleteKey(d) PROVE TypeOK'
    BY <1>16, Nulls DEF DeleteKey, TypeOK
<1>17. ASSUME NEW d \in Drills, NEW b \in BOOLEAN, DeleteExpiredFile(d, b) PROVE TypeOK'
    BY <1>17, Nulls DEF DeleteExpiredFile, TypeOK
<1>18. ASSUME SelectExpired PROVE TypeOK'
    BY <1>18, Nulls DEF SelectExpired, TypeOK
<1>19. ASSUME FailSweep PROVE TypeOK'
    BY <1>19, Nulls DEF FailSweep, MayFail, TypeOK
<1>20. ASSUME SoftDelete PROVE TypeOK'
    BY <1>20, Nulls DEF SoftDelete, TypeOK
<1>21. ASSUME SchedulePurge PROVE TypeOK'
    BY <1>21, Nulls DEF SchedulePurge, MayFail, TypeOK
<1>22. ASSUME GracePasses PROVE TypeOK'
    BY <1>22, Nulls DEF GracePasses, TypeOK
<1>23. ASSUME StartHardDelete PROVE TypeOK'
    BY <1>23, Nulls DEF StartHardDelete, TypeOK
<1>24. ASSUME ListPaths PROVE TypeOK'
    BY <1>24, Nulls DEF ListPaths, TypeOK
<1>25. ASSUME ShredAccount PROVE TypeOK'
    BY <1>25, Nulls DEF ShredAccount, TypeOK
<1>26. ASSUME DeleteAccount PROVE TypeOK'
    BY <1>26, Nulls DEF DeleteAccount, TypeOK
<1>27. ASSUME CompletePurge PROVE TypeOK'
    BY <1>27, Nulls DEF CompletePurge, TypeOK
<1>28. ASSUME FailPurge PROVE TypeOK'
    BY <1>28, Nulls DEF FailPurge, MayFail, Retried, TypeOK
<1>29. ASSUME Classify("rewrap") PROVE TypeOK'
    BY <1>29, Nulls DEF Classify, TypeOK
<1>30. ASSUME Classify("shred") PROVE TypeOK'
    BY <1>30, Nulls DEF Classify, TypeOK
<1>31. ASSUME RewrapAll PROVE TypeOK'
  <2>1. dek' \in WrappedKeys
    BY <1>31, Nulls DEF RewrapAll, Rewrapped, TypeOK, WrappedKeys
  <2> QED
    BY <1>31, <2>1, Nulls DEF RewrapAll, TypeOK
<1>32. ASSUME ShredPoison PROVE TypeOK'
    BY <1>32, Nulls DEF ShredPoison, TypeOK
<1>33. ASSUME FailCommand PROVE TypeOK'
    BY <1>33, Nulls DEF FailCommand, TypeOK
<1>34. ASSUME RotateMaster PROVE TypeOK'
    BY <1>34, Nulls DEF RotateMaster, Restart, Retried, TypeOK
<1>35. ASSUME DropRetired PROVE TypeOK'
    BY <1>35, Nulls DEF DropRetired, Restart, Retried, TypeOK
<1>36. ASSUME LoseMaster PROVE TypeOK'
  <2>1. dek.id \in Nat
    BY DEF TypeOK, WrappedKeys
  <2>2. lost' = lost \cup {dek.id} /\ lost \subseteq Nat
    BY <1>36 DEF LoseMaster, TypeOK
  <2>3. lost' \subseteq Nat
    BY <2>1, <2>2
  <2>4. rivals' \subseteq Drills
    BY <1>36 DEF LoseMaster, Restart, TypeOK
  <2>5. job' \in {"none", "scheduled", "running", "noop", "done", "discarded"}
    BY <1>36 DEF LoseMaster, Restart, Retried, TypeOK
  <2> QED
    BY <1>36, <2>3, <2>4, <2>5, Nulls DEF LoseMaster, Restart, TypeOK
<1>37. ASSUME UNCHANGED vars PROVE TypeOK'
    BY <1>37, Nulls DEF TypeOK
<1> QED
    BY <1>1, <1>2, <1>3, <1>4, <1>5, <1>6, <1>7, <1>8, <1>9, <1>10, <1>11, <1>12, <1>13,
       <1>14, <1>15, <1>16, <1>17, <1>18, <1>19, <1>20, <1>21, <1>22, <1>23, <1>24,
       <1>25, <1>26, <1>27, <1>28, <1>29, <1>30, <1>31, <1>32, <1>33, <1>34, <1>35,
       <1>36, <1>37
    DEF Next, AccountDEK, Finalize, Verify, Sweep, HardDelete, EvidenceKeys

\* Every variable of EvidenceVault has its type in every reachable state.
THEOREM TypeCorrect == Spec => []TypeOK
<1>1. ASSUME Init PROVE TypeOK
  <2>1. (CHOOSE d \in Drills : TRUE) \in Drills
    BY VaultAssumption
  <2>2. drill \in [Procs -> Drills]
    BY <1>1, <2>1 DEF Init
  <2> QED
    BY <1>1, <2>2, Nulls DEF Init, TypeOK
<1>2. TypeOK /\ [Next]_vars => TypeOK'
    BY TypeStep
<1> QED
    BY <1>1, <1>2, PTL DEF Spec

-----------------------------------------------------------------------------
\* Every action keeps the invariant of the key protocol.
LEMMA KeyStep ==
    ASSUME TypeOK, KeyInv, [Next]_vars
    PROVE  KeyInv'
<1> USE VaultAssumption DEF vars, keyVars, cfgVars, rowVars, procVars, locals,
           sweepVars, eraseVars, opVars, history,
           KeyInv, MastersNumbered, ShredFirst, KeyHeld, CommandCurrent, StaysReadable,
           GraceKept, Erased, CanUnwrap, TypeOK, WrappedKeys, Blobs, NoKey, NoFile, Procs
<1>1. ASSUME NEW p \in Procs, LoadWrappedDEK(p) PROVE KeyInv'
    BY <1>1 DEF LoadWrappedDEK, Goto, Continue, Return
<1>2. ASSUME NEW p \in Procs, MintDEK(p) PROVE KeyInv'
  <2>1. CASE acct = "gone"
    BY SMTT(20), <1>2, <2>1 DEF MintDEK, Goto, Continue, Return
  <2>2. CASE acct # "gone" /\ dek # NoKey
    BY <1>2, <2>2 DEF MintDEK, Goto, Continue, Return
  <2>3. CASE acct # "gone" /\ dek = NoKey
    <3>1. (MastersNumbered /\ ShredFirst /\ GraceKept /\ Erased)'
      BY <1>2, <2>3 DEF MintDEK
    <3>2. \A q \in Procs : pc'[q] \in {"unwrap", "put", "check"} => pc'[q] = pc[q]
      BY <1>2, <2>3 DEF MintDEK, Goto, Continue
    <3>3. UNCHANGED <<wrapped, cfgVars, shredded>>
      BY <1>2, <2>3 DEF MintDEK, Continue
    <3>4. KeyHeld'
      BY <2>3, <3>2, <3>3
    <3>5. CommandCurrent'
      BY <1>2, <2>3 DEF MintDEK
    <3>6. StaysReadable'
      BY <1>2, <2>3 DEF MintDEK
    <3> QED
      BY <3>1, <3>4, <3>5, <3>6
  <2> QED
    BY <1>2, <2>1, <2>2, <2>3
<1>3. ASSUME NEW p \in Procs, ReloadDEK(p) PROVE KeyInv'
  <2>1. CASE dek = NoKey
    <3>1. UNCHANGED <<keyVars, cfgVars, file, shredded, lost, ppc, graceOver, acct, opc, okey>>
      BY <1>3 DEF ReloadDEK
    <3>2. \A q \in Procs : pc'[q] \in {"unwrap", "put", "check"} =>
             q # p /\ pc'[q] = pc[q] /\ wrapped'[q] = wrapped[q]
      BY <1>3, <2>1 DEF ReloadDEK, Goto, Return
    <3> QED
      BY <3>1, <3>2
  <2>2. CASE dek # NoKey
    BY ZenonT(20), <1>3, <2>2 DEF ReloadDEK, Goto, Return
  <2> QED
    BY <2>1, <2>2
<1>4. ASSUME NEW p \in Procs, UnwrapDEK(p) PROVE KeyInv'
  <2>1. (MastersNumbered /\ ShredFirst /\ GraceKept /\ Erased)'
    BY <1>4 DEF UnwrapDEK, Goto, Continue, Return, Rewrapped
  <2>2. KeyHeld'
    BY <1>4 DEF UnwrapDEK, Goto, Continue, Return, Rewrapped
  <2>3. CommandCurrent'
    BY <1>4 DEF UnwrapDEK, Goto, Continue, Return, Rewrapped
  <2>4. StaysReadable'
    BY <1>4 DEF UnwrapDEK, Goto, Continue, Return, Rewrapped
  <2> QED
    BY <2>1, <2>2, <2>3, <2>4
<1>5. ASSUME NEW p \in Writers, NEW d \in Drills, StartFinalize(p, d) PROVE KeyInv'
    BY <1>5 DEF StartFinalize, Goto, Continue, Return
<1>6. ASSUME NEW p \in Writers, PutFile(p) PROVE KeyInv'
    BY <1>6 DEF PutFile, Goto, Continue, Return
<1>7. ASSUME NEW p \in Writers, RecordSignature(p) PROVE KeyInv'
  <2>1. UNCHANGED <<keyVars, cfgVars, file, shredded, lost, ppc, graceOver, acct, opc, okey>>
    BY <1>7 DEF RecordSignature
  <2>2. pc' = [pc EXCEPT ![p] = "idle"] \/ pc' = [pc EXCEPT ![p] = "mark"]
    BY <1>7 DEF RecordSignature, Goto, Continue, Return
  <2>3. wrapped' = wrapped \/ wrapped' = [wrapped EXCEPT ![p] = NoKey]
    BY <1>7 DEF RecordSignature, Continue, Return
  <2>4. \A q \in Procs : pc'[q] \in {"unwrap", "put", "check"} =>
           pc'[q] = pc[q] /\ wrapped'[q] = wrapped[q]
    BY <2>2, <2>3
  <2> QED
    BY <2>1, <2>4
<1>8. ASSUME NEW p \in Writers, MarkEvidence(p) PROVE KeyInv'
    BY <1>8 DEF MarkEvidence, Goto, Continue, Return
<1>9. ASSUME NEW p \in Writers, FailFinalize(p) PROVE KeyInv'
    BY <1>9 DEF FailFinalize, Goto, Continue, Return, MayFail
<1>10. ASSUME NEW p \in Readers, NEW d \in Drills, StartVerify(p, d) PROVE KeyInv'
    BY <1>10 DEF StartVerify, Goto, Continue, Return
<1>11. ASSUME NEW p \in Readers, ReadFile(p) PROVE KeyInv'
  <2>1. UNCHANGED <<keyVars, cfgVars, file, shredded, lost, ppc, graceOver, acct, opc, okey>>
    BY <1>11 DEF ReadFile
  <2>2. pc' = [pc EXCEPT ![p] = "idle"] \/ pc' = [pc EXCEPT ![p] = "load"]
    BY <1>11 DEF ReadFile, Goto, Return
  <2>3. wrapped' = wrapped \/ wrapped' = [wrapped EXCEPT ![p] = NoKey]
    BY <1>11 DEF ReadFile, Return
  <2>4. \A q \in Procs : pc'[q] \in {"unwrap", "put", "check"} =>
           pc'[q] = pc[q] /\ wrapped'[q] = wrapped[q]
    BY <2>2, <2>3
  <2> QED
    BY <2>1, <2>4
<1>12. ASSUME NEW p \in Readers, CheckSignature(p) PROVE KeyInv'
    BY <1>12 DEF CheckSignature, Goto, Continue, Return
<1>13. ASSUME NEW p \in Readers, FailVerify(p) PROVE KeyInv'
    BY <1>13 DEF FailVerify, Goto, Continue, Return
<1>14. ASSUME NEW d \in Drills, Expire(d) PROVE KeyInv'
    BY <1>14 DEF Expire
<1>15. ASSUME NEW d \in Drills, DeleteExpiredSignature(d) PROVE KeyInv'
    BY <1>15 DEF DeleteExpiredSignature
<1>16. ASSUME NEW d \in Drills, DeleteKey(d) PROVE KeyInv'
    BY <1>16 DEF DeleteKey
<1>17. ASSUME NEW d \in Drills, NEW b \in BOOLEAN, DeleteExpiredFile(d, b) PROVE KeyInv'
    BY <1>17 DEF DeleteExpiredFile
<1>18. ASSUME SelectExpired PROVE KeyInv'
    BY <1>18 DEF SelectExpired
<1>19. ASSUME FailSweep PROVE KeyInv'
    BY <1>19 DEF FailSweep, MayFail
<1>20. ASSUME SoftDelete PROVE KeyInv'
    BY <1>20 DEF SoftDelete
<1>21. ASSUME SchedulePurge PROVE KeyInv'
    BY <1>21 DEF SchedulePurge, MayFail
<1>22. ASSUME GracePasses PROVE KeyInv'
    BY <1>22 DEF GracePasses
<1>23. ASSUME StartHardDelete PROVE KeyInv'
    BY <1>23 DEF StartHardDelete
<1>24. ASSUME ListPaths PROVE KeyInv'
    BY <1>24 DEF ListPaths
<1>25. ASSUME ShredAccount PROVE KeyInv'
    BY <1>25 DEF ShredAccount
<1>26. ASSUME DeleteAccount PROVE KeyInv'
    BY <1>26 DEF DeleteAccount
<1>27. ASSUME CompletePurge PROVE KeyInv'
    BY <1>27 DEF CompletePurge
<1>28. ASSUME FailPurge PROVE KeyInv'
    BY <1>28 DEF FailPurge, MayFail, Retried
<1>29. ASSUME Classify("rewrap") PROVE KeyInv'
    BY <1>29 DEF Classify
<1>30. ASSUME Classify("shred") PROVE KeyInv'
    BY <1>30 DEF Classify
<1>31. ASSUME RewrapAll PROVE KeyInv'
    BY <1>31 DEF RewrapAll, Rewrapped
<1>32. ASSUME ShredPoison PROVE KeyInv'
    BY <1>32 DEF ShredPoison
<1>33. ASSUME FailCommand PROVE KeyInv'
    BY <1>33 DEF FailCommand
<1>34. ASSUME RotateMaster PROVE KeyInv'
    BY <1>34 DEF RotateMaster, Restart, Retried
<1>35. ASSUME DropRetired PROVE KeyInv'
    BY <1>35 DEF DropRetired, Restart, Retried
<1>36. ASSUME LoseMaster PROVE KeyInv'
    BY <1>36 DEF LoseMaster, Restart, Retried
<1>37. ASSUME UNCHANGED vars PROVE KeyInv'
    BY <1>37
<1> HIDE DEF KeyInv, TypeOK
<1> QED
    BY <1>1, <1>2, <1>3, <1>4, <1>5, <1>6, <1>7, <1>8, <1>9, <1>10, <1>11, <1>12, <1>13,
       <1>14, <1>15, <1>16, <1>17, <1>18, <1>19, <1>20, <1>21, <1>22, <1>23, <1>24,
       <1>25, <1>26, <1>27, <1>28, <1>29, <1>30, <1>31, <1>32, <1>33, <1>34, <1>35,
       <1>36, <1>37
    DEF Next, AccountDEK, Finalize, Verify, Sweep, HardDelete, EvidenceKeys

\* The initial state satisfies the invariant of the key protocol.
LEMMA KeyInit == Init => KeyInv
BY VaultAssumption DEF Init, KeyInv, MastersNumbered, ShredFirst, KeyHeld, CommandCurrent,
    StaysReadable, GraceKept, Erased, NoKey, NoFile, Procs

\* The invariant of the key protocol holds in every reachable state.
LEMMA KeyProtocol == Spec => []KeyInv
<1>1. TypeOK /\ KeyInv /\ [Next]_vars => KeyInv'
    BY KeyStep
<1> QED
    BY <1>1, KeyInit, TypeCorrect, PTL DEF Spec

\* Until the purge shreds the account, every stored file is sealed with the
\* key in the database and a configured master key opens it, unless its master
\* key was lost (cipher.go: accountDEK, mintDEK, unwrapDEK, RewrapAll).
THEOREM EvidenceStaysReadable == Spec => []StaysReadable
<1>1. KeyInv => StaysReadable
    BY DEF KeyInv
<1> QED
    BY <1>1, KeyProtocol, PTL

\* HardDelete shreds evidence only after the grace period (purge.go:93).
THEOREM GraceIsKept == Spec => []GraceKept
<1>1. KeyInv => GraceKept
    BY DEF KeyInv
<1> QED
    BY <1>1, KeyProtocol, PTL

\* No Finalize, Verify or evidence-keys step brings a key back once the
\* accounts row is gone (purge.go:117-129, cipher.go:157, :186).
THEOREM ErasureIsFinal == Spec => []Erased
<1>1. KeyInv => Erased
    BY DEF KeyInv
<1> QED
    BY <1>1, KeyProtocol, PTL

\* The life of an account's key (cipher.go, purge.go): it opens what is stored until the
\* purge, the purge keeps the grace, and no key comes back.
THEOREM KeysAreSafe == Spec => []KeySafe
<1>1. KeyInv => KeySafe
    BY DEF KeyInv, KeySafe
<1> QED
    BY <1>1, KeyProtocol, PTL

-----------------------------------------------------------------------------
(* File and signature.  What Finalize, Verify and the sweep know of one       *)
(* another, drill by drill.                                                 *)

\* A writer at work on a drill where nobody met is alone there, and between its two writes the
\* file is its own.
WritersAlone ==
    \A p \in Writers : pc[p] # "idle" =>
        /\ body[p] # 0 /\ pc[p] \notin {"read", "check"}
        /\ drill[p] \notin rivals =>
              /\ ~Sweeping(drill[p])
              /\ \A q \in Writers : pc[q] # "idle" /\ drill[q] = drill[p] => q = p
              /\ pc[p] = "sign" /\ ~shredded => file[drill[p]].body = body[p]

\* The sweep handles a drill once, and what it handles has expired.
SweepsExpired ==
    \A d \in Drills :
        /\ <<d, TRUE>> \notin expired \/ <<d, FALSE>> \notin expired
        /\ d \in deleting => deleting = {d} /\ <<d, TRUE>> \notin expired /\ <<d, FALSE>> \notin expired
        /\ Sweeping(d) /\ d \notin rivals => sig[d].expired \/ acct = "gone"

\* The row belongs to the file but for the time between the two writes.
RowOfFile ==
    \A d \in Drills : sig[d] # NoSig =>
        /\ sig[d].body # 0
        /\ (d \notin rivals /\ ~shredded /\ d \notin deleting
               /\ \A p \in Writers : pc[p] = "sign" => drill[p] # d)
              => file[d].body = sig[d].body

\* While no master key is lost the configured ones open what was loaded.
MastersOpen ==
    lost = {} =>
        /\ dek # NoKey => CanUnwrap(dek)
        /\ \A p \in Procs : pc[p] \in {"unwrap", "put", "check"} => CanUnwrap(wrapped[p])

\* A reader nobody disturbs holds the row and the file as they are.
ReaderCurrent(p) ==
    /\ pc[p] \in {"idle", "read", "load", "unwrap", "check"}
    /\ p \notin disturbed /\ drill[p] \notin rivals /\ ~shredded /\ lost = {} =>
          /\ verdict[p] # "tampered"
          /\ pc[p] # "idle" =>
                /\ sig[drill[p]] # NoSig /\ body[p] = sig[drill[p]].body
                /\ ~Sweeping(drill[p])
                /\ \A q \in Writers : pc[q] # "idle" => drill[q] # drill[p]
          /\ pc[p] \in {"load", "unwrap", "check"} => blob[p] = file[drill[p]]

ReadersCurrent == \A p \in Readers : ReaderCurrent(p)

GoneIsShredded == acct = "gone" => shredded

FileInv ==
    /\ GoneIsShredded /\ WritersAlone /\ SweepsExpired /\ RowOfFile /\ MastersOpen
    /\ ReadersCurrent

\* A process that does not act keeps its place and what it holds.
Stays(q) ==
    /\ pc'[q] = pc[q] /\ drill'[q] = drill[q] /\ body'[q] = body[q]
    /\ blob'[q] = blob[q] /\ wrapped'[q] = wrapped[q]

KeyLabels == {"load", "mint", "reload", "unwrap"}

\* On the way to the key a process reads and writes the key row only, and keeps what it holds
\* or gives up.
LEMMA DekStep ==
    ASSUME TypeOK, NEW p \in Procs, AccountDEK(p)
    PROVE  /\ UNCHANGED <<acct, master, retired, file, sig, drill, expired, deleting, shredded,
                          lost, rivals, disturbed>>
           /\ \A q \in Procs : q # p => Stays(q)
           /\ \A q \in Readers : q # p => verdict'[q] = verdict[q]
           /\ pc[p] \in KeyLabels
           /\ \/ pc'[p] = "idle"
              \/ /\ pc'[p] \in {"mint", "reload", "unwrap", "put", "check"}
                 /\ body'[p] = body[p] /\ blob'[p] = blob[p] /\ verdict' = verdict
                 /\ p \in Writers => pc'[p] # "check"
                 /\ p \in Readers => pc'[p] \in {"unwrap", "check", "reload"}
                 /\ pc'[p] = "reload" => pc[p] = "mint"
           /\ p \in Readers /\ verdict'[p] = "tampered" /\ verdict[p] # "tampered" =>
                 pc[p] = "unwrap" /\ ~CanUnwrap(wrapped[p])
<1> USE VaultAssumption DEF keyVars, cfgVars, rowVars, procVars, locals, sweepVars, eraseVars,
           opVars, history
<1>0. /\ pc \in [Procs -> {"idle", "read", "load", "mint", "reload", "unwrap",
                         "put", "sign", "mark", "check"}]
      /\ body \in [Procs -> Nat] /\ blob \in [Procs -> Blobs] /\ wrapped \in [Procs -> WrappedKeys]
      /\ Readers \subseteq Procs /\ Writers \cap Readers = {} /\ Procs = Writers \cup Readers
      /\ verdict \in [Readers -> {"none", "unsigned", "unreadable", "shredded", "tampered", "valid"}]
  BY DEF TypeOK, Procs
<1>1. UNCHANGED <<acct, master, retired, file, sig, drill, expired, deleting, shredded,
                  lost, rivals, disturbed>>
  BY DEF AccountDEK, LoadWrappedDEK, MintDEK, ReloadDEK, UnwrapDEK
<1>2. ASSUME NEW q \in Procs, q # p PROVE Stays(q)
  <2>1. pc'[q] = pc[q]
    BY <1>0, <1>2 DEF AccountDEK, LoadWrappedDEK, MintDEK, ReloadDEK, UnwrapDEK, Goto, Continue, Return
  <2>2. body'[q] = body[q] /\ blob'[q] = blob[q]
    BY <1>0, <1>2 DEF AccountDEK, LoadWrappedDEK, MintDEK, ReloadDEK, UnwrapDEK, Continue, Return
  <2>3. wrapped'[q] = wrapped[q]
    BY <1>0, <1>2 DEF AccountDEK, LoadWrappedDEK, MintDEK, ReloadDEK, UnwrapDEK, Continue, Return
  <2> QED BY <1>1, <2>1, <2>2, <2>3 DEF Stays
<1>3. pc[p] \in KeyLabels
  BY DEF AccountDEK, LoadWrappedDEK, MintDEK, ReloadDEK, UnwrapDEK, KeyLabels
<1>4. \A q \in Readers : q # p => verdict'[q] = verdict[q]
  BY <1>0 DEF AccountDEK, LoadWrappedDEK, MintDEK, ReloadDEK, UnwrapDEK
<1>5. \/ pc'[p] = "idle"
      \/ /\ pc'[p] \in {"mint", "reload", "unwrap", "put", "check"}
         /\ body'[p] = body[p] /\ blob'[p] = blob[p] /\ verdict' = verdict
         /\ p \in Writers => pc'[p] # "check"
         /\ p \in Readers => pc'[p] \in {"unwrap", "check", "reload"}
         /\ pc'[p] = "reload" => pc[p] = "mint"
  <2>1. CASE LoadWrappedDEK(p)
    BY <1>0, <2>1 DEF LoadWrappedDEK, Goto, Continue, Return
  <2>2. CASE MintDEK(p)
    BY <1>0, <2>2 DEF MintDEK, Goto, Continue, Return
  <2>3. CASE ReloadDEK(p)
    BY <1>0, <2>3 DEF ReloadDEK, Goto, Continue, Return
  <2>4. CASE UnwrapDEK(p)
    BY <1>0, <2>4 DEF UnwrapDEK, Goto, Continue, Return
  <2> QED BY <2>1, <2>2, <2>3, <2>4 DEF AccountDEK
<1>6. p \in Readers /\ verdict'[p] = "tampered" /\ verdict[p] # "tampered" =>
         pc[p] = "unwrap" /\ ~CanUnwrap(wrapped[p])
  BY <1>0 DEF AccountDEK, LoadWrappedDEK, MintDEK, ReloadDEK, UnwrapDEK
<1> QED BY <1>1, <1>2, <1>3, <1>4, <1>5, <1>6

\* A step of Verify moves no other process, changes no file and no row, and accuses only where
\* the digest or the key is another one or the read failed.
LEMMA VerifyStep ==
    ASSUME TypeOK, NEW p \in Readers, Verify(p)
    PROVE  /\ UNCHANGED <<acct, dek, master, retired, file, sig, expired, deleting, shredded,
                          lost, rivals>>
           /\ \A q \in Procs : q # p => Stays(q)
           /\ \A q \in Readers : q # p =>
                 verdict'[q] = verdict[q] /\ (q \in disturbed' <=> q \in disturbed)
           /\ \/ /\ pc[p] = "idle" /\ pc'[p] = "idle" /\ verdict'[p] # "tampered"
              \/ /\ pc[p] = "idle" /\ pc'[p] = "read" /\ verdict'[p] # "tampered"
                 /\ sig[drill'[p]] # NoSig /\ body'[p] = sig[drill'[p]].body
                 /\ p \notin disturbed' => Writing(drill'[p]) = {} /\ ~Sweeping(drill'[p])
              \/ /\ pc[p] = "read" /\ pc'[p] = "load" /\ blob'[p] = file[drill[p]]
                 /\ UNCHANGED <<drill, verdict, disturbed>> /\ body'[p] = body[p]
              \/ /\ pc[p] \in {"read", "check"} /\ pc'[p] = "idle" /\ UNCHANGED <<drill, disturbed>>
                 /\ verdict'[p] = "tampered" =>
                       pc[p] = "check" /\ ~(blob[p].key = wrapped[p].id /\ blob[p].body = body[p])
              \/ pc'[p] = "idle" /\ p \in disturbed' /\ UNCHANGED drill
<1> USE VaultAssumption DEF keyVars, cfgVars, rowVars, procVars, locals, sweepVars, eraseVars,
           opVars, history
<1>0. /\ pc \in [Procs -> {"idle", "read", "load", "mint", "reload", "unwrap",
                         "put", "sign", "mark", "check"}]
      /\ body \in [Procs -> Nat] /\ blob \in [Procs -> Blobs] /\ wrapped \in [Procs -> WrappedKeys]
      /\ drill \in [Procs -> Drills] /\ p \in Procs /\ Readers \subseteq Procs
      /\ verdict \in [Readers -> {"none", "unsigned", "unreadable", "shredded", "tampered", "valid"}]
  BY DEF TypeOK, Procs
<1>1. UNCHANGED <<acct, dek, master, retired, file, sig, expired, deleting, shredded, lost, rivals>>
  BY DEF Verify, StartVerify, ReadFile, CheckSignature, FailVerify
<1>2. ASSUME NEW q \in Procs, q # p PROVE Stays(q)
  <2>1. pc'[q] = pc[q] /\ drill'[q] = drill[q]
    BY <1>0, <1>2 DEF Verify, StartVerify, ReadFile, CheckSignature, FailVerify, Goto, Return
  <2>2. body'[q] = body[q] /\ blob'[q] = blob[q]
    BY <1>0, <1>2 DEF Verify, StartVerify, ReadFile, CheckSignature, FailVerify, Return
  <2>3. wrapped'[q] = wrapped[q]
    BY <1>0, <1>2 DEF Verify, StartVerify, ReadFile, CheckSignature, FailVerify, Return
  <2> QED BY <2>1, <2>2, <2>3 DEF Stays
<1>3. ASSUME NEW q \in Readers, q # p
      PROVE  verdict'[q] = verdict[q] /\ (q \in disturbed' <=> q \in disturbed)
  BY <1>0, <1>3 DEF Verify, StartVerify, ReadFile, CheckSignature, FailVerify
<1>4. ASSUME NEW d \in Drills, StartVerify(p, d), sig[d] = NoSig
      PROVE  pc[p] = "idle" /\ pc'[p] = "idle" /\ verdict'[p] # "tampered"
  BY <1>0, <1>4 DEF StartVerify
<1>5. ASSUME NEW d \in Drills, StartVerify(p, d), sig[d] # NoSig
      PROVE  /\ pc[p] = "idle" /\ pc'[p] = "read" /\ verdict'[p] # "tampered"
             /\ sig[drill'[p]] # NoSig /\ body'[p] = sig[drill'[p]].body
             /\ p \notin disturbed' => Writing(drill'[p]) = {} /\ ~Sweeping(drill'[p])
  BY <1>0, <1>5 DEF StartVerify, Goto
<1>6. ASSUME ReadFile(p)
      PROVE  \/ /\ pc[p] = "read" /\ pc'[p] = "load" /\ blob'[p] = file[drill[p]]
                /\ UNCHANGED <<drill, verdict, disturbed>> /\ body'[p] = body[p]
             \/ /\ pc[p] = "read" /\ pc'[p] = "idle" /\ UNCHANGED <<drill, disturbed>>
                /\ verdict'[p] # "tampered"
  BY <1>0, <1>6 DEF ReadFile, Goto, Return
<1>7. ASSUME CheckSignature(p)
      PROVE  /\ pc[p] = "check" /\ pc'[p] = "idle" /\ UNCHANGED <<drill, disturbed>>
             /\ verdict'[p] = "tampered" =>
                   ~(blob[p].key = wrapped[p].id /\ blob[p].body = body[p])
  BY <1>0, <1>7 DEF CheckSignature, Goto, Return
<1>8. ASSUME FailVerify(p) PROVE pc'[p] = "idle" /\ p \in disturbed' /\ UNCHANGED drill
  BY <1>0, <1>8 DEF FailVerify, Goto, Return
<1> QED BY <1>1, <1>2, <1>3, <1>4, <1>5, <1>6, <1>7, <1>8 DEF Verify

WriterGoesOn(q) ==
    /\ drill'[q] = drill[q]
    /\ pc'[q] # "idle" =>
          /\ pc[q] # "idle" /\ body'[q] = body[q] /\ pc'[q] \notin {"read", "check"}
          /\ pc'[q] = "sign" => pc[q] = "sign"

\* Writers that only go on, next to no sweep, stay alone.
LEMMA AloneKept ==
    ASSUME WritersAlone, UNCHANGED <<file, expired, deleting, shredded, rivals>>,
           \A q \in Writers : WriterGoesOn(q)
    PROVE  WritersAlone'
<1>1. ASSUME NEW q \in Writers, pc'[q] # "idle"
      PROVE  /\ pc[q] # "idle" /\ drill'[q] = drill[q] /\ body'[q] = body[q]
             /\ pc'[q] \notin {"read", "check"} /\ (pc'[q] = "sign" => pc[q] = "sign")
  BY <1>1 DEF WriterGoesOn
<1> QED BY <1>1 DEF WritersAlone, Sweeping

\* After the file a writer signs it and is done with it, or the account is gone.
LEMMA RecordStep ==
    ASSUME TypeOK, NEW p \in Writers, RecordSignature(p)
    PROVE  /\ UNCHANGED <<acct, dek, master, retired, file, drill, verdict, expired, deleting, shredded,
                          lost, rivals, disturbed>>
           /\ \A q \in Procs : q # p => Stays(q)
           /\ pc[p] = "sign" /\ p \in Procs
           /\ \/ acct = "gone" /\ pc'[p] = "idle" /\ sig' = sig
              \/ /\ acct # "gone" /\ pc'[p] = "mark" /\ body'[p] = body[p]
                 /\ sig' = [sig EXCEPT ![drill[p]] = [body |-> body[p], expired |-> FALSE]]
<1> USE VaultAssumption DEF keyVars, cfgVars, rowVars, procVars, locals, sweepVars, eraseVars,
           opVars, history
<1>0. /\ pc \in [Procs -> {"idle", "read", "load", "mint", "reload", "unwrap",
                         "put", "sign", "mark", "check"}]
      /\ body \in [Procs -> Nat] /\ blob \in [Procs -> Blobs] /\ wrapped \in [Procs -> WrappedKeys]
      /\ p \in Procs
  BY DEF TypeOK, Procs
<1>1. CASE acct = "gone"
  BY <1>0, <1>1 DEF RecordSignature, Goto, Return, Stays
<1>2. CASE acct # "gone"
  BY <1>0, <1>2 DEF RecordSignature, Goto, Continue, Stays
<1> QED BY <1>1, <1>2

\* A reader that nobody disturbed finds the file sealed with the key it unwrapped and with the
\* digest of the row.
LEMMA HonestCheck ==
    ASSUME TypeOK, KeyInv, FileInv, NEW p \in Readers, p \notin disturbed, drill[p] \notin rivals,
           ~shredded, lost = {}, pc[p] = "check"
    PROVE  blob[p].key = wrapped[p].id /\ blob[p].body = body[p]
<1> DEFINE d == drill[p]
<1>1. /\ sig[d] # NoSig /\ body[p] = sig[d].body /\ ~Sweeping(d) /\ blob[p] = file[d]
      /\ \A q \in Writers : pc[q] # "idle" => drill[q] # d
  BY DEF FileInv, ReadersCurrent, ReaderCurrent
<1>2. d \in Drills /\ p \in Procs
  BY DEF TypeOK, Procs
<1>3. sig[d].body # 0 /\ file[d].body = sig[d].body
  BY <1>1, <1>2 DEF FileInv, RowOfFile, Sweeping
<1>4. file[d] # NoFile
  BY <1>3 DEF NoFile
<1>5. dek.id = file[d].key
  BY <1>2, <1>4 DEF KeyInv, StaysReadable
<1>6. dek.id = wrapped[p].id
  BY <1>2 DEF KeyInv, KeyHeld
<1> QED BY <1>1, <1>3, <1>5, <1>6

\* The row goes last, after the key.
LEMMA GoneStep ==
    ASSUME KeyInv, FileInv, [Next]_vars
    PROVE  GoneIsShredded'
<1> USE DEF keyVars, cfgVars, rowVars, procVars, locals, sweepVars, eraseVars, opVars, history,
       FileInv, GoneIsShredded
<1>1. ASSUME UNCHANGED <<acct, shredded>> PROVE GoneIsShredded'
  BY <1>1
<1>2. CASE DeleteAccount
  BY <1>2 DEF DeleteAccount, KeyInv, ShredFirst
<1>3. CASE ShredAccount \/ SoftDelete
  BY <1>3 DEF ShredAccount, SoftDelete
<1>4. ASSUME NEW p, AccountDEK(p) \/ Finalize(p) \/ Verify(p) PROVE UNCHANGED <<acct, shredded>>
  BY <1>4 DEF AccountDEK, LoadWrappedDEK, MintDEK, ReloadDEK, UnwrapDEK, Finalize, StartFinalize,
     PutFile, RecordSignature, MarkEvidence, FailFinalize, Verify, StartVerify, ReadFile,
     CheckSignature, FailVerify
<1>5. ASSUME (\E d \in Drills : Expire(d) \/ DeleteKey(d)) \/ Sweep \/ SchedulePurge \/ GracePasses
             \/ StartHardDelete \/ ListPaths \/ CompletePurge \/ FailPurge \/ EvidenceKeys
      PROVE  UNCHANGED <<acct, shredded>>
  BY <1>5 DEF Expire, DeleteKey, Sweep, SelectExpired, DeleteExpiredFile, DeleteExpiredSignature,
     FailSweep, SchedulePurge, GracePasses, StartHardDelete, ListPaths, CompletePurge, FailPurge,
     EvidenceKeys, Classify, RewrapAll, ShredPoison, FailCommand
<1>6. ASSUME RotateMaster \/ DropRetired \/ LoseMaster \/ UNCHANGED vars
      PROVE  UNCHANGED <<acct, shredded>>
  BY <1>6 DEF RotateMaster, DropRetired, LoseMaster, Restart, vars
<1> HIDE DEF FileInv, GoneIsShredded
<1> QED BY <1>1, <1>2, <1>3, <1>4, <1>5, <1>6 DEF Next, HardDelete

\* A writer that finds company makes the drill a rival; one that does not stays alone.
LEMMA WritersStep ==
    ASSUME TypeOK, KeyInv, FileInv, [Next]_vars
    PROVE  WritersAlone'
<1> USE VaultAssumption DEF vars, keyVars, cfgVars, rowVars, procVars, locals, sweepVars, eraseVars,
           opVars, history, FileInv
<1>1. ASSUME UNCHANGED <<pc, body, drill, rivals, expired, deleting, shredded,
                         file>> PROVE WritersAlone'
  BY <1>1 DEF WritersAlone, Sweeping
<1>2. ASSUME SoftDelete \/ DeleteAccount \/ RewrapAll \/ ShredPoison \/ SchedulePurge
     \/ GracePasses \/ StartHardDelete \/ ListPaths \/ CompletePurge \/ FailPurge
          \/ Classify("rewrap") \/ Classify("shred") \/ FailCommand \/ UNCHANGED vars
      PROVE  UNCHANGED <<pc, body, drill, rivals, expired, deleting, shredded, file>>
  BY <1>2 DEF SoftDelete, DeleteAccount, RewrapAll, ShredPoison, SchedulePurge, GracePasses,
       StartHardDelete, ListPaths, CompletePurge, FailPurge, Classify, FailCommand
<1>3. ASSUME NEW d \in Drills, Expire(d)
      PROVE  UNCHANGED <<pc, body, drill, rivals, expired, deleting, shredded, file>>
  BY <1>3 DEF Expire
<1>4. ASSUME NEW p \in Procs, AccountDEK(p) PROVE WritersAlone'
  <2>1. UNCHANGED <<drill, file, expired, deleting, shredded, rivals>>
    BY <1>4, DekStep
  <2>2. ASSUME NEW q \in Writers PROVE WriterGoesOn(q)
    <3>1. CASE q # p
      BY <1>4, <2>1, <3>1, DekStep DEF WriterGoesOn, WritersAlone, Stays, Procs
    <3>2. CASE q = p
      BY <1>4, <2>1, <2>2, <3>2, DekStep DEF WriterGoesOn, KeyLabels
    <3> QED BY <3>1, <3>2
  <2> QED BY <2>1, <2>2, AloneKept
<1>5. ASSUME NEW p \in Readers, Verify(p) PROVE WritersAlone'
  <2>1. UNCHANGED <<file, expired, deleting, shredded, rivals>>
    BY <1>5, VerifyStep
  <2>2. ASSUME NEW q \in Writers PROVE WriterGoesOn(q)
    BY <1>5, VerifyStep DEF WriterGoesOn, WritersAlone, Stays, Procs
  <2> QED BY <2>1, <2>2, AloneKept
<1>6. ASSUME NEW p \in Writers, NEW d \in Drills, StartFinalize(p, d) PROVE WritersAlone'
  <2>1. /\ pc[p] = "idle" /\ pc' = [pc EXCEPT ![p] = "load"]
        /\ drill' = [drill EXCEPT ![p] = d] /\ body' = [body EXCEPT ![p] = pdfs + 1]
        /\ rivals' = IF Writing(d) # {} \/ Sweeping(d) THEN rivals \cup {d} ELSE rivals
        /\ UNCHANGED <<file, expired, deleting, shredded>>
    BY <1>6 DEF StartFinalize, Goto
  <2>2. pdfs + 1 # 0 /\ p \in Procs
    BY DEF TypeOK, Procs
  <2>3. pc'[p] = "load" /\ drill'[p] = d /\ body'[p] = pdfs + 1
    BY <2>1, <2>2 DEF TypeOK
  <2>4. ASSUME NEW q \in Writers, q # p
        PROVE  pc'[q] = pc[q] /\ drill'[q] = drill[q] /\ body'[q] = body[q]
    BY <2>1, <2>4 DEF TypeOK, Procs
  <2>5. d \notin rivals' =>
           ~Sweeping(d)' /\ d \notin rivals /\ \A q \in Writers : pc[q] # "idle" => drill[q] # d
    BY <2>1 DEF Writing, Sweeping
  <2>6. \A e \in Drills : Sweeping(e)' = Sweeping(e)
    BY <2>1 DEF Sweeping
  <2>7. rivals \subseteq rivals'
    BY <2>1
  <2>8. ASSUME NEW q \in Writers, pc'[q] # "idle", drill'[q] \notin rivals', q # p
        PROVE  /\ ~Sweeping(drill[q])' /\ drill[q] # d
               /\ pc[q] = "sign" /\ ~shredded => file[drill[q]].body = body[q]
               /\ \A r \in Writers : pc[r] # "idle" /\ drill[r] = drill[q] => r = q
    <3>1. drill[q] \in Drills /\ pc[q] # "idle" /\ drill[q] \notin rivals
      BY <2>4, <2>7, <2>8 DEF TypeOK, Procs
    <3>2. ~Sweeping(drill[q])'
      BY <3>1, <2>1 DEF WritersAlone, Sweeping
    <3>3. drill[q] # d
      BY <2>4, <2>5, <2>8, <3>1
    <3> QED BY <3>1, <3>2, <3>3 DEF WritersAlone
  <2>9. ASSUME NEW q \in Writers, pc'[q] # "idle"
        PROVE  body'[q] # 0 /\ pc'[q] \notin {"read", "check"}
    BY <2>2, <2>3, <2>4, <2>9 DEF WritersAlone
  <2>10. ASSUME NEW q \in Writers, pc'[q] # "idle", drill'[q] \notin rivals'
         PROVE  /\ ~(drill'[q] \in deleting') /\ \A b \in BOOLEAN : <<drill'[q], b>> \notin expired'
                /\ \A r \in Writers : pc'[r] # "idle" /\ drill'[r] = drill'[q] => r = q
                /\ pc'[q] = "sign" /\ ~shredded' => file'[drill'[q]].body = body'[q]
    <3>1. CASE q = p
      <4>1. \A r \in Writers : pc'[r] # "idle" /\ drill'[r] = d => r = p
        BY <2>3, <2>4, <2>5, <2>10, <3>1
      <4>2. d \notin deleting' /\ \A b \in BOOLEAN : <<d, b>> \notin expired'
        BY <2>3, <2>5, <2>10, <3>1 DEF Sweeping
      <4> QED BY <2>3, <3>1, <4>1, <4>2
    <3>2. CASE q # p
      <4>1. ~Sweeping(drill[q])' /\ drill'[q] = drill[q] /\ drill[q] # d
        BY <2>4, <2>8, <2>10, <3>2
      <4>2. \A r \in Writers : pc'[r] # "idle" /\ drill'[r] = drill[q] => r = q
        BY <2>3, <2>4, <2>8, <2>10, <3>2
      <4>3. pc'[q] = "sign" /\ ~shredded => file[drill[q]].body = body'[q]
        BY <2>4, <2>8, <2>10, <3>2
      <4>4. drill[q] \notin deleting' /\ \A b \in BOOLEAN : <<drill[q], b>> \notin expired'
        BY <4>1 DEF Sweeping
      <4> QED BY <2>1, <4>1, <4>2, <4>3, <4>4
    <3> QED BY <3>1, <3>2
  <2> QED BY <2>9, <2>10 DEF WritersAlone, Sweeping
<1>7. ASSUME NEW p \in Writers, PutFile(p) PROVE WritersAlone'
  BY <1>7 DEF PutFile, Goto, Continue, Return, WritersAlone, TypeOK, Procs, Sweeping
<1>8. ASSUME NEW p \in Writers, RecordSignature(p) PROVE WritersAlone'
  <2>1. UNCHANGED <<drill, file, expired, deleting, shredded, rivals>>
    BY <1>8, RecordStep
  <2>2. ASSUME NEW q \in Writers PROVE WriterGoesOn(q)
    <3>1. CASE q # p
      BY <1>8, <2>1, <3>1, RecordStep DEF WriterGoesOn, WritersAlone, Stays, Procs
    <3>2. CASE q = p
      BY <1>8, <2>1, <2>2, <3>2, RecordStep DEF WriterGoesOn
    <3> QED BY <3>1, <3>2
  <2> QED BY <2>1, <2>2, AloneKept
<1>9. ASSUME NEW p \in Writers, MarkEvidence(p) PROVE WritersAlone'
  BY <1>9 DEF MarkEvidence, Goto, Continue, Return, WritersAlone, TypeOK, Procs, Sweeping
<1>10. ASSUME NEW p \in Writers, FailFinalize(p) PROVE WritersAlone'
  BY <1>10 DEF FailFinalize, Goto, Continue, Return, MayFail, WritersAlone, TypeOK, Procs, Sweeping
<1>11. ASSUME SelectExpired PROVE WritersAlone'
  <2>1. /\ expired = {} /\ deleting = {} /\ deleting' = {}
        /\ UNCHANGED <<pc, drill, body, file, shredded>>
        /\ expired' = {<<d, path[d]>> : d \in {e \in Drills : sig[e].expired}}
        /\ rivals' = rivals \cup {d \in Drills : sig[d].expired /\ Writing(d) # {}}
    BY <1>11 DEF SelectExpired
  <2>2. ASSUME NEW p \in Writers, pc[p] # "idle", drill[p] \notin rivals'
        PROVE  ~Sweeping(drill[p])'
    <3>1. p \in Writing(drill[p]) /\ drill[p] \in Drills
      BY <2>2 DEF Writing, TypeOK, Procs
    <3>2. ~sig[drill[p]].expired
      BY <2>1, <2>2, <3>1
    <3> QED BY <2>1, <3>2 DEF Sweeping
  <2>3. \A p \in Writers : drill'[p] \notin rivals' => drill[p] \notin rivals
    BY <2>1
  <2> QED BY <2>1, <2>2, <2>3 DEF WritersAlone, Sweeping
<1>12. ASSUME NEW d \in Drills, NEW b \in BOOLEAN, DeleteExpiredFile(d, b) PROVE WritersAlone'
  BY <1>12 DEF DeleteExpiredFile, WritersAlone, TypeOK, Procs, Sweeping
<1>13. ASSUME NEW d \in Drills, DeleteExpiredSignature(d) PROVE WritersAlone'
  BY <1>13 DEF DeleteExpiredSignature, WritersAlone, TypeOK, Procs, Sweeping
<1>14. ASSUME FailSweep PROVE WritersAlone'
  BY <1>14 DEF FailSweep, MayFail, WritersAlone, TypeOK, Procs, Sweeping
<1>15. ASSUME ShredAccount PROVE WritersAlone'
  BY <1>15 DEF ShredAccount, WritersAlone, TypeOK, Procs, Sweeping
<1>16. ASSUME NEW d \in Drills, DeleteKey(d) PROVE WritersAlone'
  <2>1. shredded /\ UNCHANGED <<pc, body, drill, rivals, expired, deleting, shredded>>
    BY <1>16 DEF DeleteKey, KeyInv, ShredFirst
  <2> QED BY <2>1 DEF WritersAlone, Sweeping
<1>17. ASSUME RotateMaster PROVE WritersAlone'
  BY <1>17 DEF RotateMaster, Restart, WritersAlone, TypeOK, Procs, Sweeping
<1>18. ASSUME DropRetired PROVE WritersAlone'
  BY <1>18 DEF DropRetired, Restart, WritersAlone, TypeOK, Procs, Sweeping
<1>19. ASSUME LoseMaster PROVE WritersAlone'
  BY <1>19 DEF LoseMaster, Restart, WritersAlone, TypeOK, Procs, Sweeping
<1> HIDE DEF FileInv
<1> QED
  BY <1>1, <1>2, <1>3, <1>4, <1>5, <1>6, <1>7, <1>8, <1>9, <1>10, <1>11, <1>12, <1>13, <1>14,
       <1>15, <1>16, <1>17, <1>18, <1>19
  DEF Next, Finalize, Sweep, HardDelete, EvidenceKeys

\* What is selected stays expired until it is deleted, unless a writer signs it again.
LEMMA SweepStep ==
    ASSUME TypeOK, KeyInv, FileInv, [Next]_vars
    PROVE  SweepsExpired'
<1> USE VaultAssumption DEF vars, keyVars, cfgVars, rowVars, procVars, locals, sweepVars, eraseVars,
           opVars, history, FileInv
<1>1. ASSUME UNCHANGED <<expired, deleting, rivals, sig, acct>> PROVE SweepsExpired'
  BY <1>1 DEF SweepsExpired, Sweeping
<1>2. ASSUME ShredAccount \/ RewrapAll \/ ShredPoison \/ SchedulePurge \/ GracePasses
     \/ StartHardDelete \/ ListPaths \/ CompletePurge \/ FailPurge \/ Classify("rewrap")
          \/ Classify("shred") \/ FailCommand \/ UNCHANGED vars
      PROVE  UNCHANGED <<expired, deleting, rivals, sig, acct>>
  BY <1>2 DEF ShredAccount, RewrapAll, ShredPoison, SchedulePurge, GracePasses, StartHardDelete,
       ListPaths, CompletePurge, FailPurge, Classify, FailCommand
<1>3. ASSUME NEW p \in Procs, AccountDEK(p)
      PROVE  UNCHANGED <<expired, deleting, rivals, sig, acct>>
  BY <1>3 DEF AccountDEK, LoadWrappedDEK, MintDEK, ReloadDEK, UnwrapDEK
<1>4. ASSUME NEW p \in Readers, Verify(p)
      PROVE  UNCHANGED <<expired, deleting, rivals, sig, acct>>
  BY <1>4 DEF Verify, StartVerify, ReadFile, CheckSignature, FailVerify
<1>5. ASSUME NEW p \in Writers, PutFile(p) \/ MarkEvidence(p)
      PROVE  UNCHANGED <<expired, deleting, rivals, sig, acct>>
  BY <1>5 DEF PutFile, Goto, Continue, Return, MarkEvidence
<1>6. ASSUME NEW d \in Drills, DeleteKey(d)
      PROVE  UNCHANGED <<expired, deleting, rivals, sig, acct>>
  BY <1>6 DEF DeleteKey
<1>7. ASSUME NEW p \in Writers, NEW d \in Drills, StartFinalize(p, d) PROVE SweepsExpired'
  BY <1>7 DEF StartFinalize, Goto, Continue, Return, Writing, Verifying, SweepsExpired, TypeOK,
       Procs, Sweeping
<1>8. ASSUME NEW p \in Writers, RecordSignature(p) PROVE SweepsExpired'
  <2>1. UNCHANGED <<expired, deleting, rivals, acct, drill>> /\ pc[p] = "sign" /\ p \in Procs
    BY <1>8, RecordStep
  <2>2. \A d \in Drills : d # drill[p] => sig'[d] = sig[d]
    BY <1>8, RecordStep DEF TypeOK
  <2>3. drill[p] \notin rivals => ~Sweeping(drill[p])
    BY <2>1 DEF WritersAlone
  <2> QED BY <2>1, <2>2, <2>3 DEF SweepsExpired, Sweeping
<1>9. ASSUME NEW p \in Writers, FailFinalize(p) PROVE SweepsExpired'
  BY <1>9 DEF FailFinalize, Goto, Continue, Return, MayFail, SweepsExpired, TypeOK, Procs, Sweeping
<1>10. ASSUME NEW d \in Drills, Expire(d) PROVE SweepsExpired'
  BY <1>10 DEF Expire, SweepsExpired, TypeOK, Procs, Sweeping
<1>11. ASSUME SelectExpired PROVE SweepsExpired'
  BY <1>11 DEF SelectExpired, SweepsExpired, TypeOK, Procs, Sweeping
<1>12. ASSUME NEW d \in Drills, NEW b \in BOOLEAN, DeleteExpiredFile(d, b) PROVE SweepsExpired'
  BY <1>12 DEF DeleteExpiredFile, SweepsExpired, TypeOK, Procs, Sweeping
<1>13. ASSUME NEW d \in Drills, DeleteExpiredSignature(d) PROVE SweepsExpired'
  BY <1>13 DEF DeleteExpiredSignature, SweepsExpired, TypeOK, Procs, Sweeping
<1>14. ASSUME FailSweep PROVE SweepsExpired'
  BY <1>14 DEF FailSweep, MayFail, SweepsExpired, TypeOK, Procs, Sweeping
<1>15. ASSUME SoftDelete PROVE SweepsExpired'
  BY <1>15 DEF SoftDelete, SweepsExpired, TypeOK, Procs, Sweeping
<1>16. ASSUME DeleteAccount PROVE SweepsExpired'
  BY <1>16 DEF DeleteAccount, SweepsExpired, TypeOK, Procs, Sweeping
<1>17. ASSUME RotateMaster PROVE SweepsExpired'
  BY <1>17 DEF RotateMaster, Restart, SweepsExpired, TypeOK, Procs, Sweeping
<1>18. ASSUME DropRetired PROVE SweepsExpired'
  BY <1>18 DEF DropRetired, Restart, SweepsExpired, TypeOK, Procs, Sweeping
<1>19. ASSUME LoseMaster PROVE SweepsExpired'
  BY <1>19 DEF LoseMaster, Restart, SweepsExpired, TypeOK, Procs, Sweeping
<1> HIDE DEF FileInv
<1> QED
  BY <1>1, <1>2, <1>3, <1>4, <1>5, <1>6, <1>7, <1>8, <1>9, <1>10, <1>11, <1>12, <1>13, <1>14,
       <1>15, <1>16, <1>17, <1>18, <1>19
  DEF Next, Finalize, Sweep, HardDelete, EvidenceKeys

\* Both writes are made by the one writer of the drill, in the order file, row.
LEMMA RowStep ==
    ASSUME TypeOK, KeyInv, FileInv, [Next]_vars
    PROVE  RowOfFile'
<1> USE VaultAssumption DEF vars, keyVars, cfgVars, rowVars, procVars, locals, sweepVars, eraseVars,
           opVars, history, FileInv
<1>1. ASSUME UNCHANGED <<sig, rivals, shredded, deleting, pc, drill, file>> PROVE RowOfFile'
  BY <1>1 DEF RowOfFile
<1>2. ASSUME SoftDelete \/ RewrapAll \/ ShredPoison \/ SchedulePurge \/ GracePasses
     \/ StartHardDelete \/ ListPaths \/ CompletePurge \/ FailPurge \/ Classify("rewrap")
          \/ Classify("shred") \/ FailCommand \/ UNCHANGED vars
      PROVE  UNCHANGED <<sig, rivals, shredded, deleting, pc, drill, file>>
  BY <1>2 DEF SoftDelete, RewrapAll, ShredPoison, SchedulePurge, GracePasses, StartHardDelete,
       ListPaths, CompletePurge, FailPurge, Classify, FailCommand
<1>3. ASSUME NEW p \in Procs, AccountDEK(p) PROVE RowOfFile'
  <2>1. UNCHANGED <<sig, rivals, shredded, deleting, drill, file>>
    BY <1>3, DekStep
  <2>2. \A q \in Procs : pc[q] = "sign" => pc'[q] = "sign"
    BY <1>3, DekStep DEF Stays, KeyLabels
  <2> QED BY <2>1, <2>2 DEF RowOfFile, Procs
<1>4. ASSUME NEW p \in Readers, Verify(p) PROVE RowOfFile'
  <2>1. UNCHANGED <<sig, rivals, shredded, deleting, file>>
    BY <1>4, VerifyStep
  <2>2. \A q \in Writers : pc'[q] = pc[q] /\ drill'[q] = drill[q]
    BY <1>4, VerifyStep DEF Stays, Procs
  <2> QED BY <2>1, <2>2 DEF RowOfFile
<1>5. ASSUME NEW p \in Writers, NEW d \in Drills, StartFinalize(p, d) PROVE RowOfFile'
  BY <1>5 DEF StartFinalize, Goto, Continue, Return, Writing, Verifying, RowOfFile, TypeOK, Procs
<1>6. ASSUME NEW p \in Writers, PutFile(p) PROVE RowOfFile'
  BY <1>6 DEF PutFile, Goto, Continue, Return, RowOfFile, TypeOK, Procs
<1>7. ASSUME NEW p \in Writers, RecordSignature(p) PROVE RowOfFile'
  <2>1. /\ UNCHANGED <<rivals, shredded, deleting, file, drill, acct>>
        /\ pc[p] = "sign" /\ p \in Procs
        /\ \A q \in Procs : q # p => pc'[q] = pc[q]
    BY <1>7, RecordStep DEF Stays
  <2>2. CASE acct = "gone"
    BY <1>7, <2>1, <2>2, RecordStep DEF RowOfFile, GoneIsShredded
  <2>3. CASE acct # "gone"
    <3>1. /\ drill[p] \in Drills /\ body[p] # 0 /\ body[p] \in Nat
          /\ drill[p] \notin rivals /\ ~shredded => file[drill[p]].body = body[p]
      BY <2>1 DEF WritersAlone, TypeOK
    <3>2. /\ sig'[drill[p]].body = body[p]
          /\ \A d \in Drills : d # drill[p] => sig'[d] = sig[d]
      <4>1. sig' = [sig EXCEPT ![drill[p]] = [body |-> body[p], expired |-> FALSE]]
        BY <1>7, <2>3, RecordStep
      <4>2. sig \in [Drills -> Signatures]
        BY DEF TypeOK
      <4> QED BY <3>1, <4>1, <4>2
    <3>3. \A d \in Drills : d # drill[p] =>
             ((\A q \in Writers : pc'[q] = "sign" => drill[q] # d) =>
              (\A q \in Writers : pc[q] = "sign" => drill[q] # d))
      BY <2>1 DEF Procs
    <3> QED BY <2>1, <3>1, <3>2, <3>3 DEF RowOfFile
  <2> QED BY <2>2, <2>3
<1>8. ASSUME NEW p \in Writers, MarkEvidence(p) PROVE RowOfFile'
  BY <1>8 DEF MarkEvidence, Goto, Continue, Return, RowOfFile, TypeOK, Procs
<1>9. ASSUME NEW p \in Writers, FailFinalize(p) PROVE RowOfFile'
  BY <1>9 DEF FailFinalize, Goto, Continue, Return, MayFail, RowOfFile, TypeOK, Procs
<1>10. ASSUME NEW d \in Drills, Expire(d) PROVE RowOfFile'
  BY <1>10 DEF Expire, RowOfFile, TypeOK, Procs
<1>11. ASSUME SelectExpired PROVE RowOfFile'
  BY <1>11 DEF SelectExpired, RowOfFile, TypeOK, Procs
<1>12. ASSUME NEW d \in Drills, NEW b \in BOOLEAN, DeleteExpiredFile(d, b) PROVE RowOfFile'
  BY <1>12 DEF DeleteExpiredFile, RowOfFile, TypeOK, Procs
<1>13. ASSUME NEW d \in Drills, DeleteExpiredSignature(d) PROVE RowOfFile'
  <2>1. /\ d \in deleting /\ deleting' = {} /\ sig' = [sig EXCEPT ![d] = NoSig]
        /\ UNCHANGED <<rivals, shredded, pc, drill, file>>
    BY <1>13 DEF DeleteExpiredSignature
  <2>2. sig'[d] = NoSig /\ \A e \in Drills : e # d => sig'[e] = sig[e]
    BY <2>1 DEF TypeOK
  <2>3. \A e \in deleting : e = d
    BY <2>1 DEF SweepsExpired, TypeOK
  <2> QED BY <2>1, <2>2, <2>3 DEF RowOfFile
<1>14. ASSUME FailSweep PROVE RowOfFile'
  BY <1>14 DEF FailSweep, MayFail, RowOfFile, TypeOK, Procs
<1>15. ASSUME ShredAccount PROVE RowOfFile'
  BY <1>15 DEF ShredAccount, RowOfFile, TypeOK, Procs
<1>16. ASSUME NEW d \in Drills, DeleteKey(d) PROVE RowOfFile'
  <2>1. shredded /\ UNCHANGED <<sig, shredded>>
    BY <1>16 DEF DeleteKey, KeyInv, ShredFirst
  <2> QED BY <2>1 DEF RowOfFile
<1>17. ASSUME DeleteAccount PROVE RowOfFile'
  BY <1>17 DEF DeleteAccount, RowOfFile, TypeOK, Procs
<1>18. ASSUME RotateMaster PROVE RowOfFile'
  <2>1. /\ UNCHANGED <<sig, shredded, drill, file>> /\ deleting' = {}
        /\ rivals' = rivals \cup {d \in Drills : Unsigned(d) # {}} \cup deleting
    BY <1>18 DEF RotateMaster, Restart
  <2>2. ASSUME NEW d \in Drills, d \notin rivals'
        PROVE  d \notin rivals /\ d \notin deleting /\ \A p \in Writers : pc[p] = "sign" => drill[p] # d
    BY <2>1, <2>2 DEF Unsigned, Writing
  <2> QED BY <2>1, <2>2 DEF RowOfFile
<1>19. ASSUME DropRetired PROVE RowOfFile'
  <2>1. /\ UNCHANGED <<sig, shredded, drill, file>> /\ deleting' = {}
        /\ rivals' = rivals \cup {d \in Drills : Unsigned(d) # {}} \cup deleting
    BY <1>19 DEF DropRetired, Restart
  <2>2. ASSUME NEW d \in Drills, d \notin rivals'
        PROVE  d \notin rivals /\ d \notin deleting /\ \A p \in Writers : pc[p] = "sign" => drill[p] # d
    BY <2>1, <2>2 DEF Unsigned, Writing
  <2> QED BY <2>1, <2>2 DEF RowOfFile
<1>20. ASSUME LoseMaster PROVE RowOfFile'
  <2>1. /\ UNCHANGED <<sig, shredded, drill, file>> /\ deleting' = {}
        /\ rivals' = rivals \cup {d \in Drills : Unsigned(d) # {}} \cup deleting
    BY <1>20 DEF LoseMaster, Restart
  <2>2. ASSUME NEW d \in Drills, d \notin rivals'
        PROVE  d \notin rivals /\ d \notin deleting /\ \A p \in Writers : pc[p] = "sign" => drill[p] # d
    BY <2>1, <2>2 DEF Unsigned, Writing
  <2> QED BY <2>1, <2>2 DEF RowOfFile
<1> HIDE DEF FileInv
<1> QED
  BY <1>1, <1>2, <1>3, <1>4, <1>5, <1>6, <1>7, <1>8, <1>9, <1>10, <1>11, <1>12, <1>13, <1>14,
       <1>15, <1>16, <1>17, <1>18, <1>19, <1>20
  DEF Next, Finalize, Sweep, HardDelete, EvidenceKeys

\* A change of the master keys starts everything over.
LEMMA MastersStep ==
    ASSUME TypeOK, KeyInv, FileInv, [Next]_vars
    PROVE  MastersOpen'
<1> USE VaultAssumption DEF vars, keyVars, cfgVars, rowVars, procVars, locals, sweepVars, eraseVars,
           opVars, history, FileInv
<1>1. ASSUME UNCHANGED <<lost, dek, master, retired, pc, wrapped>> PROVE MastersOpen'
  BY <1>1 DEF MastersOpen, CanUnwrap
<1>2. ASSUME SelectExpired \/ FailSweep \/ SoftDelete \/ SchedulePurge \/ GracePasses
     \/ StartHardDelete \/ ListPaths \/ CompletePurge \/ FailPurge \/ Classify("rewrap")
          \/ Classify("shred") \/ FailCommand \/ UNCHANGED vars
      PROVE  UNCHANGED <<lost, dek, master, retired, pc, wrapped>>
  BY <1>2 DEF SelectExpired, FailSweep, SoftDelete, SchedulePurge, GracePasses, StartHardDelete,
       ListPaths, CompletePurge, FailPurge, Classify, FailCommand
<1>3. ASSUME NEW d \in Drills, Expire(d) \/ DeleteExpiredSignature(d) \/ DeleteKey(d)
      PROVE  UNCHANGED <<lost, dek, master, retired, pc, wrapped>>
  BY <1>3 DEF Expire, DeleteExpiredSignature, DeleteKey
<1>4. ASSUME NEW d \in Drills, NEW b \in BOOLEAN, DeleteExpiredFile(d, b)
      PROVE  UNCHANGED <<lost, dek, master, retired, pc, wrapped>>
  BY <1>4 DEF DeleteExpiredFile
<1>5. ASSUME NEW p \in Procs, AccountDEK(p) PROVE MastersOpen'
  <2>1. CASE LoadWrappedDEK(p)
    BY <2>1 DEF LoadWrappedDEK, Goto, Continue, Return, MastersOpen, TypeOK, Procs, CanUnwrap
  <2>2. CASE MintDEK(p)
    BY <2>2 DEF MintDEK, Goto, Continue, Return, MastersOpen, TypeOK, Procs, CanUnwrap
  <2>3. CASE ReloadDEK(p)
    BY <2>3 DEF ReloadDEK, Goto, Return, MastersOpen, TypeOK, Procs, CanUnwrap
  <2>4. CASE UnwrapDEK(p)
    BY <2>4 DEF UnwrapDEK, Goto, Continue, Return, Rewrapped, MastersOpen, TypeOK, Procs, CanUnwrap
  <2> QED BY <1>5, <2>1, <2>2, <2>3, <2>4 DEF AccountDEK
<1>6. ASSUME NEW p \in Readers, Verify(p) PROVE MastersOpen'
  <2>1. UNCHANGED <<lost, dek, master, retired>>
    BY <1>6, VerifyStep
  <2>2. \A q \in Procs : pc'[q] \in {"unwrap", "put",
       "check"} => pc'[q] = pc[q] /\ wrapped'[q] = wrapped[q]
    BY <1>6, VerifyStep DEF Stays, Procs
  <2> QED BY <2>1, <2>2 DEF MastersOpen, CanUnwrap
<1>7. ASSUME NEW p \in Writers, NEW d \in Drills, StartFinalize(p, d) PROVE MastersOpen'
  BY <1>7 DEF StartFinalize, Goto, Continue, Return, Writing, Verifying, MastersOpen, TypeOK,
       Procs, CanUnwrap
<1>8. ASSUME NEW p \in Writers, PutFile(p) PROVE MastersOpen'
  BY <1>8 DEF PutFile, Goto, Continue, Return, MastersOpen, TypeOK, Procs, CanUnwrap
<1>9. ASSUME NEW p \in Writers, RecordSignature(p) PROVE MastersOpen'
  BY <1>9 DEF RecordSignature, Goto, Continue, Return, MastersOpen, TypeOK, Procs, CanUnwrap
<1>10. ASSUME NEW p \in Writers, MarkEvidence(p) PROVE MastersOpen'
  BY <1>10 DEF MarkEvidence, Goto, Continue, Return, MastersOpen, TypeOK, Procs, CanUnwrap
<1>11. ASSUME NEW p \in Writers, FailFinalize(p) PROVE MastersOpen'
  BY <1>11 DEF FailFinalize, Goto, Continue, Return, MayFail, MastersOpen, TypeOK, Procs, CanUnwrap
<1>12. ASSUME ShredAccount PROVE MastersOpen'
  BY <1>12 DEF ShredAccount, MastersOpen, TypeOK, Procs, CanUnwrap
<1>13. ASSUME DeleteAccount PROVE MastersOpen'
  BY <1>13 DEF DeleteAccount, MastersOpen, TypeOK, Procs, CanUnwrap
<1>14. ASSUME RewrapAll PROVE MastersOpen'
  BY <1>14 DEF RewrapAll, Rewrapped, MastersOpen, TypeOK, Procs, CanUnwrap
<1>15. ASSUME ShredPoison PROVE MastersOpen'
  BY <1>15 DEF ShredPoison, MastersOpen, TypeOK, Procs, CanUnwrap
<1>16. ASSUME RotateMaster PROVE MastersOpen'
  BY <1>16 DEF RotateMaster, Restart, MastersOpen, TypeOK, Procs, CanUnwrap
<1>17. ASSUME DropRetired PROVE MastersOpen'
  BY <1>17 DEF DropRetired, Restart, MastersOpen, TypeOK, Procs, CanUnwrap
<1>18. ASSUME LoseMaster PROVE MastersOpen'
  BY <1>18 DEF LoseMaster, Restart, MastersOpen, TypeOK, Procs, CanUnwrap
<1> HIDE DEF FileInv
<1> QED
  BY <1>1, <1>2, <1>3, <1>4, <1>5, <1>6, <1>7, <1>8, <1>9, <1>10, <1>11, <1>12, <1>13, <1>14,
       <1>15, <1>16, <1>17, <1>18
  DEF Next, Finalize, Sweep, HardDelete, EvidenceKeys

\* Whoever changes what a reader has read disturbs it.
LEMMA ReadersStep ==
    ASSUME TypeOK, KeyInv, FileInv, [Next]_vars
    PROVE  ReadersCurrent'
<1> USE VaultAssumption DEF vars, keyVars, cfgVars, rowVars, procVars, locals, sweepVars, eraseVars,
           opVars, history, FileInv
<1>1. ASSUME UNCHANGED <<pc, disturbed, drill, rivals, shredded, lost, verdict, sig, body,
                         expired, deleting, blob, file>> PROVE ReadersCurrent'
  BY <1>1 DEF ReadersCurrent, ReaderCurrent, Sweeping
<1>2. ASSUME SoftDelete \/ RewrapAll \/ ShredPoison \/ SchedulePurge \/ GracePasses
     \/ StartHardDelete \/ ListPaths \/ CompletePurge \/ FailPurge \/ Classify("rewrap")
          \/ Classify("shred") \/ FailCommand \/ UNCHANGED vars
      PROVE  UNCHANGED <<pc, disturbed, drill, rivals, shredded, lost, verdict, sig, body,
                         expired, deleting, blob, file>>
  BY <1>2 DEF SoftDelete, RewrapAll, ShredPoison, SchedulePurge, GracePasses, StartHardDelete,
       ListPaths, CompletePurge, FailPurge, Classify, FailCommand
<1>3. ASSUME NEW p \in Procs, AccountDEK(p) PROVE ReadersCurrent'
  <2>0. UNCHANGED <<file, sig, drill, expired, deleting, shredded, lost, rivals, disturbed>>
    BY <1>3, DekStep
  <2>1. \A q \in Writers : pc'[q] # "idle" => pc[q] # "idle"
    BY <1>3, DekStep DEF Stays, KeyLabels, Procs
  <2>2. ASSUME NEW q \in Readers, q # p PROVE Stays(q) /\ verdict'[q] = verdict[q]
    BY <1>3, <2>2, DekStep DEF Procs
  <2>3. ASSUME p \in Readers
        PROVE  /\ pc[p] \in {"load", "unwrap"} /\ pc'[p] \in {"idle", "unwrap", "check"}
               /\ pc'[p] # "idle" => body'[p] = body[p] /\ blob'[p] = blob[p]
               /\ lost = {} => verdict'[p] = verdict[p] \/ verdict'[p] # "tampered"
    <3>1. pc[p] \in {"load", "unwrap"}
      BY <1>3, <2>3, DekStep DEF ReadersCurrent, ReaderCurrent, KeyLabels
    <3>2. lost = {} /\ pc[p] = "unwrap" => CanUnwrap(wrapped[p])
      BY DEF MastersOpen
    <3> QED BY <1>3, <2>3, <3>1, <3>2, DekStep
  <2> QED BY <2>0, <2>1, <2>2, <2>3 DEF ReadersCurrent, ReaderCurrent, Stays, Sweeping
<1>4. ASSUME NEW p \in Readers, Verify(p) PROVE ReadersCurrent'
  <2>0. UNCHANGED <<file, sig, expired, deleting, shredded, lost, rivals>>
    BY <1>4, VerifyStep
  <2>1. \A q \in Writers : pc'[q] = pc[q] /\ drill'[q] = drill[q]
    BY <1>4, VerifyStep DEF Stays, Procs
  <2>2. ASSUME NEW q \in Readers, q # p
        PROVE  Stays(q) /\ verdict'[q] = verdict[q] /\ (q \in disturbed' <=> q \in disturbed)
    BY <1>4, <2>2, VerifyStep DEF Procs
  <2>3. ASSUME NEW q \in Readers, q # p PROVE ReaderCurrent(q)'
    BY SMTT(20), <2>0, <2>1, <2>2, <2>3 DEF ReadersCurrent, ReaderCurrent, Stays, Sweeping
  <2>9. ReaderCurrent(p)'
    <3>4. CASE pc[p] = "idle" /\ pc'[p] = "idle" /\ verdict'[p] # "tampered"
      BY <3>4 DEF ReaderCurrent
    <3>5. CASE /\ pc[p] = "idle" /\ pc'[p] = "read" /\ verdict'[p] # "tampered"
               /\ sig[drill'[p]] # NoSig /\ body'[p] = sig[drill'[p]].body
               /\ p \notin disturbed' => Writing(drill'[p]) = {} /\ ~Sweeping(drill'[p])
      BY <2>0, <2>1, <3>5 DEF ReaderCurrent, Writing, Sweeping
    <3>6. CASE /\ pc[p] = "read" /\ pc'[p] = "load" /\ blob'[p] = file[drill[p]]
               /\ UNCHANGED <<drill, verdict, disturbed>> /\ body'[p] = body[p]
      BY <2>0, <2>1, <3>6 DEF ReadersCurrent, ReaderCurrent, Sweeping
    <3>7. CASE /\ pc[p] \in {"read", "check"} /\ pc'[p] = "idle" /\ UNCHANGED <<drill, disturbed>>
               /\ verdict'[p] = "tampered" =>
                     pc[p] = "check" /\ ~(blob[p].key = wrapped[p].id /\ blob[p].body = body[p])
      <4>1. ASSUME p \notin disturbed, drill[p] \notin rivals, ~shredded, lost = {}, pc[p] = "check"
            PROVE  blob[p].key = wrapped[p].id /\ blob[p].body = body[p]
        BY <4>1, HonestCheck
      <4> QED BY <2>0, <3>7, <4>1 DEF ReadersCurrent, ReaderCurrent
    <3>8. CASE pc'[p] = "idle" /\ p \in disturbed' /\ UNCHANGED drill
      BY <3>8 DEF ReaderCurrent
    <3> QED BY <1>4, <3>4, <3>5, <3>6, <3>7, <3>8, VerifyStep
  <2> QED BY <2>3, <2>9 DEF ReadersCurrent
<1>5. ASSUME NEW p \in Writers, NEW d \in Drills, StartFinalize(p, d) PROVE ReadersCurrent'
  BY ZenonT(20), <1>5 DEF StartFinalize, Goto, Continue, Return, Writing, Verifying, ReadersCurrent, TypeOK,
       Procs, ReaderCurrent, Sweeping
<1>6. ASSUME NEW p \in Writers, PutFile(p) PROVE ReadersCurrent'
  BY ZenonT(20), <1>6 DEF PutFile, Goto, Continue, Return, ReadersCurrent, TypeOK, Procs, ReaderCurrent,
       Sweeping
<1>7. ASSUME NEW p \in Writers, RecordSignature(p) PROVE ReadersCurrent'
  <2>1. /\ UNCHANGED <<file, drill, verdict, expired, deleting, shredded, lost, rivals, disturbed>>
        /\ pc[p] = "sign"
    BY <1>7, RecordStep
  <2>2. \A q \in Readers : pc'[q] = pc[q] /\ body'[q] = body[q] /\ blob'[q] = blob[q]
    BY <1>7, RecordStep DEF Stays, Procs
  <2>3. \A q \in Writers : pc'[q] # "idle" => pc[q] # "idle"
    BY <1>7, RecordStep DEF Stays, Procs
  <2>4. \A d \in Drills : d # drill[p] => sig'[d] = sig[d]
    BY <1>7, RecordStep DEF TypeOK
  <2>5. ASSUME NEW q \in Readers, q \notin disturbed, drill[q] \notin rivals, ~shredded, lost = {},
               pc[q] # "idle"
        PROVE  sig'[drill[q]] = sig[drill[q]]
    <3>1. drill[q] # drill[p] /\ drill[q] \in Drills
      BY <2>1, <2>5 DEF ReadersCurrent, ReaderCurrent, TypeOK, Procs
    <3> QED BY <2>4, <3>1
  <2> QED BY <2>1, <2>2, <2>3, <2>5 DEF ReadersCurrent, ReaderCurrent, Sweeping
<1>8. ASSUME NEW p \in Writers, MarkEvidence(p) PROVE ReadersCurrent'
  BY <1>8 DEF MarkEvidence, Goto, Continue, Return, ReadersCurrent, TypeOK, Procs, ReaderCurrent,
       Sweeping
<1>9. ASSUME NEW p \in Writers, FailFinalize(p) PROVE ReadersCurrent'
  BY <1>9 DEF FailFinalize, Goto, Continue, Return, MayFail, ReadersCurrent, TypeOK, Procs,
       ReaderCurrent, Sweeping
<1>10. ASSUME NEW d \in Drills, Expire(d) PROVE ReadersCurrent'
  <2>1. /\ UNCHANGED <<pc, disturbed, drill, rivals, shredded, lost, verdict, body, expired,
                       deleting, blob, file>>
        /\ sig' = [sig EXCEPT ![d] = [body |-> sig[d].body, expired |-> TRUE]]
    BY <1>10 DEF Expire
  <2>2. \A e \in Drills : sig[e] # NoSig => sig'[e] # NoSig /\ sig'[e].body = sig[e].body
    BY <2>1 DEF TypeOK, NoSig
  <2>3. \A q \in Readers : drill[q] \in Drills
    BY DEF TypeOK, Procs
  <2> QED BY <2>1, <2>2, <2>3 DEF ReadersCurrent, ReaderCurrent, Sweeping
<1>11. ASSUME SelectExpired PROVE ReadersCurrent'
  BY <1>11 DEF SelectExpired, ReadersCurrent, TypeOK, Procs, ReaderCurrent, Sweeping
<1>12. ASSUME NEW d \in Drills, NEW b \in BOOLEAN, DeleteExpiredFile(d, b) PROVE ReadersCurrent'
  BY <1>12 DEF DeleteExpiredFile, ReadersCurrent, TypeOK, Procs, ReaderCurrent, Sweeping
<1>13. ASSUME NEW d \in Drills, DeleteExpiredSignature(d) PROVE ReadersCurrent'
  <2>1. /\ UNCHANGED <<pc, disturbed, drill, rivals, shredded, lost, verdict, body, expired, blob,
                       file>>
        /\ d \in deleting /\ deleting' = {} /\ sig' = [sig EXCEPT ![d] = NoSig]
    BY <1>13 DEF DeleteExpiredSignature
  <2>2. Sweeping(d) /\ \A e \in Drills : e # d => sig'[e] = sig[e]
    BY <2>1 DEF Sweeping, TypeOK
  <2>3. \A e \in Drills : ~Sweeping(e) => ~Sweeping(e)'
    BY <2>1 DEF Sweeping
  <2>4. \A q \in Readers : drill[q] \in Drills
    BY DEF TypeOK, Procs
  <2> QED BY <2>1, <2>2, <2>3, <2>4 DEF ReadersCurrent, ReaderCurrent, Sweeping
<1>14. ASSUME FailSweep PROVE ReadersCurrent'
  BY <1>14 DEF FailSweep, MayFail, ReadersCurrent, TypeOK, Procs, ReaderCurrent, Sweeping
<1>15. ASSUME ShredAccount PROVE ReadersCurrent'
  BY <1>15 DEF ShredAccount, ReadersCurrent, TypeOK, Procs, ReaderCurrent, Sweeping
<1>16. ASSUME NEW d \in Drills, DeleteKey(d) PROVE ReadersCurrent'
  <2>1. shredded /\ UNCHANGED <<pc, shredded>>
    BY <1>16 DEF DeleteKey, KeyInv, ShredFirst
  <2> QED BY <2>1 DEF ReadersCurrent, ReaderCurrent
<1>17. ASSUME DeleteAccount PROVE ReadersCurrent'
  <2>1. shredded /\ UNCHANGED <<pc, shredded>>
    BY <1>17 DEF DeleteAccount, KeyInv, ShredFirst
  <2> QED BY <2>1 DEF ReadersCurrent, ReaderCurrent
<1>18. ASSUME RotateMaster PROVE ReadersCurrent'
  BY <1>18 DEF RotateMaster, Restart, ReadersCurrent, TypeOK, Procs, ReaderCurrent, Sweeping
<1>19. ASSUME DropRetired PROVE ReadersCurrent'
  BY <1>19 DEF DropRetired, Restart, ReadersCurrent, TypeOK, Procs, ReaderCurrent, Sweeping
<1>20. ASSUME LoseMaster PROVE ReadersCurrent'
  BY <1>20 DEF LoseMaster, Restart, ReadersCurrent, TypeOK, Procs, ReaderCurrent, Sweeping
<1> HIDE DEF FileInv
<1> QED
  BY <1>1, <1>2, <1>3, <1>4, <1>5, <1>6, <1>7, <1>8, <1>9, <1>10, <1>11, <1>12, <1>13, <1>14,
       <1>15, <1>16, <1>17, <1>18, <1>19, <1>20
  DEF Next, Finalize, Sweep, HardDelete, EvidenceKeys

\* The invariant of the files holds in every reachable state.
LEMMA FileProtocol == Spec => []FileInv
<1>1. Init => FileInv
  BY VaultAssumption DEF Init, FileInv, GoneIsShredded, WritersAlone, SweepsExpired, RowOfFile,
     MastersOpen, ReadersCurrent, ReaderCurrent, Sweeping, Procs
<1>2. TypeOK /\ KeyInv /\ FileInv /\ [Next]_vars => FileInv'
  <2> SUFFICES ASSUME TypeOK, KeyInv, FileInv, [Next]_vars PROVE FileInv'
    OBVIOUS
  <2>1. GoneIsShredded'
    BY GoneStep
  <2>2. WritersAlone' /\ SweepsExpired'
    BY WritersStep, SweepStep
  <2>3. RowOfFile' /\ MastersOpen' /\ ReadersCurrent'
    BY RowStep, MastersStep, ReadersStep
  <2> QED BY <2>1, <2>2, <2>3 DEF FileInv
<1> QED BY <1>1, <1>2, KeyProtocol, TypeCorrect, PTL DEF Spec

\* For any number of drills, writers, readers and faults: the signature row belongs to the stored
\* file, and Verify calls nothing tampered without a cause, but for the drills where two of
\* Finalize and the sweep met or one of them died between its writes (service.go: Finalize,
\* Verify, PurgeExpired).
THEOREM EvidenceIsSound == Spec => []EvidenceSound
<1>1. FileInv => SignedFile
  <2> SUFFICES ASSUME FileInv, NEW d \in Drills, sig[d] # NoSig, Writing(d) = {}, d \notin deleting,
                      d \notin rivals, ~shredded
               PROVE  file[d].body = sig[d].body
    BY DEF SignedFile
  <2>1. \A p \in Writers : pc[p] = "sign" => drill[p] # d
    BY DEF Writing
  <2> QED BY <2>1 DEF FileInv, RowOfFile
<1>2. FileInv => NoFalseAccusation
  BY DEF FileInv, ReadersCurrent, ReaderCurrent, NoFalseAccusation
<1>3. FileInv => EvidenceSound
  BY <1>1, <1>2 DEF EvidenceSound
<1> QED BY <1>3, FileProtocol, PTL

\* What a step deletes has expired, belongs to an erased account, or was signed again under the
\* sweep.
LEMMA DeletionStep ==
    ASSUME TypeOK, KeyInv, FileInv, [Next]_vars, NEW d \in Drills
    PROVE  /\ file[d] # NoFile /\ file'[d] = NoFile => sig[d].expired \/ shredded \/ d \in rivals
           /\ sig[d] # NoSig /\ sig'[d] = NoSig => sig[d].expired \/ acct' = "gone" \/ d \in rivals
<1> DEFINE Goal ==
      /\ file[d] # NoFile /\ file'[d] = NoFile => sig[d].expired \/ shredded \/ d \in rivals
      /\ sig[d] # NoSig /\ sig'[d] = NoSig => sig[d].expired \/ acct' = "gone" \/ d \in rivals
<1> USE VaultAssumption DEF vars, keyVars, cfgVars, rowVars, procVars, locals, sweepVars, eraseVars,
           opVars, history
<1>1. ASSUME file' = file, sig' = sig PROVE Goal
  BY <1>1
<1>2. ASSUME NEW p \in Procs, AccountDEK(p) PROVE Goal
  BY <1>1, <1>2, DekStep
<1>3. ASSUME NEW p \in Readers, Verify(p) PROVE Goal
  BY <1>1, <1>3, VerifyStep
<1>4. ASSUME NEW p \in Writers, NEW e \in Drills, StartFinalize(p, e) PROVE Goal
  BY <1>1, <1>4 DEF StartFinalize
<1>5. ASSUME NEW p \in Writers, MarkEvidence(p) \/ FailFinalize(p) PROVE Goal
  BY <1>1, <1>5 DEF MarkEvidence, FailFinalize
<1>6. ASSUME NEW p \in Writers, PutFile(p) PROVE Goal
  <2>1. /\ file' = [file EXCEPT ![drill[p]] = [body |-> body[p], key |-> wrapped[p].id]]
        /\ sig' = sig /\ pc[p] = "put"
    BY <1>6 DEF PutFile
  <2>2. body[p] # 0
    BY <2>1 DEF FileInv, WritersAlone
  <2>3. file'[d] = file[d] \/ file'[d] = [body |-> body[p], key |-> wrapped[p].id]
    BY <2>1 DEF TypeOK
  <2> QED BY <2>1, <2>2, <2>3 DEF NoFile
<1>7. ASSUME NEW p \in Writers, RecordSignature(p) PROVE Goal
  <2>1. file' = file /\ pc[p] = "sign"
    BY <1>7, RecordStep
  <2>2. body[p] # 0
    BY <2>1 DEF FileInv, WritersAlone
  <2>3. sig'[d] = sig[d] \/ sig'[d] = [body |-> body[p], expired |-> FALSE]
    BY <1>7, RecordStep DEF TypeOK
  <2> QED BY <2>1, <2>2, <2>3 DEF NoSig
<1>8. ASSUME NEW e \in Drills, Expire(e) PROVE Goal
  <2>1. /\ file' = file /\ sig' = [sig EXCEPT ![e] = [body |-> sig[e].body, expired |-> TRUE]]
    BY <1>8 DEF Expire
  <2>2. sig'[d] = sig[d] \/ sig'[d] = [body |-> sig[e].body, expired |-> TRUE]
    BY <2>1 DEF TypeOK
  <2> QED BY <2>1, <2>2 DEF NoSig
<1>9. ASSUME NEW e \in Drills, NEW b \in BOOLEAN, DeleteExpiredFile(e, b) PROVE Goal
  <2>1. sig' = sig /\ Sweeping(e) /\ (file'[d] = file[d] \/ d = e)
    BY <1>9 DEF DeleteExpiredFile, Sweeping, TypeOK
  <2>2. e \notin rivals => sig[e].expired \/ shredded
    BY <2>1 DEF FileInv, SweepsExpired, GoneIsShredded
  <2> QED BY <2>1, <2>2
<1>10. ASSUME NEW e \in Drills, DeleteExpiredSignature(e) PROVE Goal
  <2>1. file' = file /\ acct' = acct /\ Sweeping(e) /\ (sig'[d] = sig[d] \/ d = e)
    BY <1>10 DEF DeleteExpiredSignature, Sweeping, TypeOK
  <2>2. e \notin rivals => sig[e].expired \/ acct = "gone"
    BY <2>1 DEF FileInv, SweepsExpired
  <2> QED BY <2>1, <2>2
<1>11. ASSUME NEW e \in Drills, DeleteKey(e) PROVE Goal
  BY <1>11 DEF DeleteKey, KeyInv, ShredFirst
<1>12. ASSUME DeleteAccount PROVE Goal
  BY <1>12 DEF DeleteAccount
<1>13. ASSUME SelectExpired \/ FailSweep \/ SoftDelete \/ SchedulePurge \/ GracePasses
              \/ StartHardDelete \/ ListPaths \/ ShredAccount \/ CompletePurge \/ FailPurge
              \/ EvidenceKeys \/ RotateMaster \/ DropRetired \/ LoseMaster \/ UNCHANGED vars
       PROVE  file' = file /\ sig' = sig
  BY <1>13 DEF SelectExpired, FailSweep, SoftDelete, SchedulePurge, GracePasses, StartHardDelete,
       ListPaths, ShredAccount, CompletePurge, FailPurge, EvidenceKeys, Classify, RewrapAll,
       ShredPoison, FailCommand, RotateMaster, DropRetired, LoseMaster, Restart
<1> HIDE DEF Goal
<1>14. Goal
  BY <1>1, <1>2, <1>3, <1>4, <1>5, <1>6, <1>7, <1>8, <1>9, <1>10, <1>11, <1>12, <1>13
  DEF Next, Finalize, Sweep, HardDelete
<1> QED BY <1>14 DEF Goal

\* Whatever the sweep, the writers and the erasure do at once, a file or a signature disappears
\* only when its horizon has passed, the account is being erased, or it was signed again after the
\* sweep selected it (PurgeExpired, HardDelete).
THEOREM EvidenceIsKept == Spec => KeptUntilExpiry
<1> DEFINE Lawful ==
      \A d \in Drills :
          /\ file[d] # NoFile /\ file'[d] = NoFile
                => sig[d].expired \/ shredded \/ d \in rivals
          /\ sig[d] # NoSig /\ sig'[d] = NoSig
                => sig[d].expired \/ acct' = "gone" \/ d \in rivals
<1>1. TypeOK /\ KeyInv /\ FileInv /\ [Next]_vars => [Lawful]_vars
  BY DeletionStep
<1> QED BY <1>1, FileProtocol, KeyProtocol, TypeCorrect, PTL DEF Spec, KeptUntilExpiry

=============================================================================
