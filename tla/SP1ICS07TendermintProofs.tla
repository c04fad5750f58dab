----------------------- MODULE SP1ICS07TendermintProofs -----------------------
(***************************************************************************)
(* Theorems about the contract, for every chain, every set of messages and *)
(* every value of the other constants.                                     *)
(*                                                                         *)
(* StepCases reduces each transaction to what it does to the client: it    *)
(* keeps it, adds one verified consensus state, or freezes it.  The        *)
(* invariants are proved over these three cases.                           *)
(***************************************************************************)
EXTENDS SP1ICS07Tendermint, TLAPS

-----------------------------------------------------------------------------
(* Whatever anybody submits.                                               *)

\* One transaction with any message of the right type, or the clock.
Step ==
    \/ \E m \in MsgUpdateClient : UpdateClient(m)
    \/ \E m \in MsgMembership : Membership(m)
    \/ \E m \in MsgSubmitMisbehaviour : Misbehaviour(m)
    \/ UpgradeClient
    \/ AdvanceTime

StepSpec == Init /\ [][Step]_vars

\* The messages of the constants are messages of those types.
LEMMA SpecSteps == Spec => StepSpec
<1>1. [Next]_vars => [Step]_vars
  BY ContractAssumption DEF Next, Step
<1>2. QED
  BY <1>1, PTL DEF Spec, StepSpec

-----------------------------------------------------------------------------
(* What the checks guarantee once they return NoError.                     *)

EnvIsValid(env) ==
    /\ env.now <= blockTimestamp
    /\ blockTimestamp - env.now <= ALLOWED_SP1_CLOCK_DRIFT
    /\ env.chainId = clientState.chainId
    /\ env.trustThreshold = clientState.trustLevel
    /\ env.trustingPeriod = clientState.trustingPeriod
    /\ env.trustingPeriod <= clientState.unbondingPeriod

IsTrusted(height, consensusState) ==
    /\ IsStored(height.revisionHeight)
    /\ consensusStateHashes[height.revisionHeight] = consensusState

\* validateEnv passes exactly when the six comparisons hold.
LEMMA EnvChecked ==
    ASSUME NEW env
    PROVE  ValidateEnv(env) = NoError <=> EnvIsValid(env)
BY DEF ValidateEnv, EnvIsValid, Require, ??, NoError

\* A height and a state pass exactly when the state is the one stored there.
LEMMA TrustedChecked ==
    ASSUME NEW height, NEW consensusState
    PROVE  ValidateTrusted(height, consensusState) = NoError
               <=> IsTrusted(height, consensusState)
BY DEF ValidateTrusted, IsTrusted, Require, ??, NoError

\* The public values of an update pass exactly when the client is active, the
\* environment is valid and the trusted state is stored.
LEMMA UpdateChecked ==
    ASSUME NEW o
    PROVE  ValidateUpdateClientPublicValues(o) = NoError
               <=> /\ ~clientState.isFrozen
                   /\ EnvIsValid(o.env)
                   /\ IsTrusted(o.trustedHeight, o.trustedConsensusState)
<1>1. ValidateEnv(o.env) = NoError <=> EnvIsValid(o.env)
  BY EnvChecked
<1>2. ValidateTrusted(o.trustedHeight, o.trustedConsensusState) = NoError
          <=> IsTrusted(o.trustedHeight, o.trustedConsensusState)
  BY TrustedChecked
<1>3. QED
  BY <1>1, <1>2 DEF ValidateUpdateClientPublicValues, NotFrozen, Require, ??,
                    NoError

-----------------------------------------------------------------------------
(* What one accepted transaction does to the client.                       *)

\* The update o was verified against a state the client stores, now.
Verified(o) ==
    /\ o \in UpdateClientOutput
    /\ ~clientState.isFrozen
    /\ EnvIsValid(o.env)
    /\ IsTrusted(o.trustedHeight, o.trustedConsensusState)
    /\ CommitsUpdateClient(o)

AddsState ==
    \E o \in UpdateClientOutput :
        /\ Verified(o)
        /\ CheckUpdateResult(o) = "Update"
        /\ StoreConsensusState(o.newHeight, o.newConsensusState)

FreezesOnUpdate ==
    \E o \in UpdateClientOutput :
        /\ Verified(o)
        /\ CheckUpdateResult(o) = "Misbehaviour"
        /\ Freeze

FreezesOnEvidence ==
    /\ ~clientState.isFrozen
    /\ Freeze
    /\ \E o \in MisbehaviourOutput :
           /\ EnvIsValid(o.env)
           /\ IsTrusted(o.trustedHeight1, o.trustedConsensusState1)
           /\ IsTrusted(o.trustedHeight2, o.trustedConsensusState2)
           /\ CommitsMisbehaviour(o)

\* checkUpdateResult has three results.
LEMMA UpdateResultCases ==
    ASSUME NEW o
    PROVE  CheckUpdateResult(o) \in UpdateResults
BY DEF CheckUpdateResult, UpdateResults

\* The proof of an update client message that verifies shows the update.
LEMMA UpdateProofShows ==
    ASSUME NEW m \in MsgUpdateClient,
           VerifySP1Proof(m.sp1Proof) = NoError,
           m.sp1Proof.vKey = UPDATE_CLIENT_PROGRAM_VKEY
    PROVE  CommitsUpdateClient(m.sp1Proof.publicValues)
<1>1. VerifyProof(m.sp1Proof)
  BY DEF VerifySP1Proof, Require, NoError
<1>2. QED
  BY <1>1, MsgsAssumption DEF VerifyProof

\* A transaction to updateClient keeps the client, adds a state or freezes.
LEMMA UpdateClientCases ==
    ASSUME NEW m \in MsgUpdateClient, UpdateClient(m)
    PROVE  /\ UNCHANGED <<verifiedProofs, blockTimestamp>>
           /\ KeepClient \/ AddsState \/ FreezesOnUpdate
<1> DEFINE o == m.sp1Proof.publicValues
<1>1. CASE UpdateClientError(m) # NoError
  BY <1>1 DEF UpdateClient, Reverted, contractVars, KeepClient
<1>2. CASE UpdateClientError(m) = NoError
  <2>1. o \in UpdateClientOutput
    BY ContractAssumption DEF MsgUpdateClient, SP1ProofOf
  <2>2. /\ m.sp1Proof.vKey = UPDATE_CLIENT_PROGRAM_VKEY
        /\ ValidateUpdateClientPublicValues(o) = NoError
        /\ CheckUpdateResult(o) # "NoOp" => VerifySP1Proof(m.sp1Proof) = NoError
    BY <1>2 DEF UpdateClientError, Require, ??, NoError
  <2>3. CheckUpdateResult(o) # "NoOp" => Verified(o)
    BY <2>1, <2>2, UpdateChecked, UpdateProofShows DEF Verified
  <2>4. CASE CheckUpdateResult(o) = "Update"
    BY <1>2, <2>1, <2>3, <2>4 DEF UpdateClient, Returned, AddsState
  <2>5. CASE CheckUpdateResult(o) = "Misbehaviour"
    BY <1>2, <2>1, <2>3, <2>5 DEF UpdateClient, Returned, FreezesOnUpdate
  <2>6. CASE CheckUpdateResult(o) = "NoOp"
    BY <1>2, <2>6 DEF UpdateClient, Returned
  <2>7. QED
    BY <2>4, <2>5, <2>6, UpdateResultCases DEF UpdateResults
<1>3. QED
  BY <1>1, <1>2

\* The proof a membership handler lets pass, cached or not, is a verified one.
LEMMA KVProofVerified ==
    ASSUME NEW p, NEW kvPairs,
           CachedProofsWereVerified,
           VerifyKVProof(p, kvPairs) = NoError
    PROVE  VerifyProof(p)
BY DEF VerifyKVProof, VerifySP1ProofCached, VerifySP1Proof, Require, NoError,
       CachedProofsWereVerified

\* A membership transaction of the first type never writes the client.
LEMMA HandleSP1MembershipProofCases ==
    ASSUME NEW m \in MsgMembership, HandleSP1MembershipProof(m),
           CachedProofsWereVerified
    PROVE  /\ UNCHANGED blockTimestamp
           /\ KeepClient
           /\ \/ UNCHANGED verifiedProofs
              \/ /\ VerifyProof(m.proof.sp1Proof)
                 /\ verifiedProofs' = verifiedProofs \cup {m.proof.sp1Proof}
<1> DEFINE p == m.proof.sp1Proof
<1>1. CASE HandleSP1MembershipProofError(m) # NoError
  BY <1>1 DEF HandleSP1MembershipProof, Reverted, contractVars, KeepClient
<1>2. CASE HandleSP1MembershipProofError(m) = NoError
  <2>1. VerifyKVProof(p, p.publicValues.kvPairs) = NoError
    BY <1>2 DEF HandleSP1MembershipProofError, ??
  <2>2. VerifyProof(p)
    BY <2>1, KVProofVerified
  <2>3. QED
    BY <1>2, <2>2 DEF HandleSP1MembershipProof, Returned, CacheKVProof
<1>3. QED
  BY <1>1, <1>2

\* A membership transaction of the second type keeps the client or adds a state.
LEMMA UcAndMembershipCases ==
    ASSUME NEW m \in MsgMembership, HandleSP1UpdateClientAndMembership(m),
           m.proof.proofType = "SP1MembershipAndUpdateClientProof",
           CachedProofsWereVerified
    PROVE  /\ UNCHANGED blockTimestamp
           /\ KeepClient \/ AddsState
           /\ \/ UNCHANGED verifiedProofs
              \/ /\ VerifyProof(m.proof.sp1Proof)
                 /\ verifiedProofs' = verifiedProofs \cup {m.proof.sp1Proof}
<1> DEFINE p == m.proof.sp1Proof
           o == p.publicValues.updateClientOutput
           hashes == IF CheckUpdateResult(o) = "Update"
                     THEN HashesWith(m.proofHeight, o.newConsensusState)
                     ELSE consensusStateHashes
           error == UcAndMembershipError(m)
                        ?? UcAndMembershipFinalError(m, hashes)
<1>1. CASE error # NoError
  BY <1>1 DEF HandleSP1UpdateClientAndMembership, Reverted, contractVars,
              KeepClient
<1>2. CASE error = NoError
  <2>1. /\ p.vKey = UPDATE_CLIENT_AND_MEMBERSHIP_PROGRAM_VKEY
        /\ m.proofHeight = o.newHeight
        /\ ValidateUpdateClientPublicValues(o) = NoError
        /\ VerifyKVProof(p, p.publicValues.kvPairs) = NoError
    BY <1>2 DEF UcAndMembershipError, Require, ??, NoError
  <2>2. m.proof \in SP1MembershipAndUpdateClientProof
    BY ContractAssumption DEF MsgMembership, MembershipProof,
       SP1MembershipProof, SP1MembershipAndUpdateClientProof
  <2>3. o \in UpdateClientOutput
    BY <2>2 DEF SP1MembershipAndUpdateClientProof, SP1ProofOf,
       UcAndMembershipOutput
  <2>4. VerifyProof(p)
    BY <2>1, KVProofVerified
  <2>5. CommitsUpdateClient(o)
    BY <2>1, <2>4, MsgsAssumption DEF VerifyProof, CommitsUcAndMembership
  <2>6. Verified(o)
    BY <2>1, <2>3, <2>5, UpdateChecked DEF Verified
  <2>7. UNCHANGED blockTimestamp /\ CacheKVProof(p, p.publicValues.kvPairs)
    BY <1>2 DEF HandleSP1UpdateClientAndMembership, Returned
  <2>8. CASE CheckUpdateResult(o) = "Update"
    <3>1. StoreConsensusState(m.proofHeight, o.newConsensusState)
      BY <1>2, <2>8 DEF HandleSP1UpdateClientAndMembership
    <3>2. AddsState
      BY <2>1, <2>3, <2>6, <2>8, <3>1 DEF AddsState
    <3>3. QED
      BY <2>4, <2>7, <3>2 DEF CacheKVProof
  <2>9. CASE CheckUpdateResult(o) # "Update"
    <3>1. KeepClient
      BY <1>2, <2>9 DEF HandleSP1UpdateClientAndMembership
    <3>2. QED
      BY <2>4, <2>7, <3>1 DEF CacheKVProof
  <2>10. QED
    BY <2>8, <2>9
<1>3. QED
  BY <1>1, <1>2

\* A transaction to misbehaviour keeps the client or freezes it on evidence.
LEMMA MisbehaviourCases ==
    ASSUME NEW m \in MsgSubmitMisbehaviour, Misbehaviour(m)
    PROVE  /\ UNCHANGED <<verifiedProofs, blockTimestamp>>
           /\ KeepClient \/ FreezesOnEvidence
<1> DEFINE o == m.sp1Proof.publicValues
<1>1. CASE MisbehaviourError(m) # NoError
  BY <1>1 DEF Misbehaviour, Reverted, contractVars, KeepClient
<1>2. CASE MisbehaviourError(m) = NoError
  <2>1. /\ m.sp1Proof.vKey = MISBEHAVIOUR_PROGRAM_VKEY
        /\ ValidateMisbehaviourOutput(o) = NoError
        /\ VerifySP1Proof(m.sp1Proof) = NoError
    BY <1>2 DEF MisbehaviourError, Require, ??, NoError
  <2>2. /\ ~clientState.isFrozen
        /\ EnvIsValid(o.env)
        /\ IsTrusted(o.trustedHeight1, o.trustedConsensusState1)
        /\ IsTrusted(o.trustedHeight2, o.trustedConsensusState2)
    <3>1. /\ ~clientState.isFrozen
          /\ ValidateEnv(o.env) = NoError
          /\ ValidateTrusted(o.trustedHeight1, o.trustedConsensusState1)
                 = NoError
          /\ ValidateTrusted(o.trustedHeight2, o.trustedConsensusState2)
                 = NoError
      BY <2>1 DEF ValidateMisbehaviourOutput, NotFrozen, Require, ??, NoError
    <3>2. QED
      BY <3>1, EnvChecked, TrustedChecked
  <2>3. VerifyProof(m.sp1Proof)
    BY <2>1 DEF VerifySP1Proof, Require, NoError
  <2>4. o \in MisbehaviourOutput /\ CommitsMisbehaviour(o)
    BY <2>1, <2>3, MsgsAssumption DEF VerifyProof
  <2>5. Freeze /\ UNCHANGED <<verifiedProofs, blockTimestamp>>
    BY <1>2 DEF Misbehaviour, Returned
  <2>6. QED
    BY <2>2, <2>4, <2>5 DEF FreezesOnEvidence
<1>3. QED
  BY <1>1, <1>2

ClientCases ==
    \/ KeepClient
    \/ AddsState
    \/ FreezesOnUpdate
    \/ FreezesOnEvidence

CacheCases ==
    \/ UNCHANGED verifiedProofs
    \/ \E m \in MsgMembership :
          /\ VerifyProof(m.proof.sp1Proof)
          /\ verifiedProofs' = verifiedProofs \cup {m.proof.sp1Proof}

\* Whatever is submitted, a step does one of four things to the client and adds
\* at most one verified proof to the cache.
LEMMA StepCases ==
    ASSUME CachedProofsWereVerified, [Step]_vars
    PROVE  ClientCases /\ CacheCases
<1>1. CASE \E m \in MsgUpdateClient : UpdateClient(m)
  BY <1>1, UpdateClientCases DEF ClientCases, CacheCases
<1>2. CASE \E m \in MsgMembership : Membership(m)
  <2>1. PICK m \in MsgMembership : Membership(m)
    BY <1>2
  <2>2. CASE HandleSP1MembershipProof(m)
    BY <2>2, HandleSP1MembershipProofCases DEF ClientCases, CacheCases
  <2>3. CASE /\ m.proof.proofType = "SP1MembershipAndUpdateClientProof"
             /\ HandleSP1UpdateClientAndMembership(m)
    BY <2>3, UcAndMembershipCases DEF ClientCases, CacheCases
  <2>4. QED
    BY <2>1, <2>2, <2>3 DEF Membership
<1>3. CASE \E m \in MsgSubmitMisbehaviour : Misbehaviour(m)
  BY <1>3, MisbehaviourCases DEF ClientCases, CacheCases
<1>4. CASE UpgradeClient
  BY <1>4 DEF UpgradeClient, Reverted, contractVars, KeepClient, ClientCases,
              CacheCases
<1>5. CASE AdvanceTime
  BY <1>5 DEF AdvanceTime, contractVars, KeepClient, ClientCases, CacheCases
<1>6. CASE UNCHANGED vars
  BY <1>6 DEF vars, KeepClient, ClientCases, CacheCases
<1>7. QED
  BY <1>1, <1>2, <1>3, <1>4, <1>5, <1>6 DEF Step

-----------------------------------------------------------------------------
(* The proof cache and the types.                                          *)

\* The cache takes in verified proofs only.
LEMMA StepCache ==
    ASSUME CachedProofsWereVerified, [Step]_vars
    PROVE  CachedProofsWereVerified'
<1>1. SUFFICES ASSUME NEW p \in verifiedProofs'
               PROVE  VerifyProof(p)
  BY DEF CachedProofsWereVerified, VerifyProof, CommitsUpdateClient,
     CommitsMembership, CommitsUcAndMembership, CommitsMisbehaviour,
     CommitsKVPairs
<1>2. CacheCases
  BY StepCases
<1>3. QED
  BY <1>1, <1>2 DEF CacheCases, CachedProofsWereVerified

\* It starts empty.
LEMMA StepCacheIsSound == StepSpec => []CachedProofsWereVerified
<1>1. Init => CachedProofsWereVerified
  BY DEF Init, CachedProofsWereVerified
<1>2. CachedProofsWereVerified /\ [Step]_vars => CachedProofsWereVerified'
  BY StepCache
<1>3. QED
  BY <1>1, <1>2, PTL DEF StepSpec

\* Every cached proof is one the verifier accepts.
THEOREM CacheIsSound == Spec => []CachedProofsWereVerified
BY SpecSteps, StepCacheIsSound, PTL

AllErrors == Errors \cup {NoError}

\* Checks chained with ?? yield one of the errors.
LEMMA ChainTyped ==
    /\ \A first, second \in AllErrors : (first ?? second) \in AllErrors
    /\ \A error \in AllErrors, condition \in BOOLEAN :
           Require(condition, error) \in AllErrors
BY DEF ??, Require, AllErrors

\* The checks shared by the entry points yield one of the errors.
LEMMA CheckErrorsTyped ==
    /\ NotFrozen \in AllErrors
    /\ \A env : ValidateEnv(env) \in AllErrors
    /\ \A height, consensusState :
           ValidateTrusted(height, consensusState) \in AllErrors
    /\ \A p : VerifySP1Proof(p) \in AllErrors
    /\ \A p, kvPairs : VerifyKVProof(p, kvPairs) \in AllErrors
    /\ \A kvPairs : ValidateLength(kvPairs) \in AllErrors
    /\ \A kvPairs, path, value :
           ValidateKVPair(kvPairs, path, value) \in AllErrors
    /\ \A root, height, trusted, hashes :
           ValidateMembershipOutput(root, height, trusted, hashes) \in AllErrors
<1>1. NotFrozen \in AllErrors
  BY DEF NotFrozen, Require, AllErrors, Errors
<1>2. \A env : ValidateEnv(env) \in AllErrors
  BY DEF ValidateEnv, Require, ??, AllErrors, Errors
<1>3. \A height, consensusState :
          ValidateTrusted(height, consensusState) \in AllErrors
  BY DEF ValidateTrusted, Require, ??, AllErrors, Errors
<1>4. \A p : VerifySP1Proof(p) \in AllErrors
  BY DEF VerifySP1Proof, Require, AllErrors, Errors
<1>5. \A p, kvPairs : VerifyKVProof(p, kvPairs) \in AllErrors
  BY <1>4 DEF VerifyKVProof, VerifySP1ProofCached, AllErrors
<1>6. \A kvPairs : ValidateLength(kvPairs) \in AllErrors
  BY DEF ValidateLength, Require, AllErrors, Errors
<1>7. \A kvPairs, path, value :
          ValidateKVPair(kvPairs, path, value) \in AllErrors
  BY DEF ValidateKVPair, Require, AllErrors, Errors
<1>8. \A root, height, trusted, hashes :
          ValidateMembershipOutput(root, height, trusted, hashes) \in AllErrors
  BY <1>1 DEF ValidateMembershipOutput, Require, ??, AllErrors, Errors
<1>9. QED
  BY <1>1, <1>2, <1>3, <1>4, <1>5, <1>6, <1>7, <1>8

\* The error of an entry point is one of the errors.
LEMMA EntryErrorsTyped ==
    /\ \A m : UpdateClientError(m) \in AllErrors
    /\ \A m : HandleSP1MembershipProofError(m) \in AllErrors
    /\ \A m, hashes :
           (UcAndMembershipError(m) ?? UcAndMembershipFinalError(m, hashes))
               \in AllErrors
    /\ \A m : MisbehaviourError(m) \in AllErrors
<1>1. \A o : ValidateUpdateClientPublicValues(o) \in AllErrors
  BY CheckErrorsTyped DEF ValidateUpdateClientPublicValues, ??
<1>2. \A m : UpdateClientError(m) \in AllErrors
  BY <1>1, CheckErrorsTyped DEF UpdateClientError, Require, ??, AllErrors, Errors
<1>3. \A m : HandleSP1MembershipProofError(m) \in AllErrors
  BY CheckErrorsTyped DEF HandleSP1MembershipProofError, Require, ??, AllErrors,
                          Errors
<1>4. \A m : UcAndMembershipError(m) \in AllErrors
  BY <1>1, CheckErrorsTyped DEF UcAndMembershipError, Require, ??, AllErrors,
                                Errors
<1>5. \A m, hashes : UcAndMembershipFinalError(m, hashes) \in AllErrors
  BY CheckErrorsTyped DEF UcAndMembershipFinalError, Require, ??, AllErrors,
                          Errors
<1>6. \A o : ValidateMisbehaviourOutput(o) \in AllErrors
  BY CheckErrorsTyped DEF ValidateMisbehaviourOutput, ??
<1>7. \A m : MisbehaviourError(m) \in AllErrors
  BY <1>6, CheckErrorsTyped DEF MisbehaviourError, Require, ??, AllErrors, Errors
<1>8. QED
  BY <1>2, <1>3, <1>4, <1>5, <1>7 DEF ??

\* A receipt of one of the entry points has its type.
LEMMA ReceiptTyped ==
    /\ \A fn \in {"updateClient", "membership", "misbehaviour",
                  "upgradeClient"}, error \in AllErrors :
           Reverted(fn, error) => receipt' \in Receipt
    /\ \A fn \in {"updateClient", "membership", "misbehaviour"},
          msg \in MsgUpdateClient \cup MsgMembership \cup MsgSubmitMisbehaviour,
          result \in UpdateResults \cup {NoResult}, timestamp \in Nat :
           Returned(fn, msg, result, timestamp) => receipt' \in Receipt
BY DEF Reverted, Returned, Receipt, AllErrors

\* Every step leaves a receipt of its type.
LEMMA StepReceipt ==
    ASSUME receipt \in Receipt, [Step]_vars
    PROVE  receipt' \in Receipt
<1>1. ASSUME NEW m \in MsgUpdateClient, UpdateClient(m)
      PROVE  receipt' \in Receipt
  <2>1. m \in MsgUpdateClient
    BY ContractAssumption
  <2>2. CheckUpdateResult(m.sp1Proof.publicValues) \in UpdateResults
    BY UpdateResultCases
  <2>3. UpdateClientError(m) \in AllErrors
    BY EntryErrorsTyped
  <2>4. \/ Reverted("updateClient", UpdateClientError(m))
        \/ Returned("updateClient", m,
                    CheckUpdateResult(m.sp1Proof.publicValues), 0)
    BY <1>1 DEF UpdateClient
  <2>5. QED
    BY <2>1, <2>2, <2>3, <2>4, ReceiptTyped
<1>2. ASSUME NEW m \in MsgMembership, Membership(m)
      PROVE  receipt' \in Receipt
  <2>1. m \in MsgMembership
    BY ContractAssumption
  <2>2. CASE /\ m.proof.proofType = "SP1MembershipProof"
             /\ HandleSP1MembershipProof(m)
    <3>1. m.proof.trustedConsensusState.timestamp \in Nat
      BY <2>1, <2>2 DEF MsgMembership, MembershipProof, SP1MembershipProof,
         SP1MembershipAndUpdateClientProof, ConsensusState
    <3>2. HandleSP1MembershipProofError(m) \in AllErrors
      BY EntryErrorsTyped
    <3>3. \/ Reverted("membership", HandleSP1MembershipProofError(m))
          \/ Returned("membership", m, NoResult,
                      m.proof.trustedConsensusState.timestamp)
      BY <2>2 DEF HandleSP1MembershipProof
    <3>4. QED
      BY <2>1, <3>1, <3>2, <3>3, ReceiptTyped
  <2>3. CASE /\ m.proof.proofType = "SP1MembershipAndUpdateClientProof"
             /\ HandleSP1UpdateClientAndMembership(m)
    <3> DEFINE o == m.proof.sp1Proof.publicValues.updateClientOutput
               hashes == IF CheckUpdateResult(o) = "Update"
                         THEN HashesWith(m.proofHeight, o.newConsensusState)
                         ELSE consensusStateHashes
               error == UcAndMembershipError(m)
                            ?? UcAndMembershipFinalError(m, hashes)
    <3>1. o.newConsensusState.timestamp \in Nat
      BY <2>1, <2>3 DEF MsgMembership, MembershipProof, SP1MembershipProof,
         SP1MembershipAndUpdateClientProof, SP1ProofOf, UcAndMembershipOutput,
         UpdateClientOutput, ConsensusState
    <3>2. error \in AllErrors
      BY EntryErrorsTyped
    <3>3. \/ Reverted("membership", error)
          \/ Returned("membership", m, NoResult, o.newConsensusState.timestamp)
      BY <2>3 DEF HandleSP1UpdateClientAndMembership
    <3>4. QED
      BY <2>1, <3>1, <3>2, <3>3, ReceiptTyped
  <2>4. QED
    BY <1>2, <2>2, <2>3 DEF Membership
<1>3. ASSUME NEW m \in MsgSubmitMisbehaviour, Misbehaviour(m)
      PROVE  receipt' \in Receipt
  <2>1. m \in MsgSubmitMisbehaviour
    BY ContractAssumption
  <2>2. MisbehaviourError(m) \in AllErrors
    BY EntryErrorsTyped
  <2>3. \/ Reverted("misbehaviour", MisbehaviourError(m))
        \/ Returned("misbehaviour", m, NoResult, 0)
    BY <1>3 DEF Misbehaviour
  <2>4. QED
    BY <2>1, <2>2, <2>3, ReceiptTyped
<1>4. CASE UpgradeClient
  <2>1. "FeatureNotSupported" \in AllErrors
    BY DEF AllErrors, Errors
  <2>2. QED
    BY <1>4, <2>1, ReceiptTyped DEF UpgradeClient
<1>5. CASE AdvanceTime \/ UNCHANGED vars
  BY <1>5 DEF AdvanceTime, vars
<1>6. QED
  BY <1>1, <1>2, <1>3, <1>4, <1>5 DEF Step

\* The clock stays or advances.
LEMMA StepClock ==
    ASSUME blockTimestamp \in 0..MaxTimestamp, [Step]_vars
    PROVE  blockTimestamp' \in 0..MaxTimestamp
<1>1. CASE AdvanceTime
  BY <1>1, ContractAssumption DEF AdvanceTime
<1>2. ASSUME ~AdvanceTime PROVE UNCHANGED blockTimestamp
  BY <1>2 DEF Step, vars, UpdateClient, Membership, HandleSP1MembershipProof,
     HandleSP1UpdateClientAndMembership, Misbehaviour, UpgradeClient, Reverted,
     Returned
<1>3. QED
  BY <1>1, <1>2

\* Every cached proof comes out of a message, so it has the type of one.
LEMMA MembershipProofTyped ==
    ASSUME NEW m \in MsgMembership
    PROVE  m.proof.sp1Proof \in SP1Proof
BY ContractAssumption DEF MsgMembership, MembershipProof, SP1MembershipProof,
   SP1MembershipAndUpdateClientProof, SP1Proof

\* The state added and the height it is stored at.
LEMMA AddedTyped ==
    ASSUME TypeOK, NEW o \in UpdateClientOutput,
           StoreConsensusState(o.newHeight, o.newConsensusState)
    PROVE  /\ clientState' \in ClientState
           /\ consensusStateHashes' \in [UINT32 -> ConsensusState \cup {NoHash}]
<1>1. o.newHeight \in Height /\ o.newConsensusState \in ConsensusState
  BY DEF UpdateClientOutput
<1>2. LatestWith(o.newHeight) \in Height
  BY <1>1 DEF LatestWith, TypeOK, ClientState
<1>3. QED
  BY <1>1, <1>2 DEF StoreConsensusState, HashesWith, TypeOK, ClientState

\* Every variable keeps its type, for every message a relayer may submit.
LEMMA StepTyped ==
    ASSUME TypeOK, CachedProofsWereVerified, [Step]_vars
    PROVE  TypeOK'
<1>1. ClientCases /\ CacheCases
  BY StepCases
<1>2. /\ clientState' \in ClientState
      /\ consensusStateHashes' \in [UINT32 -> ConsensusState \cup {NoHash}]
  <2>1. CASE KeepClient
    BY <2>1 DEF KeepClient, TypeOK
  <2>2. CASE AddsState
    BY <2>2, AddedTyped DEF AddsState
  <2>3. CASE Freeze
    BY <2>3 DEF Freeze, TypeOK, ClientState
  <2>4. QED
    BY <1>1, <2>1, <2>2, <2>3 DEF ClientCases, FreezesOnUpdate,
       FreezesOnEvidence
<1>3. verifiedProofs' \subseteq SP1Proof
  BY <1>1, MembershipProofTyped DEF CacheCases, TypeOK
<1>4. blockTimestamp' \in 0..MaxTimestamp
  BY StepClock DEF TypeOK
<1>5. receipt' \in Receipt
  BY StepReceipt DEF TypeOK
<1>6. QED
  BY <1>2, <1>3, <1>4, <1>5 DEF TypeOK

LEMMA InitTyped == Init => TypeOK
<1>1. SUFFICES ASSUME Init PROVE TypeOK
  OBVIOUS
<1>2. consensusStateHashes \in [UINT32 -> ConsensusState \cup {NoHash}]
  BY <1>1, ContractAssumption DEF Init, ConstructedHashes
<1>3. receipt \in Receipt
  BY <1>1 DEF Init, ConstructorReceipt, Receipt
<1>4. QED
  BY <1>1, <1>2, <1>3, ContractAssumption DEF Init, TypeOK

LEMMA StepTypeCorrect == StepSpec => []TypeOK
<1>1. TypeOK /\ CachedProofsWereVerified /\ [Step]_vars => TypeOK'
  BY StepTyped
<1>2. QED
  BY <1>1, InitTyped, StepCacheIsSound, PTL DEF StepSpec

\* The storage keeps its types.
THEOREM TypeCorrect == Spec => []TypeOK
BY SpecSteps, StepTypeCorrect, PTL

-----------------------------------------------------------------------------
(* The inductive invariant of the stored states.                           *)

\* Only latestHeight and isFrozen ever change.
ParametersAreFixed ==
    /\ clientState.chainId = GenesisClientState.chainId
    /\ clientState.trustLevel = GenesisClientState.trustLevel
    /\ clientState.trustingPeriod = GenesisClientState.trustingPeriod

\* Every stored state is that of a committed block of the chain, one at the
\* height it is stored at.
StoredFromBlocks ==
    \A h \in UINT32 :
        IsStored(h) =>
            \E b \in Blocks :
                /\ b.height = h
                /\ b.chainId = GenesisClientState.chainId
                /\ consensusStateHashes[h] = ConsensusStateOf(b)
                /\ VerifyCommit(b)

IInv ==
    /\ TypeOK
    /\ CachedProofsWereVerified
    /\ ParametersAreFixed
    /\ LatestHeightIsHighest
    /\ SameRevision
    /\ StoredFromBlocks
    /\ ChainOfTrust

\* What a verified update says of the header behind it.
LEMMA VerifiedHeader ==
    ASSUME IInv, NEW o \in UpdateClientOutput, Verified(o)
    PROVE  \E b \in Blocks :
               /\ o.newHeight = HeightOf(b)
               /\ o.newConsensusState = ConsensusStateOf(b)
               /\ b.height = o.newHeight.revisionHeight
               /\ b.chainId = GenesisClientState.chainId
               /\ b.height > o.trustedHeight.revisionHeight
               /\ b.time > o.trustedConsensusState.timestamp * TicksPerSecond
               /\ EndorsedBy(o.trustedConsensusState,
                             o.trustedHeight.revisionHeight, b,
                             GenesisClientState.trustLevel)
               /\ VerifyCommit(b)
<1>1. PICK b \in Blocks :
          /\ VerifyHeader(o.trustedConsensusState, o.trustedHeight, b, o.env)
          /\ o.newHeight = HeightOf(b)
          /\ o.newConsensusState = ConsensusStateOf(b)
  BY DEF Verified, CommitsUpdateClient
<1>2. o.newHeight.revisionHeight = b.height
  BY <1>1 DEF HeightOf
<1>3. /\ o.env.chainId = GenesisClientState.chainId
      /\ o.env.trustThreshold = GenesisClientState.trustLevel
  BY DEF Verified, EnvIsValid, IInv, ParametersAreFixed
<1>4. b.height \in Nat /\ o.trustedHeight.revisionHeight \in Nat
  BY ChainAssumption, MsgsAssumption DEF Block, UINT32, UpdateClientOutput, Height
<1>5. /\ b.chainId = GenesisClientState.chainId
      /\ o.trustedHeight.revisionHeight < b.height
      /\ b.time > o.trustedConsensusState.timestamp * TicksPerSecond
      /\ EndorsedBy(o.trustedConsensusState, o.trustedHeight.revisionHeight, b,
                    GenesisClientState.trustLevel)
      /\ VerifyCommit(b)
  BY <1>1, <1>3 DEF VerifyHeader, ValidateBasic, VerifyAgainstTrusted
<1>6. QED
  BY <1>1, <1>2, <1>4, <1>5

\* The constructor's state satisfies the invariant.
LEMMA InitInvariant == Init => IInv
<1>1. SUFFICES ASSUME Init, TypeOK PROVE IInv
  BY InitTyped
<1>2. PICK b \in Blocks :
          /\ b.chainId = GenesisClientState.chainId
          /\ GenesisClientState.latestHeight = HeightOf(b)
          /\ GenesisConsensusState = ConsensusStateOf(b)
          /\ VerifyCommit(b)
  BY GenesisAssumption
<1>3. /\ GenesisHeight = b.height
      /\ GenesisClientState.latestHeight.revisionNumber
             = RevisionNumber[GenesisClientState.chainId]
  BY <1>2 DEF HeightOf, GenesisHeight
<1>4. GenesisHeight \in UINT32 /\ GenesisHeight \in Nat
  BY ContractAssumption, MsgsAssumption DEF ClientState, Height, GenesisHeight,
     UINT32
<1>5. \A h \in UINT32 : IsStored(h) <=> h = GenesisHeight
  BY <1>1, ContractAssumption, MsgsAssumption
  DEF Init, ConstructedHashes, IsStored, GenesisHeight
<1>6. consensusStateHashes[GenesisHeight] = GenesisConsensusState
  BY <1>1, <1>4 DEF Init, ConstructedHashes, GenesisHeight
<1>7. CachedProofsWereVerified /\ ParametersAreFixed /\ SameRevision
  BY <1>1, <1>3 DEF Init, CachedProofsWereVerified, ParametersAreFixed,
                    SameRevision
<1>8. LatestHeightIsHighest
  BY <1>1, <1>4, <1>5 DEF Init, LatestHeightIsHighest, GenesisHeight
<1>9. StoredFromBlocks
  BY <1>2, <1>3, <1>5, <1>6 DEF StoredFromBlocks
<1>10. ChainOfTrust
  BY <1>5 DEF ChainOfTrust
<1>11. QED
  BY <1>1, <1>7, <1>8, <1>9, <1>10 DEF IInv

\* A step that writes neither the parameters, the heights nor the hashes keeps
\* the invariant; freezing is one.
LEMMA FrameInvariant ==
    ASSUME IInv, TypeOK', CachedProofsWereVerified',
           UNCHANGED consensusStateHashes,
           clientState'.chainId = clientState.chainId,
           clientState'.trustLevel = clientState.trustLevel,
           clientState'.trustingPeriod = clientState.trustingPeriod,
           clientState'.latestHeight = clientState.latestHeight
    PROVE  IInv'
<1>1. \A h : IsStored(h)' <=> IsStored(h)
  BY DEF IsStored
<1>2. ParametersAreFixed' /\ SameRevision'
  BY DEF IInv, ParametersAreFixed, SameRevision
<1>3. LatestHeightIsHighest'
  BY <1>1 DEF IInv, LatestHeightIsHighest
<1>4. StoredFromBlocks'
  BY <1>1 DEF IInv, StoredFromBlocks
<1>5. ChainOfTrust'
  BY <1>1 DEF IInv, ChainOfTrust
<1>6. QED
  BY <1>2, <1>3, <1>4, <1>5 DEF IInv

\* What adding a state does to the mapping.
LEMMA AddedState ==
    ASSUME TypeOK, NEW o \in UpdateClientOutput,
           CheckUpdateResult(o) = "Update",
           StoreConsensusState(o.newHeight, o.newConsensusState)
    PROVE  /\ o.newHeight.revisionHeight \in UINT32
           /\ ~IsStored(o.newHeight.revisionHeight)
           /\ consensusStateHashes'[o.newHeight.revisionHeight]
                  = o.newConsensusState
           /\ IsStored(o.newHeight.revisionHeight)'
           /\ \A h \in UINT32 \ {o.newHeight.revisionHeight} :
                  /\ consensusStateHashes'[h] = consensusStateHashes[h]
                  /\ IsStored(h)' <=> IsStored(h)
<1>1. /\ o.newHeight.revisionHeight \in UINT32
      /\ o.newConsensusState \in ConsensusState
  BY DEF UpdateClientOutput, Height
<1>2. ~IsStored(o.newHeight.revisionHeight)
  BY DEF CheckUpdateResult
<1>3. /\ consensusStateHashes'[o.newHeight.revisionHeight] = o.newConsensusState
      /\ \A h \in UINT32 \ {o.newHeight.revisionHeight} :
             consensusStateHashes'[h] = consensusStateHashes[h]
  BY <1>1 DEF StoreConsensusState, HashesWith, TypeOK
<1>4. IsStored(o.newHeight.revisionHeight)'
  BY <1>1, <1>3, MsgsAssumption DEF IsStored
<1>5. \A h \in UINT32 \ {o.newHeight.revisionHeight} :
          IsStored(h)' <=> IsStored(h)
  BY <1>3 DEF IsStored
<1>6. QED
  BY <1>1, <1>2, <1>3, <1>4, <1>5

\* Adding a verified state keeps the invariant.
LEMMA AddInvariant ==
    ASSUME IInv, TypeOK', CachedProofsWereVerified', AddsState
    PROVE  IInv'
<1>1. PICK o \in UpdateClientOutput :
          /\ Verified(o)
          /\ CheckUpdateResult(o) = "Update"
          /\ StoreConsensusState(o.newHeight, o.newConsensusState)
  BY DEF AddsState
<1> DEFINE new == o.newHeight.revisionHeight
           t == o.trustedHeight.revisionHeight
<1>2. PICK b \in Blocks :
          /\ o.newHeight = HeightOf(b)
          /\ o.newConsensusState = ConsensusStateOf(b)
          /\ b.height = new
          /\ b.chainId = GenesisClientState.chainId
          /\ b.height > t
          /\ b.time > o.trustedConsensusState.timestamp * TicksPerSecond
          /\ EndorsedBy(o.trustedConsensusState, t, b,
                        GenesisClientState.trustLevel)
          /\ VerifyCommit(b)
  BY <1>1, VerifiedHeader
<1>3. /\ new \in UINT32 /\ ~IsStored(new)
      /\ consensusStateHashes'[new] = o.newConsensusState
      /\ IsStored(new)'
      /\ \A h \in UINT32 \ {new} :
             /\ consensusStateHashes'[h] = consensusStateHashes[h]
             /\ IsStored(h)' <=> IsStored(h)
  BY <1>1, AddedState DEF IInv
<1>4. /\ t \in UINT32
      /\ IsStored(t)
      /\ consensusStateHashes[t] = o.trustedConsensusState
  BY <1>1 DEF Verified, IsTrusted, UpdateClientOutput, Height
<1>5. UINT32 \subseteq Nat
  BY MsgsAssumption DEF UINT32
<1>6. clientState' = [clientState EXCEPT !.latestHeight = LatestWith(o.newHeight)]
  BY <1>1 DEF StoreConsensusState
<1>7. /\ clientState'.chainId = clientState.chainId
      /\ clientState'.trustLevel = clientState.trustLevel
      /\ clientState'.trustingPeriod = clientState.trustingPeriod
      /\ clientState'.latestHeight = LatestWith(o.newHeight)
  BY <1>6 DEF IInv, TypeOK, ClientState
<1>8. ParametersAreFixed'
  BY <1>7 DEF IInv, ParametersAreFixed
<1>9. SameRevision'
  <2>1. o.newHeight.revisionNumber = RevisionNumber[clientState.chainId]
    BY <1>2 DEF HeightOf, IInv, ParametersAreFixed
  <2>2. QED
    BY <1>7, <2>1 DEF SameRevision, LatestWith, IInv
<1>10. LatestHeightIsHighest'
  <2>1. PICK latest \in UINT32 :
            /\ latest = clientState.latestHeight.revisionHeight
            /\ IsStored(latest)
            /\ \A h \in UINT32 : IsStored(h) => h <= latest
    BY DEF IInv, TypeOK, ClientState, Height, LatestHeightIsHighest
  <2>2. CASE new > latest
    <3>1. clientState'.latestHeight.revisionHeight = new
      BY <1>7, <2>1, <2>2 DEF LatestWith
    <3>2. \A h \in UINT32 : IsStored(h)' => h <= new
      BY <1>3, <1>5, <2>1, <2>2
    <3>3. QED
      BY <1>3, <3>1, <3>2 DEF LatestHeightIsHighest
  <2>3. CASE ~(new > latest)
    <3>1. clientState'.latestHeight.revisionHeight = latest
      BY <1>7, <2>1, <2>3 DEF LatestWith
    <3>2. \A h \in UINT32 : IsStored(h)' => h <= latest
      BY <1>3, <1>5, <2>1, <2>3
    <3>3. IsStored(latest)'
      BY <1>3, <2>1
    <3>4. QED
      BY <3>1, <3>2, <3>3 DEF LatestHeightIsHighest
  <2>4. QED
    BY <2>2, <2>3
<1>11. StoredFromBlocks'
  <2>1. SUFFICES ASSUME NEW h \in UINT32, IsStored(h)'
                 PROVE  \E x \in Blocks :
                            /\ x.height = h
                            /\ x.chainId = GenesisClientState.chainId
                            /\ consensusStateHashes'[h] = ConsensusStateOf(x)
                            /\ VerifyCommit(x)
    BY DEF StoredFromBlocks, ConsensusStateOf, VerifyCommit, Seconds, SignedBy
  <2>2. CASE h = new
    BY <1>2, <1>3, <2>2
  <2>3. CASE h # new
    BY <1>3, <2>1, <2>3 DEF IInv, StoredFromBlocks
  <2>4. QED
    BY <2>2, <2>3
<1>12. ChainOfTrust'
  <2>1. SUFFICES ASSUME NEW h \in UINT32 \ {GenesisHeight}, IsStored(h)'
                 PROVE  \E s \in 0..(h - 1), x \in Blocks :
                            /\ IsStored(s)'
                            /\ x.height = h
                            /\ x.chainId = GenesisClientState.chainId
                            /\ consensusStateHashes'[h] = ConsensusStateOf(x)
                            /\ x.time > consensusStateHashes'[s].timestamp
                                            * TicksPerSecond
                            /\ EndorsedBy(consensusStateHashes'[s], s, x,
                                          GenesisClientState.trustLevel)
                            /\ VerifyCommit(x)
    BY DEF ChainOfTrust, ConsensusStateOf, VerifyCommit, Seconds, SignedBy,
           EndorsedBy
  <2>2. CASE h = new
    <3>1. t \in 0..(h - 1)
      <4>1. t < h
        BY <1>2, <2>2
      <4>2. t \in Nat /\ h \in Nat
        BY <1>4, <1>5, <2>1
      <4>3. QED
        BY <4>1, <4>2
    <3>2. IsStored(t)' /\ consensusStateHashes'[t] = o.trustedConsensusState
      BY <1>3, <1>4
    <3>3. QED
      BY <1>2, <1>3, <2>2, <3>1, <3>2
  <2>3. CASE h # new
    <3>1. PICK s \in 0..(h - 1), x \in Blocks :
              /\ IsStored(s)
              /\ x.height = h
              /\ x.chainId = GenesisClientState.chainId
              /\ consensusStateHashes[h] = ConsensusStateOf(x)
              /\ x.time > consensusStateHashes[s].timestamp * TicksPerSecond
              /\ EndorsedBy(consensusStateHashes[s], s, x,
                            GenesisClientState.trustLevel)
              /\ VerifyCommit(x)
      BY <1>3, <2>1, <2>3 DEF IInv, ChainOfTrust
    <3>2. s \in UINT32
      BY <1>5, <2>1, <3>1, MsgsAssumption DEF UINT32
    <3>3. s # new
      BY <1>3, <3>1
    <3>4. IsStored(s)' /\ consensusStateHashes'[s] = consensusStateHashes[s]
      BY <1>3, <3>1, <3>2, <3>3
    <3>5. QED
      BY <1>3, <2>1, <2>3, <3>1, <3>4
  <2>4. QED
    BY <2>2, <2>3
<1>13. QED
  BY <1>8, <1>9, <1>10, <1>11, <1>12 DEF IInv

\* Every step keeps the invariant.
LEMMA StepInvariant ==
    ASSUME IInv, [Step]_vars
    PROVE  IInv'
<1>0. TypeOK' /\ CachedProofsWereVerified'
  BY StepTyped, StepCache DEF IInv
<1>1. ClientCases
  BY StepCases DEF IInv
<1>2. CASE KeepClient
  BY <1>0, <1>2, FrameInvariant DEF KeepClient
<1>3. CASE Freeze
  <2>1. /\ UNCHANGED consensusStateHashes
        /\ clientState'.chainId = clientState.chainId
        /\ clientState'.trustLevel = clientState.trustLevel
        /\ clientState'.trustingPeriod = clientState.trustingPeriod
        /\ clientState'.latestHeight = clientState.latestHeight
    BY <1>3 DEF Freeze, IInv, TypeOK, ClientState
  <2>2. QED
    BY <1>0, <2>1, FrameInvariant
<1>4. CASE AddsState
  BY <1>0, <1>4, AddInvariant
<1>5. QED
  BY <1>1, <1>2, <1>3, <1>4 DEF ClientCases, FreezesOnUpdate, FreezesOnEvidence

\* The invariant holds of every behaviour of the contract.
LEMMA StepSpecInvariance == StepSpec => []IInv
<1>1. IInv /\ [Step]_vars => IInv'
  BY StepInvariant
<1>2. QED
  BY <1>1, InitInvariant, PTL DEF StepSpec

\* It holds whatever relayers submit.
THEOREM Invariance == Spec => []IInv
BY SpecSteps, StepSpecInvariance, PTL

-----------------------------------------------------------------------------
(* The properties.                                                         *)

\* The latest height is the greatest stored one, whatever order the updates of
\* the two entry points arrive in.
THEOREM LatestHeightCorrect == Spec => []LatestHeightIsHighest
BY Invariance, PTL DEF IInv

\* All trust goes back to the genesis state.
THEOREM ChainOfTrustCorrect == Spec => []ChainOfTrust
BY Invariance, PTL DEF IInv

\* The client stays in the revision of its chain.
THEOREM RevisionCorrect == Spec => []SameRevision
BY Invariance, PTL DEF IInv

\* No transaction with any message replaces or removes a consensus state.
LEMMA StepImmutable == StepSpec => ConsensusStatesImmutable
<1>1. IInv /\ [Step]_vars =>
          [\A h \in UINT32 : IsStored(h) =>
               consensusStateHashes'[h] = consensusStateHashes[h]]_vars
  <2>1. SUFFICES ASSUME IInv, [Step]_vars, NEW h \in UINT32, IsStored(h)
                 PROVE  consensusStateHashes'[h] = consensusStateHashes[h]
    OBVIOUS
  <2>2. ClientCases
    BY <2>1, StepCases DEF IInv
  <2>3. CASE UNCHANGED consensusStateHashes
    BY <2>3
  <2>4. CASE AddsState
    BY <2>1, <2>4, AddedState DEF AddsState, IInv
  <2>5. QED
    BY <2>2, <2>3, <2>4 DEF ClientCases, KeepClient, FreezesOnUpdate,
       FreezesOnEvidence, Freeze
<1>2. QED
  BY <1>1, StepSpecInvariance, PTL DEF StepSpec, ConsensusStatesImmutable

\* No transaction replaces or removes a consensus state.
THEOREM StatesAreImmutable == Spec => ConsensusStatesImmutable
BY SpecSteps, StepImmutable, PTL

\* Once the client is frozen every entry point reverts.
LEMMA FrozenReverts ==
    ASSUME clientState.isFrozen
    PROVE  /\ \A m : UpdateClientError(m) # NoError
           /\ \A m : HandleSP1MembershipProofError(m) # NoError
           /\ \A m, hashes :
                  (UcAndMembershipError(m) ?? UcAndMembershipFinalError(m, hashes))
                      # NoError
           /\ \A m : MisbehaviourError(m) # NoError
<1>1. NotFrozen # NoError
  BY DEF NotFrozen, Require, NoError
<1>2. \A o : ValidateUpdateClientPublicValues(o) # NoError
  BY <1>1 DEF ValidateUpdateClientPublicValues, ??
<1>3. \A m : UpdateClientError(m) # NoError
  BY <1>2 DEF UpdateClientError, ??
<1>4. \A root, height, trusted, hashes :
          ValidateMembershipOutput(root, height, trusted, hashes) # NoError
  BY <1>1 DEF ValidateMembershipOutput, ??
<1>5. \A m : HandleSP1MembershipProofError(m) # NoError
  BY <1>4 DEF HandleSP1MembershipProofError, ??
<1>6. \A m : UcAndMembershipError(m) # NoError
  BY <1>2 DEF UcAndMembershipError, ??
<1>7. \A o : ValidateMisbehaviourOutput(o) # NoError
  BY <1>1 DEF ValidateMisbehaviourOutput, ??
<1>8. \A m : MisbehaviourError(m) # NoError
  BY <1>7 DEF MisbehaviourError, ??
<1>9. QED
  BY <1>3, <1>5, <1>6, <1>8 DEF ??

\* A reverted transaction, whatever its error, changes nothing but the receipt.
LEMMA RevertedKeeps ==
    ASSUME NEW fn, NEW error, error # NoError, Reverted(fn, error)
    PROVE  UNCHANGED contractVars /\ receipt'.error # NoError
BY DEF Reverted

\* No message brings a frozen client back.
LEMMA StepFinal == StepSpec => FrozenIsFinal
<1>1. [Step]_vars =>
          [clientState.isFrozen =>
              /\ UNCHANGED contractVars
              /\ receipt' # receipt => receipt'.error # NoError]_vars
  <2>1. SUFFICES ASSUME [Step]_vars, clientState.isFrozen
                 PROVE  /\ UNCHANGED contractVars
                        /\ receipt' # receipt => receipt'.error # NoError
    OBVIOUS
  <2>2. ASSUME NEW m \in MsgUpdateClient, UpdateClient(m)
        PROVE  UNCHANGED contractVars /\ receipt'.error # NoError
    <3>1. Reverted("updateClient", UpdateClientError(m))
      BY <2>1, <2>2, FrozenReverts DEF UpdateClient
    <3>2. QED
      BY <2>1, <3>1, FrozenReverts, RevertedKeeps
  <2>3. ASSUME NEW m \in MsgMembership, Membership(m)
        PROVE  UNCHANGED contractVars /\ receipt'.error # NoError
    <3> DEFINE o == m.proof.sp1Proof.publicValues.updateClientOutput
               hashes == IF CheckUpdateResult(o) = "Update"
                         THEN HashesWith(m.proofHeight, o.newConsensusState)
                         ELSE consensusStateHashes
               error == UcAndMembershipError(m)
                            ?? UcAndMembershipFinalError(m, hashes)
    <3>1. CASE HandleSP1MembershipProof(m)
      <4>1. Reverted("membership", HandleSP1MembershipProofError(m))
        BY <2>1, <3>1, FrozenReverts DEF HandleSP1MembershipProof
      <4>2. QED
        BY <2>1, <4>1, FrozenReverts, RevertedKeeps
    <3>2. CASE HandleSP1UpdateClientAndMembership(m)
      <4>1. error # NoError
        BY <2>1, FrozenReverts
      <4>2. Reverted("membership", error)
        BY <3>2, <4>1 DEF HandleSP1UpdateClientAndMembership
      <4>3. QED
        BY <4>1, <4>2, RevertedKeeps
    <3>3. QED
      BY <2>3, <3>1, <3>2 DEF Membership
  <2>4. ASSUME NEW m \in MsgSubmitMisbehaviour, Misbehaviour(m)
        PROVE  UNCHANGED contractVars /\ receipt'.error # NoError
    <3>1. Reverted("misbehaviour", MisbehaviourError(m))
      BY <2>1, <2>4, FrozenReverts DEF Misbehaviour
    <3>2. QED
      BY <2>1, <3>1, FrozenReverts, RevertedKeeps
  <2>5. CASE UpgradeClient
    BY <2>5, RevertedKeeps DEF UpgradeClient, NoError
  <2>6. CASE AdvanceTime \/ UNCHANGED vars
    BY <2>6 DEF AdvanceTime, vars, contractVars
  <2>7. QED
    BY <2>1, <2>2, <2>3, <2>4, <2>5, <2>6 DEF Step
<1>2. QED
  BY <1>1, PTL DEF StepSpec, FrozenIsFinal

\* Freezing is final.
THEOREM FreezingIsFinal == Spec => FrozenIsFinal
BY SpecSteps, StepFinal, PTL

\* Comparing in ticks is comparing in seconds.
LEMMA TicksCompare ==
    ASSUME NEW x \in Int, NEW y \in Int, NEW k \in Nat \ {0}, x * k > y * k
    PROVE  x > y
<1>1. SUFFICES ASSUME x <= y PROVE FALSE
  OBVIOUS
<1>2. PICK d \in Nat : y = x + d
  <2>1. y - x \in Nat /\ y = x + (y - x)
    BY <1>1
  <2>2. QED
    BY <2>1
<1>3. y * k = x * k + d * k
  BY <1>2
<1>4. d * k >= 0
  BY <1>2
<1>5. x * k \in Int /\ y * k \in Int /\ d * k \in Int
  BY <1>2
<1>6. QED
  BY <1>3, <1>4, <1>5

\* A product of two numbers grows with the first.
LEMMA TicksMonotone ==
    ASSUME NEW x \in Nat, NEW y \in Nat, NEW k \in Nat, x <= y
    PROVE  x * k <= y * k
<1>1. PICK d \in Nat : y = x + d
  <2>1. y - x \in Nat /\ y = x + (y - x)
    OBVIOUS
  <2>2. QED
    BY <2>1
<1>2. y * k = x * k + d * k
  BY <1>1
<1>3. d * k \in Nat /\ x * k \in Nat
  BY <1>1
<1>4. QED
  BY <1>2, <1>3

\* The modulus leaves a number below it alone.
LEMMA ModSmall ==
    ASSUME NEW x \in Nat, NEW n \in Nat, x <= n
    PROVE  x % (n + 1) = x
OBVIOUS

\* An environment the contract accepts does not wrap the verification clock.
LEMMA ClockDoesNotWrap ==
    ASSUME NEW env \in Env, blockTimestamp \in 0..MaxTimestamp,
           env.now <= blockTimestamp
    PROVE  HostTimestamp(env) = env.now * TicksPerSecond
<1>1. env.now \in Nat /\ MaxTimestamp \in Nat /\ env.now <= MaxTimestamp
  BY MsgsAssumption, ContractAssumption DEF Env, UINT64
<1>2. TicksPerSecond \in Nat /\ MAX_UINT64 \in Nat
  BY ChainAssumption, MsgsAssumption
<1>3. env.now * TicksPerSecond <= MaxTimestamp * TicksPerSecond
  BY <1>1, <1>2, TicksMonotone
<1>4. /\ env.now * TicksPerSecond \in Nat
      /\ MaxTimestamp * TicksPerSecond \in Nat
  BY <1>1, <1>2
<1>5. env.now * TicksPerSecond <= MAX_UINT64
  BY <1>2, <1>3, <1>4, ClockAssumption
<1>6. QED
  BY <1>2, <1>4, <1>5, ModSmall DEF HostTimestamp

\* The proof's clock and the contract's, added up.
LEMMA StepTrusted == StepSpec => AddedWhileTrusted
<1>1. IInv /\ [Step]_vars =>
          [\A h \in UINT32 :
              ~IsStored(h) /\ IsStored(h)' =>
                  \E t \in 0..(h - 1) :
                      /\ IsStored(t)
                      /\ blockTimestamp < consensusStateHashes[t].timestamp
                             + clientState.trustingPeriod
                             + ALLOWED_SP1_CLOCK_DRIFT]_vars
  <2>1. SUFFICES ASSUME IInv, [Step]_vars, NEW h \in UINT32,
                        ~IsStored(h), IsStored(h)'
                 PROVE  \E t \in 0..(h - 1) :
                            /\ IsStored(t)
                            /\ blockTimestamp < consensusStateHashes[t].timestamp
                                   + clientState.trustingPeriod
                                   + ALLOWED_SP1_CLOCK_DRIFT
    OBVIOUS
  <2>2. ~UNCHANGED consensusStateHashes
    BY <2>1 DEF IsStored
  <2>3. AddsState
    BY <2>1, <2>2, StepCases DEF IInv, ClientCases, KeepClient, FreezesOnUpdate,
       FreezesOnEvidence, Freeze
  <2>4. PICK o \in UpdateClientOutput :
            /\ Verified(o)
            /\ CheckUpdateResult(o) = "Update"
            /\ StoreConsensusState(o.newHeight, o.newConsensusState)
    BY <2>3 DEF AddsState
  <2> DEFINE t == o.trustedHeight.revisionHeight
             trusted == o.trustedConsensusState
  <2>5. o.newHeight.revisionHeight = h
    BY <2>1, <2>4, AddedState DEF IInv
  <2>6. PICK b \in Blocks :
            /\ VerifyHeader(trusted, o.trustedHeight, b, o.env)
            /\ o.newHeight = HeightOf(b)
    BY <2>4 DEF Verified, CommitsUpdateClient
  <2>7. t < h
    BY <2>5, <2>6 DEF VerifyHeader, ValidateBasic, HeightOf
  <2>8. t \in Nat /\ h \in Nat /\ IsStored(t) /\ consensusStateHashes[t] = trusted
    BY <2>4, MsgsAssumption DEF Verified, IsTrusted, UpdateClientOutput, Height,
       UINT32
  <2>9. (trusted.timestamp + o.env.trustingPeriod) * TicksPerSecond
            > o.env.now * TicksPerSecond
    <3>1. o.env \in Env /\ blockTimestamp \in 0..MaxTimestamp
      BY <2>1 DEF UpdateClientOutput, IInv, TypeOK
    <3>2. o.env.now <= blockTimestamp
      BY <2>4 DEF Verified, EnvIsValid
    <3>3. HostTimestamp(o.env) = o.env.now * TicksPerSecond
      BY <3>1, <3>2, ClockDoesNotWrap
    <3>4. QED
      BY <2>6, <3>3 DEF VerifyHeader, VerifyAgainstTrusted, WithinTrustPeriod
  <2>10. /\ trusted.timestamp \in Nat
         /\ o.env.trustingPeriod \in Nat
         /\ o.env.now \in Nat
    BY MsgsAssumption DEF UpdateClientOutput, ConsensusState, Env, UINT32, UINT64
  <2>11. trusted.timestamp + o.env.trustingPeriod > o.env.now
    <3>1. trusted.timestamp + o.env.trustingPeriod \in Int /\ o.env.now \in Int
      BY <2>10
    <3>2. QED
      BY <2>9, <3>1, ChainAssumption, TicksCompare
  <2>12. /\ blockTimestamp - o.env.now <= ALLOWED_SP1_CLOCK_DRIFT
         /\ o.env.trustingPeriod = clientState.trustingPeriod
    BY <2>4 DEF Verified, EnvIsValid
  <2>13. blockTimestamp < trusted.timestamp + clientState.trustingPeriod
             + ALLOWED_SP1_CLOCK_DRIFT
    BY <2>1, <2>10, <2>11, <2>12, ContractAssumption DEF IInv, TypeOK
  <2>14. t \in 0..(h - 1)
    BY <2>7, <2>8
  <2>15. QED
    BY <2>8, <2>13, <2>14
<1>2. QED
  BY <1>1, StepSpecInvariance, PTL DEF StepSpec, AddedWhileTrusted

\* A state is only added on top of one the client still trusts, up to the drift
\* the contract allows between the proof's clock and its own.
THEOREM TrustedWhenAdded == Spec => AddedWhileTrusted
BY SpecSteps, StepTrusted, PTL

\* Later blocks of the chain fall into later seconds.
DistinctSeconds ==
    \A b1, b2 \in Blocks :
        /\ VerifyCommit(b1) /\ VerifyCommit(b2)
        /\ b1.height < b2.height /\ b1.time < b2.time
        => Seconds(b1.time) < Seconds(b2.time)

\* An update that checkUpdateResult takes for misbehaviour comes with two
\* conflicting blocks, provided block times differ in whole seconds.
LEMMA UpdateEvidence ==
    ASSUME DistinctSeconds, IInv, FreezesOnUpdate
    PROVE  \E b1, b2 \in Blocks :
               VerifyCommit(b1) /\ VerifyCommit(b2) /\ Conflicting(b1, b2)
<1>1. PICK o \in UpdateClientOutput :
          Verified(o) /\ CheckUpdateResult(o) = "Misbehaviour"
  BY DEF FreezesOnUpdate
<1> DEFINE new == o.newHeight.revisionHeight
           t == o.trustedHeight.revisionHeight
<1>2. PICK b \in Blocks :
          /\ o.newConsensusState = ConsensusStateOf(b)
          /\ b.height = new
          /\ b.height > t
          /\ VerifyCommit(b)
  BY <1>1, VerifiedHeader
<1>3. /\ IsStored(new)
      /\ \/ consensusStateHashes[new] # o.newConsensusState
         \/ o.trustedConsensusState.timestamp >= o.newConsensusState.timestamp
  BY <1>1 DEF CheckUpdateResult
<1>4. new \in UINT32 /\ t \in UINT32
  BY DEF UpdateClientOutput, Height
<1>5. CASE consensusStateHashes[new] # o.newConsensusState
  <2>1. PICK x \in Blocks :
            /\ x.height = new
            /\ consensusStateHashes[new] = ConsensusStateOf(x)
            /\ VerifyCommit(x)
    BY <1>3, <1>4 DEF IInv, StoredFromBlocks
  <2>2. BlockId(x) # BlockId(b)
    <3>1. SUFFICES ASSUME BlockId(x) = BlockId(b)
                   PROVE  ConsensusStateOf(x) = ConsensusStateOf(b)
      BY <1>2, <1>5, <2>1
    <3>2. x \in Block /\ b \in Block
      BY ChainAssumption
    <3>3. /\ BlockId(x).time = x.time /\ BlockId(b).time = b.time
          /\ BlockId(x).appHash = x.appHash /\ BlockId(b).appHash = b.appHash
          /\ BlockId(x).nextValidators = x.nextValidators
          /\ BlockId(b).nextValidators = b.nextValidators
      BY <3>2 DEF BlockId, Block
    <3>4. QED
      BY <3>1, <3>3 DEF ConsensusStateOf
  <2>3. Conflicting(x, b)
    BY <1>2, <2>1, <2>2 DEF Conflicting
  <2>4. QED
    BY <1>2, <2>1, <2>3
<1>6. CASE o.trustedConsensusState.timestamp >= o.newConsensusState.timestamp
  <2>1. PICK x \in Blocks :
            /\ x.height = t
            /\ o.trustedConsensusState = ConsensusStateOf(x)
            /\ VerifyCommit(x)
    BY <1>1, <1>4 DEF IInv, StoredFromBlocks, Verified, IsTrusted
  <2>2. Seconds(x.time) >= Seconds(b.time)
    BY <1>2, <1>6, <2>1 DEF ConsensusStateOf
  <2>3. x.height \in Nat /\ b.height \in Nat /\ x.time \in Nat /\ b.time \in Nat
    BY ChainAssumption, MsgsAssumption DEF Block, UINT32
  <2>4. Seconds(x.time) \in Int /\ Seconds(b.time) \in Int
    BY <2>3, ChainAssumption DEF Seconds
  <2>5. ~(Seconds(x.time) < Seconds(b.time))
    BY <2>2, <2>4
  <2>6. x.height < b.height
    BY <1>2, <2>1, <2>3
  <2>7. ~(x.time < b.time)
    BY <1>2, <2>1, <2>5, <2>6 DEF DistinctSeconds
  <2>8. Conflicting(b, x)
    BY <1>2, <2>1, <2>3, <2>7 DEF Conflicting
  <2>9. QED
    BY <1>2, <2>1, <2>8
<1>7. QED
  BY <1>3, <1>5, <1>6

\* Evidence the misbehaviour program accepts is two conflicting blocks.
LEMMA EvidenceConflicts ==
    ASSUME FreezesOnEvidence
    PROVE  \E b1, b2 \in Blocks :
               VerifyCommit(b1) /\ VerifyCommit(b2) /\ Conflicting(b1, b2)
BY DEF FreezesOnEvidence, CommitsMisbehaviour, VerifyMisbehaviourHeader,
       VerifyAgainstTrusted

\* Whatever freezes the client shows two conflicting blocks.
LEMMA StepFreezing ==
    ASSUME DistinctSeconds
    PROVE  StepSpec => []FrozenOnlyByMisbehaviour
<1>1. Init => FrozenOnlyByMisbehaviour
  BY GenesisAssumption DEF Init, FrozenOnlyByMisbehaviour
<1>2. FrozenOnlyByMisbehaviour /\ IInv /\ [Step]_vars
          => FrozenOnlyByMisbehaviour'
  <2>1. SUFFICES ASSUME FrozenOnlyByMisbehaviour, IInv, [Step]_vars,
                        clientState'.isFrozen
                 PROVE  \E b1, b2 \in Blocks :
                            /\ VerifyCommit(b1)
                            /\ VerifyCommit(b2)
                            /\ Conflicting(b1, b2)
    BY DEF FrozenOnlyByMisbehaviour, VerifyCommit, Conflicting, SignedBy, BlockId
  <2>2. ClientCases
    BY <2>1, StepCases DEF IInv
  <2>3. CASE KeepClient
    BY <2>1, <2>3 DEF KeepClient, FrozenOnlyByMisbehaviour
  <2>4. CASE AddsState
    <3>1. clientState'.isFrozen = clientState.isFrozen
      BY <2>1, <2>4 DEF AddsState, StoreConsensusState, IInv, TypeOK, ClientState
    <3>2. QED
      BY <2>1, <3>1 DEF FrozenOnlyByMisbehaviour
  <2>5. CASE FreezesOnUpdate
    BY <2>1, <2>5, UpdateEvidence
  <2>6. CASE FreezesOnEvidence
    BY <2>6, EvidenceConflicts
  <2>7. QED
    BY <2>2, <2>3, <2>4, <2>5, <2>6 DEF ClientCases
<1>3. QED
  BY <1>1, <1>2, StepSpecInvariance, PTL DEF StepSpec

\* On a chain whose blocks fall into distinct seconds, only validators that sign
\* conflicting blocks can have the client frozen.
THEOREM FreezingNeedsMisbehaviour ==
    ASSUME DistinctSeconds
    PROVE  Spec => []FrozenOnlyByMisbehaviour
BY SpecSteps, StepFreezing, PTL

-----------------------------------------------------------------------------
(* What the two entry points promise their callers.                        *)

\* The loop over the pairs lets only a pair of the list pass.
LEMMA KVPairChecked ==
    ASSUME NEW kvPairs, NEW path, NEW value,
           ValidateKVPair(kvPairs, path, value) = NoError
    PROVE  \E i \in 1..Len(kvPairs) :
               kvPairs[i].path = path /\ kvPairs[i].value = value
BY DEF ValidateKVPair, Require, NoError

\* A pair of the list a program committed is proved against the root.
LEMMA CommittedPairProves ==
    ASSUME NEW root, NEW kvPairs, NEW path, NEW value,
           CommitsKVPairs(root, kvPairs),
           ValidateKVPair(kvPairs, path, value) = NoError
    PROVE  Proves(root, [path |-> path, value |-> value])
<1>1. PICK i \in 1..Len(kvPairs) :
          kvPairs[i].path = path /\ kvPairs[i].value = value
  BY KVPairChecked
<1>2. Proves(root, kvPairs[i])
  BY <1>1 DEF CommitsKVPairs
<1>3. QED
  BY <1>1, <1>2 DEF Proves

\* The client holds the fact m asks about, at the height m names.
FactHolds(m, timestamp) ==
    LET h == m.proofHeight.revisionHeight
    IN  /\ IsStored(h)
        /\ Proves(consensusStateHashes[h].root,
                  [path |-> m.path, value |-> m.value])
        /\ timestamp = consensusStateHashes[h].timestamp

\* An accepted proof of the first type establishes the fact.
LEMMA SP1MembershipFact ==
    ASSUME NEW m \in MsgMembership, IInv,
           m.proof.proofType = "SP1MembershipProof",
           HandleSP1MembershipProof(m),
           HandleSP1MembershipProofError(m) = NoError
    PROVE  /\ KeepClient
           /\ FactHolds(m, m.proof.trustedConsensusState.timestamp)
<1> DEFINE p == m.proof.sp1Proof
           trusted == m.proof.trustedConsensusState
           h == m.proofHeight.revisionHeight
<1>1. trusted \in ConsensusState
  BY ContractAssumption DEF MsgMembership, MembershipProof, SP1MembershipProof,
     SP1MembershipAndUpdateClientProof
<1>2. /\ p.vKey = MEMBERSHIP_PROGRAM_VKEY
      /\ ValidateKVPair(p.publicValues.kvPairs, m.path, m.value) = NoError
      /\ ValidateMembershipOutput(p.publicValues.commitmentRoot, h, trusted,
                                  consensusStateHashes) = NoError
      /\ VerifyKVProof(p, p.publicValues.kvPairs) = NoError
  BY DEF HandleSP1MembershipProofError, Require, ??, NoError
<1>3. /\ p.publicValues.commitmentRoot = trusted.root
      /\ consensusStateHashes[h] = trusted
  BY <1>2 DEF ValidateMembershipOutput, Require, ??, NoError
<1>4. VerifyProof(p)
  BY <1>2, KVProofVerified DEF IInv
<1>5. CommitsKVPairs(p.publicValues.commitmentRoot, p.publicValues.kvPairs)
  BY <1>2, <1>4, MsgsAssumption DEF VerifyProof, CommitsMembership
<1>6. Proves(trusted.root, [path |-> m.path, value |-> m.value])
  BY <1>2, <1>3, <1>5, CommittedPairProves
<1>7. IsStored(h)
  BY <1>1, <1>3, MsgsAssumption DEF IsStored
<1>8. KeepClient
  BY DEF HandleSP1MembershipProof
<1>9. QED
  BY <1>3, <1>6, <1>7, <1>8 DEF FactHolds

\* An accepted proof of the second type establishes the fact about the state it
\* has just stored, or found stored.
LEMMA UcAndMembershipFact ==
    ASSUME NEW m \in MsgMembership, IInv,
           m.proof.proofType = "SP1MembershipAndUpdateClientProof",
           HandleSP1UpdateClientAndMembership(m),
           receipt'.error = NoError
    PROVE  /\ receipt'.msg = m
           /\ FactHolds(m, receipt.timestamp)'
<1> DEFINE p == m.proof.sp1Proof
           o == p.publicValues.updateClientOutput
           h == m.proofHeight.revisionHeight
           result == CheckUpdateResult(o)
           hashes == IF result = "Update"
                     THEN HashesWith(m.proofHeight, o.newConsensusState)
                     ELSE consensusStateHashes
           error == UcAndMembershipError(m)
                        ?? UcAndMembershipFinalError(m, hashes)
<1>1. m.proof \in SP1MembershipAndUpdateClientProof
  BY ContractAssumption DEF MsgMembership, MembershipProof,
     SP1MembershipProof, SP1MembershipAndUpdateClientProof
<1>2. o.newConsensusState \in ConsensusState
  BY <1>1 DEF SP1MembershipAndUpdateClientProof, SP1ProofOf,
     UcAndMembershipOutput, UpdateClientOutput
<1>3. error = NoError
  BY RevertedKeeps DEF HandleSP1UpdateClientAndMembership
<1>4. /\ Returned("membership", m, NoResult, o.newConsensusState.timestamp)
      /\ \/ /\ result = "Update"
            /\ StoreConsensusState(m.proofHeight, o.newConsensusState)
         \/ result = "NoOp" /\ KeepClient
  BY <1>3 DEF HandleSP1UpdateClientAndMembership
<1>5. consensusStateHashes' = hashes
  BY <1>4 DEF StoreConsensusState, KeepClient
<1>6. /\ p.vKey = UPDATE_CLIENT_AND_MEMBERSHIP_PROGRAM_VKEY
      /\ m.proofHeight = o.newHeight
      /\ VerifyKVProof(p, p.publicValues.kvPairs) = NoError
  BY <1>3 DEF UcAndMembershipError, Require, ??, NoError
<1>7. UcAndMembershipFinalError(m, hashes) = NoError
  BY <1>3 DEF ??
<1>8. /\ ValidateKVPair(p.publicValues.kvPairs, m.path, m.value) = NoError
      /\ ValidateMembershipOutput(o.newConsensusState.root,
                                  o.newHeight.revisionHeight,
                                  o.newConsensusState, hashes) = NoError
  BY <1>7 DEF UcAndMembershipFinalError, Require, ??, NoError
<1>9. hashes[h] = o.newConsensusState
  BY <1>6, <1>8 DEF ValidateMembershipOutput, Require, ??, NoError
<1>10. VerifyProof(p)
  BY <1>6, KVProofVerified DEF IInv
<1>11. CommitsKVPairs(o.newConsensusState.root, p.publicValues.kvPairs)
  BY <1>6, <1>10, MsgsAssumption DEF VerifyProof, CommitsUcAndMembership
<1>12. Proves(o.newConsensusState.root, [path |-> m.path, value |-> m.value])
  BY <1>8, <1>11, CommittedPairProves
<1>13. consensusStateHashes'[h] = o.newConsensusState
  BY <1>5, <1>9
<1>14. IsStored(h)'
  BY <1>2, <1>13, MsgsAssumption DEF IsStored
<1>15. receipt'.msg = m /\ receipt'.timestamp = o.newConsensusState.timestamp
  BY <1>4 DEF Returned
<1>16. QED
  BY <1>12, <1>13, <1>14, <1>15 DEF FactHolds, Proves

\* Transactions to the other entry points leave other receipts.
LEMMA OtherReceipts ==
    /\ \A m : UpdateClient(m) => receipt'.fn = "updateClient"
    /\ \A m : Membership(m) => receipt'.fn = "membership"
    /\ \A m : Misbehaviour(m) => receipt'.fn = "misbehaviour"
    /\ UpgradeClient => receipt'.fn = "upgradeClient"
BY DEF UpdateClient, Membership, HandleSP1MembershipProof,
   HandleSP1UpdateClientAndMembership, Misbehaviour, UpgradeClient, Reverted,
   Returned

\* Nobody but membership answers, and it looks the fact up.
LEMMA StepMembershipCorrect == StepSpec => []MembershipSound
<1>1. Init => MembershipSound
  BY DEF Init, ConstructorReceipt, MembershipSound
<1>2. MembershipSound /\ IInv /\ [Step]_vars => MembershipSound'
  <2>1. SUFFICES ASSUME MembershipSound, IInv, [Step]_vars,
                        receipt'.fn = "membership", receipt'.error = NoError
                 PROVE  FactHolds(receipt.msg, receipt.timestamp)'
    BY DEF MembershipSound, FactHolds
  <2>2. ASSUME NEW m \in MsgMembership, Membership(m)
        PROVE  FactHolds(receipt.msg, receipt.timestamp)'
    <3>1. CASE /\ m.proof.proofType = "SP1MembershipProof"
               /\ HandleSP1MembershipProof(m)
      <4>1. HandleSP1MembershipProofError(m) = NoError
        BY <2>1, <3>1, RevertedKeeps DEF HandleSP1MembershipProof
      <4>2. Returned("membership", m, NoResult,
                     m.proof.trustedConsensusState.timestamp)
        BY <3>1, <4>1 DEF HandleSP1MembershipProof
      <4>3. /\ receipt'.msg = m
            /\ receipt'.timestamp = m.proof.trustedConsensusState.timestamp
        BY <4>2 DEF Returned
      <4>4. KeepClient /\ FactHolds(m, m.proof.trustedConsensusState.timestamp)
        BY <2>1, <3>1, <4>1, SP1MembershipFact
      <4>5. QED
        BY <4>3, <4>4 DEF FactHolds, KeepClient, IsStored, Proves
    <3>2. CASE /\ m.proof.proofType = "SP1MembershipAndUpdateClientProof"
               /\ HandleSP1UpdateClientAndMembership(m)
      <4>1. receipt'.msg = m /\ FactHolds(m, receipt.timestamp)'
        BY <2>1, <3>2, UcAndMembershipFact
      <4>2. QED
        BY <4>1 DEF FactHolds
    <3>3. QED
      BY <2>2, <3>1, <3>2 DEF Membership
  <2>3. CASE AdvanceTime \/ UNCHANGED vars
    BY <2>1, <2>3 DEF AdvanceTime, vars, contractVars, MembershipSound, FactHolds,
       IsStored, Proves
  <2>4. QED
    BY <2>1, <2>2, <2>3, OtherReceipts DEF Step
<1>3. QED
  BY <1>1, <1>2, StepSpecInvariance, PTL DEF StepSpec

\* A fact membership returned for is a fact of the counterparty's store under
\* the consensus state of that height, for both kinds of proof.
THEOREM MembershipCorrect == Spec => []MembershipSound
BY SpecSteps, StepMembershipCorrect, PTL

\* What updateClient takes for a no-op is stored, what it stores stays.
LEMMA StepUpdateCorrect == StepSpec => []AcceptedUpdateIsStored
<1>1. Init => AcceptedUpdateIsStored
  BY DEF Init, ConstructorReceipt, AcceptedUpdateIsStored
<1>2. AcceptedUpdateIsStored /\ IInv /\ [Step]_vars => AcceptedUpdateIsStored'
  <2>1. SUFFICES ASSUME AcceptedUpdateIsStored, IInv, [Step]_vars,
                        receipt'.fn = "updateClient", receipt'.error = NoError
                 PROVE  AcceptedUpdateIsStored'
    BY DEF AcceptedUpdateIsStored
  <2>2. ASSUME NEW m \in MsgUpdateClient, UpdateClient(m)
        PROVE  AcceptedUpdateIsStored'
    <3> DEFINE o == m.sp1Proof.publicValues
               new == o.newHeight.revisionHeight
    <3>1. o \in UpdateClientOutput
      BY ContractAssumption DEF MsgUpdateClient, SP1ProofOf
    <3>2. UpdateClientError(m) = NoError
      BY <2>1, <2>2, RevertedKeeps DEF UpdateClient
    <3>3. receipt'.msg = m
      BY <2>2, <3>2 DEF UpdateClient, Returned
    <3>4. CASE CheckUpdateResult(o) = "Update"
      <4>1. StoreConsensusState(o.newHeight, o.newConsensusState)
        BY <2>2, <3>2, <3>4 DEF UpdateClient
      <4>2. consensusStateHashes'[new] = o.newConsensusState
        BY <2>1, <3>1, <3>4, <4>1, AddedState DEF IInv
      <4>3. QED
        BY <3>3, <4>2 DEF AcceptedUpdateIsStored
    <3>5. CASE CheckUpdateResult(o) = "Misbehaviour"
      <4>1. clientState' = [clientState EXCEPT !.isFrozen = TRUE]
        BY <2>2, <3>2, <3>5 DEF UpdateClient, Freeze
      <4>2. clientState'.isFrozen
        BY <2>1, <4>1 DEF IInv, TypeOK, ClientState
      <4>3. QED
        BY <4>2 DEF AcceptedUpdateIsStored
    <3>6. CASE CheckUpdateResult(o) = "NoOp"
      <4>1. KeepClient
        BY <2>2, <3>2, <3>6 DEF UpdateClient
      <4>2. consensusStateHashes[new] = o.newConsensusState
        BY <3>6 DEF CheckUpdateResult
      <4>3. consensusStateHashes'[new] = o.newConsensusState
        BY <4>1, <4>2 DEF KeepClient
      <4>4. QED
        BY <3>3, <4>3 DEF AcceptedUpdateIsStored
    <3>7. QED
      BY <3>4, <3>5, <3>6, UpdateResultCases DEF UpdateResults
  <2>3. CASE AdvanceTime \/ UNCHANGED vars
    BY <2>1, <2>3 DEF AdvanceTime, vars, contractVars, AcceptedUpdateIsStored
  <2>4. QED
    BY <2>1, <2>2, <2>3, OtherReceipts DEF Step
<1>3. QED
  BY <1>1, <1>2, StepSpecInvariance, PTL DEF StepSpec

\* What updateClient returned for is stored, or the client is frozen.
THEOREM UpdateCorrect == Spec => []AcceptedUpdateIsStored
BY SpecSteps, StepUpdateCorrect, PTL

\* The last call membership returned for.
MembershipDecoded ==
    receipt.fn = "membership" /\ receipt.error = NoError =>
        receipt.msg \in MsgMembership

\* Membership only returns for messages that decode.
LEMMA StepDecoded == StepSpec => []MembershipDecoded
<1>1. Init => MembershipDecoded
  BY DEF Init, ConstructorReceipt, MembershipDecoded
<1>2. MembershipDecoded /\ [Step]_vars => MembershipDecoded'
  <2>1. SUFFICES ASSUME MembershipDecoded, [Step]_vars,
                        receipt'.fn = "membership", receipt'.error = NoError
                 PROVE  receipt'.msg \in MsgMembership
    BY DEF MembershipDecoded
  <2>2. ASSUME NEW m \in MsgMembership, Membership(m)
        PROVE  receipt'.msg = m
    <3>1. \A error : error # NoError => ~Reverted("membership", error)
      BY <2>1, RevertedKeeps
    <3>2. CASE HandleSP1MembershipProof(m)
      BY <3>1, <3>2 DEF HandleSP1MembershipProof, Returned
    <3>3. CASE HandleSP1UpdateClientAndMembership(m)
      BY <3>1, <3>3 DEF HandleSP1UpdateClientAndMembership, Returned
    <3>4. QED
      BY <2>2, <3>2, <3>3 DEF Membership
  <2>3. CASE AdvanceTime \/ UNCHANGED vars
    BY <2>1, <2>3 DEF AdvanceTime, vars, MembershipDecoded
  <2>4. QED
    BY <2>1, <2>2, <2>3, OtherReceipts DEF Step
<1>3. QED
  BY <1>1, <1>2, PTL DEF StepSpec
=============================================================================
