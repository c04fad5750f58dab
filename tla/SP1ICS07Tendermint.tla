-------------------------- MODULE SP1ICS07Tendermint --------------------------
(***************************************************************************)
(* The light client contract, contracts/src/SP1ICS07Tendermint.sol.        *)
(*                                                                         *)
(* One action is one transaction to one entry point.  A transaction is     *)
(* atomic and a revert undoes all it wrote, so a reverted transaction      *)
(* changes nothing but the receipt its sender sees.  Transactions of any   *)
(* senders interleave in any order, and a message may be submitted again   *)
(* at any time; block.timestamp advances in between by any amount.         *)
(*                                                                         *)
(* Checks are written in the order of the code, first failure first:       *)
(*    Require(condition, error) ?? Require(...) ?? ...                     *)
(* is the error the function reverts with, or NoError.                     *)
(***************************************************************************)
EXTENDS SP1Programs

CONSTANTS
    ALLOWED_SP1_CLOCK_DRIFT,    \* seconds
    GenesisClientState,         \* the constructor's _clientState
    GenesisConsensusState,      \* whose hash is the constructor's last argument
    DeploymentTimestamp,        \* block.timestamp of the deployment
    MaxTimestamp,               \* bound: block.timestamp does not pass it
    UpdateMsgs,                 \* the messages relayers submit
    MembershipMsgs,
    MisbehaviourMsgs

ASSUME ContractAssumption ==
    /\ ALLOWED_SP1_CLOCK_DRIFT \in Nat
    /\ GenesisClientState \in ClientState
    /\ GenesisConsensusState \in ConsensusState
    /\ MaxTimestamp \in Nat
    /\ DeploymentTimestamp \in 0..MaxTimestamp
    /\ UpdateMsgs \subseteq MsgUpdateClient
    /\ MembershipMsgs \subseteq MsgMembership
    /\ MisbehaviourMsgs \subseteq MsgSubmitMisbehaviour

\* Until the year 2554 block.timestamp in the ticks of the header clock is a u64.
ASSUME ClockAssumption == MaxTimestamp * TicksPerSecond <= MAX_UINT64

\* The operator's genesis command takes both states from one light block of the
\* chain, and the client starts unfrozen.
ASSUME GenesisAssumption ==
    /\ ~GenesisClientState.isFrozen
    /\ \E b \in Blocks :
           /\ b.chainId = GenesisClientState.chainId
           /\ GenesisClientState.latestHeight = HeightOf(b)
           /\ GenesisConsensusState = ConsensusStateOf(b)
           /\ VerifyCommit(b)

VARIABLES
    clientState,
    consensusStateHashes,   \* mapping(uint32 => bytes32), NoHash where unset
    verifiedProofs,         \* the keys of the mapping that are true
    blockTimestamp,         \* block.timestamp
    receipt                 \* what the last transaction returned or reverted with

contractVars == <<clientState, consensusStateHashes, verifiedProofs>>
vars == <<clientState, consensusStateHashes, verifiedProofs,
          blockTimestamp, receipt>>

-----------------------------------------------------------------------------
NoError == "none"

Errors ==
    {"VerificationKeyMismatch", "FrozenClientState", "ProofIsInTheFuture",
     "ProofIsTooOld", "ChainIdMismatch", "TrustThresholdMismatch",
     "TrustingPeriodMismatch", "TrustingPeriodTooLong",
     "ConsensusStateHashMismatch", "ConsensusStateNotFound",
     "LengthIsOutOfRange", "MembershipProofValueMismatch",
     "MembershipProofKeyNotFound", "ConsensusStateRootMismatch",
     "CannotHandleMisbehavior", "ProofHeightMismatch", "FeatureNotSupported",
     "ArithmeticPanic", "InvalidProof"}

Require(condition, error) == IF condition THEN NoError ELSE error

first ?? second == IF first = NoError THEN second ELSE first

\* The result of a function that returns none.
NoResult == "none"

UpdateResults == {"Update", "Misbehaviour", "NoOp"}

\* A transaction that reverts leaves no trace but its error.
Reverted(fn, error) ==
    /\ receipt' = [fn |-> fn, error |-> error, msg |-> <<>>,
                   result |-> NoResult, timestamp |-> 0]
    /\ UNCHANGED <<contractVars, blockTimestamp>>

Returned(fn, msg, result, timestamp) ==
    /\ receipt' = [fn |-> fn, error |-> NoError, msg |-> msg,
                   result |-> result, timestamp |-> timestamp]
    /\ UNCHANGED blockTimestamp

-----------------------------------------------------------------------------
(* Views and private checks.                                               *)

IsStored(height) == consensusStateHashes[height] # NoHash

\* Mutant: no bound on the age of the proof.
ValidateEnvWithoutAge(env) ==
       Require(env.now <= blockTimestamp, "ProofIsInTheFuture")
    ?? Require(env.chainId = clientState.chainId, "ChainIdMismatch")
    ?? Require(env.trustThreshold = clientState.trustLevel,
               "TrustThresholdMismatch")
    ?? Require(env.trustingPeriod = clientState.trustingPeriod,
               "TrustingPeriodMismatch")
    ?? Require(env.trustingPeriod <= clientState.unbondingPeriod,
               "TrustingPeriodTooLong")

\* Mutant: only proofs that are too old are refused.
ValidateEnvWithoutFuture(env) ==
       Require(blockTimestamp <= env.now + ALLOWED_SP1_CLOCK_DRIFT,
               "ProofIsTooOld")
    ?? Require(env.chainId = clientState.chainId, "ChainIdMismatch")
    ?? Require(env.trustThreshold = clientState.trustLevel,
               "TrustThresholdMismatch")
    ?? Require(env.trustingPeriod = clientState.trustingPeriod,
               "TrustingPeriodMismatch")
    ?? Require(env.trustingPeriod <= clientState.unbondingPeriod,
               "TrustingPeriodTooLong")

ValidateEnv(env) ==
       Require(env.now <= blockTimestamp, "ProofIsInTheFuture")
    ?? Require(blockTimestamp - env.now <= ALLOWED_SP1_CLOCK_DRIFT,
               "ProofIsTooOld")
    ?? Require(env.chainId = clientState.chainId, "ChainIdMismatch")
    ?? Require(env.trustThreshold = clientState.trustLevel,
               "TrustThresholdMismatch")
    ?? Require(env.trustingPeriod = clientState.trustingPeriod,
               "TrustingPeriodMismatch")
    ?? Require(env.trustingPeriod <= clientState.unbondingPeriod,
               "TrustingPeriodTooLong")

\* Mutant: the trusted state only has to exist.
ValidateTrustedExists(height, consensusState) ==
    Require(IsStored(height.revisionHeight), "ConsensusStateNotFound")

\* Mutant: only the latest state may be trusted.
ValidateTrustedLatestOnly(height, consensusState) ==
       Require(height = clientState.latestHeight, "ConsensusStateNotFound")
    ?? Require(consensusStateHashes[height.revisionHeight] = consensusState,
               "ConsensusStateHashMismatch")

\* getConsensusStateHash reverts on an unset slot; then the hashes must agree.
ValidateTrusted(height, consensusState) ==
       Require(IsStored(height.revisionHeight), "ConsensusStateNotFound")
    ?? Require(consensusStateHashes[height.revisionHeight] = consensusState,
               "ConsensusStateHashMismatch")

NotFrozen == Require(~clientState.isFrozen, "FrozenClientState")

ValidateUpdateClientPublicValues(o) ==
       NotFrozen
    ?? ValidateEnv(o.env)
    ?? ValidateTrusted(o.trustedHeight, o.trustedConsensusState)

\* Mutant: only the first of the two trusted states is looked up.
ValidateMisbehaviourOutputFirstState(o) ==
       NotFrozen
    ?? ValidateEnv(o.env)
    ?? ValidateTrusted(o.trustedHeight1, o.trustedConsensusState1)

ValidateMisbehaviourOutput(o) ==
       NotFrozen
    ?? ValidateEnv(o.env)
    ?? ValidateTrusted(o.trustedHeight1, o.trustedConsensusState1)
    ?? ValidateTrusted(o.trustedHeight2, o.trustedConsensusState2)

\* Mutant: membership does not look at isFrozen.
ValidateMembershipOutputFrozenToo(commitmentRoot, proofHeight, trusted, hashes) ==
       Require(commitmentRoot = trusted.root, "ConsensusStateRootMismatch")
    ?? Require(hashes[proofHeight] = trusted, "ConsensusStateHashMismatch")

\* Mutant: the root of the proof is not compared with that of the trusted state.
ValidateMembershipOutputAnyRoot(commitmentRoot, proofHeight, trusted, hashes) ==
       NotFrozen
    ?? Require(hashes[proofHeight] = trusted, "ConsensusStateHashMismatch")

\* hashes: the mapping as it is when the function is called.
ValidateMembershipOutput(commitmentRoot, proofHeight, trusted, hashes) ==
       NotFrozen
    ?? Require(commitmentRoot = trusted.root, "ConsensusStateRootMismatch")
    ?? Require(hashes[proofHeight] = trusted, "ConsensusStateHashMismatch")

\* Mutant: any second header for a height is misbehaviour.
CheckUpdateResultAnySecond(o) ==
    IF IsStored(o.newHeight.revisionHeight) THEN "Misbehaviour" ELSE "Update"

\* Mutant: a known height is never looked at again.
CheckUpdateResultKnownIsNoOp(o) ==
    IF IsStored(o.newHeight.revisionHeight) THEN "NoOp" ELSE "Update"

\* Mutant: only an equal state is told apart.
CheckUpdateResultOverwrites(o) ==
    IF consensusStateHashes[o.newHeight.revisionHeight] = o.newConsensusState
    THEN "NoOp"
    ELSE "Update"

CheckUpdateResult(o) ==
    IF ~IsStored(o.newHeight.revisionHeight) THEN "Update"
    ELSE IF \/ consensusStateHashes[o.newHeight.revisionHeight]
                   # o.newConsensusState
            \/ o.trustedConsensusState.timestamp
                   >= o.newConsensusState.timestamp
         THEN "Misbehaviour"
         ELSE "NoOp"

\* 1 <= length <= 256.
ValidateLength(kvPairs) ==
    Require(Len(kvPairs) \in 1..(UINT8_MAX + 1), "LengthIsOutOfRange")

\* Mutant: the value of the pair is not compared.
ValidateKVPairIgnoresValue(kvPairs, path, value) ==
    Require(\E i \in 1..Len(kvPairs) : kvPairs[i].path = path,
            "MembershipProofKeyNotFound")

\* The loop over the pairs: the first pair with the path decides.  The counter
\* is a uint8 with checked arithmetic, so the increment after pair UINT8_MAX
\* panics when no pair up to that one has the path.
ValidateKVPair(kvPairs, path, value) ==
    LET matches == {i \in 1..Len(kvPairs) : kvPairs[i].path = path}
        IsFirst(i) == \A j \in matches : i <= j
    IN  IF matches = {}
        THEN IF Len(kvPairs) > UINT8_MAX
             THEN "ArithmeticPanic"
             ELSE "MembershipProofKeyNotFound"
        ELSE Require(\E i \in matches : IsFirst(i) /\ kvPairs[i].value = value,
                     "MembershipProofValueMismatch")

VerifySP1Proof(p) == Require(VerifyProof(p), "InvalidProof")

\* Mutant: the cache is keyed by the public values, not by the whole proof.
VerifySP1ProofCachedByValues(p) ==
    IF \E cached \in verifiedProofs : cached.publicValues = p.publicValues
    THEN NoError
    ELSE VerifySP1Proof(p)

VerifySP1ProofCached(p) ==
    IF p \in verifiedProofs THEN NoError ELSE VerifySP1Proof(p)

\* Proofs of a single pair are not worth caching.
VerifyKVProof(p, kvPairs) ==
    IF Len(kvPairs) = 1 THEN VerifySP1Proof(p) ELSE VerifySP1ProofCached(p)

\* Mutant: the public values are cached instead of the proof.
CacheKVProofValues(p, kvPairs) ==
    verifiedProofs' = IF Len(kvPairs) = 1 THEN verifiedProofs
                                          ELSE verifiedProofs \cup {p.publicValues}

CacheKVProof(p, kvPairs) ==
    verifiedProofs' = IF Len(kvPairs) = 1 THEN verifiedProofs
                                          ELSE verifiedProofs \cup {p}

-----------------------------------------------------------------------------
(* State changes.                                                          *)

HashesWith(height, consensusState) ==
    [consensusStateHashes EXCEPT ![height.revisionHeight] = consensusState]

\* Mutant: the last update is taken for the latest.
LatestWithLast(height) == height

\* Out-of-order updates fill gaps below the latest height.
LatestWith(height) ==
    IF height.revisionHeight > clientState.latestHeight.revisionHeight
    THEN height
    ELSE clientState.latestHeight

StoreConsensusState(height, consensusState) ==
    /\ clientState' = [clientState EXCEPT !.latestHeight = LatestWith(height)]
    /\ consensusStateHashes' = HashesWith(height, consensusState)

Freeze ==
    /\ clientState' = [clientState EXCEPT !.isFrozen = TRUE]
    /\ UNCHANGED consensusStateHashes

KeepClient == UNCHANGED <<clientState, consensusStateHashes>>

-----------------------------------------------------------------------------
(* Entry points.                                                           *)

\* A NoOp returns before the proof is looked at.
UpdateClientError(m) ==
    LET o == m.sp1Proof.publicValues
    IN     Require(m.sp1Proof.vKey = UPDATE_CLIENT_PROGRAM_VKEY,
                   "VerificationKeyMismatch")
        ?? ValidateUpdateClientPublicValues(o)
        ?? IF CheckUpdateResult(o) = "NoOp" THEN NoError
                                            ELSE VerifySP1Proof(m.sp1Proof)

UpdateClient(m) ==
    LET o == m.sp1Proof.publicValues
        result == CheckUpdateResult(o)
        error == UpdateClientError(m)
    IN  \/ /\ error # NoError
           /\ Reverted("updateClient", error)
        \/ /\ error = NoError
           /\ Returned("updateClient", m, result, 0)
           /\ UNCHANGED verifiedProofs
           /\ \/ /\ result = "Update"
                 /\ StoreConsensusState(o.newHeight, o.newConsensusState)
              \/ result = "Misbehaviour" /\ Freeze
              \/ result = "NoOp" /\ KeepClient

HandleSP1MembershipProofError(m) ==
    LET p == m.proof.sp1Proof
        o == p.publicValues
    IN     Require(m.proofHeight.revisionNumber
                       = clientState.latestHeight.revisionNumber,
                   "ProofHeightMismatch")
        ?? Require(p.vKey = MEMBERSHIP_PROGRAM_VKEY, "VerificationKeyMismatch")
        ?? ValidateLength(o.kvPairs)
        ?? ValidateKVPair(o.kvPairs, m.path, m.value)
        ?? ValidateMembershipOutput(o.commitmentRoot,
                                    m.proofHeight.revisionHeight,
                                    m.proof.trustedConsensusState,
                                    consensusStateHashes)
        ?? VerifyKVProof(p, o.kvPairs)

HandleSP1MembershipProof(m) ==
    LET p == m.proof.sp1Proof
        error == HandleSP1MembershipProofError(m)
    IN  \/ /\ error # NoError
           /\ Reverted("membership", error)
        \/ /\ error = NoError
           /\ Returned("membership", m, NoResult,
                       m.proof.trustedConsensusState.timestamp)
           /\ CacheKVProof(p, p.publicValues.kvPairs)
           /\ KeepClient

\* Everything up to checkUpdateResult, the state still as it was found ...
UcAndMembershipError(m) ==
    LET p == m.proof.sp1Proof
        o == p.publicValues.updateClientOutput
        kvPairs == p.publicValues.kvPairs
    IN     Require(p.vKey = UPDATE_CLIENT_AND_MEMBERSHIP_PROGRAM_VKEY,
                   "VerificationKeyMismatch")
        ?? ValidateLength(kvPairs)
        ?? Require(m.proofHeight = o.newHeight, "ProofHeightMismatch")
        ?? ValidateUpdateClientPublicValues(o)
        ?? VerifyKVProof(p, kvPairs)

\* ... and everything after it, on the mapping the update left.  Misbehaviour
\* freezes and reverts, so the freeze is undone.
UcAndMembershipFinalError(m, hashes) ==
    LET p == m.proof.sp1Proof
        o == p.publicValues.updateClientOutput
    IN     Require(CheckUpdateResult(o) # "Misbehaviour",
                   "CannotHandleMisbehavior")
        ?? ValidateKVPair(p.publicValues.kvPairs, m.path, m.value)
        ?? ValidateMembershipOutput(o.newConsensusState.root,
                                    o.newHeight.revisionHeight,
                                    o.newConsensusState, hashes)

HandleSP1UpdateClientAndMembership(m) ==
    LET p == m.proof.sp1Proof
        o == p.publicValues.updateClientOutput
        result == CheckUpdateResult(o)
        hashes == IF result = "Update"
                  THEN HashesWith(m.proofHeight, o.newConsensusState)
                  ELSE consensusStateHashes
        error == UcAndMembershipError(m) ?? UcAndMembershipFinalError(m, hashes)
    IN  \/ /\ error # NoError
           /\ Reverted("membership", error)
        \/ /\ error = NoError
           /\ Returned("membership", m, NoResult, o.newConsensusState.timestamp)
           /\ CacheKVProof(p, p.publicValues.kvPairs)
           /\ \/ /\ result = "Update"
                 /\ StoreConsensusState(m.proofHeight, o.newConsensusState)
              \/ result = "NoOp" /\ KeepClient

Membership(m) ==
    \/ /\ m.proof.proofType = "SP1MembershipProof"
       /\ HandleSP1MembershipProof(m)
    \/ /\ m.proof.proofType = "SP1MembershipAndUpdateClientProof"
       /\ HandleSP1UpdateClientAndMembership(m)

MisbehaviourError(m) ==
       Require(m.sp1Proof.vKey = MISBEHAVIOUR_PROGRAM_VKEY,
               "VerificationKeyMismatch")
    ?? ValidateMisbehaviourOutput(m.sp1Proof.publicValues)
    ?? VerifySP1Proof(m.sp1Proof)

Misbehaviour(m) ==
    LET error == MisbehaviourError(m)
    IN  \/ /\ error # NoError
           /\ Reverted("misbehaviour", error)
        \/ /\ error = NoError
           /\ Returned("misbehaviour", m, NoResult, 0)
           /\ Freeze
           /\ UNCHANGED verifiedProofs

UpgradeClient == Reverted("upgradeClient", "FeatureNotSupported")

-----------------------------------------------------------------------------
\* The constructor checks nothing.
ConstructedHashes(client, consensusState) ==
    [h \in UINT32 |-> IF h = client.latestHeight.revisionHeight
                      THEN consensusState
                      ELSE NoHash]

ConstructorReceipt ==
    [fn |-> "constructor", error |-> NoError, msg |-> <<>>,
     result |-> NoResult, timestamp |-> 0]

Init ==
    /\ clientState = GenesisClientState
    /\ consensusStateHashes =
           ConstructedHashes(GenesisClientState, GenesisConsensusState)
    /\ verifiedProofs = {}
    /\ receipt = ConstructorReceipt
    /\ blockTimestamp = DeploymentTimestamp

AdvanceTime ==
    /\ \E t \in (blockTimestamp + 1)..MaxTimestamp : blockTimestamp' = t
    /\ UNCHANGED <<contractVars, receipt>>

Next ==
    \/ \E m \in UpdateMsgs : UpdateClient(m)
    \/ \E m \in MembershipMsgs : Membership(m)
    \/ \E m \in MisbehaviourMsgs : Misbehaviour(m)
    \/ UpgradeClient
    \/ AdvanceTime

Spec == Init /\ [][Next]_vars

-----------------------------------------------------------------------------
(* Correctness.                                                            *)

Receipt ==
    [fn: {"constructor", "updateClient", "membership", "misbehaviour",
          "upgradeClient"},
     error: Errors \cup {NoError},
     msg: MsgUpdateClient \cup MsgMembership \cup MsgSubmitMisbehaviour
              \cup {<<>>},
     result: UpdateResults \cup {NoResult},
     timestamp: Nat]

\* Every variable keeps the type of the contract's storage; a cached proof is a
\* whole SP1 proof, key and public values included.
TypeOK ==
    /\ clientState \in ClientState
    /\ consensusStateHashes \in [UINT32 -> ConsensusState \cup {NoHash}]
    /\ verifiedProofs \subseteq SP1Proof
    /\ blockTimestamp \in 0..MaxTimestamp
    /\ receipt \in Receipt

GenesisHeight == GenesisClientState.latestHeight.revisionHeight

\* Updates may arrive in any order of heights, by either entry point, and the
\* latest height is still the greatest height with a consensus state.
LatestHeightIsHighest ==
    /\ IsStored(clientState.latestHeight.revisionHeight)
    /\ \A h \in UINT32 :
           IsStored(h) => h <= clientState.latestHeight.revisionHeight

\* Every consensus state but the constructor's is that of a header that two
\* thirds of its validators committed and that the validators of a state now
\* stored at a lower height endorse: all trust goes back to the genesis state.
ChainOfTrust ==
    \A h \in UINT32 \ {GenesisHeight} :
        IsStored(h) =>
            \E t \in 0..(h - 1), b \in Blocks :
                /\ IsStored(t)
                /\ b.height = h
                /\ b.chainId = GenesisClientState.chainId
                /\ consensusStateHashes[h] = ConsensusStateOf(b)
                /\ b.time > consensusStateHashes[t].timestamp * TicksPerSecond
                /\ EndorsedBy(consensusStateHashes[t], t, b,
                              GenesisClientState.trustLevel)
                /\ VerifyCommit(b)

\* The mapping is keyed by revision height alone and no function of the contract
\* compares revision numbers on update, yet the client never leaves the
\* revision its chain identifier names.
SameRevision ==
    clientState.latestHeight.revisionNumber = RevisionNumber[clientState.chainId]

\* A frozen client means that validators signed two conflicting blocks.
FrozenOnlyByMisbehaviour ==
    clientState.isFrozen =>
        \E b1, b2 \in Blocks :
            /\ VerifyCommit(b1)
            /\ VerifyCommit(b2)
            /\ Conflicting(b1, b2)

\* A proof the cache lets pass is one the verifier would still accept.
CachedProofsWereVerified == \A p \in verifiedProofs : VerifyProof(p)

\* When membership returns, by either proof type and whether or not the proof
\* came from the cache, the pair asked for is in (or, with an empty value,
\* absent from) the store that the consensus state at the proof height commits
\* to, and the timestamp returned is that state's.
MembershipSound ==
    receipt.fn = "membership" /\ receipt.error = NoError =>
        LET h == receipt.msg.proofHeight.revisionHeight
        IN  /\ IsStored(h)
            /\ Proves(consensusStateHashes[h].root,
                      [path |-> receipt.msg.path, value |-> receipt.msg.value])
            /\ receipt.timestamp = consensusStateHashes[h].timestamp

\* When updateClient returns, even on the path that skips the proof, the state
\* in the message is the one stored at its height, or the client is frozen.
AcceptedUpdateIsStored ==
    receipt.fn = "updateClient" /\ receipt.error = NoError =>
        LET o == receipt.msg.sp1Proof.publicValues
        IN  \/ consensusStateHashes[o.newHeight.revisionHeight]
                   = o.newConsensusState
            \/ clientState.isFrozen

\* A consensus state is never replaced or removed: what a caller verified
\* against a height stays verified against it.
ConsensusStatesImmutable ==
    [][\A h \in UINT32 :
          IsStored(h) => consensusStateHashes'[h] = consensusStateHashes[h]]_vars

\* Freezing is final for every entry point: from then on each transaction
\* reverts, the proof cache included in what stays as it is.
FrozenIsFinal ==
    [][clientState.isFrozen =>
          /\ UNCHANGED contractVars
          /\ receipt' # receipt => receipt'.error # NoError]_vars

\* The age of the trusted state is checked off chain against env.now; the two
\* clocks together still bound it by the chain's: a state is only added while
\* one below it is within the trusting period plus the allowed drift.
AddedWhileTrusted ==
    [][\A h \in UINT32 :
          ~IsStored(h) /\ IsStored(h)' =>
              \E t \in 0..(h - 1) :
                  /\ IsStored(t)
                  /\ blockTimestamp < consensusStateHashes[t].timestamp
                         + clientState.trustingPeriod
                         + ALLOWED_SP1_CLOCK_DRIFT]_vars

-----------------------------------------------------------------------------
(* The contract is a light client: module LightClient.                     *)

CommittedHeaders ==
    {b \in Blocks : VerifyCommit(b) /\ b.chainId = GenesisClientState.chainId}

RevisionHeightOf(b) == b.height

VouchesFor(consensusState, height, b) ==
    /\ b.time > consensusState.timestamp * TicksPerSecond
    /\ EndorsedBy(consensusState, height, b, GenesisClientState.trustLevel)

\* The trusting period, and the drift between the two clocks.
CannotVouch(consensusState, timestamp) ==
    timestamp >= consensusState.timestamp + GenesisClientState.trustingPeriod
                     + ALLOWED_SP1_CLOCK_DRIFT

\* Conflicting, but for times that whole seconds do not tell apart.
ConflictingInSeconds(b1, b2) ==
    \/ b1.height = b2.height /\ BlockId(b1) # BlockId(b2)
    \/ b1.height > b2.height /\ Seconds(b1.time) <= Seconds(b2.time)

CommitsTo(consensusState, kv) == Proves(consensusState.root, kv)

Trusted ==
    [h \in {x \in UINT32 : IsStored(x)} |-> consensusStateHashes[h]]

NoAnswer == <<>>

\* What the last transaction told its sender about the counterparty's store.
Answer ==
    IF receipt.fn = "membership" /\ receipt.error = NoError
    THEN [height |-> receipt.msg.proofHeight.revisionHeight,
          fact |-> [path |-> receipt.msg.path, value |-> receipt.msg.value]]
    ELSE NoAnswer

GenesisHeader ==
    CHOOSE b \in CommittedHeaders :
        /\ GenesisClientState.latestHeight = HeightOf(b)
        /\ GenesisConsensusState = ConsensusStateOf(b)

LC == INSTANCE LightClient WITH
          Headers <- CommittedHeaders, HeightOf <- RevisionHeightOf,
          StateOf <- ConsensusStateOf, Vouches <- VouchesFor,
          Expired <- CannotVouch, Contradict <- ConflictingInSeconds,
          Facts <- KVPair, Holds <- CommitsTo,
          Genesis <- GenesisHeader, Start <- DeploymentTimestamp,
          NoAnswer <- NoAnswer, trusted <- Trusted,
          latest <- clientState.latestHeight.revisionHeight,
          frozen <- clientState.isFrozen, now <- blockTimestamp,
          answer <- Answer

\* Everything the contract does, by any entry point, in any order and from the
\* cache or not, is what a light client may do: it comes to trust a header that
\* a state it still trusts vouches for, stops when it was shown two headers that
\* contradict each other, answers from a trusted state, or refuses.
IsLightClient == LC!Spec

-----------------------------------------------------------------------------
(* What comments of the repository say and the code does not do.           *)

\* IICS07TendermintMsgs.sol: headers are valid for upgrade during the trusting
\* period since the latest timestamp.
AddedWithinTrustingPeriod ==
    [][\A h \in UINT32 :
          ~IsStored(h) /\ IsStored(h)' =>
              \E t \in 0..(h - 1) :
                  /\ IsStored(t)
                  /\ blockTimestamp < consensusStateHashes[t].timestamp
                         + clientState.trustingPeriod]_vars

\* checkUpdateResult: misbehaviour if the timestamp is not increasing.
UpdateTimestampIncreases ==
    receipt.result = "Update" =>
        LET o == receipt.msg.sp1Proof.publicValues
        IN  o.trustedConsensusState.timestamp < o.newConsensusState.timestamp

\* MembershipProofKeyNotFound is the error of a path that is not in the proof.
MissingPathIsReported == receipt.error # "ArithmeticPanic"
=============================================================================
