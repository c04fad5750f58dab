-------------------------- MODULE TendermintVerifier --------------------------
(***************************************************************************)
(* The counterparty chain as a light client sees it, and the checks of     *)
(* ibc-rs and tendermint-light-client-verifier that the SP1 programs call. *)
(* Those libraries are outside the repository: what they check is          *)
(* modelled from the way programs/ and the contract use them.              *)
(*                                                                         *)
(* A block is a signed header.  Header times have a finer grain than the   *)
(* consensus states: a second has TicksPerSecond ticks.                    *)
(***************************************************************************)
EXTENDS ICS07Msgs

CONSTANTS
    Blocks,             \* every signed header anybody can produce
    RevisionNumber,     \* the revision number a chain identifier carries
    TicksPerSecond,     \* header clock ticks in one second (1e9 in the code)
    Store               \* app hash -> the key-value map it commits to

Block ==
    [chainId: ChainIds, height: Nat, time: Nat, appHash: Roots,
     validators: SUBSET Validators, nextValidators: SUBSET Validators,
     signers: SUBSET Validators]

ASSUME ChainAssumption ==
    /\ Blocks \subseteq Block
    /\ RevisionNumber \in [ChainIds -> UINT32]
    /\ TicksPerSecond \in Nat \ {0}
    /\ DOMAIN Store = Roots

\* Two signed headers carry the same block iff they differ in signers only.
BlockId(b) == [b EXCEPT !.signers = {}]

HeightOf(b) ==
    [revisionNumber |-> RevisionNumber[b.chainId], revisionHeight |-> b.height]

\* unix_timestamp() drops the fraction of a second.
Seconds(time) == time \div TicksPerSecond

ConsensusStateOf(b) ==
    [timestamp |-> Seconds(b.time), root |-> b.appHash,
     nextValidatorsHash |-> b.nextValidators]

\* The verification clock: env.now in the ticks of the header clock.  The product
\* is a u64 of a release build, so it wraps.
HostTimestamp(env) == (env.now * TicksPerSecond) % (MAX_UINT64 + 1)

-----------------------------------------------------------------------------
\* More than the fraction num/den of the power of vals signed b.
SignedBy(b, vals, num, den) ==
    Cardinality(b.signers \cap vals) * den > Cardinality(vals) * num

\* verify_commit: +2/3 of the header's own validators signed it.
VerifyCommit(b) ==
    /\ b.signers \subseteq b.validators
    /\ SignedBy(b, b.validators, 2, 3)

WithinTrustPeriod(trusted, env) ==
    (trusted.timestamp + env.trustingPeriod) * TicksPerSecond
        > HostTimestamp(env)

\* An adjacent header must come from the validators the trusted one announced,
\* a later one must be signed by a trust-threshold part of them.
EndorsedBy(trusted, trustedHeight, b, threshold) ==
    \/ /\ b.height = trustedHeight + 1
       /\ b.validators = trusted.nextValidatorsHash
    \/ /\ b.height > trustedHeight + 1
       /\ SignedBy(b, trusted.nextValidatorsHash,
                   threshold.numerator, threshold.denominator)

\* validate_against_trusted, verify_commit_against_trusted, verify_commit.
VerifyAgainstTrusted(trusted, trustedHeight, b, env) ==
    /\ b.chainId = env.chainId
    /\ WithinTrustPeriod(trusted, env)
    /\ b.time > trusted.timestamp * TicksPerSecond
    /\ EndorsedBy(trusted, trustedHeight.revisionHeight, b, env.trustThreshold)
    /\ VerifyCommit(b)

\* Header::validate_basic: same revision, and the trusted height is lower.
ValidateBasic(trustedHeight, b) ==
    /\ trustedHeight.revisionNumber = RevisionNumber[b.chainId]
    /\ trustedHeight.revisionHeight < b.height

\* verify_header: clock_drift is zero, so the header must be older than now.
VerifyHeader(trusted, trustedHeight, b, env) ==
    /\ ValidateBasic(trustedHeight, b)
    /\ VerifyAgainstTrusted(trusted, trustedHeight, b, env)
    /\ b.time < HostTimestamp(env)

\* verify_misbehaviour_header: no bound on the header's own time, but the
\* trusted state may be neither in the future nor expired.
VerifyMisbehaviourHeader(trusted, trustedHeight, b, env) ==
    /\ ValidateBasic(trustedHeight, b)
    /\ trusted.timestamp * TicksPerSecond <= HostTimestamp(env)
    /\ VerifyAgainstTrusted(trusted, trustedHeight, b, env)

\* Two blocks no correct chain produces both of.
Conflicting(b1, b2) ==
    \/ b1.height = b2.height /\ BlockId(b1) # BlockId(b2)
    \/ b1.height > b2.height /\ b1.time <= b2.time

\* An ics23 (non-)existence proof of the pair against the root exists.
Proves(root, kv) ==
    IF kv.value = EmptyValue
    THEN kv.path \notin DOMAIN Store[root]
    ELSE kv.path \in DOMAIN Store[root] /\ Store[root][kv.path] = kv.value
=============================================================================
