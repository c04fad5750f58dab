------------------------------ MODULE ICS07Msgs ------------------------------
(***************************************************************************)
(* The data the contract, the SP1 programs and the operator exchange: the  *)
(* structs of contracts/src/msgs/*.sol.  A struct is a record, an enum a   *)
(* set of strings.                                                         *)
(*                                                                         *)
(* Hashes.  keccak256 and SHA-256 are used only to compare, so a hash is   *)
(* the hashed value itself (they are taken to be injective): a validator   *)
(* set stands for its hash, a consensus state for the bytes32 the contract *)
(* stores, and NoHash is bytes32(0), the content of an unset slot.         *)
(***************************************************************************)
EXTENDS Integers, Sequences, FiniteSets

CONSTANTS
    ChainIds,           \* chain identifiers
    Validators,         \* validators, each of voting power one
    Roots,              \* app hashes (commitment roots)
    Paths,              \* paths of the counterparty's key-value store
    Values,             \* byte strings found in the store, EmptyValue too
    EmptyValue,         \* the empty byte string: it asks for non-membership
    NoHash,             \* bytes32(0)
    MAX_UINT32,         \* bound of the uint32 heights and durations
    MAX_UINT64,         \* bound of the uint64 clock
    UINT8_MAX,          \* bound of the uint8 counters (255 in the code)
    UPDATE_CLIENT_PROGRAM_VKEY,
    MEMBERSHIP_PROGRAM_VKEY,
    UPDATE_CLIENT_AND_MEMBERSHIP_PROGRAM_VKEY,
    MISBEHAVIOUR_PROGRAM_VKEY

UINT32 == 0..MAX_UINT32

UINT64 == 0..MAX_UINT64

Height == [revisionNumber: UINT32, revisionHeight: UINT32]

TrustThreshold == [numerator: Nat, denominator: Nat]

ClientState ==
    [chainId: ChainIds, trustLevel: TrustThreshold, latestHeight: Height,
     trustingPeriod: UINT32, unbondingPeriod: UINT32, isFrozen: BOOLEAN]

\* timestamp is in whole seconds; nextValidatorsHash stands for the set hashed.
ConsensusState ==
    [timestamp: Nat, root: Roots, nextValidatorsHash: SUBSET Validators]

Env ==
    [chainId: ChainIds, trustThreshold: TrustThreshold,
     trustingPeriod: UINT32, now: UINT64]

UpdateClientOutput ==
    [trustedConsensusState: ConsensusState, newConsensusState: ConsensusState,
     env: Env, trustedHeight: Height, newHeight: Height]

KVPair == [path: Paths, value: Values]

MembershipOutput == [commitmentRoot: Roots, kvPairs: Seq(KVPair)]

UcAndMembershipOutput ==
    [updateClientOutput: UpdateClientOutput, kvPairs: Seq(KVPair)]

MisbehaviourOutput ==
    [env: Env, trustedHeight1: Height, trustedHeight2: Height,
     trustedConsensusState1: ConsensusState,
     trustedConsensusState2: ConsensusState]

VKeys ==
    {UPDATE_CLIENT_PROGRAM_VKEY, MEMBERSHIP_PROGRAM_VKEY,
     UPDATE_CLIENT_AND_MEMBERSHIP_PROGRAM_VKEY, MISBEHAVIOUR_PROGRAM_VKEY}

\* The proof bytes either come from a run of the prover or do not.
ProofBytes == {"proved", "forged"}

SP1ProofOf(publicValues) ==
    [vKey: VKeys, publicValues: publicValues, proof: ProofBytes]

MsgUpdateClient == [sp1Proof: SP1ProofOf(UpdateClientOutput)]

MsgSubmitMisbehaviour == [sp1Proof: SP1ProofOf(MisbehaviourOutput)]

SP1MembershipProof ==
    [proofType: {"SP1MembershipProof"},
     sp1Proof: SP1ProofOf(MembershipOutput),
     trustedConsensusState: ConsensusState]

SP1MembershipAndUpdateClientProof ==
    [proofType: {"SP1MembershipAndUpdateClientProof"},
     sp1Proof: SP1ProofOf(UcAndMembershipOutput)]

\* MembershipProof decoded: the tag and the fields of the proof it announces.
MembershipProof == SP1MembershipProof \cup SP1MembershipAndUpdateClientProof

MsgMembership ==
    [proofHeight: Height, path: Paths, value: Values, proof: MembershipProof]

SP1Proof ==
    SP1ProofOf(UpdateClientOutput) \cup SP1ProofOf(MembershipOutput)
        \cup SP1ProofOf(UcAndMembershipOutput)
        \cup SP1ProofOf(MisbehaviourOutput)

\* The four programs have different keys, and an unset slot is told apart from
\* the hash of every consensus state.
ASSUME MsgsAssumption ==
    /\ MAX_UINT32 \in Nat
    /\ MAX_UINT64 \in Nat
    /\ UINT8_MAX \in Nat \ {0}
    /\ EmptyValue \in Values
    /\ NoHash \notin ConsensusState
    /\ UPDATE_CLIENT_PROGRAM_VKEY \notin
           {MEMBERSHIP_PROGRAM_VKEY, MISBEHAVIOUR_PROGRAM_VKEY,
            UPDATE_CLIENT_AND_MEMBERSHIP_PROGRAM_VKEY}
    /\ UPDATE_CLIENT_AND_MEMBERSHIP_PROGRAM_VKEY \notin
           {MEMBERSHIP_PROGRAM_VKEY, MISBEHAVIOUR_PROGRAM_VKEY}
    /\ MEMBERSHIP_PROGRAM_VKEY # MISBEHAVIOUR_PROGRAM_VKEY
=============================================================================
