----------------------------- MODULE OperatorMsgs -----------------------------
(***************************************************************************)
(* What the operator's commands compute: light blocks read from a node of  *)
(* the counterparty chain turned into genesis states, program inputs and   *)
(* contract messages (operator/src/rpc.rs, helpers/light_block.rs,         *)
(* prover.rs, runners/).  A command that asserts, or whose program panics, *)
(* produces nothing: ...Provable says when a ...Msg comes out.             *)
(***************************************************************************)
EXTENDS SP1Programs

CONSTANTS
    Chain,      \* height -> block: the chain the node follows
    StateAt,    \* height -> the key-value store after the block of that height
    NoPeriod    \* --trusting-period is not given

Heights == 1..Len(Chain)

\* A node answers for one chain, whose app hash commits to the store after the
\* block before it; no path of the store holds an empty value, and the operator
\* reads no block whose height is not a uint32.
ASSUME NodeAssumption ==
    /\ Chain \in Seq(Blocks)
    /\ Heights \subseteq UINT32
    /\ DOMAIN StateAt = 0..Len(Chain)
    /\ \A h \in Heights :
           /\ Chain[h].height = h
           /\ Chain[h].chainId = Chain[1].chainId
           /\ Store[Chain[h].appHash] = StateAt[h - 1]
           /\ \A path \in DOMAIN StateAt[h - 1] :
                  StateAt[h - 1][path] \in Values \ {EmptyValue}
    /\ NoPeriod \notin UINT32

-----------------------------------------------------------------------------
(* The genesis command.                                                    *)

ToSolClientState(b, trustLevel, unbondingPeriod, trustingPeriod) ==
    [chainId |-> b.chainId, trustLevel |-> trustLevel,
     latestHeight |-> HeightOf(b), trustingPeriod |-> trustingPeriod,
     unbondingPeriod |-> unbondingPeriod, isFrozen |-> FALSE]

TrustingPeriodOf(trustingPeriod, unbondingPeriod) ==
    IF trustingPeriod = NoPeriod
    THEN 2 * (unbondingPeriod \div 3)
    ELSE trustingPeriod

\* Mutant: any trusting period is taken.
GenesisAllowedAlways(trustingPeriod, unbondingPeriod) == TRUE

GenesisAllowed(trustingPeriod, unbondingPeriod) ==
    TrustingPeriodOf(trustingPeriod, unbondingPeriod) <= unbondingPeriod

GenesisOf(b, trustingPeriod, trustLevel, unbondingPeriod) ==
    [clientState |->
         ToSolClientState(b, trustLevel, unbondingPeriod,
                          TrustingPeriodOf(trustingPeriod, unbondingPeriod)),
     consensusState |-> ConsensusStateOf(b)]

-----------------------------------------------------------------------------
(* Proofs and the messages that carry them.                                *)

SP1ProofFrom(vKey, publicValues) ==
    [vKey |-> vKey, publicValues |-> publicValues, proof |-> "proved"]

\* The chain identifier comes from the block, the rest from the client state.
EnvOf(b, client, now) ==
    [chainId |-> b.chainId, trustThreshold |-> client.trustLevel,
     trustingPeriod |-> client.trustingPeriod, now |-> now]

\* The header that into_header makes of target goes through the program.
UpdateProvable(trusted, target, env) ==
    /\ ValidThreshold(env.trustThreshold)
    /\ VerifyHeader(ConsensusStateOf(trusted), HeightOf(trusted), target, env)

UpdateOutput(trusted, target, env) ==
    [trustedConsensusState |-> ConsensusStateOf(trusted),
     newConsensusState |-> ConsensusStateOf(target), env |-> env,
     trustedHeight |-> HeightOf(trusted), newHeight |-> HeightOf(target)]

UpdateClientMsg(trusted, target, env) ==
    [sp1Proof |-> SP1ProofFrom(UPDATE_CLIENT_PROGRAM_VKEY,
                               UpdateOutput(trusted, target, env))]

\* abci_query at a height: the value, empty when the path is not in the store.
Query(path, height) ==
    [path |-> path,
     value |-> IF path \in DOMAIN StateAt[height] THEN StateAt[height][path]
                                                  ELSE EmptyValue]

\* Mutant: the store is queried at the height of the header itself.
KVPairsAtOwnHeight(paths, height) ==
    [i \in DOMAIN paths |-> Query(paths[i], height)]

\* The store is queried at the block before the proof height, which is the one
\* the app hash at the proof height commits to.
KVPairsAt(paths, height) == [i \in DOMAIN paths |-> Query(paths[i], height - 1)]

\* The program reads the number of pairs from one byte.  A query at height 0 is
\* answered at the latest height, which the assertion on the answer refuses.
KVPairsProvable(paths, b) ==
    /\ Len(paths) \in 1..UINT8_MAX
    /\ b.height > 1
    /\ CommitsKVPairs(b.appHash, KVPairsAt(paths, b.height))

MembershipProofMsg(trusted, paths) ==
    [proofType |-> "SP1MembershipProof",
     sp1Proof |-> SP1ProofFrom(MEMBERSHIP_PROGRAM_VKEY,
         [commitmentRoot |-> trusted.appHash,
          kvPairs |-> KVPairsAt(paths, trusted.height)]),
     trustedConsensusState |-> ConsensusStateOf(trusted)]

UcAndMembershipProvable(trusted, target, env, paths) ==
    /\ trusted.height < target.height
    /\ UpdateProvable(trusted, target, env)
    /\ KVPairsProvable(paths, target)

UcAndMembershipProofMsg(trusted, target, env, paths) ==
    [proofType |-> "SP1MembershipAndUpdateClientProof",
     sp1Proof |-> SP1ProofFrom(UPDATE_CLIENT_AND_MEMBERSHIP_PROGRAM_VKEY,
         [updateClientOutput |-> UpdateOutput(trusted, target, env),
          kvPairs |-> KVPairsAt(paths, target.height)])]

\* --misbehaviour-path: two signed headers, each with the height of the state it
\* is to be verified against, a u64.
MisbehaviourEvidence ==
    [header1: Blocks, header2: Blocks, trustedHeight1: Nat, trustedHeight2: Nat]

\* The node is asked for that height `as u32`.
NodeHeight(height) == height % (MAX_UINT32 + 1)

EvidenceBlock(height) == Chain[NodeHeight(height)]

EvidenceVerifies(evidence, env) ==
    LET Verifies(height, b) ==
            VerifyMisbehaviourHeader(
                ConsensusStateOf(EvidenceBlock(height)),
                [revisionNumber |-> RevisionNumber[b.chainId],
                 revisionHeight |-> height], b, env)
    IN  /\ ValidThreshold(env.trustThreshold)
        /\ evidence.header1.height >= evidence.header2.height
        /\ Verifies(evidence.trustedHeight1, evidence.header1)
        /\ Verifies(evidence.trustedHeight2, evidence.header2)
        /\ Conflicting(evidence.header1, evidence.header2)

\* Mutant: the program cuts the heights to 32 bits as well.
EvidenceProvableCut(evidence, env) == EvidenceVerifies(evidence, env)

\* The output holds the heights of the evidence itself, and the program unwraps
\* the conversion to uint32.
EvidenceProvable(evidence, env) ==
    /\ EvidenceVerifies(evidence, env)
    /\ {evidence.trustedHeight1, evidence.trustedHeight2} \subseteq UINT32

SubmitMisbehaviourMsg(evidence, env) ==
    [sp1Proof |-> SP1ProofFrom(MISBEHAVIOUR_PROGRAM_VKEY,
        [env |-> env,
         trustedHeight1 |-> HeightOf(EvidenceBlock(evidence.trustedHeight1)),
         trustedHeight2 |-> HeightOf(EvidenceBlock(evidence.trustedHeight2)),
         trustedConsensusState1 |->
             ConsensusStateOf(EvidenceBlock(evidence.trustedHeight1)),
         trustedConsensusState2 |->
             ConsensusStateOf(EvidenceBlock(evidence.trustedHeight2))])]
=============================================================================
