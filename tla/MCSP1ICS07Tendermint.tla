------------------------- MODULE MCSP1ICS07Tendermint -------------------------
(***************************************************************************)
(* Small instances of the contract: three chains to follow, and the        *)
(* messages relayers build from their blocks.                              *)
(***************************************************************************)
EXTENDS SP1ICS07Tendermint

CONSTANTS v1, v2, v3, v4,       \* validators
          r1, r2, r3, rFork,    \* app hashes
          path1, path2,                 \* paths
          a, b, empty           \* values

MCChainIds == {"chain-1", "chain-2"}
MCRevisionNumber == [c \in MCChainIds |-> IF c = "chain-1" THEN 1 ELSE 2]
MCValidators == {v1, v2, v3, v4}
MCRoots == {r1, r2, r3, rFork}
MCPaths == {path1, path2}
MCValues == {a, b, empty}

\* The store changes at every height; the fork disagrees about path1.
MCStore ==
    [r \in MCRoots |->
        CASE r = r1 -> [x \in {} |-> a]
          [] r = r2 -> [x \in {path1} |-> a]
          [] r = r3 -> [x \in {path1, path2} |-> IF x = path1 THEN a ELSE b]
          [] r = rFork -> [x \in {path1} |-> b]]

\* time is in seconds.
BlockAt(height, time, appHash, validators, nextValidators) ==
    [chainId |-> "chain-1", height |-> height, time |-> time * TicksPerSecond,
     appHash |-> appHash, validators |-> validators,
     nextValidators |-> nextValidators, signers |-> validators]

Old == {v1, v2, v3}
New == {v2, v3, v4}

Genesis == BlockAt(1, 1, r1, Old, Old)
Block2 == BlockAt(2, 2, r2, Old, New)
Block3 == BlockAt(3, 3, r3, New, New)

\* One block a height, one a second; the validator set rotates.
HonestBlocks == {Genesis, Block2, Block3}

\* The same validators also sign another block at height 2, and a block at
\* height 3 that is not younger than block 2.  A header of too few signers, one
\* of validators nobody knows and one of another chain must never be trusted.
Fork2 == BlockAt(2, 2, rFork, Old, New)
Early3 == BlockAt(3, 2, r3, New, New)
ByzantineBlocks ==
    {Genesis, Block2, Block3, Fork2, Early3,
     [Block3 EXCEPT !.signers = {v2, v3}, !.appHash = r1],
     BlockAt(3, 3, rFork, {v4}, {v4}),
     [Block3 EXCEPT !.chainId = "chain-2"]}

\* Two ticks a second: blocks 2 and 3 are half a second apart.
SubSecondBlocks ==
    {BlockAt(1, 1, r1, Old, Old), BlockAt(2, 2, r2, Old, Old),
     [BlockAt(3, 2, r3, Old, Old) EXCEPT !.time = 5]}

GenesisBlock == CHOOSE x \in Blocks : x.height = 1

MCClientState ==
    [chainId |-> "chain-1", trustLevel |-> [numerator |-> 1, denominator |-> 3],
     latestHeight |-> HeightOf(GenesisBlock),
     trustingPeriod |-> 4, unbondingPeriod |-> 4, isFrozen |-> FALSE]

MCConsensusState == ConsensusStateOf(GenesisBlock)

-----------------------------------------------------------------------------
(* Messages.                                                               *)

EnvAt(now) ==
    [chainId |-> "chain-1", trustThreshold |-> MCClientState.trustLevel,
     trustingPeriod |-> MCClientState.trustingPeriod, now |-> now]

UpdateOutput(t, n, now) ==
    [trustedConsensusState |-> ConsensusStateOf(t),
     newConsensusState |-> ConsensusStateOf(n), env |-> EnvAt(now),
     trustedHeight |-> HeightOf(t), newHeight |-> HeightOf(n)]

ProofOf(vKey, publicValues) ==
    [vKey |-> vKey, publicValues |-> publicValues, proof |-> "proved"]

Forge(proof) == [proof EXCEPT !.proof = "forged"]

UpdateProof(o) == ProofOf(UPDATE_CLIENT_PROGRAM_VKEY, o)

\* The relayer proves within two seconds of the header, or as early as it can.
ProofTimes(n) == Seconds(n.time) + 1 .. Seconds(n.time) + 2

\* A time as far ahead as the u64 of the verification clock is wide: with two
\* ticks a second and a bound of 15 it wraps to second 3.
FarFuture == 11

Updates ==
    {UpdateOutput(pair[1], pair[2], now) :
        pair \in {x \in Blocks \X Blocks : x[1].height < x[2].height},
        now \in {FarFuture} \cup UNION {ProofTimes(n) : n \in Blocks}}

ProvableUpdates == {o \in Updates : VerifyProof(UpdateProof(o))}

\* Block 2 over the genesis block, with one thing wrong.
AnUpdate ==
    CHOOSE o \in ProvableUpdates : o.newHeight.revisionHeight = 2

BadUpdateProofs ==
    {Forge(UpdateProof(AnUpdate)),
     ProofOf(MEMBERSHIP_PROGRAM_VKEY, AnUpdate),
     UpdateProof([AnUpdate EXCEPT !.env.chainId = "chain-2"]),
     UpdateProof([AnUpdate EXCEPT !.env.trustThreshold.numerator = 0]),
     UpdateProof([AnUpdate EXCEPT !.env.trustingPeriod = 3]),
     UpdateProof([AnUpdate EXCEPT !.newConsensusState.root = r1]),
     UpdateProof([AnUpdate EXCEPT !.trustedConsensusState.timestamp = 0]),
     UpdateProof([AnUpdate EXCEPT !.newHeight.revisionNumber = 2,
                                  !.trustedHeight.revisionNumber = 2]),
     UpdateProof([AnUpdate EXCEPT !.newHeight.revisionNumber = 2]),
     UpdateProof([AnUpdate EXCEPT !.newHeight.revisionHeight = 4])}

\* A trusted state nobody stored, with a validator set that would endorse more.
UnknownTrust ==
    {UpdateProof([o EXCEPT
        !.trustedConsensusState.nextValidatorsHash = {v4},
        !.newConsensusState = ConsensusStateOf(BlockAt(3, 3, rFork, {v4}, {v4}))])
        : o \in {u \in Updates : u.trustedHeight.revisionHeight = 2
                                 /\ u.newHeight.revisionHeight = 3}}

MCUpdateMsgs ==
    {[sp1Proof |-> x] :
        x \in {UpdateProof(o) : o \in ProvableUpdates}
              \cup {UpdateProof(o) : o \in {u \in Updates : u.env.now = 3}}
              \cup BadUpdateProofs \cup UnknownTrust}

Pair(path, value) == [path |-> path, value |-> value]

\* One, two (cached) and too many pairs; none at all; a list as long as the
\* contract allows, longer than any program commits.
KVLists ==
    {<<>>, <<Pair(path1, a)>>, <<Pair(path1, b)>>, <<Pair(path1, empty)>>,
     <<Pair(path1, a), Pair(path2, empty)>>, <<Pair(path1, a), Pair(path2, b)>>,
     <<Pair(path2, empty), Pair(path1, b)>>,
     <<Pair(path1, a), Pair(path1, a), Pair(path1, a)>>,
     <<Pair(path1, a), Pair(path1, a), Pair(path1, a), Pair(path1, a)>>}

Asked == {Pair(path1, a), Pair(path1, b), Pair(path1, empty), Pair(path2, empty)}

MembershipMsg(height, pair, proof) ==
    [proofHeight |-> height, path |-> pair.path, value |-> pair.value,
     proof |-> proof]

SP1Membership(sp1Proof, consensusState) ==
    [proofType |-> "SP1MembershipProof", sp1Proof |-> sp1Proof,
     trustedConsensusState |-> consensusState]

MembershipOutputOf(n, kvPairs) ==
    ProofOf(MEMBERSHIP_PROGRAM_VKEY,
            [commitmentRoot |-> n.appHash, kvPairs |-> kvPairs])

PlainMembershipMsgs ==
    UNION {{MembershipMsg(HeightOf(n), pair,
                SP1Membership(x, ConsensusStateOf(n))) :
            x \in {MembershipOutputOf(n, kv)}
                  \cup IF Len(kv) = 2 THEN {Forge(MembershipOutputOf(n, kv))}
                                      ELSE {}}
        : n \in {x \in Blocks : x.height = 2},
          kv \in KVLists, pair \in Asked}

\* The state of one height claimed for another, a root that is not the state's,
\* another revision, another program's key.
BadMembershipMsgs ==
    LET good == MembershipOutputOf(Block2, <<Pair(path1, a)>>)
        state == ConsensusStateOf(Block2)
    IN  {MembershipMsg(HeightOf(Block3), Pair(path1, a), SP1Membership(good, state)),
         MembershipMsg(HeightOf(Block2), Pair(path1, a),
                       SP1Membership(good, [state EXCEPT !.root = r3])),
         MembershipMsg([HeightOf(Block2) EXCEPT !.revisionNumber = 2],
                       Pair(path1, a), SP1Membership(good, state)),
         MembershipMsg(HeightOf(Block2), Pair(path1, a),
                       SP1Membership([good EXCEPT
                           !.vKey = UPDATE_CLIENT_PROGRAM_VKEY], state))}

UcAndMembershipProof(o, kvPairs) ==
    [proofType |-> "SP1MembershipAndUpdateClientProof",
     sp1Proof |-> ProofOf(UPDATE_CLIENT_AND_MEMBERSHIP_PROGRAM_VKEY,
                          [updateClientOutput |-> o, kvPairs |-> kvPairs])]

UcAndMembershipMsgs ==
    {MembershipMsg(o.newHeight, pair, UcAndMembershipProof(o, kv)) :
        o \in {u \in ProvableUpdates : u.trustedHeight.revisionHeight = 1
                                       /\ u.env.now = 3},
        kv \in KVLists, pair \in {Pair(path1, a), Pair(path2, empty)}}

BadUcAndMembershipMsgs ==
    LET proof == UcAndMembershipProof(AnUpdate, <<Pair(path1, a)>>)
    IN  {MembershipMsg([AnUpdate.newHeight EXCEPT !.revisionHeight = 3],
                       Pair(path1, a), proof),
         MembershipMsg(AnUpdate.newHeight, Pair(path1, a),
                       [proof EXCEPT !.sp1Proof = Forge(@)]),
         MembershipMsg(AnUpdate.newHeight, Pair(path1, a),
                       [proof EXCEPT !.sp1Proof.vKey = MEMBERSHIP_PROGRAM_VKEY])}

MCMembershipMsgs ==
    PlainMembershipMsgs \cup BadMembershipMsgs \cup UcAndMembershipMsgs
        \cup BadUcAndMembershipMsgs

MisbehaviourOutputOf(t1, t2, now) ==
    [env |-> EnvAt(now), trustedHeight1 |-> HeightOf(t1),
     trustedHeight2 |-> HeightOf(t2),
     trustedConsensusState1 |-> ConsensusStateOf(t1),
     trustedConsensusState2 |-> ConsensusStateOf(t2)]

TrustedBlocks == {n \in Blocks : n.height < 3}

\* Another state for the genesis height, stored by no client, younger than the
\* genesis block and with a validator set that endorses blocks of its own.
NeverStored ==
    [GenesisBlock EXCEPT !.time = 2 * TicksPerSecond, !.nextValidators = {v4}]

\* Evidence over any two trusted blocks, and, as old as the genesis state can
\* vouch for anything and later, over a state the client does not have.
MisbehaviourOutputs ==
    {MisbehaviourOutputOf(t1, t2, 3) : t1 \in TrustedBlocks, t2 \in TrustedBlocks}
    \cup {MisbehaviourOutputOf(pair[1], pair[2], now) :
            pair \in {NeverStored} \X TrustedBlocks
                     \cup TrustedBlocks \X {NeverStored},
            now \in {3, 5}}

MCMisbehaviourMsgs ==
    {[sp1Proof |-> x] :
        x \in {ProofOf(MISBEHAVIOUR_PROGRAM_VKEY, o) : o \in MisbehaviourOutputs}
              \cup {Forge(ProofOf(MISBEHAVIOUR_PROGRAM_VKEY,
                        MisbehaviourOutputOf(GenesisBlock, GenesisBlock, 3))),
                    ProofOf(UPDATE_CLIENT_PROGRAM_VKEY,
                        MisbehaviourOutputOf(GenesisBlock, GenesisBlock, 3))}}
=============================================================================
