------------------------------ MODULE MCOperator ------------------------------
(***************************************************************************)
(* Small instances of operators, relayers and the chain they read.         *)
(***************************************************************************)
EXTENDS Operator, MCChain, TLC

CONSTANTS o1, o2      \* operators

\* Host clocks: exact, or as much as a second ahead.  A clock that is behind is
\* an exact one whose proof took longer.
Exact == {0}
Skewed == {0, 1}

SameOperators == Permutations(Operators)

MCClientState ==
    [chainId |-> "chain-1", trustLevel |-> [numerator |-> 1, denominator |-> 3],
     latestHeight |-> HeightOf(Chain[1]),
     trustingPeriod |-> 4, unbondingPeriod |-> 6, isFrozen |-> FALSE]

MCConsensusState == ConsensusStateOf(Chain[1])

-----------------------------------------------------------------------------
(* What other senders submit.                                              *)

EnvAt(now) == EnvOf(Chain[1], MCClientState, now)

\* Proofs for the forged blocks, over the chain's states and over their own.
MinorityUpdates ==
    {[sp1Proof |-> SP1ProofFrom(UPDATE_CLIENT_PROGRAM_VKEY,
                                UpdateOutput(t, n, EnvAt(4)))] :
        t \in {Chain[1], Forged2}, n \in {Forged2, Forged3}}

MinorityEvidence ==
    {[header1 |-> h1, header2 |-> h2, trustedHeight1 |-> 1, trustedHeight2 |-> 1] :
        h1 \in {Forged2, Forged3}, h2 \in {Chain[2], Forged2}}

MinorityMisbehaviour ==
    {SubmitMisbehaviourMsg(e, EnvAt(3)) : e \in MinorityEvidence}

MajorityMisbehaviour ==
    {SubmitMisbehaviourMsg(e, EnvAt(4)) :
        e \in {x \in MajorityEvidence : x.trustedHeight1 = 1}}

\* One path, both, the same twice: UINT8_MAX is two here.
MCPathLists == {<<path1>>, <<path2>>, <<path1, path2>>, <<path2, path1>>, <<path1, path1>>}

ChainMembership ==
    {[proofHeight |-> HeightOf(Chain[2]), path |-> path1,
      value |-> Query(path1, 1).value,
      proof |-> MembershipProofMsg(Chain[2], paths)] :
        paths \in {<<path1>>, <<path1, path2>>}}

ChainUcAndMembership ==
    {[proofHeight |-> HeightOf(Chain[h]), path |-> path1,
      value |-> Query(path1, h - 1).value,
      proof |-> UcAndMembershipProofMsg(Chain[1], Chain[h], EnvAt(h + 1), <<path1, path2>>)] :
        h \in 2..Len(Chain)}

\* Proofs against the app hash of block 2 that claim the state of block 3.
MisplacedMembership ==
    {[m EXCEPT !.proofHeight = HeightOf(Chain[3]),
               !.proof.trustedConsensusState = ConsensusStateOf(Chain[3])] :
        m \in ChainMembership}

EveryMembership == ChainMembership \cup MisplacedMembership \cup ChainUcAndMembership

\* What the theorems about the states served assume holds of every instance.
ASSUME StatesAreTheChains ==
    SecondsIncrease /\ (HonestMajority \/ OnlyChainUpdates)

=============================================================================
