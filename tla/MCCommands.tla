------------------------------ MODULE MCCommands ------------------------------
(***************************************************************************)
(* A small instance of the genesis and fixtures commands.                  *)
(***************************************************************************)
EXTENDS Commands, MCChain, TLC

\* Not used: the contract here is made of what a command wrote.
MCClientState ==
    [chainId |-> "chain-1", trustLevel |-> Fraction(1, 3),
     latestHeight |-> HeightOf(Chain[1]),
     trustingPeriod |-> 4, unbondingPeriod |-> 6, isFrozen |-> FALSE]

MCConsensusState == ConsensusStateOf(Chain[1])

\* The default, one longer than the shorter unbonding period, and levels on both
\* sides of a third and of one.
OptionsOf(fractions, periods) ==
    [trustLevel: fractions, trustingPeriod: periods]

Levels == {Fraction(1, 3), Fraction(2, 3), Fraction(1, 4), Fraction(3, 2)}

SomeOptions == OptionsOf({Fraction(1, 3), Fraction(1, 4)}, {NoPeriod, 4})

\* Block 5 is not there.
GenesisLines ==
    [command: {"genesis"}, trustedBlock: {LatestBlock, 2, 5},
     trustOptions: OptionsOf(Levels, {NoPeriod, 2, 4})]

\* In order, with a gap, backwards.
UpdateLines ==
    {[command |-> "update-client", trustedBlock |-> hs[1], targetBlock |-> hs[2],
      trustOptions |-> o] :
        hs \in {<<1, 2>>, <<1, 3>>, <<2, 3>>, <<2, 1>>}, o \in SomeOptions}

FixturePaths == {<<>>, <<path1>>, <<path2, path1>>, <<path1, path1>>}

MembershipLines ==
    [command: {"membership"}, trustedBlock: {1, 3}, keyPaths: FixturePaths,
     trustOptions: OptionsOf({Fraction(1, 3)}, {NoPeriod})]

UcAndMembershipLines ==
    {[command |-> "update-client-and-membership",
      trustedBlock |-> hs[1], targetBlock |-> hs[2], keyPaths |-> paths,
      trustOptions |-> o] :
        hs \in {<<1, 2>>, <<1, 3>>, <<2, 2>>}, paths \in FixturePaths,
        o \in OptionsOf({Fraction(1, 3)}, {NoPeriod, 4})}

MisbehaviourLines ==
    [command: {"misbehaviour"}, misbehaviour: EveryEvidence,
     trustOptions: OptionsOf({Fraction(1, 3)}, {NoPeriod, 4})]

MCCommandLines ==
    GenesisLines \cup UpdateLines \cup MembershipLines
        \cup UcAndMembershipLines \cup MisbehaviourLines

\* What GenesisServesCorrect assumes of the chain holds of this one.
ASSUME ChainIsConsensus == ChainIsValid
=============================================================================
