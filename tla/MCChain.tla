-------------------------------- MODULE MCChain --------------------------------
(***************************************************************************)
(* A small counterparty chain, and what some or all of its validators can  *)
(* sign besides.                                                           *)
(***************************************************************************)
EXTENDS Integers

CONSTANTS v1, v2, v3, v4,       \* validators
          r1, r2, r3, r4, rFork,
          path1, path2,                 \* paths
          a, b, empty           \* values

MCChainIds == {"chain-1"}
MCRevisionNumber == [c \in MCChainIds |-> 1]
MCValidators == {v1, v2, v3, v4}
MCRoots == {r1, r2, r3, r4, rFork}
MCPaths == {path1, path2}
MCValues == {a, b, empty}

\* A path appears, changes and disappears again.
MCStateAt ==
    [h \in 0..4 |->
        CASE h = 0 -> [x \in {} |-> a]
          [] h = 1 -> [x \in {path1} |-> a]
          [] h = 2 -> [x \in {path1, path2} |-> IF x = path1 THEN b ELSE a]
          [] h = 3 -> [x \in {path2} |-> a]
          [] h = 4 -> [x \in {path1} |-> b]]

MCStore ==
    [r \in MCRoots |->
        CASE r = r1 -> MCStateAt[0]
          [] r = r2 -> MCStateAt[1]
          [] r = r3 -> MCStateAt[2]
          [] r = r4 -> MCStateAt[3]
          [] r = rFork -> MCStateAt[4]]

BlockAt(height, time, appHash, validators, nextValidators) ==
    [chainId |-> "chain-1", height |-> height, time |-> time,
     appHash |-> appHash, validators |-> validators,
     nextValidators |-> nextValidators, signers |-> validators]

Old == {v1, v2, v3}
New == {v2, v3, v4}

\* A block a second, and a rotation of the validators.
MCChain ==
    <<BlockAt(1, 1, r1, Old, Old), BlockAt(2, 2, r2, Old, New),
      BlockAt(3, 3, r3, New, New)>>

ShortStateAt == [h \in 0..3 |-> MCStateAt[h]]

None == {}

Fraction(n, d) == [numerator |-> n, denominator |-> d]

BlocksOf(chain) == {chain[h] : h \in DOMAIN chain}

HonestBlocks == BlocksOf(MCChain)

\* What a validator that alone is no more than the trust level of any set can
\* sign: another block of an adjacent height, or a later one whose validators
\* it names itself.
Forged2 == [BlockAt(2, 2, rFork, Old, {v1}) EXCEPT !.signers = {v1}]
Forged3 == BlockAt(3, 3, rFork, {v1}, {v1})
MinorityBlocks == HonestBlocks \cup {Forged2, Forged3}

\* The whole set signs two blocks of heights 2 and 3, one of height 3 that is not
\* younger than block 2, and two of a height beyond 32 bits (MAX_UINT32 is 6).
Fork2 == BlockAt(2, 2, rFork, Old, New)
Fork3 == BlockAt(3, 3, rFork, New, New)
Early3 == BlockAt(3, 2, r3, Old, New)
Far1 == BlockAt(9, 3, rFork, Old, Old)
Far2 == BlockAt(9, 3, r3, Old, Old)
MajorityBlocks ==
    HonestBlocks \cup {Fork2, Fork3, Early3, Far1, Far2}

MajorityEvidence ==
    {[header1 |-> h1, header2 |-> h2, trustedHeight1 |-> t1, trustedHeight2 |-> t2] :
        h1 \in {Fork2, Early3, MCChain[3]}, h2 \in {MCChain[2], Fork2, Fork3},
        t1 \in 1..2, t2 \in 1..2}

\* Height 8 is height 1 to the node.
FarEvidence ==
    {[header1 |-> Far1, header2 |-> Far2, trustedHeight1 |-> 8, trustedHeight2 |-> 8]}

EveryEvidence == MajorityEvidence \cup FarEvidence
=============================================================================
