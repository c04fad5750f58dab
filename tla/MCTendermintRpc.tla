---------------------------- MODULE MCTendermintRpc ----------------------------
(***************************************************************************)
(* Two nodes that follow a chain whose validators change at every block.   *)
(***************************************************************************)
EXTENDS TendermintRpc, TLC

CONSTANTS v1, v2, v3, r1, n1, n2, path1, empty

MCChainIds == {"chain-1"}
MCRevisionNumber == [c \in MCChainIds |-> 1]
MCValidators == {v1, v2, v3}
MCRoots == {r1}
MCStore == [r \in MCRoots |-> <<>>]
MCStateAt == [h \in 0..4 |-> <<>>]

BlockAt(height, validators, nextValidators) ==
    [chainId |-> "chain-1", height |-> height, time |-> height,
     appHash |-> r1, validators |-> validators,
     nextValidators |-> nextValidators, signers |-> validators]

MCChain ==
    <<BlockAt(1, {v1}, {v1, v2}), BlockAt(2, {v1, v2}, {v2}),
      BlockAt(3, {v2}, {v2, v3}), BlockAt(4, {v2, v3}, {v3})>>

MCBlocks == {MCChain[h] : h \in DOMAIN MCChain}

\* No block 0; the last height is the last of uint32.
MCRequestedHeights == {0, 2, 4}

SameNodes == Permutations(Nodes)
=============================================================================
