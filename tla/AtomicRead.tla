------------------------------ MODULE AtomicRead ------------------------------
(***************************************************************************)
(* What a caller of get_light_block relies on: the block is read at one    *)
(* moment between the call and its return, from one of the nodes that      *)
(* answer, or the call fails.  TendermintRpc implements it with several    *)
(* requests that any of the nodes may answer, while they make progress.    *)
(***************************************************************************)
EXTENDS Integers

CONSTANTS
    Nodes,
    Requests,       \* heights, and Latest
    Latest,
    BlockAt(_),     \* height -> the light block of that height
    LastHeight,
    Nothing,        \* nothing asked for, or nothing read yet
    Failed

VARIABLES
    heads,          \* node -> height of its last block
    asked,          \* the request, or Nothing
    read            \* a light block, Nothing or Failed

vars == <<heads, asked, read>>

Init ==
    /\ heads \in [Nodes -> 1..LastHeight]
    /\ asked = Nothing
    /\ read = Nothing

Ask ==
    /\ asked = Nothing
    /\ asked' \in Requests
    /\ UNCHANGED <<heads, read>>

Read ==
    /\ asked # Nothing /\ read = Nothing
    /\ \E n \in Nodes :
           \/ asked = Latest /\ read' = BlockAt(heads[n])
           \/ asked \in 1..heads[n] /\ read' = BlockAt(asked)
    /\ UNCHANGED <<heads, asked>>

Fail ==
    /\ asked # Nothing
    /\ read' = Failed
    /\ UNCHANGED <<heads, asked>>

Return ==
    /\ read # Nothing
    /\ asked' = Nothing /\ read' = Nothing
    /\ UNCHANGED heads

Progress ==
    /\ \E n \in Nodes : heads' = [heads EXCEPT ![n] = @ + 1]
    /\ UNCHANGED <<asked, read>>

Next == Ask \/ Read \/ Fail \/ Return \/ Progress

Spec == Init /\ [][Next]_vars
=============================================================================
