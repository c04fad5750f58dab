----------------------------- MODULE TendermintRpc -----------------------------
(***************************************************************************)
(* get_light_block, operator/src/rpc.rs: one call by a command of the      *)
(* operator to what answers at TENDERMINT_RPC_URL, a node or several of    *)
(* them behind one name, some behind the others.                           *)
(*                                                                         *)
(* The call is four requests.  Between them the chain goes on, the next    *)
(* one may be answered by another node, and any may fail, which ends the   *)
(* call (?).  The block it returns is put together from all the answers.   *)
(***************************************************************************)
EXTENDS OperatorMsgs

CONSTANTS
    Nodes,
    Latest,             \* block_height is None
    RequestedHeights,   \* block heights callers ask for, u32
    Nothing,            \* a field that is not filled in yet
    Failed              \* the Err of get_light_block

LightBlock ==
    [signedHeader: Blocks, validators: SUBSET Validators,
     nextValidators: SUBSET Validators]

ASSUME RpcAssumption ==
    /\ Latest \notin Nat
    /\ Nothing \notin UINT32 \cup {Latest, Failed}
    /\ \A b \in Blocks : b # Nothing
    /\ \A b \in LightBlock : b # Nothing
    /\ \A V \in SUBSET Validators : V # Nothing
    /\ RequestedHeights \subseteq UINT32

\* A header commits to the validators of the block after it.
ASSUME ValidatorsAssumption ==
    \A h \in 1..(Len(Chain) - 1) : Chain[h].nextValidators = Chain[h + 1].validators

VARIABLES
    heads,      \* node -> height of its last block
    call        \* where get_light_block is and what it was answered so far

rpcVars == <<heads, call>>

Requests == RequestedHeights \cup {Latest}

Idle ==
    [pc |-> "idle", request |-> Nothing, signedHeader |-> Nothing,
     validators |-> Nothing, block |-> Nothing]

At(pc) == call.pc = pc

\* The ? after a request.
Fails ==
    call' = [Idle EXCEPT !.pc = "returned", !.request = call.request, !.block = Failed]

-----------------------------------------------------------------------------
(* What a node answers; the code of the node is not in the repository.     *)

HasBlock(n, height) == height \in 1..heads[n]

\* The validators of the next block are known before the block is.
HasValidators(n, height) == height \in 1..(heads[n] + 1)

ValidatorsOf(height) ==
    IF height <= Len(Chain) THEN Chain[height].validators
                            ELSE Chain[height - 1].nextValidators

-----------------------------------------------------------------------------
(* The requests.                                                           *)

GetLightBlock ==
    /\ At("idle")
    /\ \E request \in Requests :
           call' = [Idle EXCEPT !.pc = "status", !.request = request]
    /\ UNCHANGED heads

\* The peer identifier goes into the block and is never looked at.
Status ==
    /\ At("status")
    /\ call' = [call EXCEPT !.pc = "commit"]
    /\ UNCHANGED heads

Commit ==
    /\ At("commit")
    /\ \E n \in Nodes :
           LET height == IF call.request = Latest THEN heads[n] ELSE call.request
           IN  IF HasBlock(n, height)
               THEN call' = [call EXCEPT !.pc = "validators",
                                         !.signedHeader = Chain[height]]
               ELSE Fails
    /\ UNCHANGED heads

\* Mutant: the validators are those of the node's own last block.
ValidatorsAtHead ==
    /\ At("validators")
    /\ \E n \in Nodes :
           call' = [call EXCEPT !.pc = "next_validators",
                                !.validators = ValidatorsOf(heads[n])]
    /\ UNCHANGED heads

\* Mutant: the validators are asked for and not kept.
ValidatorsForgotten ==
    /\ At("validators")
    /\ call' = [call EXCEPT !.pc = "next_validators"]
    /\ UNCHANGED heads

\* The height of the commit, so that a block of one height comes together.
ValidatorsOfHeight ==
    LET height == call.signedHeader.height
    IN  /\ At("validators")
        /\ \E n \in Nodes :
               IF HasValidators(n, height)
               THEN call' = [call EXCEPT !.pc = "next_validators",
                                         !.validators = ValidatorsOf(height)]
               ELSE Fails
        /\ UNCHANGED heads

\* height + 1 wraps in a u32.
NextValidatorsOfHeight ==
    LET height == call.signedHeader.height
        next == (height + 1) % (MAX_UINT32 + 1)
    IN  /\ At("next_validators")
        /\ \E n \in Nodes :
               IF HasValidators(n, next)
               THEN call' = [Idle EXCEPT
                                !.pc = "returned", !.request = call.request,
                                !.block = [signedHeader |-> call.signedHeader,
                                           validators |-> call.validators,
                                           nextValidators |-> ValidatorsOf(next)]]
               ELSE Fails
        /\ UNCHANGED heads

\* The node cannot be reached, or has not got what it normally has.
RequestFails ==
    /\ call.pc \in {"status", "commit", "validators", "next_validators"}
    /\ Fails
    /\ UNCHANGED heads

Return ==
    /\ At("returned")
    /\ call' = Idle
    /\ UNCHANGED heads

NodeAdvances ==
    /\ \E n \in Nodes :
           /\ heads[n] < Len(Chain)
           /\ heads' = [heads EXCEPT ![n] = @ + 1]
    /\ UNCHANGED call

RpcInit ==
    /\ heads \in [Nodes -> Heights]
    /\ call = Idle

RpcNext ==
    \/ GetLightBlock
    \/ Status
    \/ Commit
    \/ ValidatorsOfHeight
    \/ NextValidatorsOfHeight
    \/ RequestFails
    \/ Return
    \/ NodeAdvances

RpcSpec == RpcInit /\ [][RpcNext]_rpcVars

-----------------------------------------------------------------------------
(* Correctness.                                                            *)

\* What each request leaves has the type the next one needs.
RpcTypeOK ==
    /\ heads \in [Nodes -> Heights]
    /\ call \in [pc: {"idle", "status", "commit", "validators",
                      "next_validators", "returned"},
                 request: Requests \cup {Nothing},
                 signedHeader: {Chain[h] : h \in Heights} \cup {Nothing},
                 validators: {Nothing} \cup SUBSET Validators,
                 block: LightBlock \cup {Nothing, Failed}]
    /\ At("idle") <=> call.request = Nothing
    /\ At("returned") <=> call.block # Nothing
    /\ call.pc \in {"validators", "next_validators"} => call.signedHeader # Nothing
    /\ At("next_validators") => call.validators # Nothing

\* The light block the program and the contract mean when they speak of a height.
LightBlockAt(height) ==
    [signedHeader |-> Chain[height], validators |-> Chain[height].validators,
     nextValidators |-> Chain[height].nextValidators]

\* The block is decided when the commit was read.
BlockRead ==
    IF call.pc \in {"validators", "next_validators"}
    THEN LightBlockAt(call.signedHeader.height)
    ELSE call.block

AR == INSTANCE AtomicRead WITH
          BlockAt <- LightBlockAt, LastHeight <- Len(Chain),
          asked <- call.request, read <- BlockRead

\* Whatever the nodes do between the requests, a call that returns has read one
\* block of the chain, whole, at one moment of the call: the one asked for, or
\* the last one of some node then.  No header ever comes with the validators of
\* another height, which the programs would refuse.
IsAtomicRead == AR!Spec
=============================================================================
