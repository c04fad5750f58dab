-------------------------- MODULE TendermintRpcProofs --------------------------
(***************************************************************************)
(* Proofs about get_light_block for every chain, every number of nodes and *)
(* every height: what it returns is one block, read at one moment.         *)
(***************************************************************************)
EXTENDS TendermintRpc, TLAPS

\* A block of the chain has its height, and is a signed header.
LEMMA ChainBlocks ==
    ASSUME NEW h \in Heights
    PROVE  /\ Chain[h].height = h
           /\ Chain[h] \in Blocks
           /\ Chain[h].validators \in SUBSET Validators
           /\ Chain[h].nextValidators \in SUBSET Validators
           /\ Chain[h] # Nothing
<1>1. Len(Chain) \in Nat /\ Chain[h] \in Blocks
  BY NodeAssumption DEF Heights
<1>2. Chain[h] \in Block
  BY <1>1, ChainAssumption
<1> QED
  BY <1>1, <1>2, NodeAssumption, RpcAssumption DEF Block

\* The u32 after the height of a block is the next height, or zero.
LEMMA NextHeight ==
    ASSUME NEW h \in Heights
    PROVE  (h + 1) % (MAX_UINT32 + 1) \in {0, h + 1}
<1>1. /\ Len(Chain) \in Nat /\ h \in Nat /\ h >= 1 /\ h <= MAX_UINT32
      /\ MAX_UINT32 \in Nat
  BY NodeAssumption, MsgsAssumption DEF Heights, UINT32
<1>2. \A x, n \in Nat : x < n => x % n = x
  BY Z3
<1>3. \A n \in Nat \ {0} : n % n = 0
  BY Z3
<1>4. CASE h = MAX_UINT32
  BY <1>1, <1>3, <1>4
<1>5. CASE h < MAX_UINT32
  BY <1>1, <1>2, <1>5
<1> QED
  BY <1>1, <1>4, <1>5

\* The validators a node has for a height and for the one after it.
LEMMA ValidatorsRead ==
    ASSUME NEW h \in Heights
    PROVE  /\ ValidatorsOf(h) = Chain[h].validators
           /\ ValidatorsOf(h + 1) = Chain[h].nextValidators
<1>1. Len(Chain) \in Nat /\ h \in 1..Len(Chain)
  BY NodeAssumption DEF Heights
<1>2. ValidatorsOf(h) = Chain[h].validators
  BY <1>1 DEF ValidatorsOf
<1>3. CASE h = Len(Chain)
  BY <1>1, <1>2, <1>3 DEF ValidatorsOf
<1>4. CASE h < Len(Chain)
  <2>1. h \in 1..(Len(Chain) - 1)
    BY <1>1, <1>4
  <2> QED
    BY <1>1, <1>2, <1>4, <2>1, ValidatorsAssumption DEF ValidatorsOf
<1> QED
  BY <1>1, <1>3, <1>4

-----------------------------------------------------------------------------
(* The inductive invariant.                                                *)

\* What has been read when the last request is made is of one block.
RpcInv ==
    /\ RpcTypeOK
    /\ At("next_validators") => call.validators = call.signedHeader.validators

LEMMA RpcInitInv == RpcInit => RpcInv
BY RpcAssumption DEF RpcInit, RpcInv, RpcTypeOK, Idle, At

\* A call that fails, whatever it had read.
LEMMA FailsInv ==
    ASSUME RpcInv, Fails, ~At("idle")
    PROVE  call' \in [pc: {"returned"}, request: Requests, signedHeader: {Nothing},
                      validators: {Nothing}, block: {Failed}]
BY DEF RpcInv, RpcTypeOK, Fails, Idle, At, Requests

\* The block that was asked for is on the chain, wherever its commit came from.
LEMMA BlockOfCall ==
    ASSUME RpcInv, call.pc \in {"validators", "next_validators"}
    PROVE  \E h \in Heights :
               call.signedHeader = Chain[h] /\ call.signedHeader.height = h
BY ChainBlocks DEF RpcInv, RpcTypeOK

\* A node only has blocks of the chain.
LEMMA BlocksOfNodes ==
    ASSUME RpcInv, NEW n \in Nodes
    PROVE  /\ heads[n] \in Heights
           /\ \A h : HasBlock(n, h) => h \in Heights
BY NodeAssumption DEF RpcInv, RpcTypeOK, HasBlock, Heights

\* The last request is for the validators that the header commits to, or fails.
LEMMA LastRequest ==
    ASSUME RpcInv, NextValidatorsOfHeight, At("next_validators")
    PROVE  \/ Fails
           \/ /\ call'.pc = "returned"
              /\ call' = [Idle EXCEPT !.pc = "returned", !.request = call.request,
                              !.block = LightBlockAt(call.signedHeader.height)]
              /\ call.signedHeader.height \in Heights
<1>1. PICK h \in Heights :
          call.signedHeader = Chain[h] /\ call.signedHeader.height = h
  BY BlockOfCall DEF At
<1> DEFINE next == (h + 1) % (MAX_UINT32 + 1)
<1>2. next \in {0, h + 1}
  BY <1>1, NextHeight
<1>3. SUFFICES ASSUME ~Fails
               PROVE  call' = [Idle EXCEPT !.pc = "returned", !.request = call.request,
                                   !.block = LightBlockAt(h)]
  BY <1>1 DEF Idle
<1>4. PICK n \in Nodes :
          /\ HasValidators(n, next)
          /\ call' = [Idle EXCEPT !.pc = "returned", !.request = call.request,
                          !.block = [signedHeader |-> call.signedHeader,
                                     validators |-> call.validators,
                                     nextValidators |-> ValidatorsOf(next)]]
  BY <1>1, <1>3 DEF NextValidatorsOfHeight
<1>5. next # 0
  BY <1>4 DEF HasValidators
<1>6. ValidatorsOf(next) = Chain[h].nextValidators
  BY <1>2, <1>5, ValidatorsRead
<1>7. call.validators = Chain[h].validators
  BY <1>1 DEF RpcInv
<1> QED
  BY <1>1, <1>4, <1>6, <1>7 DEF LightBlockAt

LEMMA LightBlocks ==
    ASSUME NEW h \in Heights
    PROVE  LightBlockAt(h) \in LightBlock /\ LightBlockAt(h) # Nothing
BY ChainBlocks, RpcAssumption DEF LightBlockAt, LightBlock

LEMMA RpcNextInv ==
    ASSUME RpcInv, [RpcNext]_rpcVars
    PROVE  RpcInv'
<1> USE RpcAssumption
<1>1. CASE GetLightBlock
  BY <1>1 DEF GetLightBlock, RpcInv, RpcTypeOK, Idle, At, Requests
<1>2. CASE Status
  BY <1>2 DEF Status, RpcInv, RpcTypeOK, At
<1>3. CASE Fails /\ ~At("idle") /\ UNCHANGED heads
  <2>1. call' \in [pc: {"returned"}, request: Requests, signedHeader: {Nothing},
                   validators: {Nothing}, block: {Failed}]
    BY <1>3, FailsInv
  <2> QED
    BY <1>3, <2>1 DEF RpcInv, RpcTypeOK, At, Requests
<1>4. CASE Commit
  <2>1. CASE Fails
    BY <1>3, <1>4, <2>1 DEF Commit, At
  <2>2. CASE ~Fails
    <3>1. PICK h \in Heights :
              call' = [call EXCEPT !.pc = "validators", !.signedHeader = Chain[h]]
      BY <1>4, <2>2, BlocksOfNodes DEF Commit
    <3> QED
      BY <1>4, <3>1, ChainBlocks DEF Commit, RpcInv, RpcTypeOK, At
  <2> QED
    BY <2>1, <2>2
<1>5. CASE ValidatorsOfHeight
  <2>1. CASE Fails
    BY <1>3, <1>5, <2>1 DEF ValidatorsOfHeight, At
  <2>2. CASE ~Fails
    <3>1. PICK h \in Heights :
              call.signedHeader = Chain[h] /\ call.signedHeader.height = h
      BY <1>5, BlockOfCall DEF ValidatorsOfHeight, At
    <3>2. call' = [call EXCEPT !.pc = "next_validators",
                               !.validators = Chain[h].validators]
      BY <1>5, <2>2, <3>1, ValidatorsRead DEF ValidatorsOfHeight
    <3>3. Chain[h].validators \in SUBSET Validators
      BY ChainBlocks
    <3> QED
      BY <1>5, <3>1, <3>2, <3>3 DEF ValidatorsOfHeight, RpcInv, RpcTypeOK, At
  <2> QED
    BY <2>1, <2>2
<1>6. CASE NextValidatorsOfHeight
  <2>1. CASE Fails
    BY <1>3, <1>6, <2>1 DEF NextValidatorsOfHeight, At
  <2>2. CASE ~Fails
    <3>1. PICK h \in Heights :
              call' = [Idle EXCEPT !.pc = "returned", !.request = call.request,
                           !.block = LightBlockAt(h)]
      BY <1>6, <2>2, LastRequest DEF NextValidatorsOfHeight
    <3> QED
      BY <1>6, <3>1, LightBlocks
      DEF NextValidatorsOfHeight, RpcInv, RpcTypeOK, Idle, At
  <2> QED
    BY <2>1, <2>2
<1>7. CASE RequestFails
  BY <1>3, <1>7 DEF RequestFails, At
<1>8. CASE Return
  BY <1>8 DEF Return, RpcInv, RpcTypeOK, Idle, At
<1>9. CASE NodeAdvances
  <2>1. heads' \in [Nodes -> Heights]
    BY <1>9, NodeAssumption DEF NodeAdvances, RpcInv, RpcTypeOK, Heights
  <2> QED
    BY <1>9, <2>1 DEF NodeAdvances, RpcInv, RpcTypeOK, At
<1>10. CASE UNCHANGED rpcVars
  BY <1>10 DEF rpcVars, RpcInv, RpcTypeOK, At
<1> QED
  BY <1>1, <1>2, <1>4, <1>5, <1>6, <1>7, <1>8, <1>9, <1>10 DEF RpcNext

\* What a request leaves is what the next one needs, for every chain.
THEOREM RpcTypeCorrect == RpcSpec => []RpcTypeOK
<1>1. RpcInv => RpcTypeOK
  BY DEF RpcInv
<1> QED
  BY RpcInitInv, RpcNextInv, <1>1, PTL DEF RpcSpec

-----------------------------------------------------------------------------
(* Reading at one moment.                                                  *)

\* Before the commit nothing has been read, and then the block has.
LEMMA ReadWhenCommitted ==
    ASSUME RpcInv
    PROVE  /\ call.pc \in {"idle", "status", "commit"} => BlockRead = Nothing
           /\ At("returned") => BlockRead = call.block /\ BlockRead # Nothing
           /\ ~At("idle") => call.request # Nothing /\ call.request \in Requests
BY DEF RpcInv, RpcTypeOK, BlockRead, At

\* A call that fails is a failed read, whatever it had read.
LEMMA FailsRefines ==
    ASSUME RpcInv, Fails, ~At("idle"), UNCHANGED heads
    PROVE  AR!Fail
BY FailsInv, ReadWhenCommitted, RpcAssumption DEF AR!Fail, BlockRead, Fails, Idle

LEMMA RpcInitRefines == RpcInit => AR!Init
BY DEF RpcInit, AR!Init, Idle, BlockRead, Heights

LEMMA RpcStepRefines ==
    ASSUME RpcInv, [RpcNext]_rpcVars
    PROVE  [AR!Next]_AR!vars
<1>1. CASE GetLightBlock
  <2>1. PICK request \in Requests : call' = [Idle EXCEPT !.pc = "status", !.request = request]
    BY <1>1 DEF GetLightBlock
  <2>2. call'.pc = "status" /\ call'.request = request /\ BlockRead' = Nothing
    BY <2>1 DEF Idle, BlockRead
  <2>3. AR!Ask
    BY <1>1, <2>2, ReadWhenCommitted
    DEF GetLightBlock, AR!Ask, RpcInv, RpcTypeOK, At
  <2> QED
    BY <2>3 DEF AR!Next
<1>2. CASE Status
  BY <1>2, ReadWhenCommitted DEF Status, RpcInv, RpcTypeOK, At, BlockRead, AR!vars
<1>3. CASE Fails /\ ~At("idle") /\ UNCHANGED heads
  BY <1>3, FailsRefines DEF AR!Next
<1>4. CASE Commit
  <2>1. CASE Fails
    BY <1>3, <1>4, <2>1 DEF Commit, At
  <2>2. CASE ~Fails
    <3> DEFINE height(n) == IF call.request = Latest THEN heads[n] ELSE call.request
    <3>1. PICK n \in Nodes :
              /\ HasBlock(n, height(n))
              /\ call' = [call EXCEPT !.pc = "validators",
                                      !.signedHeader = Chain[height(n)]]
      BY <1>4, <2>2 DEF Commit
    <3> DEFINE h == height(n)
    <3>2. h \in Heights /\ h \in 1..heads[n]
      BY <3>1, BlocksOfNodes DEF HasBlock
    <3> HIDE DEF h
    <3>3. /\ call'.pc = "validators" /\ call'.request = call.request
          /\ call'.signedHeader = Chain[h]
      BY <3>1 DEF h, RpcInv, RpcTypeOK
    <3>4. BlockRead' = LightBlockAt(h)
      BY <3>2, <3>3, ChainBlocks DEF BlockRead, LightBlockAt
    <3>5. BlockRead = Nothing /\ call.request # Nothing
      BY <1>4, ReadWhenCommitted DEF Commit, At
    <3>6. \/ call.request = Latest /\ BlockRead' = LightBlockAt(heads[n])
          \/ call.request \in 1..heads[n] /\ BlockRead' = LightBlockAt(call.request)
      BY <3>2, <3>4 DEF h
    <3>7. AR!Read
      BY <1>4, <3>3, <3>5, <3>6 DEF Commit, AR!Read
    <3> QED
      BY <3>7 DEF AR!Next
  <2> QED
    BY <2>1, <2>2
<1>5. CASE ValidatorsOfHeight
  <2>1. CASE Fails
    BY <1>3, <1>5, <2>1 DEF ValidatorsOfHeight, At
  <2>2. CASE ~Fails
    <3>1. PICK n \in Nodes :
              call' = [call EXCEPT !.pc = "next_validators",
                           !.validators = ValidatorsOf(call.signedHeader.height)]
      BY <1>5, <2>2 DEF ValidatorsOfHeight
    <3>2. /\ call'.pc = "next_validators" /\ call'.request = call.request
          /\ call'.signedHeader = call.signedHeader
      BY <3>1 DEF RpcInv, RpcTypeOK
    <3> QED
      BY <1>5, <3>2 DEF ValidatorsOfHeight, At, BlockRead, LightBlockAt, AR!vars
  <2> QED
    BY <2>1, <2>2
<1>6. CASE NextValidatorsOfHeight
  <2>1. CASE Fails
    BY <1>3, <1>6, <2>1 DEF NextValidatorsOfHeight, At
  <2>2. CASE ~Fails
    <3> DEFINE block == LightBlockAt(call.signedHeader.height)
    <3>1. call' = [Idle EXCEPT !.pc = "returned", !.request = call.request,
                               !.block = block]
      BY <1>6, <2>2, LastRequest DEF NextValidatorsOfHeight
    <3>2. BlockRead = block
      BY <1>6 DEF NextValidatorsOfHeight, At, BlockRead
    <3>3. call'.request = call.request /\ BlockRead' = block
      BY <3>1 DEF Idle, BlockRead
    <3> QED
      BY <1>6, <3>2, <3>3 DEF NextValidatorsOfHeight, AR!vars
  <2> QED
    BY <2>1, <2>2
<1>7. CASE RequestFails
  BY <1>3, <1>7 DEF RequestFails, At
<1>8. CASE Return
  <2>1. call'.request = Nothing /\ BlockRead' = Nothing
    BY <1>8 DEF Return, Idle, BlockRead
  <2>2. AR!Return
    BY <1>8, <2>1, ReadWhenCommitted DEF Return, AR!Return, At
  <2> QED
    BY <2>2 DEF AR!Next
<1>9. CASE NodeAdvances
  <2>1. AR!Progress
    BY <1>9 DEF NodeAdvances, AR!Progress, BlockRead, LightBlockAt
  <2> QED
    BY <2>1 DEF AR!Next
<1>10. CASE UNCHANGED rpcVars
  BY <1>10 DEF rpcVars, BlockRead, LightBlockAt, AR!vars
<1> QED
  BY <1>1, <1>2, <1>4, <1>5, <1>6, <1>7, <1>8, <1>9, <1>10 DEF RpcNext

\* get_light_block returns one whole block, read at one moment of the call from
\* one of the nodes, or fails: with any number of nodes, wherever they are and
\* whatever they do between its requests.
THEOREM RpcReadsAtomically == RpcSpec => IsAtomicRead
BY RpcInitInv, RpcNextInv, RpcInitRefines, RpcStepRefines, PTL
   DEF RpcSpec, IsAtomicRead, AR!Spec
=============================================================================
