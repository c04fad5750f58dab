---------------------------- MODULE OperatorProofs ----------------------------
(***************************************************************************)
(* Theorems about the operators, the contract and the chain together, for  *)
(* any number of operators, any chain and any other senders.               *)
(*                                                                         *)
(* To the contract the composed system is one more set of senders          *)
(* (SystemStepIsStep), so the contract's own properties hold of it.  They  *)
(* are strengthened by what an operator holds between two of its steps,    *)
(* OpInv.                                                                  *)
(***************************************************************************)
EXTENDS Operator, ChainProofs

-----------------------------------------------------------------------------
(* What an operator holds between two steps.                               *)

PCs == {"polling", "targeting", "proving", "sending", "watching", "sleeping",
        "exited"}

Exits == {"none", "failed", "panicked", "killed", "done"}

Local ==
    [pc: PCs, client: ClientState \cup {Nothing}, target: Nat,
     msg: MsgUpdateClient \cup {Nothing}, exit: Exits, logged: Nat]

\* A client state read earlier: its parameters are the contract's, its height
\* is stored, and the chain had it.
Held(client) ==
    /\ client \in ClientState
    /\ client.trustLevel = GenesisClientState.trustLevel
    /\ client.trustingPeriod = GenesisClientState.trustingPeriod
    /\ client.latestHeight.revisionHeight \in 1..head
    /\ IsStored(client.latestHeight.revisionHeight)

\* A message made of two blocks of the chain, the first of which is stored.
Proposed(m) ==
    \E t, n \in 1..head, env \in Env :
        /\ IsStored(t)
        /\ env.chainId = Chain[t].chainId
        /\ env.trustThreshold = GenesisClientState.trustLevel
        /\ env.trustingPeriod = GenesisClientState.trustingPeriod
        /\ UpdateProvable(Chain[t], Chain[n], env)
        /\ m = UpdateClientMsg(Chain[t], Chain[n], env)

LocalOK(local) ==
    /\ local \in Local
    /\ local.logged \in 0..head
    /\ local.pc \in {"targeting", "proving"} => Held(local.client)
    /\ local.pc = "proving" => local.target \in 1..head
    /\ local.pc \in {"sending", "watching"} => Proposed(local.msg)

\* What the operator o holds is right.
HoldsRight(o) == \E local \in Local : op[o] = local /\ LocalOK(local)

ChainMessages == {m \in MsgUpdateClient : OfChain(m.sp1Proof.publicValues)}

OpInv ==
    /\ head \in Heights
    /\ blockTimestamp >= DeploymentTimestamp
    /\ clientState.unbondingPeriod = GenesisClientState.unbondingPeriod
    /\ mempool \in [Operators -> Seq(ChainMessages)]
    /\ op \in [Operators -> Local]
    /\ \A o \in Operators : HoldsRight(o)

-----------------------------------------------------------------------------
(* The contract under the composed system.                                 *)

\* Whatever operators do, the contract sees transactions of the right types.
LEMMA SystemStepIsStep ==
    ASSUME OpInv, [SystemNext]_systemVars
    PROVE  [Step]_vars
<1>1. ASSUME NEW o \in Operators, OperatorStep(o)
      PROVE  UNCHANGED vars
  BY <1>1 DEF OperatorStep, GetClientState, GetTarget, Prove, Send, Finish, Wake,
     Restart, Becomes, vars
<1>2. ASSUME NEW o \in Operators, Include(o)
      PROVE  Step
  <2>1. Head(mempool[o]) \in MsgUpdateClient
    <3>1. mempool[o] \in Seq(ChainMessages) /\ mempool[o] # <<>>
      BY <1>2 DEF Include, OpInv
    <3>2. Head(mempool[o]) \in ChainMessages
      BY <3>1
    <3>3. QED
      BY <3>2 DEF ChainMessages
  <2>2. QED
    BY <1>2, <2>1 DEF Include, Step
<1>3. ASSUME NEW o \in Operators, Crash(o)
      PROVE  UNCHANGED vars
  BY <1>3 DEF Crash, vars
<1>4. ProduceBlock => UNCHANGED vars
  BY DEF ProduceBlock, vars
<1>5. Clock => Step
  BY DEF Clock, Step
<1>6. OtherTransaction => Step
  BY ContractAssumption DEF OtherTransaction, Step
<1>7. UNCHANGED systemVars => UNCHANGED vars
  BY DEF systemVars, vars
<1>8. QED
  BY <1>1, <1>2, <1>3, <1>4, <1>5, <1>6, <1>7 DEF SystemNext

\* What no step of the contract undoes.
LEMMA StepKeeps ==
    ASSUME IInv, [Step]_vars
    PROVE  /\ \A h \in UINT32 : IsStored(h) => IsStored(h)'
           /\ clientState'.unbondingPeriod = clientState.unbondingPeriod
           /\ blockTimestamp' >= blockTimestamp
<1>1. ClientCases
  BY StepCases DEF IInv
<1>2. /\ \A h \in UINT32 : IsStored(h) => IsStored(h)'
      /\ clientState'.unbondingPeriod = clientState.unbondingPeriod
  <2>1. CASE KeepClient
    BY <2>1 DEF KeepClient, IsStored
  <2>2. CASE AddsState
    <3>1. PICK o \in UpdateClientOutput :
              /\ CheckUpdateResult(o) = "Update"
              /\ StoreConsensusState(o.newHeight, o.newConsensusState)
      BY <2>2 DEF AddsState
    <3>2. \A h \in UINT32 : IsStored(h) => IsStored(h)'
      BY <3>1, AddedState DEF IInv
    <3>3. clientState'.unbondingPeriod = clientState.unbondingPeriod
      BY <3>1 DEF StoreConsensusState, IInv, TypeOK, ClientState
    <3>4. QED
      BY <3>2, <3>3
  <2>3. CASE Freeze
    BY <2>3 DEF Freeze, IsStored, IInv, TypeOK, ClientState
  <2>4. QED
    BY <1>1, <2>1, <2>2, <2>3 DEF ClientCases, FreezesOnUpdate, FreezesOnEvidence
<1>3. blockTimestamp' >= blockTimestamp
  <2>1. blockTimestamp \in Nat
    BY ContractAssumption DEF IInv, TypeOK
  <2>2. CASE AdvanceTime
    BY <2>1, <2>2, ContractAssumption DEF AdvanceTime
  <2>3. ASSUME ~AdvanceTime PROVE UNCHANGED blockTimestamp
    BY <2>3 DEF Step, vars, UpdateClient, Membership, HandleSP1MembershipProof,
       HandleSP1UpdateClientAndMembership, Misbehaviour, UpgradeClient, Reverted,
       Returned
  <2>4. QED
    BY <2>1, <2>2, <2>3
<1>4. QED
  BY <1>2, <1>3

-----------------------------------------------------------------------------
(* The invariant of the composed system.                                   *)

\* What an operator holds stays right while others act.
LEMMA LocalFrame ==
    ASSUME NEW local, LocalOK(local),
           head \in Heights, head' \in Heights, head' >= head,
           \A h \in UINT32 : IsStored(h) => IsStored(h)'
    PROVE  LocalOK(local)'
<1>1. /\ head \in Nat /\ head' \in Nat
      /\ 1..head \subseteq UINT32 /\ 1..head \subseteq 1..head'
  <2>1. /\ head \in Nat /\ head' \in Nat /\ 1..head \subseteq Heights
    BY ChainHeights
  <2>2. 1..head \subseteq UINT32
    BY <2>1, ChainHeights
  <2>3. \A n, k \in Nat : n <= k => 1..n \subseteq 1..k
    OBVIOUS
  <2>4. QED
    BY <2>1, <2>2, <2>3
<1>2. local.logged \in 0..head'
  BY <1>1 DEF LocalOK
<1>3. ASSUME Held(local.client) PROVE Held(local.client)'
  BY <1>1, <1>3 DEF Held
<1>4. ASSUME Proposed(local.msg) PROVE Proposed(local.msg)'
  BY <1>1, <1>4 DEF Proposed
<1>5. QED
  BY <1>1, <1>2, <1>3, <1>4 DEF LocalOK

\* A step of the operator o alone, to a local state that is right.
LEMMA LocalStepKeeps ==
    ASSUME OpInv, NEW o \in Operators, NEW local, LocalOK(local),
           op' = [op EXCEPT ![o] = local], UNCHANGED <<vars, head>>,
           mempool' \in [Operators -> Seq(ChainMessages)]
    PROVE  OpInv'
<1>1. /\ head' = head /\ blockTimestamp' = blockTimestamp
      /\ clientState' = clientState
      /\ \A h \in UINT32 : IsStored(h) => IsStored(h)'
      /\ op' = [op EXCEPT ![o] = local]
  BY DEF vars, IsStored
<1>2. head \in Heights /\ head' \in Heights /\ head' >= head
  BY <1>1, NodeAssumption DEF OpInv, Heights
<1>3. local \in Local
  BY DEF LocalOK
<1>4. op' \in [Operators -> Local]
  BY <1>1, <1>3 DEF OpInv
<1>5. ASSUME NEW q \in Operators PROVE HoldsRight(q)'
  <2>1. PICK l \in Local : op'[q] = l /\ LocalOK(l)
    BY <1>1, <1>3 DEF OpInv, HoldsRight
  <2>2. LocalOK(l)'
    BY <1>1, <1>2, <2>1, LocalFrame
  <2>3. QED
    BY <2>1, <2>2 DEF HoldsRight
<1>6. QED
  BY <1>1, <1>4, <1>5 DEF OpInv

\* The same of a step that is not a crash.
LEMMA BecomesKeeps ==
    ASSUME OpInv, NEW o \in Operators, NEW local, LocalOK(local),
           Becomes(o, local), mempool' \in [Operators -> Seq(ChainMessages)]
    PROVE  OpInv'
BY LocalStepKeeps DEF Becomes

\* A message made of blocks of the chain has its type and announces the chain.
LEMMA ProposedTyped ==
    ASSUME NEW t \in Heights, NEW n \in Heights, NEW env \in Env
    PROVE  UpdateClientMsg(Chain[t], Chain[n], env) \in ChainMessages
<1> DEFINE m == UpdateClientMsg(Chain[t], Chain[n], env)
<1>1. m.sp1Proof.publicValues = UpdateOutput(Chain[t], Chain[n], env)
  BY DEF UpdateClientMsg, SP1ProofFrom
<1>2. OfChain(m.sp1Proof.publicValues)
  BY <1>1, UpdateOutputFields DEF OfChain
<1>3. QED
  BY <1>2, UpdateTyped DEF ChainMessages

\* getClientState keeps the invariant: the height it reads is stored.
LEMMA GetClientStateKeeps ==
    ASSUME IInv, OpInv, NEW o \in Operators, GetClientState(o)
    PROVE  OpInv'
<1>1. PICK local \in Local : op[o] = local /\ LocalOK(local)
  BY DEF OpInv, HoldsRight
<1> DEFINE h == clientState.latestHeight.revisionHeight
           next == IF h \in 1..head
                   THEN [local EXCEPT !.pc = "targeting", !.client = clientState]
                   ELSE [Started(local.logged) EXCEPT !.pc = "exited",
                                                      !.exit = "failed"]
<1>2. Becomes(o, next) /\ mempool' = mempool
  BY <1>1 DEF GetClientState, Exited
<1>3. CASE h \in 1..head
  <2>1. next = [local EXCEPT !.pc = "targeting", !.client = clientState]
    BY <1>3
  <2>2. Held(clientState)
    BY <1>3 DEF Held, IInv, TypeOK, ParametersAreFixed, LatestHeightIsHighest
  <2>3. clientState \in ClientState
    BY DEF IInv, TypeOK
  <2>4. /\ next \in Local /\ next.pc = "targeting"
        /\ next.client = clientState /\ next.logged = local.logged
    BY <1>1, <2>1, <2>3 DEF LocalOK, Local, PCs, Exits
  <2>5. LocalOK(next)
    BY <1>1, <2>2, <2>4 DEF LocalOK
  <2>6. QED
    BY <1>2, <2>5, BecomesKeeps DEF OpInv
<1>4. CASE h \notin 1..head
  <2>1. next = [Started(local.logged) EXCEPT !.pc = "exited", !.exit = "failed"]
    BY <1>4
  <2>2. next \in Local /\ next.pc = "exited" /\ next.logged = local.logged
    BY <1>1, <2>1 DEF LocalOK, Local, PCs, Exits, Started
  <2>3. LocalOK(next)
    BY <1>1, <2>2 DEF LocalOK
  <2>4. QED
    BY <1>2, <2>3, BecomesKeeps DEF OpInv
<1>5. QED
  BY <1>3, <1>4


\* Fetching the target keeps it.
LEMMA GetTargetKeeps ==
    ASSUME OpInv, NEW o \in Operators, GetTarget(o)
    PROVE  OpInv'
<1>1. PICK local \in Local : op[o] = local /\ LocalOK(local)
  BY DEF OpInv, HoldsRight
<1> DEFINE next == [local EXCEPT !.pc = "proving", !.target = head]
<1>2. Becomes(o, next) /\ mempool' = mempool /\ local.pc = "targeting"
  BY <1>1 DEF GetTarget, At
<1>3. head \in Nat /\ head \in 1..head
  BY NodeAssumption DEF OpInv, Heights
<1>4. /\ next \in Local /\ next.pc = "proving" /\ next.target = head
      /\ next.client = local.client /\ next.logged = local.logged
  BY <1>1, <1>3 DEF LocalOK, Local, PCs
<1>5. LocalOK(next)
  BY <1>1, <1>2, <1>3, <1>4 DEF LocalOK
<1>6. QED
  BY <1>2, <1>5, BecomesKeeps DEF OpInv

\* Proving keeps it: what is to be sent is made of two blocks of the chain.
LEMMA ProveKeeps ==
    ASSUME IInv, OpInv, NEW o \in Operators, Prove(o)
    PROVE  OpInv'
<1>1. PICK local \in Local : op[o] = local /\ LocalOK(local)
  BY DEF OpInv, HoldsRight
<1> DEFINE t == local.client.latestHeight.revisionHeight
           n == local.target
<1>2. PICK skew \in ClockSkews :
          LET env == EnvOf(Chain[t], local.client, blockTimestamp + skew)
          IN  Becomes(o,
                  IF UpdateProvable(Chain[t], Chain[n], env)
                  THEN [local EXCEPT !.pc = "sending",
                            !.client = Nothing, !.target = 0,
                            !.msg = UpdateClientMsg(Chain[t], Chain[n], env)]
                  ELSE Exited(o, "panicked"))
  BY <1>1 DEF Prove, TrustedBlock
<1> DEFINE env == EnvOf(Chain[t], local.client, blockTimestamp + skew)
<1>3. local.pc = "proving" /\ mempool' = mempool
  BY <1>1 DEF Prove, At
<1>4. Held(local.client) /\ n \in 1..head /\ local.logged \in 0..head
  BY <1>1, <1>3 DEF LocalOK
<1>5. t \in 1..head /\ t \in Heights /\ n \in Heights /\ IsStored(t)
  BY <1>4, ChainHeights DEF Held, OpInv
<1>6. env \in Env
  <2>1. Chain[t].chainId \in ChainIds
    BY <1>5, ChainHeights, ChainAssumption DEF Block
  <2>2. blockTimestamp + skew \in UINT64
    <3>1. blockTimestamp \in DeploymentTimestamp..MaxTimestamp
      BY ContractAssumption DEF OpInv, IInv, TypeOK
    <3>2. QED
      BY <3>1, OperatorAssumption
  <2>3. QED
    BY <1>4, <2>1, <2>2 DEF Held, EnvOf, Env, ClientState
<1>7. CASE UpdateProvable(Chain[t], Chain[n], env)
  <2> DEFINE m == UpdateClientMsg(Chain[t], Chain[n], env)
             next == [local EXCEPT !.pc = "sending", !.client = Nothing,
                                   !.target = 0, !.msg = m]
  <2>1. Becomes(o, next)
    BY <1>2, <1>7
  <2>2. Proposed(m)
    <3>1. /\ env.chainId = Chain[t].chainId
          /\ env.trustThreshold = GenesisClientState.trustLevel
          /\ env.trustingPeriod = GenesisClientState.trustingPeriod
      BY <1>4 DEF Held, EnvOf
    <3>2. QED
      BY <1>4, <1>5, <1>6, <1>7, <3>1 DEF Proposed
  <2>3. m \in MsgUpdateClient
    BY <1>5, <1>6, ProposedTyped DEF ChainMessages
  <2>4. /\ next \in Local /\ next.pc = "sending" /\ next.msg = m
        /\ next.logged = local.logged
    <3> HIDE DEF m
    <3>1. QED
      BY <1>1, <2>3 DEF LocalOK, Local, PCs
  <2>5. LocalOK(next)
    BY <1>4, <2>2, <2>4 DEF LocalOK
  <2>6. QED
    <3> HIDE DEF next
    <3>1. QED
      BY <1>3, <2>1, <2>5, BecomesKeeps DEF OpInv
<1>8. CASE ~UpdateProvable(Chain[t], Chain[n], env)
  <2> DEFINE next == [Started(local.logged) EXCEPT !.pc = "exited",
                                                   !.exit = "panicked"]
  <2>1. Becomes(o, next)
    BY <1>1, <1>2, <1>8 DEF Exited
  <2>2. next \in Local /\ next.pc = "exited" /\ next.logged = local.logged
    BY <1>1 DEF LocalOK, Local, PCs, Exits, Started
  <2>3. LocalOK(next)
    BY <1>4, <2>2 DEF LocalOK
  <2>4. QED
    BY <1>3, <2>1, <2>3, BecomesKeeps DEF OpInv
<1>9. QED
  BY <1>7, <1>8

\* Sending keeps it: the mempool takes in messages of the chain.
LEMMA SendKeeps ==
    ASSUME OpInv, NEW o \in Operators, Send(o)
    PROVE  OpInv'
<1>1. PICK local \in Local : op[o] = local /\ LocalOK(local)
  BY DEF OpInv, HoldsRight
<1>2. local.pc = "sending" /\ Proposed(local.msg)
  BY <1>1 DEF Send, At, LocalOK
<1>3. local.msg \in ChainMessages
  BY <1>2, ChainHeights, ProposedTyped DEF Proposed, OpInv
<1>4. CASE UpdateClientError(op[o].msg) = NoError
  <2> DEFINE next == [local EXCEPT !.pc = "watching"]
  <2>1. /\ Becomes(o, next)
        /\ mempool' = [mempool EXCEPT ![o] = Append(@, local.msg)]
    BY <1>1, <1>4 DEF Send
  <2>2. mempool' \in [Operators -> Seq(ChainMessages)]
    BY <1>3, <2>1 DEF OpInv
  <2>3. /\ next \in Local /\ next.pc = "watching" /\ next.msg = local.msg
        /\ next.logged = local.logged
    BY <1>1 DEF LocalOK, Local, PCs
  <2>4. LocalOK(next)
    BY <1>1, <1>2, <2>3 DEF LocalOK
  <2>5. QED
    BY <2>1, <2>2, <2>4, BecomesKeeps
<1>5. CASE UpdateClientError(op[o].msg) # NoError
  <2> DEFINE next == [Started(local.logged) EXCEPT !.pc = "exited",
                                                   !.exit = "failed"]
  <2>1. Becomes(o, next) /\ mempool' = mempool
    BY <1>1, <1>5 DEF Send, Exited
  <2>2. next \in Local /\ next.pc = "exited" /\ next.logged = local.logged
    BY <1>1 DEF LocalOK, Local, PCs, Exits, Started
  <2>3. LocalOK(next)
    BY <1>1, <2>2 DEF LocalOK
  <2>4. QED
    BY <2>1, <2>3, BecomesKeeps DEF OpInv
<1>6. QED
  BY <1>4, <1>5


\* The end of a run keeps it: what run() logs is a block of the chain.
LEMMA FinishKeeps ==
    ASSUME OpInv, NEW o \in Operators, Finish(o)
    PROVE  OpInv'
<1>1. PICK local \in Local : op[o] = local /\ LocalOK(local)
  BY DEF OpInv, HoldsRight
<1> DEFINE n == local.msg.sp1Proof.publicValues.newHeight.revisionHeight
           next == [Started(n) EXCEPT
                        !.pc = IF OnlyOnce THEN "exited" ELSE "sleeping",
                        !.exit = IF OnlyOnce THEN "done" ELSE "none"]
<1>2. Becomes(o, next) /\ mempool' = mempool
  BY <1>1 DEF Finish
<1>3. n \in 1..head
  <2>1. Proposed(local.msg)
    BY <1>1 DEF Finish, At, LocalOK
  <2>2. PICK t, k \in 1..head, env \in Env :
            local.msg = UpdateClientMsg(Chain[t], Chain[k], env)
    BY <2>1 DEF Proposed
  <2>3. k \in Heights
    BY ChainHeights DEF OpInv
  <2>4. n = k
    BY <2>2, <2>3, NodeAssumption
    DEF UpdateClientMsg, SP1ProofFrom, UpdateOutput, HeightOf
  <2>5. QED
    BY <2>4
<1>4. head \in Nat /\ n \in Nat /\ n \in 0..head
  BY <1>3, ChainHeights DEF OpInv
<1>5. /\ next \in Local /\ next.pc \in {"exited", "sleeping"}
      /\ next.logged = n
  <2> HIDE DEF n
  <2>1. QED
    BY <1>4, OperatorAssumption DEF Local, PCs, Exits, Started
<1>6. LocalOK(next)
  BY <1>4, <1>5 DEF LocalOK
<1>7. QED
  <2> HIDE DEF next
  <2>1. QED
    BY <1>2, <1>6, BecomesKeeps DEF OpInv

\* Waking up and starting again keep it.
LEMMA WakeKeeps ==
    ASSUME OpInv, NEW o \in Operators, Wake(o) \/ Restart(o)
    PROVE  OpInv'
<1>1. PICK local \in Local : op[o] = local /\ LocalOK(local)
  BY DEF OpInv, HoldsRight
<1>2. ASSUME NEW next \in Local, next.pc = "polling", next.logged = local.logged,
             Becomes(o, next), mempool' = mempool
      PROVE  OpInv'
  <2>1. LocalOK(next)
    BY <1>1, <1>2 DEF LocalOK
  <2>2. QED
    BY <1>2, <2>1, BecomesKeeps DEF OpInv
<1>3. CASE Wake(o)
  <2> DEFINE next == [local EXCEPT !.pc = "polling"]
  <2>1. next \in Local /\ next.pc = "polling" /\ next.logged = local.logged
    BY <1>1 DEF Local, PCs
  <2>2. QED
    BY <1>1, <1>2, <1>3, <2>1 DEF Wake
<1>4. CASE Restart(o)
  <2> DEFINE next == Started(local.logged)
  <2>1. next \in Local /\ next.pc = "polling" /\ next.logged = local.logged
    BY <1>1 DEF Local, PCs, Exits, Started
  <2>2. QED
    BY <1>1, <1>2, <1>4, <2>1 DEF Restart
<1>5. QED
  BY <1>3, <1>4

\* A run killed anywhere keeps it: its transactions stay in the mempool.
LEMMA CrashKeeps ==
    ASSUME OpInv, NEW o \in Operators, Crash(o)
    PROVE  OpInv'
<1>1. PICK local \in Local : op[o] = local /\ LocalOK(local)
  BY DEF OpInv, HoldsRight
<1> DEFINE next == [Started(local.logged) EXCEPT !.pc = "exited",
                                                 !.exit = "killed"]
<1>2. op' = [op EXCEPT ![o] = next] /\ UNCHANGED <<vars, head, mempool>>
  BY <1>1 DEF Crash, Exited
<1>3. next \in Local /\ next.pc = "exited" /\ next.logged = local.logged
  BY <1>1 DEF Local, PCs, Exits, Started
<1>4. LocalOK(next)
  BY <1>1, <1>3 DEF LocalOK
<1>5. QED
  BY <1>2, <1>4, LocalStepKeeps DEF OpInv

\* Steps of the contract or the chain keep what every operator holds.
LEMMA OthersKeep ==
    ASSUME IInv, OpInv, [Step]_vars, op' = op,
           head' \in Heights, head' >= head,
           mempool' \in [Operators -> Seq(ChainMessages)]
    PROVE  OpInv'
<1>1. /\ \A h \in UINT32 : IsStored(h) => IsStored(h)'
      /\ clientState'.unbondingPeriod = clientState.unbondingPeriod
      /\ blockTimestamp' >= blockTimestamp
  BY StepKeeps
<1>2. ASSUME NEW q \in Operators PROVE HoldsRight(q)'
  <2>1. PICK l \in Local : op[q] = l /\ LocalOK(l)
    BY DEF OpInv, HoldsRight
  <2>2. LocalOK(l)'
    BY <1>1, <2>1, LocalFrame DEF OpInv
  <2>3. QED
    BY <2>1, <2>2 DEF HoldsRight
<1>3. blockTimestamp' >= DeploymentTimestamp
  <2>1. blockTimestamp \in Nat /\ DeploymentTimestamp \in Nat
    BY ContractAssumption DEF IInv, TypeOK
  <2>2. blockTimestamp' \in Nat
    BY StepInvariant, ContractAssumption DEF IInv, TypeOK
  <2>3. QED
    BY <1>1, <2>1, <2>2 DEF OpInv
<1>4. QED
  BY <1>1, <1>2, <1>3 DEF OpInv

SysInv == IInv /\ OpInv

\* Every step of the system keeps both invariants.
LEMMA SystemInvariant ==
    ASSUME SysInv, [SystemNext]_systemVars
    PROVE  SysInv'
<1>1. IInv /\ OpInv /\ [Step]_vars
  BY SystemStepIsStep DEF SysInv
<1>2. IInv'
  BY <1>1, StepInvariant
<1>3. /\ head \in Heights /\ head \in Nat /\ head >= head
      /\ mempool \in [Operators -> Seq(ChainMessages)]
  BY <1>1, ChainHeights DEF OpInv
<1>4. ASSUME NEW o \in Operators, OperatorStep(o) PROVE OpInv'
  BY <1>1, <1>4, GetClientStateKeeps, GetTargetKeeps, ProveKeeps, SendKeeps,
     FinishKeeps, WakeKeeps DEF OperatorStep
<1>5. ASSUME NEW o \in Operators, Include(o) PROVE OpInv'
  <2>1. /\ op' = op /\ head' = head
        /\ mempool[o] # <<>> /\ mempool' = [mempool EXCEPT ![o] = Tail(@)]
    BY <1>5 DEF Include
  <2>2. mempool' \in [Operators -> Seq(ChainMessages)]
    BY <1>1, <2>1 DEF OpInv
  <2>3. QED
    BY <1>1, <1>3, <2>1, <2>2, OthersKeep
<1>6. ASSUME NEW o \in Operators, Crash(o) PROVE OpInv'
  BY <1>1, <1>6, CrashKeeps
<1>7. ASSUME ProduceBlock PROVE OpInv'
  <2>1. /\ head' = head + 1 /\ head < Len(Chain)
        /\ op' = op /\ mempool' = mempool
    BY <1>7 DEF ProduceBlock
  <2>2. head' \in Heights /\ head' >= head
    BY <1>1, <1>3, <2>1, NodeAssumption DEF Heights, OpInv
  <2>3. QED
    BY <1>1, <1>3, <2>1, <2>2, OthersKeep
<1>8. ASSUME Clock \/ OtherTransaction \/ UNCHANGED systemVars PROVE OpInv'
  <2>1. op' = op /\ head' = head /\ mempool' = mempool
    BY <1>8 DEF Clock, OtherTransaction, systemVars, operatorVars
  <2>2. QED
    BY <1>1, <1>3, <2>1, OthersKeep
<1>9. OpInv'
  BY <1>4, <1>5, <1>6, <1>7, <1>8 DEF SystemNext, SysInv
<1>10. QED
  BY <1>2, <1>9 DEF SysInv

\* The deployed contract, the chain up to the block of the genesis states and
\* the operators just started.
LEMMA SystemInitInv == SystemInit => SysInv
<1>1. SUFFICES ASSUME SystemInit PROVE SysInv
  OBVIOUS
<1>2. Init /\ IInv
  BY <1>1, InitInvariant DEF SystemInit
<1>3. head \in Heights
  <2>1. PICK h \in Heights, arg \in {GenesisClientState.trustingPeriod, NoPeriod} :
            [clientState |-> GenesisClientState,
             consensusState |-> GenesisConsensusState]
                = GenesisOf(Chain[h], arg, GenesisClientState.trustLevel,
                            GenesisClientState.unbondingPeriod)
    BY OperatorAssumption
  <2>2. GenesisClientState.latestHeight = HeightOf(Chain[h])
    BY <2>1 DEF GenesisOf, ToSolClientState
  <2>3. GenesisClientState.latestHeight.revisionHeight = h
    BY <2>2, NodeAssumption DEF HeightOf
  <2>4. QED
    BY <1>1, <2>3 DEF SystemInit
<1>4. /\ blockTimestamp >= DeploymentTimestamp
      /\ clientState.unbondingPeriod = GenesisClientState.unbondingPeriod
  BY <1>2, ContractAssumption DEF Init
<1>5. mempool \in [Operators -> Seq(ChainMessages)]
  BY <1>1 DEF SystemInit
<1>6. /\ Started(0) \in Local /\ Started(0).pc = "polling"
      /\ Started(0).logged = 0
  BY DEF Local, PCs, Exits, Started
<1>7. LocalOK(Started(0))
  BY <1>3, <1>6, ChainHeights DEF LocalOK
<1>8. op \in [Operators -> Local] /\ \A o \in Operators : HoldsRight(o)
  BY <1>1, <1>6, <1>7 DEF SystemInit, HoldsRight
<1>9. QED
  BY <1>2, <1>3, <1>4, <1>5, <1>8 DEF SysInv, OpInv

\* Both invariants hold of the composed system.
LEMMA SystemInvariance == SystemSpec => []SysInv
BY SystemInitInv, SystemInvariant, PTL DEF SystemSpec

\* The contract cannot tell the composed system from any other senders.
LEMMA SystemIsStep == SystemSpec => StepSpec
<1>1. SysInv /\ [SystemNext]_systemVars => [Step]_vars
  BY SystemStepIsStep DEF SysInv
<1>2. SystemInit => Init
  BY DEF SystemInit
<1>3. QED
  BY <1>1, <1>2, SystemInvariance, PTL DEF SystemSpec, StepSpec

-----------------------------------------------------------------------------
(* The theorems.                                                           *)

\* Whatever the operators, the chain, the clock and other senders do, what an
\* operator holds has the type its next step needs: run() neither reads a block
\* the chain has not got nor sends what the contract cannot decode.
THEOREM OperatorTypeCorrect == SystemSpec => []OperatorTypeOK
<1>1. ASSUME SysInv PROVE OperatorTypeOK
  <2>1. head \in Heights
    BY <1>1 DEF SysInv, OpInv
  <2>2. ASSUME NEW o \in Operators
        PROVE  /\ op[o].pc \in PCs /\ op[o].exit \in Exits
               /\ op[o].logged \in 0..head
               /\ op[o].pc \in {"targeting", "proving"} =>
                      /\ op[o].client \in ClientState
                      /\ op[o].client.latestHeight.revisionHeight \in 1..head
               /\ At(o, "proving") => op[o].target \in 1..head
               /\ op[o].pc \in {"sending", "watching"} =>
                      op[o].msg \in MsgUpdateClient
    <3>1. PICK local \in Local : op[o] = local /\ LocalOK(local)
      BY <1>1 DEF SysInv, OpInv, HoldsRight
    <3>2. Proposed(local.msg) => local.msg \in MsgUpdateClient
      BY <2>1, ChainHeights, ProposedTyped DEF Proposed, ChainMessages
    <3>3. QED
      BY <3>1, <3>2 DEF LocalOK, Local, Held, At
  <2>3. ASSUME NEW o \in Operators, NEW i \in DOMAIN mempool[o]
        PROVE  mempool[o][i] \in MsgUpdateClient
    <3>1. mempool[o] \in Seq(ChainMessages)
      BY <1>1 DEF SysInv, OpInv
    <3>2. mempool[o][i] \in ChainMessages
      BY <3>1
    <3>3. QED
      BY <3>2 DEF ChainMessages
  <2>4. QED
    BY <2>1, <2>2, <2>3 DEF OperatorTypeOK, PCs, Exits
<1>2. QED
  BY <1>1, SystemInvariance, PTL

\* The contract of the composed system is a light client too: operators and
\* relayers are senders like any others.
THEOREM SystemIsLightClient == SystemSpec => IsLightClient
BY SystemIsStep, StepSpecRefines, PTL

\* So it keeps every promise of the contract: operators that crash, prove from
\* what they read before, and send again cannot break one.
THEOREM SystemKeepsContract ==
    SystemSpec => /\ [](/\ TypeOK
                        /\ LatestHeightIsHighest
                        /\ ChainOfTrust
                        /\ SameRevision
                        /\ CachedProofsWereVerified
                        /\ MembershipSound
                        /\ AcceptedUpdateIsStored)
                  /\ ConsensusStatesImmutable
                  /\ FrozenIsFinal
                  /\ AddedWhileTrusted
<1>1. IInv => /\ TypeOK
              /\ LatestHeightIsHighest
              /\ ChainOfTrust
              /\ SameRevision
              /\ CachedProofsWereVerified
  BY DEF IInv
<1>2. QED
  BY <1>1, SystemIsStep, StepSpecInvariance, StepMembershipCorrect,
     StepUpdateCorrect, StepImmutable, StepFinal, StepTrusted, PTL

\* No operator has the client frozen, by a race or by an update sent twice.
THEOREM SystemFreezingNeedsMisbehaviour ==
    ASSUME DistinctSeconds
    PROVE  SystemSpec => []FrozenOnlyByMisbehaviour
BY SystemIsStep, StepFreezing, PTL

=============================================================================
