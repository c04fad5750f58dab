---------------------------- MODULE AgreementProofs ----------------------------
(***************************************************************************)
(* Theorems about what the client of the composed system serves: the       *)
(* states of the chain the operators read, under an honest majority, and   *)
(* fresh updates, membership proofs and evidence, while the states stored  *)
(* are the chain's.                                                        *)
(*                                                                         *)
(* Who may sign and submit what is an assumption about constants, named    *)
(* where a theorem needs it.                                               *)
(***************************************************************************)
EXTENDS OperatorProofs, FiniteSetTheorems

-----------------------------------------------------------------------------
(* The states stored are the chain's.                                      *)

\* A trust level of a third or more is not reached by a third.
LEMMA NotAThird ==
    ASSUME NEW c \in Nat, NEW v \in Nat, NEW num \in Nat, NEW den \in Nat,
           den > 0, 3 * num >= den, 3 * c <= v
    PROVE  ~(c * den > v * num)
<1>1. (3 * c) * den <= v * den
  BY TicksMonotone
<1>2. den * v <= (3 * num) * v
  BY TicksMonotone
<1>3. /\ (3 * c) * den = 3 * (c * den) /\ (3 * num) * v = 3 * (v * num)
      /\ den * v = v * den
  OBVIOUS
<1>4. /\ c * den \in Nat /\ v * num \in Nat /\ v * den \in Nat
  OBVIOUS
<1>5. QED
  BY <1>1, <1>2, <1>3, <1>4

\* A header endorsed by the validators of a block of the chain has a signer that
\* is not faulty, so it is the chain's.
LEMMA EndorsedIsOfChain ==
    ASSUME HonestMajority, NEW t \in Heights, NEW b \in Blocks,
           NEW threshold \in TrustThreshold, ValidThreshold(threshold),
           EndorsedBy(ConsensusStateOf(Chain[t]), t, b, threshold),
           VerifyCommit(b)
    PROVE  b.height \in Heights /\ BlockId(b) = BlockId(Chain[b.height])
<1>1. PICK faulty \in SUBSET Validators :
          /\ 3 * Cardinality(faulty \cap Chain[t].nextValidators)
                 <= Cardinality(Chain[t].nextValidators)
          /\ \/ b.signers \subseteq faulty
             \/ b.height \in Heights /\ BlockId(b) = BlockId(Chain[b.height])
  BY DEF HonestMajority
<1>2. SUFFICES ASSUME b.signers \subseteq faulty PROVE FALSE
  BY <1>1
<1> DEFINE vals == Chain[t].nextValidators
           signed == b.signers \cap vals
           bad == faulty \cap vals
<1>3. vals \in SUBSET Validators
  BY ChainHeights, ChainAssumption DEF Block
<1>4. IsFiniteSet(vals)
  BY <1>3, FS_Subset DEF HonestMajority
<1>5. IsFiniteSet(bad) /\ Cardinality(bad) \in Nat /\ Cardinality(vals) \in Nat
  BY <1>4, FS_Subset, FS_CardinalityType
<1>6. /\ Cardinality(signed) <= Cardinality(bad)
      /\ Cardinality(signed) \in Nat
  <2>1. signed \in SUBSET bad
    BY <1>2
  <2>2. IsFiniteSet(signed) /\ Cardinality(signed) <= Cardinality(bad)
    BY <1>5, <2>1, FS_Subset
  <2>3. QED
    BY <2>2, FS_CardinalityType
<1>7. 3 * Cardinality(signed) <= Cardinality(vals)
  BY <1>1, <1>5, <1>6
<1>8. CASE b.validators = vals
  <2>1. SignedBy(b, vals, 2, 3)
    BY <1>8 DEF VerifyCommit
  <2>2. Cardinality(signed) * 3 > Cardinality(vals) * 2
    BY <2>1 DEF SignedBy
  <2>3. QED
    <3> HIDE DEF signed, vals
    <3>1. QED
      BY <1>5, <1>6, <1>7, <2>2
<1>9. CASE SignedBy(b, vals, threshold.numerator, threshold.denominator)
  <2>1. Cardinality(signed) * threshold.denominator
            > Cardinality(vals) * threshold.numerator
    BY <1>9 DEF SignedBy
  <2>2. /\ threshold.numerator \in Nat /\ threshold.denominator \in Nat
        /\ threshold.denominator > 0
        /\ 3 * threshold.numerator >= threshold.denominator
    BY DEF TrustThreshold, ValidThreshold
  <2>3. QED
    BY <1>5, <1>6, <1>7, <2>1, <2>2, NotAThird
<1>10. QED
  BY <1>8, <1>9 DEF EndorsedBy, ConsensusStateOf

\* The state of such a header is the chain's at its height.
LEMMA VerifiedIsOfChain ==
    ASSUME HonestMajority, IInv, StoresChain,
           NEW o \in UpdateClientOutput, Verified(o)
    PROVE  /\ OfChain(o)
           /\ o.trustedHeight.revisionHeight \in Heights
           /\ o.trustedConsensusState
                  = ConsensusStateOf(Chain[o.trustedHeight.revisionHeight])
           /\ o.trustedHeight.revisionHeight < o.newHeight.revisionHeight
<1> DEFINE t == o.trustedHeight.revisionHeight
<1>1. PICK b \in Blocks :
          /\ o.newConsensusState = ConsensusStateOf(b)
          /\ b.height = o.newHeight.revisionHeight
          /\ b.height > t
          /\ EndorsedBy(o.trustedConsensusState, t, b,
                        GenesisClientState.trustLevel)
          /\ VerifyCommit(b)
  BY VerifiedHeader
<1>2. t \in Heights /\ o.trustedConsensusState = ConsensusStateOf(Chain[t])
  BY DEF Verified, IsTrusted, StoresChain, UpdateClientOutput, Height
<1>3. /\ GenesisClientState.trustLevel \in TrustThreshold
      /\ ValidThreshold(GenesisClientState.trustLevel)
  BY ContractAssumption DEF Verified, CommitsUpdateClient, EnvIsValid, IInv,
     ParametersAreFixed, ClientState
<1>4. b.height \in Heights /\ BlockId(b) = BlockId(Chain[b.height])
  BY <1>1, <1>2, <1>3, EndorsedIsOfChain
<1>5. ConsensusStateOf(b) = ConsensusStateOf(Chain[b.height])
  BY <1>1, <1>4, ChainHeights, ChainAssumption, SameBlockSameState
<1>6. t < b.height
  BY <1>1, <1>2, <1>4, ChainHeights
<1>7. QED
  BY <1>1, <1>2, <1>4, <1>5, <1>6 DEF OfChain

\* Adding a state of the chain keeps the states the chain's.
LEMMA AddingOfChain ==
    ASSUME IInv, StoresChain, NEW o \in UpdateClientOutput, OfChain(o),
           CheckUpdateResult(o) = "Update",
           StoreConsensusState(o.newHeight, o.newConsensusState)
    PROVE  StoresChain'
<1>1. SUFFICES ASSUME NEW h \in UINT32, IsStored(h)'
               PROVE  /\ h \in Heights
                      /\ consensusStateHashes'[h] = ConsensusStateOf(Chain[h])
  BY DEF StoresChain
<1>2. CASE h = o.newHeight.revisionHeight
  BY <1>2, AddedState DEF IInv, OfChain
<1>3. CASE h # o.newHeight.revisionHeight
  BY <1>1, <1>3, AddedState DEF IInv, StoresChain
<1>4. QED
  BY <1>2, <1>3

\* The genesis state is the chain's.
LEMMA GenesisOfChain ==
    /\ GenesisHeight \in Heights
    /\ GenesisConsensusState = ConsensusStateOf(Chain[GenesisHeight])
    /\ GenesisClientState.chainId = Chain[GenesisHeight].chainId
    /\ GenesisClientState.trustingPeriod <= GenesisClientState.unbondingPeriod
<1>1. PICK h \in Heights, arg \in {GenesisClientState.trustingPeriod, NoPeriod} :
          /\ GenesisAllowed(arg, GenesisClientState.unbondingPeriod)
          /\ [clientState |-> GenesisClientState,
              consensusState |-> GenesisConsensusState]
                 = GenesisOf(Chain[h], arg, GenesisClientState.trustLevel,
                             GenesisClientState.unbondingPeriod)
  BY OperatorAssumption
<1>2. /\ GenesisClientState.latestHeight = HeightOf(Chain[h])
      /\ GenesisClientState.chainId = Chain[h].chainId
      /\ GenesisClientState.trustingPeriod
             = TrustingPeriodOf(arg, GenesisClientState.unbondingPeriod)
      /\ GenesisConsensusState = ConsensusStateOf(Chain[h])
  BY <1>1 DEF GenesisOf, ToSolClientState
<1>3. GenesisHeight = h
  BY <1>2, NodeAssumption DEF GenesisHeight, HeightOf
<1>4. QED
  BY <1>1, <1>2, <1>3 DEF GenesisAllowed

LEMMA InitOfChain == Init => AgreesWithChain
<1>1. SUFFICES ASSUME Init PROVE AgreesWithChain
  OBVIOUS
<1>2. ASSUME NEW h \in UINT32, IsStored(h)
      PROVE  h = GenesisHeight /\ consensusStateHashes[h] = GenesisConsensusState
  BY <1>1, <1>2 DEF Init, ConstructedHashes, IsStored, GenesisHeight
<1>3. StoresChain
  BY <1>2, GenesisOfChain DEF StoresChain
<1>4. QED
  BY <1>1, <1>3, GenesisAssumption DEF AgreesWithChain, Init

-----------------------------------------------------------------------------
(* Nothing of the chain's freezes the client.                              *)

\* An update from a state of the chain to a later one is not misbehaviour,
\* whether or not somebody stored the later one before.
LEMMA OfChainIsNoMisbehaviour ==
    ASSUME SecondsIncrease, StoresChain, NEW o, OfChain(o),
           o.newHeight.revisionHeight \in UINT32,
           o.trustedHeight.revisionHeight \in Heights,
           o.trustedConsensusState
               = ConsensusStateOf(Chain[o.trustedHeight.revisionHeight]),
           o.trustedHeight.revisionHeight < o.newHeight.revisionHeight
    PROVE  CheckUpdateResult(o) # "Misbehaviour"
<1> DEFINE t == o.trustedHeight.revisionHeight
           n == o.newHeight.revisionHeight
<1>1. n \in Heights /\ o.newConsensusState = ConsensusStateOf(Chain[n])
  BY DEF OfChain
<1>2. IsStored(n) => consensusStateHashes[n] = o.newConsensusState
  BY <1>1 DEF StoresChain
<1>3. ~(o.trustedConsensusState.timestamp >= o.newConsensusState.timestamp)
  <2>1. /\ o.trustedConsensusState.timestamp = Seconds(Chain[t].time)
        /\ o.newConsensusState.timestamp = Seconds(Chain[n].time)
    BY <1>1 DEF ConsensusStateOf
  <2>2. Seconds(Chain[t].time) < Seconds(Chain[n].time)
    BY <1>1 DEF SecondsIncrease
  <2>3. \A h \in Heights : Seconds(Chain[h].time) \in Int
    BY ChainHeights, ChainAssumption DEF Block, Seconds
  <2>4. QED
    BY <1>1, <2>1, <2>2, <2>3
<1>4. QED
  BY <1>2, <1>3 DEF CheckUpdateResult

\* Two headers of the chain do not conflict.
LEMMA ChainDoesNotConflict ==
    ASSUME SecondsIncrease, NEW b1 \in Blocks, NEW b2 \in Blocks,
           b1.height \in Heights, BlockId(b1) = BlockId(Chain[b1.height]),
           b2.height \in Heights, BlockId(b2) = BlockId(Chain[b2.height])
    PROVE  ~Conflicting(b1, b2)
<1>1. \A x, b \in Block : BlockId(x) = BlockId(b) => x.time = b.time
  <2>1. \A b \in Block : BlockId(b).time = b.time
    BY DEF BlockId, Block
  <2>2. QED
    BY <2>1
<1>2. /\ b1.time = Chain[b1.height].time /\ b2.time = Chain[b2.height].time
      /\ b1.time \in Nat /\ b2.time \in Nat
  BY <1>1, ChainHeights, ChainAssumption DEF Block
<1>3. ASSUME b1.height > b2.height, b1.time <= b2.time PROVE FALSE
  <2>1. b2.height < b1.height
    BY <1>3, ChainHeights
  <2>2. Seconds(b2.time) < Seconds(b1.time)
    BY <1>2, <2>1 DEF SecondsIncrease
  <2>3. Seconds(b1.time) <= Seconds(b2.time)
    BY <1>2, <1>3, SecondsMonotone
  <2>4. Seconds(b1.time) \in Int /\ Seconds(b2.time) \in Int
    BY <1>2, ChainAssumption DEF Seconds
  <2>5. QED
    BY <2>2, <2>3, <2>4
<1>4. QED
  BY <1>3 DEF Conflicting

\* There is no evidence over states of the chain.
LEMMA NoEvidence ==
    ASSUME HonestMajority, SecondsIncrease, IInv, StoresChain, FreezesOnEvidence
    PROVE  FALSE
<1>1. PICK o \in MisbehaviourOutput :
          /\ EnvIsValid(o.env)
          /\ IsTrusted(o.trustedHeight1, o.trustedConsensusState1)
          /\ IsTrusted(o.trustedHeight2, o.trustedConsensusState2)
          /\ CommitsMisbehaviour(o)
  BY DEF FreezesOnEvidence
<1> DEFINE Heights12 == {o.trustedHeight1.revisionHeight,
                         o.trustedHeight2.revisionHeight}
           threshold == o.env.trustThreshold
<1>2. \A h \in Heights12 :
          h \in Heights /\ TrustedConsensusStates(o)[h] = ConsensusStateOf(Chain[h])
  BY <1>1 DEF IsTrusted, StoresChain, MisbehaviourOutput, Height,
     TrustedConsensusStates
<1>3. threshold \in TrustThreshold /\ ValidThreshold(threshold)
  BY <1>1 DEF MisbehaviourOutput, Env, CommitsMisbehaviour
<1>4. PICK b1 \in Blocks, b2 \in Blocks :
          /\ \E t \in Heights12 :
                 EndorsedBy(TrustedConsensusStates(o)[t], t, b1, threshold)
          /\ \E t \in Heights12 :
                 EndorsedBy(TrustedConsensusStates(o)[t], t, b2, threshold)
          /\ VerifyCommit(b1) /\ VerifyCommit(b2)
          /\ Conflicting(b1, b2)
  BY <1>1 DEF CommitsMisbehaviour, VerifyMisbehaviourHeader, VerifyAgainstTrusted
<1>5. ASSUME NEW b \in Blocks, VerifyCommit(b),
             \E t \in Heights12 :
                 EndorsedBy(TrustedConsensusStates(o)[t], t, b, threshold)
      PROVE  b.height \in Heights /\ BlockId(b) = BlockId(Chain[b.height])
  <2>1. PICK t \in Heights : EndorsedBy(ConsensusStateOf(Chain[t]), t, b, threshold)
    BY <1>2, <1>5
  <2>2. QED
    BY <1>3, <1>5, <2>1, EndorsedIsOfChain
<1>6. QED
  BY <1>4, <1>5, ChainDoesNotConflict

\* Under an honest majority a transaction stores nothing but the chain's states,
\* also if blocks of one second have the client frozen.
LEMMA HonestStored ==
    ASSUME HonestMajority, IInv, StoresChain, [Step]_vars
    PROVE  StoresChain'
<1>1. ClientCases
  BY StepCases DEF IInv
<1>2. CASE UNCHANGED consensusStateHashes
  BY <1>2 DEF StoresChain, IsStored
<1>3. CASE AddsState
  <2>1. PICK o \in UpdateClientOutput :
            /\ Verified(o)
            /\ CheckUpdateResult(o) = "Update"
            /\ StoreConsensusState(o.newHeight, o.newConsensusState)
    BY <1>3 DEF AddsState
  <2>2. QED
    BY <2>1, VerifiedIsOfChain, AddingOfChain
<1>4. QED
  BY <1>1, <1>2, <1>3 DEF ClientCases, KeepClient, FreezesOnUpdate,
     FreezesOnEvidence, Freeze

\* Every transaction keeps the client truthful and active.
LEMMA StepAgrees ==
    ASSUME HonestMajority, SecondsIncrease, IInv, AgreesWithChain, [Step]_vars
    PROVE  AgreesWithChain'
<1>1. ClientCases
  BY StepCases DEF IInv
<1>2. CASE KeepClient
  BY <1>2 DEF KeepClient, AgreesWithChain, StoresChain, IsStored
<1>3. CASE AddsState
  <2>1. StoresChain'
    BY HonestStored DEF AgreesWithChain
  <2>2. clientState'.isFrozen = clientState.isFrozen
    BY <1>3 DEF AddsState, StoreConsensusState, IInv, TypeOK, ClientState
  <2>3. QED
    BY <2>1, <2>2 DEF AgreesWithChain
<1>4. ~FreezesOnUpdate
  <2>1. SUFFICES ASSUME NEW o \in UpdateClientOutput, Verified(o)
                 PROVE  CheckUpdateResult(o) # "Misbehaviour"
    BY DEF FreezesOnUpdate
  <2>2. o.newHeight.revisionHeight \in UINT32
    BY DEF UpdateClientOutput, Height
  <2>3. QED
    BY <2>1, <2>2, VerifiedIsOfChain, OfChainIsNoMisbehaviour DEF AgreesWithChain
<1>5. ~FreezesOnEvidence
  BY NoEvidence DEF AgreesWithChain
<1>6. QED
  BY <1>1, <1>2, <1>3, <1>4, <1>5 DEF ClientCases

\* Under an honest majority, and with blocks seconds apart, every state a client
\* stores is the chain's and nobody can freeze it: whatever relayers submit, and
\* whoever crashes.
THEOREM AgreementCorrect ==
    ASSUME HonestMajority, SecondsIncrease
    PROVE  SystemSpec => []AgreesWithChain
<1>1. SysInv /\ AgreesWithChain /\ [SystemNext]_systemVars => AgreesWithChain'
  BY SystemStepIsStep, StepAgrees DEF SysInv
<1>2. SystemInit => AgreesWithChain
  BY InitOfChain DEF SystemInit
<1>3. QED
  BY <1>1, <1>2, SystemInvariance, PTL DEF SystemSpec


-----------------------------------------------------------------------------
(* Without an assumption on signatures: nobody submits another header.     *)

\* What updateClient stores is what the message announces.
LEMMA UpdateStores ==
    ASSUME NEW m \in MsgUpdateClient, UpdateClient(m)
    PROVE  LET o == m.sp1Proof.publicValues
           IN  \/ UNCHANGED consensusStateHashes
               \/ /\ CheckUpdateResult(o) = "Update"
                  /\ StoreConsensusState(o.newHeight, o.newConsensusState)
BY DEF UpdateClient, Reverted, contractVars, Freeze, KeepClient

\* So is what an update with membership stores.
LEMMA MembershipStores ==
    ASSUME NEW m \in MsgMembership, Membership(m)
    PROVE  LET o == m.proof.sp1Proof.publicValues.updateClientOutput
           IN  \/ UNCHANGED consensusStateHashes
               \/ /\ m.proof.proofType = "SP1MembershipAndUpdateClientProof"
                  /\ CheckUpdateResult(o) = "Update"
                  /\ StoreConsensusState(o.newHeight, o.newConsensusState)
<1> DEFINE o == m.proof.sp1Proof.publicValues.updateClientOutput
<1>1. CASE HandleSP1MembershipProof(m)
  BY <1>1 DEF HandleSP1MembershipProof, Reverted, contractVars, KeepClient
<1>2. CASE /\ m.proof.proofType = "SP1MembershipAndUpdateClientProof"
           /\ HandleSP1UpdateClientAndMembership(m)
  <2>1. CASE UNCHANGED consensusStateHashes
    BY <2>1
  <2>2. CASE ~UNCHANGED consensusStateHashes
    <3>1. /\ CheckUpdateResult(o) = "Update"
          /\ StoreConsensusState(m.proofHeight, o.newConsensusState)
          /\ UcAndMembershipError(m) = NoError
      BY <1>2, <2>2 DEF HandleSP1UpdateClientAndMembership, Reverted,
         contractVars, KeepClient, ??, NoError
    <3>2. m.proofHeight = o.newHeight
      BY <3>1 DEF UcAndMembershipError, Require, ??, NoError
    <3>3. QED
      BY <1>2, <3>1, <3>2
  <2>3. QED
    BY <2>1, <2>2
<1>3. QED
  BY <1>1, <1>2 DEF Membership

\* No step stores anything but the chain's.
LEMMA OnlyChainStored ==
    ASSUME OnlyChainUpdates, IInv, OpInv, StoresChain, [SystemNext]_systemVars
    PROVE  StoresChain'
<1>1. ASSUME UNCHANGED consensusStateHashes PROVE StoresChain'
  BY <1>1 DEF StoresChain, IsStored
<1>2. ASSUME NEW m \in MsgUpdateClient, OfChain(m.sp1Proof.publicValues),
             UpdateClient(m)
      PROVE  StoresChain'
  <2>1. m.sp1Proof.publicValues \in UpdateClientOutput
    BY DEF MsgUpdateClient, SP1ProofOf
  <2>2. QED
    BY <1>1, <1>2, <2>1, UpdateStores, AddingOfChain
<1>3. ASSUME NEW m \in MembershipMsgs, Membership(m) PROVE StoresChain'
  <2> DEFINE o == m.proof.sp1Proof.publicValues.updateClientOutput
  <2>1. m \in MsgMembership
    BY ContractAssumption
  <2>2. SUFFICES ASSUME
            m.proof.proofType = "SP1MembershipAndUpdateClientProof",
            CheckUpdateResult(o) = "Update",
            StoreConsensusState(o.newHeight, o.newConsensusState)
        PROVE  StoresChain'
    BY <1>1, <1>3, <2>1, MembershipStores
  <2>3. OfChain(o)
    BY <2>2 DEF OnlyChainUpdates
  <2>4. o \in UpdateClientOutput
    <3>1. m.proof \in SP1MembershipAndUpdateClientProof
      BY <2>1, <2>2 DEF MsgMembership, MembershipProof, SP1MembershipProof
    <3>2. QED
      BY <3>1 DEF SP1MembershipAndUpdateClientProof, SP1ProofOf,
         UcAndMembershipOutput
  <2>5. QED
    BY <2>2, <2>3, <2>4, AddingOfChain
<1>4. ASSUME NEW o \in Operators, OperatorStep(o) \/ Crash(o) PROVE StoresChain'
  BY <1>1, <1>4 DEF OperatorStep, GetClientState, GetTarget, Prove, Send, Finish,
     Wake, Restart, Crash, Becomes, vars
<1>5. ASSUME NEW o \in Operators, Include(o) PROVE StoresChain'
  <2>1. mempool[o] \in Seq(ChainMessages) /\ mempool[o] # <<>>
    BY <1>5 DEF Include, OpInv
  <2>2. Head(mempool[o]) \in ChainMessages
    BY <2>1
  <2>3. QED
    BY <1>2, <1>5, <2>2 DEF Include, ChainMessages
<1>6. ASSUME OtherTransaction PROVE StoresChain'
  <2>1. CASE \E m \in UpdateMsgs : UpdateClient(m)
    BY <1>2, <2>1, ContractAssumption DEF OnlyChainUpdates
  <2>2. CASE \E m \in MembershipMsgs : Membership(m)
    BY <1>3, <2>2
  <2>3. CASE \/ \E m \in MisbehaviourMsgs : Misbehaviour(m)
             \/ UpgradeClient
    BY <1>1, <2>3 DEF Misbehaviour, UpgradeClient, Reverted, contractVars, Freeze
  <2>4. QED
    BY <1>6, <2>1, <2>2, <2>3 DEF OtherTransaction
<1>7. CASE ProduceBlock \/ Clock \/ UNCHANGED systemVars
  BY <1>1, <1>7 DEF ProduceBlock, Clock, AdvanceTime, contractVars, systemVars, vars
<1>8. QED
  BY <1>4, <1>5, <1>6, <1>7 DEF SystemNext

\* The states stored are the chain's: because nobody can have another one signed,
\* or because nobody who could submits it.
THEOREM StoresChainCorrect ==
    ASSUME HonestMajority \/ OnlyChainUpdates
    PROVE  SystemSpec => []StoresChain
<1>1. SysInv /\ StoresChain /\ [SystemNext]_systemVars => StoresChain'
  <2>1. CASE HonestMajority
    BY <2>1, HonestStored, SystemStepIsStep DEF SysInv
  <2>2. CASE OnlyChainUpdates
    BY <2>2, OnlyChainStored DEF SysInv
  <2>3. QED
    BY <2>1, <2>2
<1>2. SystemInit => StoresChain
  BY InitOfChain DEF SystemInit, AgreesWithChain
<1>3. QED
  BY <1>1, <1>2, SystemInvariance, PTL DEF SystemSpec


-----------------------------------------------------------------------------
(* What is made from the chain is accepted.                                *)

\* The blocks of the chain carry the client's chain identifier.
LEMMA ClientOfChain ==
    ASSUME IInv, NEW h \in Heights
    PROVE  /\ clientState.chainId = Chain[h].chainId
           /\ clientState.latestHeight.revisionNumber
                  = HeightOf(Chain[h]).revisionNumber
<1>1. clientState.chainId = Chain[h].chainId
  BY NodeAssumption, GenesisOfChain DEF IInv, ParametersAreFixed
<1>2. QED
  BY <1>1, BlockOfChain DEF IInv, SameRevision, HeightOf

\* An environment made from the client's own parameters passes in time.
LEMMA OwnEnvIsValid ==
    ASSUME IInv, OpInv, NEW h \in Heights, NEW env,
           env.chainId = Chain[h].chainId,
           env.trustThreshold = GenesisClientState.trustLevel,
           env.trustingPeriod = GenesisClientState.trustingPeriod,
           env.now <= blockTimestamp,
           blockTimestamp - env.now <= ALLOWED_SP1_CLOCK_DRIFT
    PROVE  EnvIsValid(env)
BY ClientOfChain, GenesisOfChain DEF EnvIsValid, IInv, ParametersAreFixed, OpInv

\* So does one made at this very moment.
LEMMA EnvNow ==
    ASSUME IInv, OpInv, NEW h \in Heights, NEW env,
           env = [chainId |-> Chain[h].chainId,
                  trustThreshold |-> GenesisClientState.trustLevel,
                  trustingPeriod |-> GenesisClientState.trustingPeriod,
                  now |-> blockTimestamp]
    PROVE  env \in Env /\ EnvIsValid(env)
<1>1. /\ blockTimestamp \in 0..MaxTimestamp
      /\ blockTimestamp \in Nat /\ ALLOWED_SP1_CLOCK_DRIFT \in Nat
  BY ContractAssumption DEF IInv, TypeOK
<1>2. env \in Env
  <2>1. env = EnvOf(Chain[h], GenesisClientState, blockTimestamp)
    BY DEF EnvOf
  <2>2. QED
    BY <1>1, <2>1, EnvOfTyped, ContractAssumption DEF ClientState
<1>3. EnvIsValid(env)
  BY <1>1, OwnEnvIsValid
<1>4. QED
  BY <1>2, <1>3

\* A state of the chain that is stored passes as a trusted one.
LEMMA StoredIsTrusted ==
    ASSUME StoresChain, NEW t \in Heights, IsStored(t)
    PROVE  IsTrusted(HeightOf(Chain[t]), ConsensusStateOf(Chain[t]))
BY BlockOfChain DEF StoresChain, IsTrusted

\* So does an update from a stored state to a block the program verifies, and
\* whatever was stored meanwhile it is no misbehaviour.
LEMMA UpdateOfChainAccepted ==
    ASSUME SecondsIncrease, StoresChain, ~clientState.isFrozen,
           NEW t \in Heights, NEW n \in Heights, NEW env \in Env,
           IsStored(t), EnvIsValid(env), UpdateProvable(Chain[t], Chain[n], env)
    PROVE  /\ UpdateClientError(UpdateClientMsg(Chain[t], Chain[n], env)) = NoError
           /\ CheckUpdateResult(UpdateOutput(Chain[t], Chain[n], env))
                  # "Misbehaviour"
<1> DEFINE o == UpdateOutput(Chain[t], Chain[n], env)
<1>1. UpdateClientError(UpdateClientMsg(Chain[t], Chain[n], env)) = NoError
  BY StoredIsTrusted, UpdateTaken
<1>2. CheckUpdateResult(o) # "Misbehaviour"
  <2>1. /\ o.trustedHeight.revisionHeight = t /\ o.newHeight.revisionHeight = n
        /\ o.trustedConsensusState = ConsensusStateOf(Chain[t])
        /\ o.newConsensusState = ConsensusStateOf(Chain[n])
    BY UpdateOutputFields
  <2>2. t < n /\ n \in UINT32
    BY UpdateProved, ChainHeights
  <2>3. OfChain(o)
    BY <2>1 DEF OfChain
  <2> HIDE DEF o
  <2>4. QED
    BY <2>1, <2>2, <2>3, OfChainIsNoMisbehaviour
<1>3. QED
  BY <1>1, <1>2

\* A fresh proposal is accepted, however stale the client state it was built from.
LEMMA ProposalAccepted ==
    ASSUME SecondsIncrease, SysInv, AgreesWithChain
    PROVE  FreshProposalAccepted
<1>1. SUFFICES ASSUME NEW o \in Operators, At(o, "sending"),
                      Fresh(op[o].msg.sp1Proof.publicValues.env)
               PROVE  /\ UpdateClientError(op[o].msg) = NoError
                      /\ CheckUpdateResult(op[o].msg.sp1Proof.publicValues)
                             # "Misbehaviour"
  BY DEF FreshProposalAccepted
<1>2. Proposed(op[o].msg)
  BY <1>1 DEF SysInv, OpInv, HoldsRight, LocalOK, At
<1>3. PICK t, n \in 1..head, env \in Env :
          /\ IsStored(t)
          /\ env.chainId = Chain[t].chainId
          /\ env.trustThreshold = GenesisClientState.trustLevel
          /\ env.trustingPeriod = GenesisClientState.trustingPeriod
          /\ UpdateProvable(Chain[t], Chain[n], env)
          /\ op[o].msg = UpdateClientMsg(Chain[t], Chain[n], env)
  BY <1>2 DEF Proposed
<1>4. t \in Heights /\ n \in Heights
  BY ChainHeights DEF SysInv, OpInv
<1>5. op[o].msg.sp1Proof.publicValues = UpdateOutput(Chain[t], Chain[n], env)
  BY <1>3 DEF UpdateClientMsg, SP1ProofFrom
<1>6. Fresh(env)
  BY <1>1, <1>4, <1>5, UpdateOutputFields
<1>7. EnvIsValid(env)
  BY <1>3, <1>4, <1>6, OwnEnvIsValid DEF SysInv, Fresh
<1>8. QED
  BY <1>3, <1>4, <1>5, <1>7, UpdateOfChainAccepted DEF SysInv, AgreesWithChain

\* Under an honest majority, what an operator proposes in time is accepted and
\* never freezes the client, whatever happened since it read the client state.
THEOREM FreshProposalCorrect ==
    ASSUME HonestMajority, SecondsIncrease
    PROVE  SystemSpec => []FreshProposalAccepted
<1>1. SysInv /\ AgreesWithChain => FreshProposalAccepted
  BY ProposalAccepted
<1>2. QED
  BY <1>1, AgreementCorrect, SystemInvariance, PTL


\* A membership proof of the chain's store at a stored height is accepted.
LEMMA MembershipAccepted ==
    ASSUME IInv, StoresChain PROVE MembershipServed
<1>1. SUFFICES ASSUME NEW h \in Heights \ {1}, NEW paths \in PathLists,
                      IsStored(h), ~clientState.isFrozen
               PROVE  /\ KVPairsProvable(paths, Chain[h])
                      /\ \A i \in DOMAIN paths :
                             HandleSP1MembershipProofError(
                                 MembershipMsgOf(h, paths, i)) = NoError
  BY DEF MembershipServed, MembershipMsgOf
<1>2. /\ paths \in Seq(Paths) /\ Len(paths) \in 1..UINT8_MAX
      /\ DOMAIN paths = 1..Len(paths)
  BY OperatorAssumption
<1>3. KVPairsProvable(paths, Chain[h])
  BY <1>2, AnswersProvable
<1>4. consensusStateHashes[h] = ConsensusStateOf(Chain[h])
  BY <1>1, ChainHeights DEF StoresChain
<1>5. QED
  BY <1>1, <1>2, <1>3, <1>4, ClientOfChain, MembershipTaken

\* One that also carries an update from a stored state is accepted as well,
\* whether or not the target is stored already.
LEMMA UcAndMembershipAccepted ==
    ASSUME SecondsIncrease, IInv, OpInv, StoresChain PROVE UcAndMembershipServed
<1>1. SUFFICES
          ASSUME NEW t \in Heights, NEW h \in 1..head, NEW paths \in PathLists,
                 NEW client,
                 client = [GenesisClientState EXCEPT
                               !.latestHeight.revisionHeight = t],
                 NEW env, env = EnvOf(Chain[t], client, blockTimestamp),
                 NEW hashes,
                 hashes = IF IsStored(h) THEN consensusStateHashes
                          ELSE HashesWith(HeightOf(Chain[h]),
                                          ConsensusStateOf(Chain[h])),
                 IsStored(t), ~clientState.isFrozen,
                 UcAndMembershipProvable(Chain[t], Chain[h], env, paths),
                 NEW i \in DOMAIN paths
          PROVE  LET m == UcAndMembershipMsgOf(t, h, env, paths, i)
                 IN  /\ UcAndMembershipError(m) = NoError
                     /\ UcAndMembershipFinalError(m, hashes) = NoError
  BY DEF UcAndMembershipServed, UcAndMembershipMsgOf
<1>2. /\ h \in Heights /\ h \in UINT32
      /\ paths \in Seq(Paths) /\ i \in 1..Len(paths)
  BY ChainHeights, OperatorAssumption DEF OpInv
<1>3. env = [chainId |-> Chain[t].chainId,
             trustThreshold |-> GenesisClientState.trustLevel,
             trustingPeriod |-> GenesisClientState.trustingPeriod,
             now |-> blockTimestamp]
  BY <1>1, ContractAssumption DEF EnvOf, ClientState
<1>4. env \in Env /\ EnvIsValid(env)
  BY <1>1, <1>3, EnvNow
<1>5. CheckUpdateResult(UpdateOutput(Chain[t], Chain[h], env)) # "Misbehaviour"
  BY <1>1, <1>2, <1>4, UpdateOfChainAccepted DEF UcAndMembershipProvable
<1>6. hashes[h] = ConsensusStateOf(Chain[h])
  <2>1. CASE IsStored(h)
    BY <1>1, <1>2, <2>1 DEF StoresChain
  <2>2. CASE ~IsStored(h)
    <3>1. hashes = [consensusStateHashes EXCEPT ![h] = ConsensusStateOf(Chain[h])]
      BY <1>1, <1>2, <2>2, BlockOfChain DEF HashesWith
    <3>2. QED
      BY <1>2, <3>1 DEF IInv, TypeOK
  <2>3. QED
    BY <2>1, <2>2
<1>7. IsTrusted(HeightOf(Chain[t]), ConsensusStateOf(Chain[t]))
  BY <1>1, StoredIsTrusted
<1>8. QED
  BY <1>1, <1>2, <1>4, <1>5, <1>6, <1>7, UcAndMembershipTaken

\* Evidence the program verifies over stored states is accepted: the node was
\* asked for the very heights the output names.
LEMMA EvidenceAccepted ==
    ASSUME IInv, OpInv, StoresChain PROVE EvidenceServed
<1>1. SUFFICES
          ASSUME NEW e \in Evidence,
                 NEW env,
                 env = EnvOf(EvidenceBlock(e.trustedHeight2), GenesisClientState,
                             blockTimestamp),
                 ~clientState.isFrozen,
                 NodeHeight(e.trustedHeight1) \in Heights,
                 NodeHeight(e.trustedHeight2) \in Heights,
                 IsStored(NodeHeight(e.trustedHeight1)),
                 IsStored(NodeHeight(e.trustedHeight2)),
                 EvidenceProvable(e, env)
          PROVE  LET m == SubmitMisbehaviourMsg(e, env)
                     o == m.sp1Proof.publicValues
                 IN  /\ MisbehaviourError(m) = NoError
                     /\ o.trustedHeight1.revisionHeight = e.trustedHeight1
                     /\ o.trustedHeight2.revisionHeight = e.trustedHeight2
  BY DEF EvidenceServed
<1> DEFINE t1 == e.trustedHeight1
           t2 == e.trustedHeight2
           o == SubmitMisbehaviourMsg(e, env).sp1Proof.publicValues
<1>2. /\ t1 \in Heights /\ t2 \in Heights /\ IsStored(t1) /\ IsStored(t2)
      /\ EvidenceBlock(t2) = Chain[t2]
  BY <1>1, EvidenceHeights
<1>3. env \in Env /\ EnvIsValid(env)
  <2>1. env = [chainId |-> Chain[t2].chainId,
               trustThreshold |-> GenesisClientState.trustLevel,
               trustingPeriod |-> GenesisClientState.trustingPeriod,
               now |-> blockTimestamp]
    BY <1>1, <1>2 DEF EnvOf
  <2>2. QED
    BY <1>2, <2>1, EnvNow
<1>4. env.chainId = Chain[t2].chainId
  BY <1>1, <1>2 DEF EnvOf
<1>5. MisbehaviourError(SubmitMisbehaviourMsg(e, env)) = NoError
  <2>1. e \in MisbehaviourEvidence
    BY OperatorAssumption
  <2>2. QED
    BY <1>1, <1>2, <1>3, <1>4, <2>1, StoredIsTrusted, EvidenceTaken
<1>6. o.trustedHeight1 = HeightOf(Chain[t1]) /\ o.trustedHeight2 = HeightOf(Chain[t2])
  BY <1>1, EvidenceFields
<1>7. QED
  BY <1>2, <1>5, <1>6, BlockOfChain

-----------------------------------------------------------------------------
(* Served, in every reachable state.                                       *)

\* While the states stored are the chain's: any list of paths can be proved at a
\* stored height but the first, and each is answered.
THEOREM MembershipServedCorrect ==
    ASSUME HonestMajority \/ OnlyChainUpdates
    PROVE  SystemSpec => []MembershipServed
<1>1. SysInv /\ StoresChain => MembershipServed
  BY MembershipAccepted DEF SysInv
<1>2. QED
  BY <1>1, StoresChainCorrect, SystemInvariance, PTL

\* One transaction updates to any provable block and reads any path there.
THEOREM UcAndMembershipServedCorrect ==
    ASSUME HonestMajority \/ OnlyChainUpdates, SecondsIncrease
    PROVE  SystemSpec => []UcAndMembershipServed
<1>1. SysInv /\ StoresChain => UcAndMembershipServed
  BY UcAndMembershipAccepted DEF SysInv
<1>2. QED
  BY <1>1, StoresChainCorrect, SystemInvariance, PTL

\* Evidence of a fork can always be submitted, and is evidence over the heights
\* it names.
THEOREM EvidenceServedCorrect ==
    ASSUME HonestMajority \/ OnlyChainUpdates
    PROVE  SystemSpec => []EvidenceServed
<1>1. SysInv /\ StoresChain => EvidenceServed
  BY EvidenceAccepted DEF SysInv
<1>2. QED
  BY <1>1, StoresChainCorrect, SystemInvariance, PTL

-----------------------------------------------------------------------------
(* What membership answers.                                                *)

\* A pair a root of the chain proves is the answer of the store the root commits
\* to.
LEMMA ProvedIsAnswered ==
    ASSUME NEW h \in Heights, NEW path, NEW value,
           Proves(Chain[h].appHash, [path |-> path, value |-> value])
    PROVE  value = Query(path, h - 1).value
<1>1. /\ Store[Chain[h].appHash] = StateAt[h - 1]
      /\ \A p \in DOMAIN StateAt[h - 1] : StateAt[h - 1][p] # EmptyValue
  BY NodeAssumption
<1>2. QED
  BY <1>1 DEF Proves, Query

\* The fact looked up in a state of the chain is the chain's.
LEMMA AnswerOfChain ==
    ASSUME MembershipSound, MembershipDecoded, StoresChain
    PROVE  AnswersAreTheChains
<1> DEFINE h == receipt.msg.proofHeight.revisionHeight
<1>1. SUFFICES ASSUME receipt.fn = "membership", receipt.error = NoError
               PROVE  /\ h \in Heights
                      /\ receipt.msg.value = Query(receipt.msg.path, h - 1).value
                      /\ receipt.timestamp = Seconds(Chain[h].time)
  BY DEF AnswersAreTheChains
<1>2. /\ IsStored(h)
      /\ receipt.timestamp = consensusStateHashes[h].timestamp
      /\ Proves(consensusStateHashes[h].root,
                [path |-> receipt.msg.path, value |-> receipt.msg.value])
  BY <1>1 DEF MembershipSound
<1>3. h \in UINT32
  BY <1>1 DEF MembershipDecoded, MsgMembership, Height
<1>4. h \in Heights /\ consensusStateHashes[h] = ConsensusStateOf(Chain[h])
  BY <1>2, <1>3 DEF StoresChain
<1>5. /\ consensusStateHashes[h].root = Chain[h].appHash
      /\ consensusStateHashes[h].timestamp = Seconds(Chain[h].time)
  BY <1>4 DEF ConsensusStateOf
<1>6. QED
  BY <1>2, <1>4, <1>5, ProvedIsAnswered

\* What the client tells its callers about the counterparty is true: whatever
\* anybody submits, in whatever order, to whichever entry point.
THEOREM AnswersCorrect ==
    ASSUME HonestMajority \/ OnlyChainUpdates
    PROVE  SystemSpec => []AnswersAreTheChains
<1>1. StoresChain /\ MembershipSound /\ MembershipDecoded => AnswersAreTheChains
  BY AnswerOfChain
<1>2. QED
  BY <1>1, StoresChainCorrect, SystemIsStep, StepMembershipCorrect, StepDecoded, PTL

=============================================================================
