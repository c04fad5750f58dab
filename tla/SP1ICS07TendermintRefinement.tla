--------------------- MODULE SP1ICS07TendermintRefinement ---------------------
(***************************************************************************)
(* The contract implements LightClient, for every value of the constants.  *)
(*                                                                         *)
(* Adding a state is Serve with Extend, a membership answer is Serve with  *)
(* Reply, both ways to freeze are Freeze, what changes neither the client  *)
(* nor the answer is Refuse, the clock is Tick.                            *)
(***************************************************************************)
EXTENDS SP1ICS07TendermintProofs

-----------------------------------------------------------------------------
(* Abstract functions of the contract's state.                             *)

\* Where and what is trusted.
LEMMA TrustedIs ==
    /\ DOMAIN Trusted = {h \in UINT32 : IsStored(h)}
    /\ \A h \in UINT32 : IsStored(h) => Trusted[h] = consensusStateHashes[h]
BY DEF Trusted

\* The genesis header is one of those the deployment took its states from.
LEMMA GenesisHeaderIs ==
    /\ GenesisHeader \in CommittedHeaders
    /\ GenesisClientState.latestHeight = HeightOf(GenesisHeader)
    /\ GenesisConsensusState = ConsensusStateOf(GenesisHeader)
<1>1. \E b \in CommittedHeaders :
          /\ GenesisClientState.latestHeight = HeightOf(b)
          /\ GenesisConsensusState = ConsensusStateOf(b)
  BY GenesisAssumption DEF CommittedHeaders
<1>2. QED
  BY <1>1 DEF GenesisHeader

\* A set of heights has at most one greatest element.
LEMMA HighestIs ==
    ASSUME NEW heights \in SUBSET Int, NEW top \in heights,
           \A h \in heights : h <= top
    PROVE  LC!Highest(heights) = top
<1>1. \A h \in heights : (\A x \in heights : x <= h) => h = top
  OBVIOUS
<1>2. QED
  BY <1>1 DEF LC!Highest

\* Dropping the fraction of a second keeps the order of times.
LEMMA SecondsMonotone ==
    ASSUME NEW x \in Nat, NEW y \in Nat, x <= y
    PROVE  Seconds(x) <= Seconds(y)
<1> DEFINE k == TicksPerSecond
           p == x \div k
           q == y \div k
<1>1. k \in Nat \ {0}
  BY ChainAssumption
<1>2. /\ p \in Int /\ q \in Int
      /\ p * k <= x /\ y < (q + 1) * k
  BY <1>1
<1>3. (q + 1) * k > p * k
  BY <1>1, <1>2
<1>4. q + 1 > p
  BY <1>1, <1>2, <1>3, TicksCompare
<1>5. QED
  BY <1>2, <1>4 DEF Seconds

\* Signed headers of one block give one consensus state.
LEMMA SameBlockSameState ==
    ASSUME NEW x \in Block, NEW b \in Block, BlockId(x) = BlockId(b)
    PROVE  ConsensusStateOf(x) = ConsensusStateOf(b)
<1>1. /\ BlockId(x).time = x.time /\ BlockId(b).time = b.time
      /\ BlockId(x).appHash = x.appHash /\ BlockId(b).appHash = b.appHash
      /\ BlockId(x).nextValidators = x.nextValidators
      /\ BlockId(b).nextValidators = b.nextValidators
  BY DEF BlockId, Block
<1>2. QED
  BY <1>1 DEF ConsensusStateOf

-----------------------------------------------------------------------------
(* A header that a program verified is vouched for, at this very moment.   *)

\* The environment's clock is at most the drift behind the contract's, so a
\* state within its trusting period can still vouch.
LEMMA NotExpired ==
    ASSUME IInv, NEW env \in Env, EnvIsValid(env),
           NEW trusted \in ConsensusState, WithinTrustPeriod(trusted, env)
    PROVE  ~CannotVouch(trusted, blockTimestamp)
<1>1. HostTimestamp(env) = env.now * TicksPerSecond
  BY ClockDoesNotWrap DEF IInv, TypeOK, EnvIsValid
<1>2. /\ trusted.timestamp \in Nat /\ env.trustingPeriod \in Nat
      /\ env.now \in Nat
  BY MsgsAssumption DEF ConsensusState, Env, UINT32, UINT64
<1>3. trusted.timestamp + env.trustingPeriod \in Int /\ env.now \in Int
  BY <1>2
<1>4. trusted.timestamp + env.trustingPeriod > env.now
  BY <1>1, <1>3, ChainAssumption, TicksCompare DEF WithinTrustPeriod
<1>5. /\ blockTimestamp - env.now <= ALLOWED_SP1_CLOCK_DRIFT
      /\ env.trustingPeriod = GenesisClientState.trustingPeriod
  BY DEF EnvIsValid, IInv, ParametersAreFixed
<1>6. blockTimestamp \in Int /\ ALLOWED_SP1_CLOCK_DRIFT \in Int
  BY ContractAssumption DEF IInv, TypeOK
<1>7. QED
  BY <1>2, <1>4, <1>5, <1>6 DEF CannotVouch

\* What both header checks of the programs give.
LEMMA VerifiedIsVouched ==
    ASSUME IInv, NEW env \in Env, EnvIsValid(env),
           NEW height \in Height, NEW trusted \in ConsensusState,
           IsTrusted(height, trusted), NEW b \in Blocks,
           ValidateBasic(height, b),
           VerifyAgainstTrusted(trusted, height, b, env)
    PROVE  b \in CommittedHeaders /\ LC!Vouched(b)
<1> DEFINE t == height.revisionHeight
<1>1. /\ env.chainId = GenesisClientState.chainId
      /\ env.trustThreshold = GenesisClientState.trustLevel
  BY DEF EnvIsValid, IInv, ParametersAreFixed
<1>2. b \in CommittedHeaders
  BY <1>1 DEF VerifyAgainstTrusted, CommittedHeaders
<1>3. t \in DOMAIN Trusted /\ Trusted[t] = trusted
  BY TrustedIs DEF IsTrusted, Height
<1>4. t < RevisionHeightOf(b)
  BY DEF ValidateBasic, RevisionHeightOf
<1>5. VouchesFor(trusted, t, b)
  BY <1>1 DEF VerifyAgainstTrusted, VouchesFor
<1>6. ~CannotVouch(trusted, blockTimestamp)
  BY NotExpired DEF VerifyAgainstTrusted
<1>7. QED
  BY <1>2, <1>3, <1>4, <1>5, <1>6 DEF LC!Vouched

\* The header behind a verified update.
LEMMA UpdateIsVouched ==
    ASSUME IInv, NEW o \in UpdateClientOutput, Verified(o)
    PROVE  \E b \in CommittedHeaders :
               /\ LC!Vouched(b)
               /\ b.height = o.newHeight.revisionHeight
               /\ o.newConsensusState = ConsensusStateOf(b)
               /\ b.height > o.trustedHeight.revisionHeight
<1>1. PICK b \in Blocks :
          /\ VerifyHeader(o.trustedConsensusState, o.trustedHeight, b, o.env)
          /\ o.newHeight = HeightOf(b)
          /\ o.newConsensusState = ConsensusStateOf(b)
  BY DEF Verified, CommitsUpdateClient
<1>2. /\ o.env \in Env /\ o.trustedHeight \in Height
      /\ o.trustedConsensusState \in ConsensusState
  BY DEF UpdateClientOutput
<1>3. b \in CommittedHeaders /\ LC!Vouched(b)
  BY <1>1, <1>2, VerifiedIsVouched DEF Verified, VerifyHeader
<1>4. b.height \in Int /\ o.trustedHeight.revisionHeight \in Int
  BY <1>2, ChainAssumption, MsgsAssumption DEF Block, Height, UINT32
<1>5. b.height > o.trustedHeight.revisionHeight
  BY <1>1, <1>4 DEF VerifyHeader, ValidateBasic
<1>6. QED
  BY <1>1, <1>3, <1>5 DEF HeightOf

\* Every stored state is that of a header the abstract client knows.
LEMMA StoredIsKnown ==
    ASSUME IInv, NEW h \in UINT32, IsStored(h)
    PROVE  \E x \in CommittedHeaders :
               /\ LC!Known(x)
               /\ x.height = h
               /\ consensusStateHashes[h] = ConsensusStateOf(x)
<1>1. PICK x \in Blocks :
          /\ x.height = h
          /\ x.chainId = GenesisClientState.chainId
          /\ consensusStateHashes[h] = ConsensusStateOf(x)
          /\ VerifyCommit(x)
  BY DEF IInv, StoredFromBlocks
<1>2. x \in CommittedHeaders
  BY <1>1 DEF CommittedHeaders
<1>3. LC!Known(x)
  BY <1>1, TrustedIs DEF LC!Known, RevisionHeightOf
<1>4. QED
  BY <1>1, <1>2, <1>3

-----------------------------------------------------------------------------
(* Steps.                                                                  *)

\* Adding a state extends what is trusted by a header that is vouched for.
LEMMA AddingExtends ==
    ASSUME IInv, IInv', AddsState
    PROVE  ~clientState.isFrozen /\ ~clientState'.isFrozen /\ LC!Extend
<1>1. PICK o \in UpdateClientOutput :
          /\ Verified(o)
          /\ CheckUpdateResult(o) = "Update"
          /\ StoreConsensusState(o.newHeight, o.newConsensusState)
  BY DEF AddsState
<1> DEFINE new == o.newHeight.revisionHeight
<1>2. PICK b \in CommittedHeaders :
          /\ LC!Vouched(b)
          /\ b.height = new
          /\ o.newConsensusState = ConsensusStateOf(b)
  BY <1>1, UpdateIsVouched
<1>3. /\ new \in UINT32
      /\ ~IsStored(new)
      /\ consensusStateHashes'[new] = o.newConsensusState
      /\ IsStored(new)'
      /\ \A h \in UINT32 \ {new} :
             /\ consensusStateHashes'[h] = consensusStateHashes[h]
             /\ IsStored(h)' <=> IsStored(h)
  BY <1>1, AddedState DEF IInv
<1>4. DOMAIN Trusted = {h \in UINT32 : IsStored(h)}
  BY TrustedIs
<1>5. {h \in UINT32 : IsStored(h)'} = DOMAIN Trusted \cup {new}
  BY <1>3, <1>4
<1>6. Trusted' = [h \in {x \in UINT32 : IsStored(x)'} |-> consensusStateHashes'[h]]
  BY DEF Trusted
<1>7. Trusted' = [h \in DOMAIN Trusted \cup {new} |->
                     IF h = new THEN ConsensusStateOf(b) ELSE Trusted[h]]
  <2>1. ASSUME NEW h \in DOMAIN Trusted \cup {new}
        PROVE  consensusStateHashes'[h]
                   = IF h = new THEN ConsensusStateOf(b) ELSE Trusted[h]
    BY <1>2, <1>3, <1>4, TrustedIs
  <2>2. QED
    BY <1>5, <1>6, <2>1
<1>8. clientState'.latestHeight.revisionHeight = LC!Highest(DOMAIN Trusted')
  <2> DEFINE latest == clientState'.latestHeight.revisionHeight
  <2>1. latest \in UINT32
    BY DEF IInv, TypeOK, ClientState, Height
  <2>2. DOMAIN Trusted' = {h \in UINT32 : IsStored(h)'}
    BY <1>6
  <2>3. latest \in DOMAIN Trusted' /\ \A h \in DOMAIN Trusted' : h <= latest
    BY <2>1, <2>2 DEF IInv, LatestHeightIsHighest
  <2>4. DOMAIN Trusted' \in SUBSET Int
    BY <2>2, MsgsAssumption DEF UINT32
  <2>5. QED
    BY <2>3, <2>4, HighestIs
<1>9. ~clientState.isFrozen /\ ~clientState'.isFrozen
  BY <1>1 DEF Verified, StoreConsensusState, IInv, TypeOK, ClientState
<1>10. new \notin DOMAIN Trusted
  BY <1>3, <1>4
<1>11. QED
  BY <1>2, <1>7, <1>8, <1>9, <1>10 DEF LC!Extend, RevisionHeightOf

\* Two headers the abstract client knows, and no correct chain has both.
Contradicted ==
    \E x, y \in CommittedHeaders :
        LC!Known(x) /\ LC!Known(y) /\ ConflictingInSeconds(x, y)

\* An update that freezes brings a header that contradicts a stored one.
LEMMA UpdateContradicts ==
    ASSUME IInv, FreezesOnUpdate
    PROVE  Contradicted
<1>1. PICK o \in UpdateClientOutput :
          Verified(o) /\ CheckUpdateResult(o) = "Misbehaviour"
  BY DEF FreezesOnUpdate
<1> DEFINE new == o.newHeight.revisionHeight
           t == o.trustedHeight.revisionHeight
<1>2. PICK b \in CommittedHeaders :
          /\ LC!Vouched(b)
          /\ b.height = new
          /\ o.newConsensusState = ConsensusStateOf(b)
          /\ b.height > t
  BY <1>1, UpdateIsVouched
<1>3. LC!Known(b)
  BY <1>2 DEF LC!Known
<1>4. new \in UINT32 /\ t \in UINT32
  BY DEF UpdateClientOutput, Height
<1>5. /\ IsStored(new)
      /\ \/ consensusStateHashes[new] # o.newConsensusState
         \/ o.trustedConsensusState.timestamp >= o.newConsensusState.timestamp
  BY <1>1 DEF CheckUpdateResult
<1>6. CASE consensusStateHashes[new] # o.newConsensusState
  <2>1. PICK x \in CommittedHeaders :
            /\ LC!Known(x)
            /\ x.height = new
            /\ consensusStateHashes[new] = ConsensusStateOf(x)
    BY <1>4, <1>5, StoredIsKnown
  <2>2. BlockId(x) # BlockId(b)
    BY <1>2, <1>6, <2>1, ChainAssumption, SameBlockSameState DEF CommittedHeaders
  <2>3. QED
    BY <1>2, <1>3, <2>1, <2>2 DEF Contradicted, ConflictingInSeconds
<1>7. CASE o.trustedConsensusState.timestamp >= o.newConsensusState.timestamp
  <2>1. IsStored(t) /\ consensusStateHashes[t] = o.trustedConsensusState
    BY <1>1 DEF Verified, IsTrusted
  <2>2. PICK x \in CommittedHeaders :
            /\ LC!Known(x)
            /\ x.height = t
            /\ o.trustedConsensusState = ConsensusStateOf(x)
    BY <1>4, <2>1, StoredIsKnown
  <2>3. b.time \in Nat /\ x.time \in Nat
    BY ChainAssumption DEF CommittedHeaders, Block
  <2>4. Seconds(b.time) \in Int /\ Seconds(x.time) \in Int
    BY <2>3, ChainAssumption DEF Seconds
  <2>5. Seconds(b.time) <= Seconds(x.time)
    BY <1>2, <1>7, <2>2, <2>4 DEF ConsensusStateOf
  <2>6. QED
    BY <1>2, <1>3, <2>2, <2>5 DEF Contradicted, ConflictingInSeconds
<1>8. QED
  BY <1>5, <1>6, <1>7

\* Evidence the program accepts is two headers the client's states vouch for.
LEMMA EvidenceContradicts ==
    ASSUME IInv, FreezesOnEvidence
    PROVE  Contradicted
<1>1. PICK o \in MisbehaviourOutput :
          /\ EnvIsValid(o.env)
          /\ IsTrusted(o.trustedHeight1, o.trustedConsensusState1)
          /\ IsTrusted(o.trustedHeight2, o.trustedConsensusState2)
          /\ CommitsMisbehaviour(o)
  BY DEF FreezesOnEvidence
<1> DEFINE trusted(height) == TrustedConsensusStates(o)[height.revisionHeight]
<1>2. /\ o.env \in Env
      /\ o.trustedHeight1 \in Height /\ o.trustedHeight2 \in Height
      /\ o.trustedConsensusState1 \in ConsensusState
      /\ o.trustedConsensusState2 \in ConsensusState
  BY DEF MisbehaviourOutput
<1>3. /\ trusted(o.trustedHeight1) = o.trustedConsensusState1
      /\ trusted(o.trustedHeight2) = o.trustedConsensusState2
  BY <1>1 DEF TrustedConsensusStates, IsTrusted
<1>4. PICK b1, b2 \in Blocks :
          /\ VerifyMisbehaviourHeader(o.trustedConsensusState1,
                                      o.trustedHeight1, b1, o.env)
          /\ VerifyMisbehaviourHeader(o.trustedConsensusState2,
                                      o.trustedHeight2, b2, o.env)
          /\ Conflicting(b1, b2)
  BY <1>1, <1>3 DEF CommitsMisbehaviour
<1>5. b1 \in CommittedHeaders /\ LC!Vouched(b1)
  BY <1>1, <1>2, <1>4, VerifiedIsVouched DEF VerifyMisbehaviourHeader
<1>6. b2 \in CommittedHeaders /\ LC!Vouched(b2)
  BY <1>1, <1>2, <1>4, VerifiedIsVouched DEF VerifyMisbehaviourHeader
<1>7. LC!Known(b1) /\ LC!Known(b2)
  BY <1>5, <1>6 DEF LC!Known
<1>8. ConflictingInSeconds(b1, b2)
  <2>1. b1.time \in Nat /\ b2.time \in Nat
    BY ChainAssumption DEF Block
  <2>2. QED
    BY <1>4, <2>1, SecondsMonotone DEF Conflicting, ConflictingInSeconds
<1>9. QED
  BY <1>5, <1>6, <1>7, <1>8 DEF Contradicted

\* Once contradicted, setting isFrozen is the abstract Freeze.
LEMMA FreezingFreezes ==
    ASSUME IInv, Contradicted, ~clientState.isFrozen, Freeze,
           UNCHANGED blockTimestamp, Answer' = NoAnswer
    PROVE  LC!Freeze
<1>1. /\ clientState'.isFrozen = TRUE
      /\ clientState'.latestHeight = clientState.latestHeight
  BY DEF Freeze, IInv, TypeOK, ClientState
<1>2. Trusted' = Trusted
  BY DEF Freeze, Trusted, IsStored
<1>3. QED
  BY <1>1, <1>2 DEF Contradicted, LC!Freeze

\* A transaction that keeps the client and answers nothing is a refusal.
LEMMA KeepingRefuses ==
    ASSUME KeepClient, UNCHANGED blockTimestamp, Answer' = NoAnswer
    PROVE  LC!Refuse
<1>1. Trusted' = Trusted
  BY DEF KeepClient, Trusted, IsStored
<1>2. QED
  BY <1>1 DEF KeepClient, LC!Refuse

\* A membership transaction that returns gave an answer from a trusted state.
LEMMA MembershipAnswers ==
    ASSUME IInv, MembershipSound', NEW m \in MsgMembership, Membership(m)
    PROVE  \/ Answer' = NoAnswer
           \/ ~clientState.isFrozen /\ LC!Reply
<1>1. CASE receipt'.error # NoError
  BY <1>1 DEF Answer
<1>2. CASE receipt'.error = NoError
  <2>1. receipt'.fn = "membership"
    BY OtherReceipts
  <2>2. ~clientState.isFrozen
    BY <1>2, FrozenReverts, RevertedKeeps DEF Membership,
       HandleSP1MembershipProof, HandleSP1UpdateClientAndMembership
  <2>3. receipt'.msg = m
    BY <1>2, RevertedKeeps DEF Membership, HandleSP1MembershipProof,
       HandleSP1UpdateClientAndMembership, Returned
  <2> DEFINE h == m.proofHeight.revisionHeight
             fact == [path |-> m.path, value |-> m.value]
  <2>4. h \in UINT32 /\ fact \in KVPair
    BY DEF MsgMembership, Height, KVPair
  <2>5. IsStored(h)' /\ Proves(consensusStateHashes'[h].root, fact)
    BY <1>2, <2>1, <2>3 DEF MembershipSound, Proves
  <2>6. h \in DOMAIN Trusted' /\ Trusted'[h] = consensusStateHashes'[h]
    BY <2>4, <2>5 DEF Trusted
  <2>7. Answer' = [height |-> h, fact |-> fact]
    BY <1>2, <2>1, <2>3 DEF Answer
  <2>8. QED
    BY <2>2, <2>4, <2>5, <2>6, <2>7 DEF LC!Reply, CommitsTo
<1>3. QED
  BY <1>1, <1>2

-----------------------------------------------------------------------------
(* The refinement.                                                         *)

\* The constructor's state is the abstract client's first one.
LEMMA InitRefines == Init => LC!Init
<1>1. SUFFICES ASSUME Init PROVE LC!Init
  OBVIOUS
<1>2. /\ clientState = GenesisClientState
      /\ receipt.fn = "constructor"
      /\ blockTimestamp = DeploymentTimestamp
  BY <1>1 DEF Init, ConstructedHashes, ConstructorReceipt
<1>3. GenesisHeight = RevisionHeightOf(GenesisHeader)
  BY GenesisHeaderIs DEF GenesisHeight, HeightOf, RevisionHeightOf
<1>4. GenesisHeight \in UINT32
  BY ContractAssumption DEF ClientState, Height, GenesisHeight
<1>5. consensusStateHashes = [h \in UINT32 |-> IF h = GenesisHeight
                                               THEN GenesisConsensusState
                                               ELSE NoHash]
  BY <1>1 DEF Init, ConstructedHashes, ConstructorReceipt, GenesisHeight
<1>6. {h \in UINT32 : IsStored(h)} = {GenesisHeight}
  BY <1>4, <1>5, ContractAssumption, MsgsAssumption DEF IsStored
<1>7. Trusted = [h \in {GenesisHeight} |-> ConsensusStateOf(GenesisHeader)]
  BY <1>4, <1>5, <1>6, GenesisHeaderIs DEF Trusted
<1>8. clientState.isFrozen = FALSE
  BY <1>2, GenesisAssumption, ContractAssumption DEF ClientState
<1>9. Answer = NoAnswer
  BY <1>2 DEF Answer
<1>10. clientState.latestHeight.revisionHeight = GenesisHeight
  BY <1>2 DEF GenesisHeight
<1>11. QED
  BY <1>2, <1>3, <1>7, <1>8, <1>9, <1>10 DEF LC!Init

\* Every step of the contract is one of the abstract client, or none.
LEMMA StepRefines ==
    ASSUME IInv, IInv', MembershipSound', [Step]_vars
    PROVE  [LC!Next]_LC!vars
<1>1. ASSUME NEW m \in MsgUpdateClient, UpdateClient(m)
      PROVE  LC!Next
  <2>1. /\ UNCHANGED blockTimestamp
        /\ KeepClient \/ AddsState \/ FreezesOnUpdate
    BY <1>1, UpdateClientCases
  <2>2. Answer' = NoAnswer
    BY <1>1, OtherReceipts DEF Answer
  <2>3. CASE KeepClient
    BY <2>1, <2>2, <2>3, KeepingRefuses DEF LC!Next
  <2>4. CASE AddsState
    <3>1. LC!Extend /\ UNCHANGED clientState.isFrozen /\ ~clientState.isFrozen
      BY <2>4, AddingExtends DEF IInv, TypeOK, ClientState
    <3>2. QED
      BY <2>1, <2>2, <3>1 DEF LC!Next, LC!Serve
  <2>5. CASE FreezesOnUpdate
    <3>1. Contradicted /\ ~clientState.isFrozen /\ Freeze
      BY <2>5, UpdateContradicts DEF FreezesOnUpdate, Verified
    <3>2. QED
      BY <2>1, <2>2, <3>1, FreezingFreezes DEF LC!Next
  <2>6. QED
    BY <2>1, <2>3, <2>4, <2>5
<1>2. ASSUME NEW m \in MsgMembership, Membership(m)
      PROVE  LC!Next
  <2>1. UNCHANGED blockTimestamp /\ (KeepClient \/ AddsState)
    BY <1>2, HandleSP1MembershipProofCases, UcAndMembershipCases
       DEF Membership, IInv
  <2>2. Answer' = NoAnswer \/ (~clientState.isFrozen /\ LC!Reply)
    BY <1>2, MembershipAnswers
  <2>3. CASE KeepClient /\ Answer' = NoAnswer
    BY <2>1, <2>3, KeepingRefuses DEF LC!Next
  <2>4. CASE KeepClient /\ ~clientState.isFrozen /\ LC!Reply
    <3>1. Trusted' = Trusted
      BY <2>4 DEF KeepClient, Trusted, IsStored
    <3>2. QED
      BY <2>1, <2>4, <3>1 DEF KeepClient, LC!Next, LC!Serve, LC!Keep
  <2>5. CASE AddsState
    <3>1. LC!Extend /\ UNCHANGED clientState.isFrozen /\ ~clientState.isFrozen
      BY <2>5, AddingExtends DEF IInv, TypeOK, ClientState
    <3>2. QED
      BY <2>1, <2>2, <3>1 DEF LC!Next, LC!Serve
  <2>6. QED
    BY <2>1, <2>2, <2>3, <2>4, <2>5
<1>3. ASSUME NEW m \in MsgSubmitMisbehaviour, Misbehaviour(m)
      PROVE  LC!Next
  <2>1. UNCHANGED blockTimestamp /\ (KeepClient \/ FreezesOnEvidence)
    BY <1>3, MisbehaviourCases
  <2>2. Answer' = NoAnswer
    BY <1>3, OtherReceipts DEF Answer
  <2>3. CASE KeepClient
    BY <2>1, <2>2, <2>3, KeepingRefuses DEF LC!Next
  <2>4. CASE FreezesOnEvidence
    <3>1. Contradicted /\ ~clientState.isFrozen /\ Freeze
      BY <2>4, EvidenceContradicts DEF FreezesOnEvidence
    <3>2. QED
      BY <2>1, <2>2, <3>1, FreezingFreezes DEF LC!Next
  <2>5. QED
    BY <2>1, <2>3, <2>4
<1>4. CASE UpgradeClient
  <2>1. Answer' = NoAnswer
    BY <1>4, OtherReceipts DEF Answer
  <2>2. KeepClient /\ UNCHANGED blockTimestamp
    BY <1>4 DEF UpgradeClient, Reverted, contractVars, KeepClient
  <2>3. QED
    BY <2>1, <2>2, KeepingRefuses DEF LC!Next
<1>5. CASE AdvanceTime
  <2>1. blockTimestamp' > blockTimestamp
    BY <1>5, ContractAssumption DEF AdvanceTime, IInv, TypeOK
  <2>2. UNCHANGED <<Trusted, clientState, Answer>>
    BY <1>5 DEF AdvanceTime, contractVars, Trusted, IsStored, Answer
  <2>3. QED
    BY <2>1, <2>2 DEF LC!Next, LC!Tick
<1>6. CASE UNCHANGED vars
  BY <1>6 DEF vars, LC!vars, Trusted, IsStored, Answer
<1>7. QED
  BY <1>1, <1>2, <1>3, <1>4, <1>5, <1>6 DEF Step

\* Whatever anybody submits, the contract does what a light client may do.
LEMMA StepSpecRefines == StepSpec => IsLightClient
<1>1. StepSpec => []IInv /\ []MembershipSound
  BY StepSpecInvariance, StepMembershipCorrect, PTL
<1>2. IInv /\ IInv' /\ MembershipSound' /\ [Step]_vars => [LC!Next]_LC!vars
  BY StepRefines
<1>3. QED
  BY <1>1, <1>2, InitRefines, PTL DEF StepSpec, IsLightClient, LC!Spec

\* The contract implements the abstract light client, whatever chain it follows
\* and whatever relayers submit to it.
THEOREM Refinement == Spec => IsLightClient
BY SpecSteps, StepSpecRefines, PTL
=============================================================================
