---------------------------- MODULE CommandsProofs ----------------------------
(***************************************************************************)
(* Theorems about the genesis and fixtures commands and the contract made  *)
(* of what they write, for any chain, any command lines, any values of the *)
(* chain's parameter, and any time between two steps.                      *)
(*                                                                         *)
(* The invariant says what a command holds between two of its reads and    *)
(* how a file was made.  It speaks of the head and of the time as bounds   *)
(* only, so it stays true while both grow (WrittenLater, HoldsLater).      *)
(***************************************************************************)
EXTENDS Commands, ChainProofs

-----------------------------------------------------------------------------
(* What a command holds between two of its steps, and what it wrote.       *)

PCs == {"idle", "blocks", "first parameters", "parameters", "proving"}

Genesis == [clientState: ClientState, consensusState: ConsensusState]

\* A command line that was taken.
Accepted(args) ==
    args \in CommandLines /\ ValidThreshold(args.trustOptions.trustLevel)

\* Block h and every other block the command needs were there up to top.
Reads(args, h, top) ==
    /\ h \in 1..top
    /\ args.command \in {"update-client", "update-client-and-membership"} =>
           args.targetBlock \in 1..top
    /\ args.command = "misbehaviour" =>
           /\ h = NodeHeight(args.misbehaviour.trustedHeight2)
           /\ NodeHeight(args.misbehaviour.trustedHeight1) \in 1..top

\* The genesis of block h, made while the parameter had one of its values.
GenesisMade(args, h, genesis) ==
    \E u \in UnbondingPeriods :
        /\ GenesisAllowed(args.trustOptions.trustingPeriod, u)
        /\ genesis = GenesisOf(Chain[h], args.trustOptions.trustingPeriod,
                               args.trustOptions.trustLevel, u)

\* The message the command makes over block h, proved in the environment env.
Proven(args, h, env, message) ==
    \/ args.command = "genesis" /\ message = Nothing
    \/ /\ args.command = "update-client"
       /\ UpdateProvable(Chain[h], Chain[args.targetBlock], env)
       /\ message = UpdateClientMsg(Chain[h], Chain[args.targetBlock], env)
    \/ /\ args.command = "membership"
       /\ KVPairsProvable(args.keyPaths, Chain[h])
       /\ message = MembershipProofMsg(Chain[h], args.keyPaths)
    \/ /\ args.command = "update-client-and-membership"
       /\ UcAndMembershipProvable(Chain[h], Chain[args.targetBlock], env,
                                  args.keyPaths)
       /\ message = UcAndMembershipProofMsg(Chain[h], Chain[args.targetBlock], env,
                                            args.keyPaths)
    \/ /\ args.command = "misbehaviour"
       /\ EvidenceProvable(args.misbehaviour, env)
       /\ message = SubmitMisbehaviourMsg(args.misbehaviour, env)

\* A genesis and a message of one block, made at some time until now.
Written(args, genesis, message, top, now) ==
    /\ Accepted(args)
    /\ \E h \in 1..top, time \in 0..now :
           /\ Reads(args, h, top)
           /\ GenesisMade(args, h, genesis)
           /\ Proven(args, h, EnvOf(Chain[h], genesis.clientState, time), message)

CommandRecord ==
    [pc: PCs, args: CommandLines \cup {Nothing},
     trusted: Blocks \cup {Nothing}, genesis: Genesis \cup {Nothing}]

\* What the command has read is there, and is what it was asked for.
Holds(c, top) ==
    /\ c \in CommandRecord
    /\ c.pc # "idle" => Accepted(c.args)
    /\ c.pc \in {"first parameters", "parameters", "proving"} =>
           \E h \in 1..top :
               /\ Reads(c.args, h, top)
               /\ c.trusted = Chain[h]
               /\ c.pc = "proving" => GenesisMade(c.args, h, c.genesis)

\* The contract as the constructor leaves it.
Constructed ==
    /\ clientState = file.genesis.clientState
    /\ consensusStateHashes = ConstructedHashes(file.genesis.clientState,
                                                file.genesis.consensusState)

FileInv ==
    file # Nothing =>
        Written(file.args, file.genesis, file.message, head, blockTimestamp)

\* Until the message of the file is submitted nothing touches the contract.
DeploymentInv ==
    deployed =>
        /\ file # Nothing
        /\ At("idle")
        /\ IF Submitted THEN file.args.command # "genesis" ELSE Constructed

CommandsInv ==
    /\ head \in Heights
    /\ unbondingPeriod \in UnbondingPeriods
    /\ blockTimestamp \in 0..MaxTimestamp
    /\ Holds(command, head)
    /\ FileInv
    /\ DeploymentInv
    /\ FixtureServed

-----------------------------------------------------------------------------
(* Types.                                                                  *)

\* The fields of a command line by its command.
LEMMA ArgsTyped ==
    ASSUME NEW args \in CommandLines
    PROVE  /\ args.command \in {"genesis", "update-client", "membership",
                                "update-client-and-membership", "misbehaviour"}
           /\ args.trustOptions.trustLevel \in TrustThreshold
           /\ args.trustOptions.trustingPeriod \in UINT32 \cup {NoPeriod}
           /\ args.command \in {"membership", "update-client-and-membership"} =>
                  args.keyPaths \in Seq(Paths)
           /\ args.command = "misbehaviour" =>
                  args.misbehaviour \in MisbehaviourEvidence
<1>1. args \in CommandLine
  BY CommandsAssumption
<1>2. CASE args \in GenesisArgs
  BY <1>2 DEF GenesisArgs, TrustOptions
<1>3. CASE args \in UpdateClientCmd
  BY <1>3 DEF UpdateClientCmd, TrustOptions
<1>4. CASE args \in MembershipCmd
  BY <1>4 DEF MembershipCmd, TrustOptions
<1>5. CASE args \in UpdateClientAndMembershipCmd
  BY <1>5 DEF UpdateClientAndMembershipCmd, TrustOptions
<1>6. CASE args \in MisbehaviourCmd
  BY <1>6 DEF MisbehaviourCmd, TrustOptions
<1>7. QED
  BY <1>1, <1>2, <1>3, <1>4, <1>5, <1>6 DEF CommandLine

\* The fields of a genesis state.
LEMMA GenesisFields ==
    ASSUME NEW args, NEW h, NEW genesis, GenesisMade(args, h, genesis)
    PROVE  \E u \in UnbondingPeriods :
               LET client == genesis.clientState
                   period == TrustingPeriodOf(args.trustOptions.trustingPeriod, u)
               IN  /\ period <= u
                   /\ client = [chainId |-> Chain[h].chainId,
                                trustLevel |-> args.trustOptions.trustLevel,
                                latestHeight |-> HeightOf(Chain[h]),
                                trustingPeriod |-> period,
                                unbondingPeriod |-> u, isFrozen |-> FALSE]
                   /\ genesis = [clientState |-> client,
                                 consensusState |-> ConsensusStateOf(Chain[h])]
<1>1. PICK u \in UnbondingPeriods :
          /\ GenesisAllowed(args.trustOptions.trustingPeriod, u)
          /\ genesis = GenesisOf(Chain[h], args.trustOptions.trustingPeriod,
                                 args.trustOptions.trustLevel, u)
  BY DEF GenesisMade
<1> DEFINE period == TrustingPeriodOf(args.trustOptions.trustingPeriod, u)
           client == [chainId |-> Chain[h].chainId,
                      trustLevel |-> args.trustOptions.trustLevel,
                      latestHeight |-> HeightOf(Chain[h]), trustingPeriod |-> period,
                      unbondingPeriod |-> u, isFrozen |-> FALSE]
           state == ConsensusStateOf(Chain[h])
<1>2. period <= u
  BY <1>1 DEF GenesisAllowed
<1>3. genesis = [clientState |-> client, consensusState |-> state]
  BY <1>1, Zenon DEF GenesisOf, ToSolClientState
<1> HIDE DEF client, state
<1>4. genesis.clientState = client
  BY <1>3
<1>5. /\ genesis.clientState = client
      /\ genesis = [clientState |-> genesis.clientState, consensusState |-> state]
  BY <1>3, <1>4
<1>6. QED
  BY <1>2, <1>5, Zenon DEF client, state

\* A genesis of a block has the contract's types and the parameters the command
\* line asked for; the default trusting period is two thirds of the unbonding
\* period.
LEMMA GenesisTyped ==
    ASSUME NEW args, Accepted(args), NEW h \in Heights, NEW genesis,
           GenesisMade(args, h, genesis)
    PROVE  LET client == genesis.clientState
           IN  /\ genesis \in Genesis
               /\ client \in ClientState
               /\ genesis.consensusState = ConsensusStateOf(Chain[h])
               /\ ~client.isFrozen
               /\ client.chainId = Chain[h].chainId
               /\ client.latestHeight = HeightOf(Chain[h])
               /\ client.trustLevel = args.trustOptions.trustLevel
               /\ client.trustingPeriod <= client.unbondingPeriod
<1> DEFINE client == genesis.clientState
<1>1. PICK u \in UnbondingPeriods :
          LET period == TrustingPeriodOf(args.trustOptions.trustingPeriod, u)
          IN  /\ period <= u
              /\ client = [chainId |-> Chain[h].chainId,
                           trustLevel |-> args.trustOptions.trustLevel,
                           latestHeight |-> HeightOf(Chain[h]),
                           trustingPeriod |-> period,
                           unbondingPeriod |-> u, isFrozen |-> FALSE]
              /\ genesis = [clientState |-> client,
                            consensusState |-> ConsensusStateOf(Chain[h])]
  BY GenesisFields
<1> DEFINE period == TrustingPeriodOf(args.trustOptions.trustingPeriod, u)
<1>2. u \in UINT32 /\ period \in UINT32
  <2>1. u \in Nat /\ MAX_UINT32 \in Nat /\ u <= MAX_UINT32
    BY CommandsAssumption, MsgsAssumption DEF UINT32
  <2>2. 2 * (u \div 3) \in Nat
    BY <2>1
  <2>3. args.trustOptions.trustingPeriod \in UINT32 \cup {NoPeriod}
    BY ArgsTyped DEF Accepted
  <2>4. period \in Nat
    BY <2>2, <2>3, MsgsAssumption DEF TrustingPeriodOf, UINT32
  <2>5. QED
    BY <1>1, <2>1, <2>4 DEF UINT32
<1>3. /\ Chain[h].chainId \in ChainIds /\ HeightOf(Chain[h]) \in Height
      /\ ConsensusStateOf(Chain[h]) \in ConsensusState
      /\ args.trustOptions.trustLevel \in TrustThreshold
  BY BlockOfChain, ArgsTyped DEF Accepted, Block
<1> HIDE DEF client, period
<1>4. client \in ClientState
  BY <1>1, <1>2, <1>3 DEF ClientState, period
<1>5. genesis \in Genesis
  BY <1>1, <1>3, <1>4 DEF Genesis
<1>6. QED
  BY <1>1, <1>4, <1>5 DEF client, period

\* An environment made of such a genesis until now has its type.
LEMMA GenesisEnv ==
    ASSUME NEW args, Accepted(args), NEW h \in Heights, NEW genesis,
           GenesisMade(args, h, genesis), NEW now \in 0..MaxTimestamp
    PROVE  /\ EnvOf(Chain[h], genesis.clientState, now) \in Env
           /\ EnvOf(Chain[h], genesis.clientState, now).now = now
<1>1. genesis.clientState \in ClientState
  BY GenesisTyped
<1>2. QED
  BY <1>1, EnvOfTyped DEF EnvOf, ClientState

\* The blocks a command read are of the chain.  Evidence that is proved was read
\* at the heights it names.
LEMMA ReadsChain ==
    ASSUME NEW args, NEW top \in Heights, NEW h, Reads(args, h, top)
    PROVE  /\ h \in Heights
           /\ args.command \in {"update-client", "update-client-and-membership"} =>
                  args.targetBlock \in Heights
           /\ args.command = "misbehaviour" =>
                  \A env : EvidenceProvable(args.misbehaviour, env) =>
                      /\ args.misbehaviour.trustedHeight2 = h
                      /\ args.misbehaviour.trustedHeight1 \in Heights
<1>1. 1..top \subseteq Heights
  BY ChainHeights
<1>2. ASSUME args.command = "misbehaviour",
             NEW env, EvidenceProvable(args.misbehaviour, env)
      PROVE  /\ args.misbehaviour.trustedHeight2 = h
             /\ args.misbehaviour.trustedHeight1 \in Heights
  <2>1. /\ NodeHeight(args.misbehaviour.trustedHeight1)
               = args.misbehaviour.trustedHeight1
        /\ NodeHeight(args.misbehaviour.trustedHeight2)
               = args.misbehaviour.trustedHeight2
    BY <1>2, EvidenceHeights
  <2>2. QED
    BY <1>1, <1>2, <2>1 DEF Reads
<1>3. QED
  BY <1>1, <1>2 DEF Reads

\* The message a command makes has the type of its entry point.
LEMMA MessageTyped ==
    ASSUME NEW args, Accepted(args), NEW top \in Heights, NEW h,
           Reads(args, h, top), NEW env \in Env, env.chainId = Chain[h].chainId,
           NEW message, Proven(args, h, env, message)
    PROVE  /\ args.command = "genesis" => message = Nothing
           /\ args.command = "update-client" => message \in MsgUpdateClient
           /\ args.command = "misbehaviour" => message \in MsgSubmitMisbehaviour
           /\ args.command \in {"membership", "update-client-and-membership"} =>
                  message \in MembershipProof
<1>1. args \in CommandLines /\ h \in Heights
  BY ReadsChain DEF Accepted
<1>2. CASE args.command = "genesis"
  BY <1>2 DEF Proven
<1>3. CASE args.command = "update-client"
  <2>1. /\ args.targetBlock \in Heights
        /\ message = UpdateClientMsg(Chain[h], Chain[args.targetBlock], env)
    BY <1>3, ReadsChain DEF Proven
  <2>2. message \in MsgUpdateClient
    BY <1>1, <2>1, UpdateTyped
  <2>3. QED
    BY <1>3, <2>2
<1>4. CASE args.command = "membership"
  <2>1. /\ KVPairsProvable(args.keyPaths, Chain[h])
        /\ message = MembershipProofMsg(Chain[h], args.keyPaths)
    BY <1>4 DEF Proven
  <2>2. args.keyPaths \in Seq(Paths) /\ Len(args.keyPaths) \in 1..UINT8_MAX
    BY <1>1, <1>4, <2>1, ArgsTyped DEF KVPairsProvable
  <2>3. message \in SP1MembershipProof
    BY <1>1, <2>1, <2>2, MembershipProved
  <2>4. QED
    BY <1>4, <2>3 DEF MembershipProof
<1>5. CASE args.command = "update-client-and-membership"
  <2>1. /\ args.targetBlock \in Heights
        /\ UcAndMembershipProvable(Chain[h], Chain[args.targetBlock], env,
                                   args.keyPaths)
        /\ message = UcAndMembershipProofMsg(Chain[h], Chain[args.targetBlock], env,
                                             args.keyPaths)
    BY <1>5, ReadsChain DEF Proven
  <2>2. args.keyPaths \in Seq(Paths)
    BY <1>1, <1>5, ArgsTyped
  <2>3. message \in SP1MembershipAndUpdateClientProof
    BY <1>1, <2>1, <2>2, UcAndMembershipProved
  <2>4. QED
    BY <1>5, <2>3 DEF MembershipProof
<1>6. CASE args.command = "misbehaviour"
  <2>1. /\ EvidenceProvable(args.misbehaviour, env)
        /\ message = SubmitMisbehaviourMsg(args.misbehaviour, env)
    BY <1>6 DEF Proven
  <2>2. /\ args.misbehaviour \in MisbehaviourEvidence
        /\ args.misbehaviour.trustedHeight1 \in Heights
        /\ args.misbehaviour.trustedHeight2 = h
    BY <1>1, <1>6, <2>1, ArgsTyped, ReadsChain
  <2>3. message \in MsgSubmitMisbehaviour
    BY <1>1, <2>1, <2>2, EvidenceProved
  <2>4. QED
    BY <1>6, <2>3
<1>7. QED
  BY <1>1, <1>2, <1>3, <1>4, <1>5, <1>6, ArgsTyped

\* So has everything a file holds.
LEMMA WrittenTyped ==
    ASSUME NEW args, NEW genesis, NEW message, NEW top \in Heights,
           NEW now \in 0..MaxTimestamp, Written(args, genesis, message, top, now)
    PROVE  /\ genesis \in Genesis
           /\ args.command = "genesis" => message = Nothing
           /\ args.command = "update-client" => message \in MsgUpdateClient
           /\ args.command = "misbehaviour" => message \in MsgSubmitMisbehaviour
           /\ args.command \in {"membership", "update-client-and-membership"} =>
                  message \in MembershipProof
<1>1. Accepted(args)
  BY DEF Written
<1>2. PICK h \in 1..top, time \in 0..now :
          /\ Reads(args, h, top)
          /\ GenesisMade(args, h, genesis)
          /\ Proven(args, h, EnvOf(Chain[h], genesis.clientState, time), message)
  BY DEF Written
<1>3. h \in Heights /\ time \in 0..MaxTimestamp
  <2>1. h \in Heights
    BY <1>2, ReadsChain
  <2>2. time \in 0..MaxTimestamp
    BY <1>2, ContractAssumption
  <2>3. QED
    BY <2>1, <2>2
<1>4. genesis \in Genesis
  BY <1>1, <1>2, <1>3, GenesisTyped
<1> DEFINE env == EnvOf(Chain[h], genesis.clientState, time)
<1>5. env \in Env /\ env.chainId = Chain[h].chainId
  BY <1>1, <1>2, <1>3, GenesisEnv DEF EnvOf
<1> HIDE DEF env
<1>6. Proven(args, h, env, message)
  BY <1>2 DEF env
<1>7. QED
  BY <1>1, <1>2, <1>4, <1>5, <1>6, MessageTyped

-----------------------------------------------------------------------------
(* The chain and the clock go on.                                          *)

\* The blocks that were read stay there.
LEMMA ReadsLater ==
    ASSUME NEW args, NEW h, NEW top \in Heights, NEW later \in Heights,
           top <= later, Reads(args, h, top)
    PROVE  Reads(args, h, later)
<1>1. 1..top \subseteq 1..later
  BY ChainHeights
<1>2. QED
  BY <1>1 DEF Reads

\* A file stays one that a command made.
LEMMA WrittenLater ==
    ASSUME NEW args, NEW genesis, NEW message,
           NEW top \in Heights, NEW later \in Heights, top <= later,
           NEW now \in 0..MaxTimestamp, NEW after \in 0..MaxTimestamp, now <= after,
           Written(args, genesis, message, top, now)
    PROVE  Written(args, genesis, message, later, after)
<1>1. 1..top \subseteq 1..later
  BY ChainHeights
<1>2. 0..now \subseteq 0..after
  BY ContractAssumption
<1>3. QED
  BY <1>1, <1>2, ReadsLater DEF Written

\* What a command holds stays there.
LEMMA HoldsLater ==
    ASSUME NEW c, NEW top \in Heights, NEW later \in Heights, top <= later,
           Holds(c, top)
    PROVE  Holds(c, later)
<1>1. 1..top \subseteq 1..later
  BY ChainHeights
<1>2. QED
  BY <1>1, ReadsLater DEF Holds

-----------------------------------------------------------------------------
(* The contract made of a file.                                            *)

\* Before the message of the file is submitted: the contract stores the one
\* state its genesis names, the message was proved for it, and an environment
\* made of the client until now is accepted while it is not too old.
Deployed(h, time) ==
    /\ head \in Heights /\ h \in Heights /\ time \in 0..blockTimestamp
    /\ Accepted(file.args) /\ Reads(file.args, h, head)
    /\ GenesisMade(file.args, h, file.genesis)
    /\ Proven(file.args, h, EnvOf(Chain[h], clientState, time), file.message)
    /\ clientState = file.genesis.clientState
    /\ clientState \in ClientState /\ ~clientState.isFrozen
    /\ clientState.latestHeight = HeightOf(Chain[h])
    /\ IsTrusted(HeightOf(Chain[h]), ConsensusStateOf(Chain[h]))
    /\ DOMAIN consensusStateHashes = UINT32
    /\ \A k \in UINT32 : IsStored(k) <=> k = h
    /\ \A now \in 0..blockTimestamp :
           /\ EnvOf(Chain[h], clientState, now) \in Env
           /\ EnvOf(Chain[h], clientState, now).now = now
           /\ blockTimestamp - now <= ALLOWED_SP1_CLOCK_DRIFT =>
                  EnvIsValid(EnvOf(Chain[h], clientState, now))

\* It is so from the deployment to the submission.
LEMMA AtDeployment ==
    ASSUME CommandsInv, deployed, ~Submitted
    PROVE  \E h, time : Deployed(h, time)
<1>1. /\ head \in Heights /\ blockTimestamp \in 0..MaxTimestamp
      /\ Written(file.args, file.genesis, file.message, head, blockTimestamp)
      /\ Constructed
  BY DEF CommandsInv, FileInv, DeploymentInv
<1>2. PICK h \in 1..head, time \in 0..blockTimestamp :
          /\ Reads(file.args, h, head)
          /\ GenesisMade(file.args, h, file.genesis)
          /\ Proven(file.args, h, EnvOf(Chain[h], file.genesis.clientState, time),
                    file.message)
  BY <1>1 DEF Written
<1>3. Accepted(file.args)
  BY <1>1 DEF Written
<1>4. h \in Heights
  BY <1>1, <1>2, ReadsChain
<1>5. clientState = file.genesis.clientState
  BY <1>1 DEF Constructed
<1>6. /\ clientState \in ClientState
      /\ file.genesis.consensusState = ConsensusStateOf(Chain[h])
      /\ ~clientState.isFrozen
      /\ clientState.chainId = Chain[h].chainId
      /\ clientState.latestHeight = HeightOf(Chain[h])
      /\ clientState.trustingPeriod <= clientState.unbondingPeriod
  BY <1>2, <1>3, <1>4, <1>5, GenesisTyped
<1>7. /\ DOMAIN consensusStateHashes = UINT32
      /\ \A k \in UINT32 :
             consensusStateHashes[k]
                 = IF k = h THEN ConsensusStateOf(Chain[h]) ELSE NoHash
  BY <1>1, <1>4, <1>5, <1>6, BlockOfChain DEF Constructed, ConstructedHashes
<1>8. /\ ConsensusStateOf(Chain[h]) # NoHash /\ h \in UINT32
      /\ HeightOf(Chain[h]).revisionHeight = h
  BY <1>4, BlockOfChain, MsgsAssumption
<1>9. /\ \A k \in UINT32 : IsStored(k) <=> k = h
      /\ IsTrusted(HeightOf(Chain[h]), ConsensusStateOf(Chain[h]))
  BY <1>7, <1>8 DEF IsStored, IsTrusted
<1>10. ASSUME NEW now \in 0..blockTimestamp
       PROVE  /\ EnvOf(Chain[h], clientState, now) \in Env
              /\ EnvOf(Chain[h], clientState, now).now = now
              /\ blockTimestamp - now <= ALLOWED_SP1_CLOCK_DRIFT =>
                     EnvIsValid(EnvOf(Chain[h], clientState, now))
  <2>1. now \in 0..MaxTimestamp
    BY <1>1, <1>10, ContractAssumption
  <2>2. EnvOf(Chain[h], clientState, now) \in Env
    BY <1>2, <1>3, <1>4, <1>5, <2>1, GenesisEnv
  <2>3. now <= blockTimestamp
    BY <1>1, <1>10, ContractAssumption
  <2>4. QED
    BY <1>6, <2>2, <2>3 DEF EnvOf, EnvIsValid
<1>11. QED
  BY <1>1, <1>2, <1>3, <1>4, <1>5, <1>6, <1>7, <1>9, <1>10 DEF Deployed

-----------------------------------------------------------------------------
(* The message of a file, submitted.                                       *)

\* An update is taken as an update: the contract stores no state but its genesis,
\* and the target is above it.
LEMMA SubmitUpdate ==
    ASSUME NEW h, NEW time, Deployed(h, time),
           file.args.command = "update-client",
           UpdateClient(file.message), UNCHANGED commandVars
    PROVE  FixtureServed'
<1> DEFINE n == file.args.targetBlock
           env == EnvOf(Chain[h], clientState, time)
           o == UpdateOutput(Chain[h], Chain[n], env)
           m == file.message
<1>1. /\ h \in Heights /\ n \in Heights /\ env \in Env /\ env.now = time
      /\ UpdateProvable(Chain[h], Chain[n], env)
      /\ m = UpdateClientMsg(Chain[h], Chain[n], env)
  <2>1. h \in Heights /\ env \in Env /\ env.now = time
    BY DEF Deployed
  <2>2. n \in Heights
    BY ReadsChain, ChainHeights DEF Deployed
  <2>3. /\ UpdateProvable(Chain[h], Chain[n], env)
        /\ m = UpdateClientMsg(Chain[h], Chain[n], env)
    BY DEF Deployed, Proven
  <2>4. QED
    BY <2>1, <2>2, <2>3
<1>2. m.sp1Proof.publicValues = o /\ o.env = env
  BY <1>1, UpdateOutputFields DEF UpdateClientMsg, SP1ProofFrom
<1> HIDE DEF o, env
<1>3. ASSUME FileIsFresh'
      PROVE  UpdateClientError(m) = NoError
  <2>1. UNCHANGED <<file, blockTimestamp>>
    BY DEF UpdateClient, Reverted, Returned, commandVars
  <2>2. blockTimestamp - env.now <= ALLOWED_SP1_CLOCK_DRIFT
    BY <1>2, <1>3, <2>1 DEF FileIsFresh, FileEnv
  <2>3. EnvIsValid(env)
    BY <1>1, <2>2 DEF Deployed, env
  <2>4. ~clientState.isFrozen /\ IsTrusted(HeightOf(Chain[h]), ConsensusStateOf(Chain[h]))
    BY DEF Deployed
  <2>5. QED
    BY <1>1, <2>3, <2>4, UpdateTaken
<1>4. CheckUpdateResult(o) = "Update"
  <2>1. h < n /\ n \in UINT32 /\ h \in Nat
    BY <1>1, UpdateProved, ChainHeights
  <2>2. o.newHeight.revisionHeight = n
    BY <1>1, UpdateOutputFields DEF o
  <2>3. ~IsStored(n)
    BY <2>1 DEF Deployed
  <2>4. QED
    BY <2>2, <2>3 DEF CheckUpdateResult
<1>5. ASSUME FileIsFresh'
      PROVE  /\ receipt'.error = NoError /\ receipt'.result = "Update"
             /\ ~clientState'.isFrozen
  <2>1. /\ Returned("updateClient", m, "Update", 0)
        /\ StoreConsensusState(o.newHeight, o.newConsensusState)
    BY <1>2, <1>3, <1>4, <1>5 DEF UpdateClient
  <2>2. clientState'.isFrozen = clientState.isFrozen
    BY <2>1 DEF StoreConsensusState, Deployed, ClientState
  <2>3. receipt'.error = NoError /\ receipt'.result = "Update"
    BY <2>1 DEF Returned
  <2>4. QED
    BY <2>2, <2>3 DEF Deployed
<1>6. file'.args.command = "update-client"
  BY DEF commandVars
<1>7. QED
  BY <1>5, <1>6 DEF FixtureServed

\* Evidence for one trusted state, that of the genesis, freezes the client.
LEMMA SubmitEvidence ==
    ASSUME NEW h, NEW time, Deployed(h, time),
           file.args.command = "misbehaviour",
           Misbehaviour(file.message), UNCHANGED commandVars
    PROVE  FixtureServed'
<1> DEFINE e == file.args.misbehaviour
           env == EnvOf(Chain[h], clientState, time)
           m == file.message
<1>1. /\ EvidenceProvable(e, env)
      /\ m = SubmitMisbehaviourMsg(e, env)
  BY DEF Deployed, Proven
<1>2. /\ h \in Heights /\ env \in Env /\ env.now = time
      /\ env.chainId = Chain[h].chainId
      /\ file.args \in CommandLines /\ e \in MisbehaviourEvidence
      /\ e.trustedHeight1 \in Heights /\ e.trustedHeight2 = h
  <2>1. h \in Heights /\ env \in Env /\ env.now = time
    BY DEF Deployed
  <2>2. env.chainId = Chain[h].chainId
    BY DEF EnvOf
  <2>3. file.args \in CommandLines /\ e \in MisbehaviourEvidence
    BY ArgsTyped DEF Deployed, Accepted
  <2>4. e.trustedHeight1 \in Heights /\ e.trustedHeight2 = h
    BY <1>1, ReadsChain DEF Deployed
  <2>5. QED
    BY <2>1, <2>2, <2>3, <2>4
<1>3. m.sp1Proof.publicValues.env = env
  BY <1>1 DEF SubmitMisbehaviourMsg, SP1ProofFrom
<1> HIDE DEF env
<1>4. UNCHANGED <<file, blockTimestamp>>
  BY DEF Misbehaviour, Reverted, Returned, commandVars
<1>5. ASSUME FileIsFresh', OneTrustedHeight'
      PROVE  MisbehaviourError(m) = NoError
  <2>1. blockTimestamp - env.now <= ALLOWED_SP1_CLOCK_DRIFT
    BY <1>3, <1>4, <1>5 DEF FileIsFresh, FileEnv
  <2>2. EnvIsValid(env)
    BY <1>2, <2>1 DEF Deployed, env
  <2>3. e.trustedHeight1 = h
    BY <1>2, <1>4, <1>5 DEF OneTrustedHeight
  <2>4. ~clientState.isFrozen /\ IsTrusted(HeightOf(Chain[h]), ConsensusStateOf(Chain[h]))
    BY DEF Deployed
  <2>5. QED
    BY <1>1, <1>2, <2>2, <2>3, <2>4, EvidenceTaken
<1>6. ASSUME FileIsFresh', OneTrustedHeight'
      PROVE  receipt'.error = NoError /\ clientState'.isFrozen
  <2>1. Returned("misbehaviour", m, NoResult, 0) /\ Freeze
    BY <1>5, <1>6 DEF Misbehaviour
  <2>2. clientState'.isFrozen
    BY <2>1 DEF Freeze, Deployed, ClientState
  <2>3. receipt'.error = NoError
    BY <2>1 DEF Returned
  <2>4. QED
    BY <2>2, <2>3
<1>7. file'.args.command = "misbehaviour"
  BY <1>4
<1>8. QED
  BY <1>6, <1>7 DEF FixtureServed

\* A membership proof is taken for each of its pairs, at any time.
LEMMA SubmitMembership ==
    ASSUME NEW h, NEW time, Deployed(h, time),
           file.args.command = "membership", NEW i \in DOMAIN FileKVPairs,
           Membership(FileMembershipMsg(FileKVPairs[i])), UNCHANGED commandVars
    PROVE  FixtureServed'
<1> DEFINE paths == file.args.keyPaths
           m == FileMembershipMsg(FileKVPairs[i])
<1>1. /\ h \in Heights /\ paths \in Seq(Paths) /\ Len(paths) \in 1..UINT8_MAX
      /\ file.message = MembershipProofMsg(Chain[h], paths)
  <2>1. h \in Heights /\ file.args \in CommandLines
    BY DEF Deployed, Accepted
  <2>2. /\ KVPairsProvable(paths, Chain[h])
        /\ file.message = MembershipProofMsg(Chain[h], paths)
    BY DEF Deployed, Proven
  <2>3. QED
    BY <2>1, <2>2, ArgsTyped DEF KVPairsProvable
<1>2. FileKVPairs = KVPairsAt(paths, h)
  <2>1. Chain[h].height = h
    BY <1>1, BlockOfChain
  <2>2. QED
    BY <1>1, <2>1 DEF FileKVPairs, MembershipProofMsg, SP1ProofFrom
<1>3. /\ i \in 1..Len(paths)
      /\ FileKVPairs[i] = Query(paths[i], h - 1) /\ FileKVPairs[i].path = paths[i]
  BY <1>1, <1>2, AnswersTyped
<1>4. m = MembershipMsgOf(h, paths, i)
  BY <1>1, <1>3 DEF Deployed, FileMembershipMsg, MembershipMsgOf
<1>5. HandleSP1MembershipProofError(m) = NoError
  <2>1. /\ ~clientState.isFrozen
        /\ consensusStateHashes[h] = ConsensusStateOf(Chain[h])
        /\ clientState.latestHeight.revisionNumber = HeightOf(Chain[h]).revisionNumber
    BY <1>1, BlockOfChain DEF Deployed, IsTrusted
  <2>2. QED
    BY <1>1, <1>3, <1>4, <2>1, MembershipTaken
<1>6. m.proof.proofType = "SP1MembershipProof"
  BY <1>1, <1>4 DEF MembershipMsgOf, MembershipProofMsg
<1>7. HandleSP1MembershipProof(m)
  BY <1>6 DEF Membership
<1> HIDE DEF m
<1>8. receipt'.error = NoError /\ ~clientState'.isFrozen
  BY <1>5, <1>7 DEF HandleSP1MembershipProof, Returned, KeepClient, Deployed
<1>9. file'.args.command = "membership"
  BY DEF commandVars
<1>10. QED
  BY <1>8, <1>9 DEF FixtureServed

\* An update with membership is taken for each of its pairs: the pairs are those
\* of the state the update has just stored.
LEMMA SubmitUcAndMembership ==
    ASSUME NEW h, NEW time, Deployed(h, time),
           file.args.command = "update-client-and-membership",
           NEW i \in DOMAIN FileKVPairs,
           Membership(FileMembershipMsg(FileKVPairs[i])), UNCHANGED commandVars
    PROVE  FixtureServed'
<1> DEFINE n == file.args.targetBlock
           paths == file.args.keyPaths
           env == EnvOf(Chain[h], clientState, time)
           o == UpdateOutput(Chain[h], Chain[n], env)
           m == FileMembershipMsg(FileKVPairs[i])
           hashes == HashesWith(m.proofHeight, o.newConsensusState)
<1>1. /\ h \in Heights /\ n \in Heights /\ env \in Env /\ env.now = time
      /\ paths \in Seq(Paths)
      /\ UcAndMembershipProvable(Chain[h], Chain[n], env, paths)
      /\ file.message = UcAndMembershipProofMsg(Chain[h], Chain[n], env, paths)
  <2>1. h \in Heights /\ env \in Env /\ env.now = time /\ file.args \in CommandLines
    BY DEF Deployed, Accepted
  <2>2. n \in Heights
    BY ReadsChain DEF Deployed
  <2>3. paths \in Seq(Paths)
    BY <2>1, ArgsTyped
  <2>4. /\ UcAndMembershipProvable(Chain[h], Chain[n], env, paths)
        /\ file.message = UcAndMembershipProofMsg(Chain[h], Chain[n], env, paths)
    BY DEF Deployed, Proven
  <2>5. QED
    BY <2>1, <2>2, <2>3, <2>4
<1>2. file.message.sp1Proof.publicValues
          = [updateClientOutput |-> o, kvPairs |-> KVPairsAt(paths, n)]
  BY <1>1, UcAndMembershipProved
<1>3. /\ o.env = env /\ o.newHeight = HeightOf(Chain[n])
      /\ o.newHeight.revisionHeight = n
      /\ o.newConsensusState = ConsensusStateOf(Chain[n])
  BY <1>1, UpdateOutputFields
<1> HIDE DEF o, env
<1>4. /\ i \in 1..Len(paths)
      /\ FileKVPairs[i] = Query(paths[i], n - 1) /\ FileKVPairs[i].path = paths[i]
  BY <1>1, <1>2, AnswersTyped DEF FileKVPairs
<1>5. m = UcAndMembershipMsgOf(h, n, env, paths, i)
  BY <1>1, <1>2, <1>3, <1>4 DEF FileMembershipMsg, UcAndMembershipMsgOf
<1> HIDE DEF m
<1>6. /\ m.proofHeight = o.newHeight
      /\ m.proof = file.message
  BY <1>1, <1>3, <1>5 DEF UcAndMembershipMsgOf
<1>7. m.proof.proofType = "SP1MembershipAndUpdateClientProof"
  BY <1>1, <1>6 DEF UcAndMembershipProofMsg
<1>8. CheckUpdateResult(o) = "Update" /\ hashes[n] = ConsensusStateOf(Chain[n])
  <2>1. h < n /\ n \in UINT32 /\ h \in Nat
    BY <1>1, UpdateProved, ChainHeights DEF UcAndMembershipProvable
  <2>2. ~IsStored(n)
    BY <2>1 DEF Deployed
  <2>3. n \in DOMAIN consensusStateHashes
    BY <2>1 DEF Deployed
  <2>4. QED
    BY <1>3, <1>6, <2>2, <2>3 DEF CheckUpdateResult, HashesWith
<1> HIDE DEF hashes
<1>9. ASSUME FileIsFresh'
      PROVE  /\ UcAndMembershipError(m) = NoError
             /\ UcAndMembershipFinalError(m, hashes) = NoError
  <2>1. UNCHANGED <<file, blockTimestamp>>
    BY <1>7 DEF Membership, HandleSP1UpdateClientAndMembership, Reverted, Returned,
                commandVars, m
  <2>2. blockTimestamp - env.now <= ALLOWED_SP1_CLOCK_DRIFT
    BY <1>2, <1>3, <1>9, <2>1 DEF FileIsFresh, FileEnv
  <2>3. EnvIsValid(env)
    BY <1>1, <2>2 DEF Deployed, env
  <2>4. ~clientState.isFrozen /\ IsTrusted(HeightOf(Chain[h]), ConsensusStateOf(Chain[h]))
    BY DEF Deployed
  <2>5. CheckUpdateResult(UpdateOutput(Chain[h], Chain[n], env)) # "Misbehaviour"
    BY <1>8 DEF o
  <2>6. QED
    BY <1>1, <1>4, <1>5, <1>8, <2>3, <2>4, <2>5, UcAndMembershipTaken
<1>10. HandleSP1UpdateClientAndMembership(m)
  BY <1>7 DEF Membership, m
<1>11. ASSUME FileIsFresh'
       PROVE  receipt'.error = NoError /\ ~clientState'.isFrozen
  <2>1. m.proof.sp1Proof.publicValues.updateClientOutput = o
    BY <1>2, <1>6
  <2>2. /\ Returned("membership", m, NoResult, o.newConsensusState.timestamp)
        /\ StoreConsensusState(m.proofHeight, o.newConsensusState)
    BY <1>8, <1>9, <1>10, <1>11, <2>1
    DEF HandleSP1UpdateClientAndMembership, ??, hashes
  <2>3. clientState'.isFrozen = clientState.isFrozen
    BY <2>2 DEF StoreConsensusState, Deployed, ClientState
  <2>4. receipt'.error = NoError
    BY <2>2 DEF Returned
  <2>5. QED
    BY <2>3, <2>4 DEF Deployed
<1>12. file'.args.command = "update-client-and-membership"
  BY DEF commandVars
<1>13. QED
  BY <1>11, <1>12 DEF FixtureServed

-----------------------------------------------------------------------------
(* The invariant is inductive: the steps of a command.                     *)

\* A command that runs alone, on a contract that is not there yet, keeps the
\* invariant if what it holds and what it writes are as they should be.
LEMMA CommandSteps ==
    ASSUME CommandsInv, ~deployed, CommandOnly, Holds(command', head),
           \/ UNCHANGED file
           \/ Written(file'.args, file'.genesis, file'.message, head, blockTimestamp)
    PROVE  CommandsInv'
<1>1. UNCHANGED <<head, unbondingPeriod, blockTimestamp, deployed>>
  BY DEF CommandOnly, vars
<1>2. /\ (head \in Heights)' /\ (unbondingPeriod \in UnbondingPeriods)'
      /\ (blockTimestamp \in 0..MaxTimestamp)'
  BY <1>1 DEF CommandsInv
<1>3. Holds(command, head)'
  BY <1>1
<1>4. FileInv'
  BY <1>1 DEF CommandsInv, FileInv
<1>5. DeploymentInv' /\ FixtureServed'
  BY <1>1 DEF DeploymentInv, FixtureServed, Submitted
<1>6. QED
  BY <1>2, <1>3, <1>4, <1>5 DEF CommandsInv

\* A command does not run on a contract that is deployed.
LEMMA NotDeployed ==
    ASSUME CommandsInv, ~At("idle") PROVE ~deployed
BY DEF CommandsInv, DeploymentInv

\* An idle command holds nothing.
LEMMA IdleHolds ==
    ASSUME NEW top PROVE Holds(Idle, top)
BY DEF Holds, Idle, CommandRecord, PCs, Nothing

\* A command that fails writes nothing.
LEMMA FailsKeeps ==
    ASSUME CommandsInv, ~At("idle"), Fails, CommandOnly
    PROVE  CommandsInv'
BY NotDeployed, IdleHolds, CommandSteps DEF Fails

\* What a command holds, by its fields.
LEMMA CommandFields ==
    ASSUME CommandsInv
    PROVE  /\ command \in CommandRecord /\ head \in Heights
           /\ ~At("idle") => Accepted(command.args)
           /\ At("first parameters") \/ At("parameters") \/ At("proving") =>
                  \E h \in 1..head :
                      /\ Reads(command.args, h, head)
                      /\ command.trusted = Chain[h]
                      /\ At("proving") => GenesisMade(command.args, h, command.genesis)
BY DEF CommandsInv, Holds, At

\* A command line that is taken has a level the programs can use.
LEMMA InvokeInv == ASSUME CommandsInv, Invoke PROVE CommandsInv'
<1>1. PICK args \in CommandLines :
          /\ Accepted(args)
          /\ command' = [Idle EXCEPT !.pc = "blocks", !.args = args]
  BY DEF Invoke, Accepted, ParseTrustThreshold
<1>2. command' = [pc |-> "blocks", args |-> args, trusted |-> Nothing,
                  genesis |-> Nothing]
  BY <1>1 DEF Idle
<1>3. command' \in CommandRecord
  BY <1>2 DEF CommandRecord, PCs
<1>4. command'.pc = "blocks" /\ command'.args = args
  BY <1>2
<1>5. Holds(command', head)
  BY <1>1, <1>3, <1>4 DEF Holds
<1>6. QED
  BY <1>5, CommandSteps DEF Invoke

\* The blocks read are those the command line names, and are of the chain.
LEMMA GetLightBlocksInv == ASSUME CommandsInv, GetLightBlocks PROVE CommandsInv'
<1>1. ~At("idle")
  BY DEF GetLightBlocks, At
<1>2. CASE HeightsRead \subseteq 1..head
  <2> DEFINE pc == IF Is({"misbehaviour"}) THEN "first parameters" ELSE "parameters"
             h == TrustedHeight
  <2>1. /\ command' = [command EXCEPT !.trusted = Chain[h], !.pc = pc]
        /\ UNCHANGED file
    BY <1>2 DEF GetLightBlocks
  <2>2. Reads(command.args, h, head)
    <3>1. h \in 1..head
      BY <1>2 DEF HeightsRead
    <3>2. command.args.command \in {"update-client", "update-client-and-membership"} =>
              command.args.targetBlock \in 1..head
      BY <1>2 DEF HeightsRead, Is
    <3>3. command.args.command = "misbehaviour" =>
              /\ h = NodeHeight(command.args.misbehaviour.trustedHeight2)
              /\ NodeHeight(command.args.misbehaviour.trustedHeight1) \in 1..head
      BY <1>2 DEF HeightsRead, Is, TrustedHeight
    <3>4. QED
      BY <3>1, <3>2, <3>3 DEF Reads
  <2>3. h \in 1..head /\ Chain[h] \in Blocks
    BY <2>2, CommandFields, ChainHeights DEF Reads
  <2>4. pc \in {"first parameters", "parameters"}
    OBVIOUS
  <2> HIDE DEF pc, h
  <2>5. /\ command' \in CommandRecord /\ command'.args = command.args
        /\ command'.pc = pc /\ command'.trusted = Chain[h]
    BY <2>1, <2>3, <2>4, CommandFields DEF CommandRecord, PCs
  <2>6. Holds(command', head)
    BY <1>1, <2>2, <2>3, <2>4, <2>5, CommandFields DEF Holds
  <2>7. QED
    BY <1>1, <2>1, <2>6, NotDeployed, CommandSteps DEF GetLightBlocks
<1>3. CASE ~(HeightsRead \subseteq 1..head)
  BY <1>1, <1>3, FailsKeeps DEF GetLightBlocks
<1>4. QED
  BY <1>2, <1>3

\* The first reading of the parameters is only looked at.
LEMMA FirstFromEnvInv == ASSUME CommandsInv, FirstFromEnv PROVE CommandsInv'
<1>1. ~At("idle") /\ At("first parameters")
  BY DEF FirstFromEnv, At
<1>2. CASE FromEnvSucceeds
  <2>1. command' = [command EXCEPT !.pc = "parameters"] /\ UNCHANGED file
    BY <1>2 DEF FirstFromEnv
  <2>2. /\ command' \in CommandRecord /\ command'.args = command.args
        /\ command'.pc = "parameters" /\ command'.trusted = command.trusted
    BY <2>1, CommandFields DEF CommandRecord, PCs
  <2>3. Holds(command', head)
    BY <1>1, <2>2, CommandFields DEF Holds
  <2>4. QED
    BY <1>1, <2>1, <2>3, NotDeployed, CommandSteps DEF FirstFromEnv
<1>3. CASE ~FromEnvSucceeds
  BY <1>1, <1>3, FailsKeeps DEF FirstFromEnv
<1>4. QED
  BY <1>2, <1>3

\* A file is written of what the command holds, with the message it makes now.
LEMMA WritesInv ==
    ASSUME CommandsInv, ~At("idle"), CommandOnly,
           NEW genesis, NEW message, Writes(genesis, message),
           NEW h \in 1..head, Reads(command.args, h, head),
           GenesisMade(command.args, h, genesis),
           Proven(command.args, h, EnvOf(Chain[h], genesis.clientState, blockTimestamp),
                  message)
    PROVE  CommandsInv'
<1>1. Accepted(command.args)
  BY CommandFields
<1>2. blockTimestamp \in 0..blockTimestamp
  BY ContractAssumption DEF CommandsInv
<1>3. Written(command.args, genesis, message, head, blockTimestamp)
  BY <1>1, <1>2 DEF Written
<1>4. /\ file'.args = command.args /\ file'.genesis = genesis
      /\ file'.message = message /\ command' = Idle
  BY DEF Writes
<1>5. QED
  BY <1>3, <1>4, NotDeployed, IdleHolds, CommandSteps

\* The genesis is made of the block read and of the parameter as it is now.
LEMMA FromEnvInv == ASSUME CommandsInv, FromEnv PROVE CommandsInv'
<1> DEFINE genesis == GenesisFromEnv(command.trusted)
<1>1. ~At("idle") /\ At("parameters")
  BY DEF FromEnv, At
<1>2. CASE ~FromEnvSucceeds
  BY <1>1, <1>2, FailsKeeps DEF FromEnv
<1>3. ASSUME FromEnvSucceeds
      PROVE  \E h \in 1..head :
                 /\ Reads(command.args, h, head)
                 /\ command.trusted = Chain[h]
                 /\ GenesisMade(command.args, h, genesis)
  <2>1. PICK h \in 1..head :
            Reads(command.args, h, head) /\ command.trusted = Chain[h]
    BY <1>1, CommandFields
  <2>2. unbondingPeriod \in UnbondingPeriods
    BY DEF CommandsInv
  <2>3. GenesisMade(command.args, h, genesis)
    BY <1>3, <2>1, <2>2 DEF GenesisMade, FromEnvSucceeds, GenesisFromEnv, Options
  <2>4. QED
    BY <2>1, <2>3
<1> HIDE DEF genesis
<1>4. CASE FromEnvSucceeds /\ Is({"genesis"})
  <2>1. Writes(genesis, Nothing)
    BY <1>4 DEF FromEnv, genesis
  <2>2. command.args.command = "genesis"
    BY <1>4 DEF Is
  <2>3. QED
    BY <1>1, <1>3, <1>4, <2>1, <2>2, WritesInv DEF FromEnv, Proven
<1>5. CASE FromEnvSucceeds /\ ~Is({"genesis"})
  <2>1. /\ command' = [command EXCEPT !.pc = "proving", !.genesis = genesis]
        /\ UNCHANGED file
    BY <1>5 DEF FromEnv, genesis
  <2>2. PICK h \in 1..head :
            /\ Reads(command.args, h, head)
            /\ command.trusted = Chain[h]
            /\ GenesisMade(command.args, h, genesis)
    BY <1>3, <1>5
  <2>3. genesis \in Genesis
    BY <1>1, <2>2, CommandFields, ReadsChain, GenesisTyped
  <2>4. /\ command' \in CommandRecord /\ command'.args = command.args
        /\ command'.pc = "proving" /\ command'.trusted = command.trusted
        /\ command'.genesis = genesis
    BY <2>1, <2>3, CommandFields DEF CommandRecord, PCs
  <2>5. Holds(command', head)
    BY <1>1, <2>2, <2>4, CommandFields DEF Holds
  <2>6. QED
    BY <1>1, <2>1, <2>5, NotDeployed, CommandSteps DEF FromEnv
<1>6. QED
  BY <1>2, <1>4, <1>5

\* Each prover writes what it proves of what it read, at the present time.
LEMMA ProverInv ==
    ASSUME CommandsInv,
           \/ ProveUpdateClient
           \/ ProveMembership
           \/ ProveUpdateClientAndMembership
           \/ ProveMisbehaviour
    PROVE  CommandsInv'
<1>1. At("proving") /\ ~At("idle") /\ CommandOnly
  BY DEF ProveUpdateClient, ProveMembership, ProveUpdateClientAndMembership,
         ProveMisbehaviour, At
<1>2. PICK h \in 1..head :
          /\ Reads(command.args, h, head)
          /\ command.trusted = Chain[h]
          /\ GenesisMade(command.args, h, command.genesis)
  BY <1>1, CommandFields
<1>3. CommandEnv = EnvOf(Chain[h], command.genesis.clientState, blockTimestamp)
  BY <1>2 DEF CommandEnv
<1>4. h \in Heights /\ Chain[h].height = h
  BY <1>2, CommandFields, ReadsChain, BlockOfChain
<1>5. Fails \/ \E message : /\ Writes(command.genesis, message)
                            /\ Proven(command.args, h, CommandEnv, message)
  <2>1. CASE ProveUpdateClient
    BY <1>2, <2>1 DEF ProveUpdateClient, Is, Proven, Target
  <2>2. CASE ProveMembership
    BY <1>2, <2>2 DEF ProveMembership, Is, Proven
  <2>3. CASE ProveUpdateClientAndMembership
    BY <1>2, <2>3 DEF ProveUpdateClientAndMembership, Is, Proven, Target
  <2>4. CASE ProveMisbehaviour
    BY <1>2, <2>4 DEF ProveMisbehaviour, Is, Proven
  <2>5. QED
    BY <2>1, <2>2, <2>3, <2>4
<1>6. QED
  BY <1>1, <1>2, <1>3, <1>5, FailsKeeps, WritesInv

-----------------------------------------------------------------------------
(* The invariant is inductive: the deployment and everything around it.    *)

\* The constructor leaves the contract as the genesis of the file has it.
LEMMA DeployInv == ASSUME CommandsInv, Deploy PROVE CommandsInv'
<1>1. UNCHANGED <<blockTimestamp, head, unbondingPeriod, command, file>>
  BY DEF Deploy
<1>2. /\ (head \in Heights)' /\ (unbondingPeriod \in UnbondingPeriods)'
      /\ (blockTimestamp \in 0..MaxTimestamp)' /\ Holds(command, head)' /\ FileInv'
  BY <1>1 DEF CommandsInv, FileInv
<1>3. ~Submitted'
  BY DEF Deploy, Submitted, ConstructorReceipt
<1>4. Constructed'
  BY DEF Deploy, Constructed
<1>5. DeploymentInv' /\ FixtureServed'
  BY <1>1, <1>3, <1>4 DEF Deploy, DeploymentInv, FixtureServed, At
<1>6. QED
  BY <1>2, <1>5 DEF CommandsInv

\* The message of the file is served, and is submitted once.
LEMMA SubmitFileInv == ASSUME CommandsInv, SubmitFile PROVE CommandsInv'
<1>1. deployed /\ receipt.fn = "constructor" /\ UNCHANGED commandVars
  BY DEF SubmitFile
<1>2. UNCHANGED <<head, unbondingPeriod, command, file, deployed>>
  BY <1>1 DEF commandVars
<1>3. PICK h, time : Deployed(h, time)
  BY <1>1, AtDeployment DEF Submitted
<1>4. CASE file.args.command = "update-client" /\ UpdateClient(file.message)
  <2>1. FixtureServed'
    BY <1>1, <1>3, <1>4, SubmitUpdate
  <2>2. receipt'.fn # "constructor" /\ UNCHANGED blockTimestamp
    BY <1>4 DEF UpdateClient, Reverted, Returned
  <2>3. QED
    BY <1>1, <1>2, <1>4, <2>1, <2>2
    DEF CommandsInv, FileInv, DeploymentInv, Submitted, At
<1>5. ASSUME file.args.command \in {"membership", "update-client-and-membership"},
             NEW i \in DOMAIN FileKVPairs,
             Membership(FileMembershipMsg(FileKVPairs[i]))
      PROVE  CommandsInv'
  <2>1. FixtureServed'
    BY <1>1, <1>3, <1>5, SubmitMembership, SubmitUcAndMembership
  <2>2. receipt'.fn # "constructor" /\ UNCHANGED blockTimestamp
    BY <1>5 DEF Membership, HandleSP1MembershipProof,
                HandleSP1UpdateClientAndMembership, Reverted, Returned
  <2>3. QED
    BY <1>1, <1>2, <1>5, <2>1, <2>2
    DEF CommandsInv, FileInv, DeploymentInv, Submitted, At
<1>6. CASE file.args.command = "misbehaviour" /\ Misbehaviour(file.message)
  <2>1. FixtureServed'
    BY <1>1, <1>3, <1>6, SubmitEvidence
  <2>2. receipt'.fn # "constructor" /\ UNCHANGED blockTimestamp
    BY <1>6 DEF Misbehaviour, Reverted, Returned
  <2>3. QED
    BY <1>1, <1>2, <1>6, <2>1, <2>2
    DEF CommandsInv, FileInv, DeploymentInv, Submitted, At
<1>7. QED
  BY <1>4, <1>5, <1>6 DEF SubmitFile

\* The chain grows above what was read.
LEMMA ProduceBlockInv == ASSUME CommandsInv, ProduceBlock PROVE CommandsInv'
<1>1. UNCHANGED <<vars, unbondingPeriod, command, file, deployed>>
  BY DEF ProduceBlock
<1>2. head \in Heights /\ head' \in Heights /\ head <= head'
  <2>1. head \in Heights /\ head \in Nat /\ Len(Chain) \in Nat
    BY ChainHeights, NodeAssumption DEF CommandsInv
  <2>2. QED
    BY <2>1 DEF ProduceBlock, Heights
<1>3. blockTimestamp \in 0..MaxTimestamp /\ UNCHANGED blockTimestamp
  BY <1>1 DEF CommandsInv, vars
<1>4. blockTimestamp <= blockTimestamp
  BY <1>3, ContractAssumption
<1>5. Holds(command, head')
  BY <1>2, HoldsLater DEF CommandsInv
<1>6. FileInv'
  BY <1>1, <1>2, <1>3, <1>4, WrittenLater DEF CommandsInv, FileInv
<1>7. DeploymentInv' /\ FixtureServed'
  BY <1>1 DEF CommandsInv, DeploymentInv, Constructed, FixtureServed, Submitted,
              FileIsFresh, FileEnv, OneTrustedHeight, At, vars
<1>8. QED
  BY <1>1, <1>2, <1>3, <1>5, <1>6, <1>7 DEF CommandsInv

\* The parameter is read where it is used, so it may change anywhere.
LEMMA ChangeParametersInv == ASSUME CommandsInv, ChangeParameters PROVE CommandsInv'
<1>1. /\ (unbondingPeriod \in UnbondingPeriods)'
      /\ UNCHANGED <<vars, head, command, file, deployed>>
  BY DEF ChangeParameters
<1>2. FileInv' /\ DeploymentInv' /\ FixtureServed'
  BY <1>1 DEF CommandsInv, FileInv, DeploymentInv, Constructed, FixtureServed,
              Submitted, FileIsFresh, FileEnv, OneTrustedHeight, At, vars
<1>3. QED
  BY <1>1, <1>2 DEF CommandsInv, vars

\* A file that is fresh was fresh before.
LEMMA WasFresh ==
    ASSUME CommandsInv, deployed, file.args.command # "genesis",
           blockTimestamp' \in 0..MaxTimestamp, blockTimestamp <= blockTimestamp',
           UNCHANGED file, FileIsFresh'
    PROVE  FileIsFresh
<1>1. CASE file.args.command = "membership"
  BY <1>1 DEF FileIsFresh
<1>2. CASE file.args.command # "membership"
  <2>1. blockTimestamp' - FileEnv.now <= ALLOWED_SP1_CLOCK_DRIFT
    BY <1>2 DEF FileIsFresh, FileEnv
  <2>2. FileEnv.now \in Int
    <3>1. /\ head \in Heights /\ blockTimestamp \in 0..MaxTimestamp
          /\ Written(file.args, file.genesis, file.message, head, blockTimestamp)
      BY DEF CommandsInv, DeploymentInv, FileInv
    <3>2. file.args.command \in {"genesis", "update-client", "membership",
                                 "update-client-and-membership", "misbehaviour"}
      BY <3>1, ArgsTyped DEF Written, Accepted
    <3>3. \A env \in Env : env.now \in Int
      BY MsgsAssumption DEF Env, UINT64
    <3>4. CASE file.args.command = "update-client"
      <4>1. file.message \in MsgUpdateClient
        BY <3>1, <3>4, WrittenTyped
      <4>2. file.message.sp1Proof.publicValues.env \in Env
        BY <4>1 DEF MsgUpdateClient, SP1ProofOf, UpdateClientOutput
      <4>3. QED
        BY <3>3, <3>4, <4>2 DEF FileEnv
    <3>5. CASE file.args.command = "misbehaviour"
      <4>1. file.message \in MsgSubmitMisbehaviour
        BY <3>1, <3>5, WrittenTyped
      <4>2. file.message.sp1Proof.publicValues.env \in Env
        BY <4>1 DEF MsgSubmitMisbehaviour, SP1ProofOf, MisbehaviourOutput
      <4>3. QED
        BY <3>3, <3>5, <4>2 DEF FileEnv
    <3>6. CASE file.args.command = "update-client-and-membership"
      <4>1. PICK h \in 1..head, time \in 0..blockTimestamp :
                /\ Reads(file.args, h, head)
                /\ GenesisMade(file.args, h, file.genesis)
                /\ Proven(file.args, h,
                          EnvOf(Chain[h], file.genesis.clientState, time),
                          file.message)
        BY <3>1 DEF Written
      <4> DEFINE env == EnvOf(Chain[h], file.genesis.clientState, time)
      <4>2. file.message = UcAndMembershipProofMsg(Chain[h],
                               Chain[file.args.targetBlock], env, file.args.keyPaths)
        BY <3>6, <4>1 DEF Proven
      <4>3. env.now = time /\ time \in Int
        BY <3>1, <4>1, ContractAssumption DEF EnvOf
      <4> HIDE DEF env
      <4>4. FileEnv = env
        BY <3>6, <4>2 DEF FileEnv, UcAndMembershipProofMsg, SP1ProofFrom, UpdateOutput
      <4>5. QED
        BY <4>3, <4>4
    <3>7. QED
      BY <1>2, <3>2, <3>4, <3>5, <3>6
  <2>3. blockTimestamp \in Int /\ blockTimestamp' \in Int
    BY ContractAssumption DEF CommandsInv
  <2>4. blockTimestamp - FileEnv.now <= ALLOWED_SP1_CLOCK_DRIFT
    BY <2>1, <2>2, <2>3, ContractAssumption
  <2>5. QED
    BY <2>4 DEF FileIsFresh
<1>3. QED
  BY <1>1, <1>2

\* Time passes, and a file only ages.
LEMMA ClockInv == ASSUME CommandsInv, Clock PROVE CommandsInv'
<1>1. UNCHANGED <<head, unbondingPeriod, command, file, deployed, contractVars, receipt>>
  BY DEF Clock, AdvanceTime, commandVars
<1>2. /\ blockTimestamp \in 0..MaxTimestamp /\ head \in Heights
      /\ blockTimestamp' \in 0..MaxTimestamp
      /\ blockTimestamp <= blockTimestamp'
  BY ContractAssumption DEF CommandsInv, Clock, AdvanceTime
<1>3. head <= head
  BY <1>2, ChainHeights
<1>4. FileInv'
  BY <1>1, <1>2, <1>3, WrittenLater DEF CommandsInv, FileInv
<1>5. DeploymentInv'
  BY <1>1 DEF CommandsInv, DeploymentInv, Constructed, Submitted, At, contractVars
<1>6. FixtureServed'
  <2>1. ASSUME Submitted', FileIsFresh'
        PROVE  FileIsFresh
    <3>1. deployed /\ file.args.command # "genesis"
      BY <1>1, <2>1 DEF CommandsInv, DeploymentInv, Submitted
    <3>2. QED
      BY <1>1, <1>2, <2>1, <3>1, WasFresh
  <2>2. QED
    BY <1>1, <2>1 DEF CommandsInv, FixtureServed, Submitted, OneTrustedHeight,
                      contractVars
<1>7. QED
  BY <1>1, <1>2, <1>4, <1>5, <1>6 DEF CommandsInv

\* Every step keeps the invariant.
LEMMA CommandsStep ==
    ASSUME CommandsInv, [CommandsNext]_deploymentVars
    PROVE  CommandsInv'
<1>1. CASE UNCHANGED deploymentVars
  BY <1>1 DEF CommandsInv, FileInv, DeploymentInv, Constructed, FixtureServed,
              Submitted, FileIsFresh, FileEnv, OneTrustedHeight, At, deploymentVars,
              commandVars, vars
<1>2. CASE CommandsNext
  BY <1>2, InvokeInv, GetLightBlocksInv, FirstFromEnvInv, FromEnvInv, ProverInv,
     DeployInv, SubmitFileInv, ProduceBlockInv, ChangeParametersInv, ClockInv
  DEF CommandsNext
<1>3. QED
  BY <1>1, <1>2

\* No command has run and nothing is deployed.
LEMMA CommandsInitially == CommandsInit => CommandsInv
<1> SUFFICES ASSUME CommandsInit PROVE CommandsInv
  OBVIOUS
<1>1. head \in Heights
  BY CommandsAssumption, NodeAssumption DEF CommandsInit, Heights
<1>2. Holds(command, head)
  BY IdleHolds DEF CommandsInit
<1>3. QED
  BY <1>1, <1>2, ContractAssumption
  DEF CommandsInit, CommandsInv, FileInv, DeploymentInv, FixtureServed, Submitted

\* It holds for every command line, every chain and every change of its parameter.
THEOREM CommandsInvariance == CommandsSpec => []CommandsInv
BY CommandsInitially, CommandsStep, PTL DEF CommandsSpec

-----------------------------------------------------------------------------
(* The properties.                                                         *)

\* What a file holds has the contract's types.
THEOREM CommandsTypeCorrect == CommandsSpec => []CommandsTypeOK
<1>1. CommandsInv => CommandsTypeOK
  <2> SUFFICES ASSUME CommandsInv PROVE CommandsTypeOK
    OBVIOUS
  <2>1. /\ head \in Heights /\ unbondingPeriod \in UnbondingPeriods
        /\ command.pc \in {"idle", "blocks", "first parameters", "parameters",
                           "proving"}
    BY DEF CommandsInv, Holds, CommandRecord, PCs
  <2>2. ASSUME file # Nothing
        PROVE  /\ file.genesis.clientState \in ClientState
               /\ file.genesis.consensusState \in ConsensusState
               /\ file.args.command = "genesis" => file.message = Nothing
               /\ file.args.command = "update-client" => file.message \in MsgUpdateClient
               /\ file.args.command = "misbehaviour" =>
                      file.message \in MsgSubmitMisbehaviour
               /\ file.args.command \in {"membership", "update-client-and-membership"} =>
                      file.message \in MembershipProof
               /\ file.args.command \in {"genesis", "update-client", "membership",
                                         "update-client-and-membership", "misbehaviour"}
    <3>1. /\ head \in Heights /\ blockTimestamp \in 0..MaxTimestamp
          /\ Written(file.args, file.genesis, file.message, head, blockTimestamp)
      BY <2>2 DEF CommandsInv, FileInv
    <3>2. file.genesis \in Genesis
      BY <3>1, WrittenTyped
    <3>3. file.args \in CommandLines
      BY <3>1 DEF Written, Accepted
    <3>4. QED
      BY <3>1, <3>2, <3>3, WrittenTyped, ArgsTyped DEF Genesis
  <2>3. QED
    BY <2>1, <2>2 DEF CommandsTypeOK
<1>2. QED
  BY <1>1, CommandsInvariance, PTL

\* The contract made of a genesis takes the message written with it.
THEOREM FixtureServedCorrect == CommandsSpec => []FixtureServed
BY CommandsInvariance, PTL DEF CommandsInv

\* A product of two numbers grows strictly with the first.
LEMMA TicksStrict ==
    ASSUME NEW x \in Nat, NEW y \in Nat, NEW k \in Nat \ {0}, x < y
    PROVE  x * k < y * k
<1>1. (x + 1) * k <= y * k
  BY TicksMonotone
<1>2. (x + 1) * k = x * k + k
  OBVIOUS
<1>3. x * k \in Nat /\ y * k \in Nat /\ k > 0
  OBVIOUS
<1>4. QED
  BY <1>1, <1>2, <1>3

\* Whole seconds are at most the time, and less than a second behind it.
LEMMA SecondsBound ==
    ASSUME NEW time \in Nat
    PROVE  /\ Seconds(time) \in Nat
           /\ Seconds(time) * TicksPerSecond <= time
           /\ time < (Seconds(time) + 1) * TicksPerSecond
<1>1. TicksPerSecond \in Nat \ {0}
  BY ChainAssumption
<1>2. ASSUME NEW k \in Nat \ {0}
      PROVE  /\ time \div k \in Nat
             /\ time = (time \div k) * k + (time % k)
             /\ time % k \in 0..(k - 1)
  BY <1>2
<1> DEFINE q == time \div TicksPerSecond
<1>3. /\ q \in Nat /\ time = q * TicksPerSecond + (time % TicksPerSecond)
      /\ time % TicksPerSecond \in 0..(TicksPerSecond - 1)
  BY <1>1, <1>2
<1> HIDE DEF q
<1>4. (q + 1) * TicksPerSecond = q * TicksPerSecond + TicksPerSecond
  BY <1>1, <1>3
<1>5. q * TicksPerSecond \in Nat
  BY <1>1, <1>3
<1>6. q * TicksPerSecond <= time /\ time < (q + 1) * TicksPerSecond
  BY <1>1, <1>3, <1>4, <1>5
<1>7. QED
  BY <1>3, <1>6 DEF Seconds, q

\* What the update command asserts of a block and its next one, at a time after
\* the next one and within the trusting period.
LEMMA NextProvable ==
    ASSUME ChainIsValid, NEW h \in Heights, h + 1 \in Heights,
           NEW client, ValidThreshold(client.trustLevel),
           client.trustLevel \in TrustThreshold, client.trustingPeriod \in UINT32,
           NEW now \in 0..MaxTimestamp,
           Seconds(Chain[h + 1].time) < now,
           now < Seconds(Chain[h].time) + client.trustingPeriod
    PROVE  UpdateProvable(Chain[h], Chain[h + 1], EnvOf(Chain[h], client, now))
<1> DEFINE b == Chain[h]
           next == Chain[h + 1]
           env == EnvOf(b, client, now)
           trusted == ConsensusStateOf(b)
<1>1. /\ env \in Env /\ env.chainId = b.chainId /\ env.now = now
      /\ env.trustThreshold = client.trustLevel
      /\ env.trustingPeriod = client.trustingPeriod
  BY EnvOfTyped DEF EnvOf
<1>2. /\ b \in Block /\ next \in Block /\ b.height = h /\ next.height = h + 1
      /\ h \in Nat /\ next.chainId = b.chainId
      /\ HeightOf(b).revisionNumber = RevisionNumber[next.chainId]
      /\ HeightOf(b).revisionHeight = h
  <2>1. b \in Block /\ b.height = h /\ HeightOf(b).revisionHeight = h /\ h \in Nat
    BY BlockOfChain, ChainHeights
  <2>2. next \in Block /\ next.height = h + 1
    BY BlockOfChain
  <2>3. /\ next.chainId = b.chainId
        /\ HeightOf(b).revisionNumber = RevisionNumber[next.chainId]
    BY OneRevision
  <2>4. QED
    BY <2>1, <2>2, <2>3
<1>3. /\ trusted.timestamp = Seconds(b.time)
      /\ trusted.nextValidatorsHash = b.nextValidators
  BY DEF ConsensusStateOf
<1>4. /\ b.time < next.time /\ next.validators = b.nextValidators
      /\ VerifyCommit(next)
  BY DEF ChainIsValid
<1>5. b.time \in Nat /\ next.time \in Nat
  BY <1>2 DEF Block
<1>6. /\ Seconds(b.time) \in Nat /\ Seconds(next.time) \in Nat
      /\ Seconds(b.time) * TicksPerSecond <= b.time
      /\ next.time < (Seconds(next.time) + 1) * TicksPerSecond
  BY <1>5, SecondsBound
<1>7. /\ now \in Nat /\ TicksPerSecond \in Nat \ {0} /\ client.trustingPeriod \in Nat
      /\ MAX_UINT64 \in Nat
  BY ContractAssumption, ChainAssumption, MsgsAssumption DEF UINT32
<1>8. HostTimestamp(env) = now * TicksPerSecond
  <2>1. now * TicksPerSecond <= MaxTimestamp * TicksPerSecond
    BY <1>7, ContractAssumption, TicksMonotone
  <2>2. now * TicksPerSecond \in Nat /\ MaxTimestamp * TicksPerSecond \in Nat
    BY <1>7, ContractAssumption
  <2>3. now * TicksPerSecond <= MAX_UINT64
    BY <1>7, <2>1, <2>2, ClockAssumption
  <2>4. QED
    BY <1>1, <1>7, <2>2, <2>3, ModSmall DEF HostTimestamp
<1> HIDE DEF b, next, env, trusted
<1>9. ValidateBasic(HeightOf(b), next)
  BY <1>2 DEF ValidateBasic
<1>10. WithinTrustPeriod(trusted, env)
  <2>1. /\ trusted.timestamp + env.trustingPeriod \in Nat
        /\ now < trusted.timestamp + env.trustingPeriod
    BY <1>1, <1>3, <1>6, <1>7 DEF b
  <2>2. now * TicksPerSecond
            < (trusted.timestamp + env.trustingPeriod) * TicksPerSecond
    BY <1>7, <2>1, TicksStrict
  <2>3. /\ now * TicksPerSecond \in Nat
        /\ (trusted.timestamp + env.trustingPeriod) * TicksPerSecond \in Nat
    BY <1>7, <2>1
  <2>4. QED
    BY <1>8, <2>2, <2>3 DEF WithinTrustPeriod
<1>11. next.time > trusted.timestamp * TicksPerSecond
  <2>1. trusted.timestamp * TicksPerSecond \in Nat
    BY <1>3, <1>6, <1>7
  <2>2. QED
    BY <1>3, <1>4, <1>5, <1>6, <2>1
<1>12. EndorsedBy(trusted, h, next, env.trustThreshold)
  BY <1>2, <1>3, <1>4 DEF EndorsedBy
<1>13. next.time < HostTimestamp(env)
  <2>1. Seconds(next.time) + 1 \in Nat /\ Seconds(next.time) + 1 <= now
    BY <1>6, <1>7 DEF next
  <2>2. (Seconds(next.time) + 1) * TicksPerSecond <= now * TicksPerSecond
    BY <1>7, <2>1, TicksMonotone
  <2>3. /\ (Seconds(next.time) + 1) * TicksPerSecond \in Nat
        /\ now * TicksPerSecond \in Nat
    BY <1>7, <2>1
  <2>4. QED
    BY <1>5, <1>6, <1>8, <2>2, <2>3
<1>14. VerifyAgainstTrusted(trusted, HeightOf(b), next, env)
  BY <1>1, <1>2, <1>4, <1>10, <1>11, <1>12 DEF VerifyAgainstTrusted
<1>15. UpdateProvable(b, next, env)
  BY <1>1, <1>9, <1>13, <1>14 DEF UpdateProvable, VerifyHeader, trusted
<1>16. QED
  BY <1>15 DEF b, next, env

\* On a valid chain, a genesis that is deployed takes the block after its own at
\* any time of its trusting period.
THEOREM GenesisServesCorrect ==
    ASSUME ChainIsValid
    PROVE  CommandsSpec => []GenesisServes
<1>1. CommandsInv => GenesisServes
  <2> DEFINE g == clientState.latestHeight.revisionHeight
             env == EnvOf(Chain[g], clientState, blockTimestamp)
             m == UpdateClientMsg(Chain[g], Chain[g + 1], env)
  <2>1. SUFFICES ASSUME CommandsInv, deployed, ~Submitted,
                        g + 1 \in 1..head,
                        Seconds(Chain[g + 1].time) < blockTimestamp,
                        blockTimestamp
                            < Seconds(Chain[g].time) + clientState.trustingPeriod
                 PROVE  /\ UpdateProvable(Chain[g], Chain[g + 1], env)
                        /\ UpdateClientError(m) = NoError
    BY DEF GenesisServes
  <2>2. PICK h, time : Deployed(h, time)
    BY <2>1, AtDeployment
  <2>3. h \in Heights /\ g = h
    BY <2>2, BlockOfChain DEF Deployed
  <2>4. head \in Heights /\ blockTimestamp \in 0..MaxTimestamp
    BY <2>1 DEF CommandsInv
  <2>5. g \in Heights /\ g + 1 \in Heights
    BY <2>1, <2>3, <2>4, ChainHeights
  <2>6. /\ ValidThreshold(clientState.trustLevel)
        /\ clientState.trustLevel \in TrustThreshold
        /\ clientState.trustingPeriod \in UINT32
    <3>1. clientState \in ClientState
      BY <2>2 DEF Deployed
    <3>2. clientState.trustLevel = file.args.trustOptions.trustLevel
      BY <2>2, <2>3, GenesisTyped DEF Deployed
    <3>3. ValidThreshold(file.args.trustOptions.trustLevel)
      BY <2>2 DEF Deployed, Accepted
    <3>4. QED
      BY <3>1, <3>2, <3>3 DEF ClientState
  <2>7. UpdateProvable(Chain[g], Chain[g + 1], env)
    BY <2>1, <2>4, <2>5, <2>6, NextProvable
  <2>8. env \in Env /\ EnvIsValid(env)
    <3>1. /\ blockTimestamp \in 0..blockTimestamp
          /\ blockTimestamp - blockTimestamp <= ALLOWED_SP1_CLOCK_DRIFT
      BY <2>4, ContractAssumption
    <3>2. QED
      BY <2>2, <2>3, <3>1 DEF Deployed
  <2>9. /\ ~clientState.isFrozen
        /\ IsTrusted(HeightOf(Chain[g]), ConsensusStateOf(Chain[g]))
    BY <2>2, <2>3 DEF Deployed
  <2>10. UpdateClientError(m) = NoError
    BY <2>5, <2>7, <2>8, <2>9, UpdateTaken
  <2>11. QED
    BY <2>7, <2>10
<1>2. QED
  BY <1>1, CommandsInvariance, PTL

\* What ContractAssumption, GenesisAssumption and OperatorAssumption ask of the
\* states a client is constructed with.
MeetsGenesisAssumptions(genesis) ==
    LET client == genesis.clientState
        state == genesis.consensusState
    IN  /\ client \in ClientState
        /\ state \in ConsensusState
        /\ ~client.isFrozen
        /\ \E b \in Blocks :
               /\ b.chainId = client.chainId
               /\ client.latestHeight = HeightOf(b)
               /\ state = ConsensusStateOf(b)
               /\ VerifyCommit(b)
        /\ \E h \in Heights, arg \in {client.trustingPeriod, NoPeriod} :
               /\ GenesisAllowed(arg, client.unbondingPeriod)
               /\ [clientState |-> client, consensusState |-> state]
                      = GenesisOf(Chain[h], arg, client.trustLevel,
                                  client.unbondingPeriod)

\* Every genesis a command writes, genesis or fixture, is one that the contract,
\* the operators and everything proved about them may start from.
THEOREM GenesisMeetsAssumptions ==
    ASSUME ChainIsValid
    PROVE  CommandsSpec => [](file # Nothing => MeetsGenesisAssumptions(file.genesis))
<1>1. CommandsInv => (file # Nothing => MeetsGenesisAssumptions(file.genesis))
  <2> DEFINE args == file.args
             genesis == file.genesis
             client == genesis.clientState
             state == genesis.consensusState
             given == args.trustOptions.trustingPeriod
  <2>1. SUFFICES ASSUME CommandsInv, file # Nothing
                 PROVE  MeetsGenesisAssumptions(genesis)
    OBVIOUS
  <2>2. PICK h \in 1..head : Accepted(args) /\ GenesisMade(args, h, genesis)
    BY <2>1 DEF CommandsInv, FileInv, Written
  <2>3. h \in Heights
    BY <2>1, ChainHeights DEF CommandsInv
  <2>4. /\ client \in ClientState
        /\ state = ConsensusStateOf(Chain[h])
        /\ ~client.isFrozen
        /\ client.chainId = Chain[h].chainId
        /\ client.latestHeight = HeightOf(Chain[h])
    BY <2>2, <2>3, GenesisTyped
  <2>5. /\ Chain[h] \in Blocks
        /\ ConsensusStateOf(Chain[h]) \in ConsensusState
        /\ VerifyCommit(Chain[h])
    BY <2>3, ChainHeights, BlockOfChain DEF ChainIsValid
  <2>6. PICK u \in UnbondingPeriods :
            LET period == TrustingPeriodOf(given, u)
            IN  /\ period <= u
                /\ client = [chainId |-> Chain[h].chainId,
                             trustLevel |-> args.trustOptions.trustLevel,
                             latestHeight |-> HeightOf(Chain[h]),
                             trustingPeriod |-> period,
                             unbondingPeriod |-> u, isFrozen |-> FALSE]
    BY <2>2, GenesisFields
  <2>7. \E arg \in {client.trustingPeriod, NoPeriod} :
            TrustingPeriodOf(arg, u) = TrustingPeriodOf(given, u)
    <3>1. CASE given = NoPeriod
      BY <3>1
    <3>2. CASE given # NoPeriod
      <4>1. client.trustingPeriod = given
        BY <2>6, <3>2 DEF TrustingPeriodOf
      <4>2. QED
        BY <4>1
    <3>3. QED
      BY <3>1, <3>2
  <2>8. PICK arg \in {client.trustingPeriod, NoPeriod} :
            TrustingPeriodOf(arg, u) = TrustingPeriodOf(given, u)
    BY <2>7
  <2>9. client.unbondingPeriod = u /\ client.trustLevel = args.trustOptions.trustLevel
    BY <2>6
  <2>10. /\ GenesisAllowed(arg, u)
         /\ client = ToSolClientState(Chain[h], client.trustLevel, u,
                                      TrustingPeriodOf(arg, u))
    BY <2>6, <2>8, <2>9 DEF GenesisAllowed, ToSolClientState
  <2> HIDE DEF client, state
  <2>11. [clientState |-> client, consensusState |-> state]
             = GenesisOf(Chain[h], arg, client.trustLevel, client.unbondingPeriod)
    BY <2>4, <2>9, <2>10, Zenon DEF GenesisOf
  <2>12. QED
    BY <2>3, <2>4, <2>5, <2>9, <2>10, <2>11 DEF MeetsGenesisAssumptions, client, state
<1>2. QED
  BY <1>1, CommandsInvariance, PTL

=============================================================================
