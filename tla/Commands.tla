------------------------------- MODULE Commands -------------------------------
(***************************************************************************)
(* The operator's genesis and fixtures commands, their command line        *)
(* (operator/src/cli/command.rs, runners/genesis.rs, runners/fixtures/),   *)
(* and the deployment of what they write.                                  *)
(*                                                                         *)
(* A command reads blocks, then the staking parameters, then the clock,    *)
(* and writes a file.  In between the chain goes on and may change its     *)
(* parameters; the file is deployed, and its message submitted, later.     *)
(* There is one clock: that of the command's host is block.timestamp.      *)
(* A command that fails anywhere writes nothing.                           *)
(***************************************************************************)
EXTENDS SP1ICS07Tendermint, OperatorMsgs

CONSTANTS
    LatestBlock,        \* --trusted-block is not given
    CommandLines,       \* the command lines given, of type CommandLine
    UnbondingPeriods    \* the values the chain's parameter takes

\* --trust-level as the fraction written.
TrustOptions ==
    [trustLevel: TrustThreshold, trustingPeriod: UINT32 \cup {NoPeriod}]

GenesisArgs ==
    [command: {"genesis"}, trustedBlock: UINT32 \cup {LatestBlock},
     trustOptions: TrustOptions]

UpdateClientCmd ==
    [command: {"update-client"}, trustedBlock: UINT32, targetBlock: UINT32,
     trustOptions: TrustOptions]

MembershipCmd ==
    [command: {"membership"}, trustedBlock: UINT32, keyPaths: Seq(Paths),
     trustOptions: TrustOptions]

UpdateClientAndMembershipCmd ==
    [command: {"update-client-and-membership"}, trustedBlock: UINT32,
     targetBlock: UINT32, keyPaths: Seq(Paths), trustOptions: TrustOptions]

MisbehaviourCmd ==
    [command: {"misbehaviour"}, misbehaviour: MisbehaviourEvidence,
     trustOptions: TrustOptions]

CommandLine ==
    GenesisArgs \cup UpdateClientCmd \cup MembershipCmd
        \cup UpdateClientAndMembershipCmd \cup MisbehaviourCmd

\* The node has a block when it is first asked.
ASSUME CommandsAssumption ==
    /\ Chain # <<>>
    /\ LatestBlock \notin UINT32
    /\ CommandLines \subseteq CommandLine
    /\ UnbondingPeriods \subseteq UINT32

VARIABLES
    head,               \* height of the chain's last block
    unbondingPeriod,    \* the staking parameter of the chain
    command,            \* the command that runs and what it has read
    file,               \* what the last command wrote
    deployed            \* whether the contract was made from the file

commandVars == <<head, unbondingPeriod, command, file, deployed>>
deploymentVars == <<vars, commandVars>>

Nothing == <<>>

Idle ==
    [pc |-> "idle", args |-> Nothing, trusted |-> Nothing, genesis |-> Nothing]

At(pc) == command.pc = pc

Is(names) == command.args.command \in names

Fails == command' = Idle /\ UNCHANGED file

Writes(genesis, message) ==
    /\ command' = Idle
    /\ file' = [args |-> command.args, genesis |-> genesis, message |-> message]

\* A step of the command alone.
CommandOnly == UNCHANGED <<vars, head, unbondingPeriod, deployed>>

-----------------------------------------------------------------------------
(* Command lines.                                                          *)

\* Mutant: any fraction is a trust level.
ParseTrustThresholdAny(fraction) == TRUE

\* TrustThreshold::new refuses what the programs could not use.
ParseTrustThreshold(fraction) == ValidThreshold(fraction)

\* The assertions at the beginning of the fixture commands.
Sensible(args) ==
    /\ args.command \in {"update-client", "update-client-and-membership"}
           => args.trustedBlock < args.targetBlock
    /\ args.command = "membership" => args.keyPaths # <<>>

Invoke ==
    /\ At("idle")
    /\ ~deployed
    /\ \E args \in CommandLines :
           /\ ParseTrustThreshold(args.trustOptions.trustLevel)
           /\ Sensible(args)
           /\ command' = [Idle EXCEPT !.pc = "blocks", !.args = args]
    /\ CommandOnly /\ UNCHANGED file

-----------------------------------------------------------------------------
(* Reads.                                                                  *)

\* The light block the genesis is made of: of misbehaviour, the second one.
TrustedHeight ==
    IF Is({"misbehaviour"}) THEN NodeHeight(command.args.misbehaviour.trustedHeight2)
    ELSE IF command.args.trustedBlock = LatestBlock THEN head
    ELSE command.args.trustedBlock

HeightsRead ==
    {TrustedHeight}
        \cup (IF Is({"update-client", "update-client-and-membership"})
              THEN {command.args.targetBlock} ELSE {})
        \cup (IF Is({"misbehaviour"})
              THEN {NodeHeight(command.args.misbehaviour.trustedHeight1)} ELSE {})

\* A block below the head never changes, so all reads of blocks are one step.
GetLightBlocks ==
    /\ At("blocks")
    /\ IF HeightsRead \subseteq 1..head
       THEN /\ command' =
                  [command EXCEPT !.trusted = Chain[TrustedHeight],
                       !.pc = IF Is({"misbehaviour"}) THEN "first parameters"
                                                      ELSE "parameters"]
            /\ UNCHANGED file
       ELSE Fails
    /\ CommandOnly

\* SP1ICS07TendermintGenesis::from_env, which reads the staking parameters.
Options == command.args.trustOptions

FromEnvSucceeds == GenesisAllowed(Options.trustingPeriod, unbondingPeriod)

GenesisFromEnv(b) ==
    GenesisOf(b, Options.trustingPeriod, Options.trustLevel, unbondingPeriod)

\* The misbehaviour command makes a genesis of the first trusted block too, and
\* keeps only its consensus state, which is the block's.
FirstFromEnv ==
    /\ At("first parameters")
    /\ IF FromEnvSucceeds
       THEN command' = [command EXCEPT !.pc = "parameters"] /\ UNCHANGED file
       ELSE Fails
    /\ CommandOnly

\* Mutant: the file is written before the proof is made.
FromEnvAtOnce ==
    /\ At("parameters")
    /\ IF FromEnvSucceeds
       THEN Writes(GenesisFromEnv(command.trusted), Nothing)
       ELSE Fails
    /\ CommandOnly

\* The genesis command ends here.
FromEnv ==
    /\ At("parameters")
    /\ \/ /\ ~FromEnvSucceeds
          /\ Fails
       \/ /\ FromEnvSucceeds
          /\ Is({"genesis"})
          /\ Writes(GenesisFromEnv(command.trusted), Nothing)
       \/ /\ FromEnvSucceeds
          /\ ~Is({"genesis"})
          /\ command' = [command EXCEPT !.pc = "proving",
                              !.genesis = GenesisFromEnv(command.trusted)]
          /\ UNCHANGED file
    /\ CommandOnly

-----------------------------------------------------------------------------
(* Proofs.                                                                 *)

CommandEnv == EnvOf(command.trusted, command.genesis.clientState, blockTimestamp)

Target == Chain[command.args.targetBlock]

ProveUpdateClient ==
    /\ At("proving") /\ Is({"update-client"})
    /\ IF UpdateProvable(command.trusted, Target, CommandEnv)
       THEN Writes(command.genesis, UpdateClientMsg(command.trusted, Target, CommandEnv))
       ELSE Fails
    /\ CommandOnly

\* The fixture has the proof; a test asks it for one of the paths.
ProveMembership ==
    LET paths == command.args.keyPaths
    IN  /\ At("proving") /\ Is({"membership"})
        /\ IF KVPairsProvable(paths, command.trusted)
           THEN Writes(command.genesis, MembershipProofMsg(command.trusted, paths))
           ELSE Fails
        /\ CommandOnly

ProveUpdateClientAndMembership ==
    LET paths == command.args.keyPaths
    IN  /\ At("proving") /\ Is({"update-client-and-membership"})
        /\ IF UcAndMembershipProvable(command.trusted, Target, CommandEnv, paths)
           THEN Writes(command.genesis,
                       UcAndMembershipProofMsg(command.trusted, Target, CommandEnv, paths))
           ELSE Fails
        /\ CommandOnly

ProveMisbehaviour ==
    LET evidence == command.args.misbehaviour
    IN  /\ At("proving") /\ Is({"misbehaviour"})
        /\ IF EvidenceProvable(evidence, CommandEnv)
           THEN Writes(command.genesis, SubmitMisbehaviourMsg(evidence, CommandEnv))
           ELSE Fails
        /\ CommandOnly

-----------------------------------------------------------------------------
(* Deployment, and everything around it.                                   *)

\* script/SP1ICS07Tendermint.s.sol, and setUp of the contract's tests.
Deploy ==
    /\ ~deployed
    /\ file # Nothing
    /\ At("idle")
    /\ deployed' = TRUE
    /\ UNCHANGED <<blockTimestamp, head, unbondingPeriod, command, file>>
    /\ clientState' = file.genesis.clientState
    /\ consensusStateHashes' =
           ConstructedHashes(file.genesis.clientState, file.genesis.consensusState)
    /\ verifiedProofs' = {}
    /\ receipt' = ConstructorReceipt

\* The message for one of the pairs of the fixture, at its proofHeight.
FileMembershipMsg(kv) ==
    [proofHeight |->
         IF file.args.command = "membership"
         THEN file.genesis.clientState.latestHeight
         ELSE file.message.sp1Proof.publicValues.updateClientOutput.newHeight,
     path |-> kv.path, value |-> kv.value, proof |-> file.message]

FileKVPairs == file.message.sp1Proof.publicValues.kvPairs

\* What the tests do with a fixture: its message, to the contract of its genesis.
SubmitFile ==
    /\ deployed
    /\ receipt.fn = "constructor"
    /\ \/ /\ file.args.command = "update-client"
          /\ UpdateClient(file.message)
       \/ /\ file.args.command \in {"membership", "update-client-and-membership"}
          /\ \E i \in DOMAIN FileKVPairs :
                 Membership(FileMembershipMsg(FileKVPairs[i]))
       \/ /\ file.args.command = "misbehaviour"
          /\ Misbehaviour(file.message)
    /\ UNCHANGED commandVars

ProduceBlock ==
    /\ head < Len(Chain)
    /\ Seconds(Chain[head + 1].time) <= blockTimestamp
    /\ head' = head + 1
    /\ UNCHANGED <<vars, unbondingPeriod, command, file, deployed>>

ChangeParameters ==
    /\ unbondingPeriod' \in UnbondingPeriods
    /\ UNCHANGED <<vars, head, command, file, deployed>>

Clock == AdvanceTime /\ UNCHANGED commandVars

CommandsInit ==
    /\ clientState = Nothing
    /\ consensusStateHashes = [h \in UINT32 |-> NoHash]
    /\ verifiedProofs = {}
    /\ receipt = [fn |-> "none"]
    /\ blockTimestamp = DeploymentTimestamp
    /\ head = 1
    /\ unbondingPeriod \in UnbondingPeriods
    /\ command = Idle
    /\ file = Nothing
    /\ deployed = FALSE

CommandsNext ==
    \/ Invoke
    \/ GetLightBlocks
    \/ FirstFromEnv
    \/ FromEnv
    \/ ProveUpdateClient
    \/ ProveMembership
    \/ ProveUpdateClientAndMembership
    \/ ProveMisbehaviour
    \/ Deploy
    \/ SubmitFile
    \/ ProduceBlock
    \/ ChangeParameters
    \/ Clock

CommandsSpec == CommandsInit /\ [][CommandsNext]_deploymentVars

-----------------------------------------------------------------------------
(* Correctness.                                                            *)

\* A file holds a genesis of the contract's types, and the message that its
\* command makes.
CommandsTypeOK ==
    /\ head \in Heights
    /\ unbondingPeriod \in UnbondingPeriods
    /\ command.pc \in {"idle", "blocks", "first parameters", "parameters", "proving"}
    /\ file # Nothing =>
           /\ file.genesis.clientState \in ClientState
           /\ file.genesis.consensusState \in ConsensusState
           /\ CASE file.args.command = "genesis" -> file.message = Nothing
                [] file.args.command = "update-client" ->
                       file.message \in MsgUpdateClient
                [] file.args.command = "misbehaviour" ->
                       file.message \in MsgSubmitMisbehaviour
                [] OTHER -> file.message \in MembershipProof

FileEnv ==
    LET o == file.message.sp1Proof.publicValues
    IN  IF file.args.command = "update-client-and-membership"
        THEN o.updateClientOutput.env ELSE o.env

\* Membership has no clock, the other proofs age.
FileIsFresh ==
    file.args.command = "membership"
        \/ blockTimestamp - FileEnv.now <= ALLOWED_SP1_CLOCK_DRIFT

Submitted == deployed /\ receipt.fn # "constructor"

\* Evidence whose two headers are for one trusted state.
OneTrustedHeight ==
    file.args.misbehaviour.trustedHeight1 = file.args.misbehaviour.trustedHeight2

\* A genesis and a message that one command wrote fit together, however the
\* chain and its parameters changed while the command ran: the contract made of
\* the one takes the other, an update as an update, until it is too old.
FixtureServed ==
    /\ Submitted
    /\ FileIsFresh
    /\ file.args.command = "misbehaviour" => OneTrustedHeight
    =>
        /\ receipt.error = NoError
        /\ file.args.command = "update-client" => receipt.result = "Update"
        /\ file.args.command = "misbehaviour" <=> clientState.isFrozen

\* What consensus makes of each block: two thirds of its validators committed it,
\* and the next block is later and from the validators it announced.
ChainIsValid ==
    \A h \in Heights :
        /\ VerifyCommit(Chain[h])
        /\ h + 1 \in Heights =>
               /\ Chain[h].time < Chain[h + 1].time
               /\ Chain[h + 1].validators = Chain[h].nextValidators

\* A genesis that is deployed, whenever that is and whatever trust options it
\* was made with, takes the block after its own at any time of its trusting
\* period: no combination of options the command line lets pass, and no value
\* of the chain's parameter, makes a client that every update of it reverts.
GenesisServes ==
    deployed /\ ~Submitted =>
        LET client == clientState
            h == client.latestHeight.revisionHeight
            env == EnvOf(Chain[h], client, blockTimestamp)
        IN  /\ h + 1 \in 1..head
            /\ Seconds(Chain[h + 1].time) < blockTimestamp
            /\ blockTimestamp < Seconds(Chain[h].time) + client.trustingPeriod
            =>
                /\ UpdateProvable(Chain[h], Chain[h + 1], env)
                /\ UpdateClientError(UpdateClientMsg(Chain[h], Chain[h + 1], env))
                       = NoError

=============================================================================
