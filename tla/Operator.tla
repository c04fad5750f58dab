------------------------------- MODULE Operator -------------------------------
(***************************************************************************)
(* The operator, operator/src/runners/operator.rs, composed with the       *)
(* contract it updates and the chain it reads.                             *)
(*                                                                         *)
(* One action is what run() does between two points where it waits: the    *)
(* state it read there may be stale when it uses it, time passes while the *)
(* proof is made, and a transaction that was sent is included later or     *)
(* after its sender died.  Several operators may serve one contract.       *)
(*                                                                         *)
(* run() ends at the first error (?) or panic; whoever runs it starts it   *)
(* again.                                                                  *)
(***************************************************************************)
EXTENDS SP1ICS07Tendermint, OperatorMsgs

CONSTANTS
    Operators,
    OnlyOnce,       \* --only-once
    ClockSkews,     \* host clock minus block.timestamp, in seconds
    MaxCrashes,     \* bound: how often operators are killed or an RPC fails
    PathLists,      \* the path lists relayers ask membership proofs for
    Evidence        \* the misbehaviour evidence relayers may find

\* What the genesis command wrote is what was deployed.
ASSUME OperatorAssumption ==
    /\ OnlyOnce \in BOOLEAN
    /\ ClockSkews \subseteq Int
    /\ \A skew \in ClockSkews, t \in DeploymentTimestamp..MaxTimestamp :
           t + skew \in UINT64
    /\ \A paths \in PathLists :
           paths \in Seq(Paths) /\ Len(paths) \in 1..UINT8_MAX
    /\ Evidence \subseteq MisbehaviourEvidence
    /\ MaxCrashes \in Nat
    /\ \E h \in Heights, arg \in {GenesisClientState.trustingPeriod, NoPeriod} :
           /\ GenesisAllowed(arg, GenesisClientState.unbondingPeriod)
           /\ [clientState |-> GenesisClientState,
               consensusState |-> GenesisConsensusState]
                  = GenesisOf(Chain[h], arg, GenesisClientState.trustLevel,
                              GenesisClientState.unbondingPeriod)

VARIABLES
    head,       \* height of the chain's last block
    op,         \* operator -> where run() is and what it holds
    mempool,    \* operator -> transactions its account sent, by nonce
    crashes

operatorVars == <<head, op, mempool, crashes>>
systemVars == <<vars, operatorVars>>

Nothing == <<>>

\* What a run() just started holds.  logged: the block the last run claimed to
\* have updated the client to, 0 before any did.
Started(logged) ==
    [pc |-> "polling", client |-> Nothing, target |-> 0, msg |-> Nothing,
     exit |-> "none", logged |-> logged]

Exited(o, reason) ==
    [Started(op[o].logged) EXCEPT !.pc = "exited", !.exit = reason]

At(o, pc) == op[o].pc = pc

\* A step of the operator that touches neither the contract nor the chain.
Becomes(o, local) ==
    /\ op' = [op EXCEPT ![o] = local]
    /\ UNCHANGED <<vars, head, crashes>>

-----------------------------------------------------------------------------
\* getClientState, then the light block of its latest height.  The assertion
\* that the height is not zero and a block the node does not have end the run.
GetClientState(o) ==
    /\ At(o, "polling")
    /\ Becomes(o, IF clientState.latestHeight.revisionHeight \in 1..head
                  THEN [op[o] EXCEPT !.pc = "targeting", !.client = clientState]
                  ELSE Exited(o, "failed"))
    /\ UNCHANGED mempool

TrustedBlock(o) == Chain[op[o].client.latestHeight.revisionHeight]

\* Mutant: the target is the block the client has.
GetTargetTrusted(o) ==
    /\ At(o, "targeting")
    /\ Becomes(o, [op[o] EXCEPT !.pc = "proving",
                       !.target = op[o].client.latestHeight.revisionHeight])
    /\ UNCHANGED mempool

\* The latest light block.
GetTarget(o) ==
    /\ At(o, "targeting")
    /\ Becomes(o, [op[o] EXCEPT !.pc = "proving", !.target = head])
    /\ UNCHANGED mempool

\* The environment at the host's clock, and the proof.  The prover panics when
\* the program does.
Prove(o) ==
    /\ At(o, "proving")
    /\ \E skew \in ClockSkews :
           LET target == Chain[op[o].target]
               env == EnvOf(TrustedBlock(o), op[o].client, blockTimestamp + skew)
           IN  Becomes(o,
                   IF UpdateProvable(TrustedBlock(o), target, env)
                   THEN [op[o] EXCEPT !.pc = "sending",
                             !.client = Nothing, !.target = 0,
                             !.msg = UpdateClientMsg(TrustedBlock(o), target, env)]
                   ELSE Exited(o, "panicked"))
    /\ UNCHANGED mempool

\* send() estimates the gas first, which fails when the call would revert.
Send(o) ==
    /\ At(o, "sending")
    /\ \/ /\ UpdateClientError(op[o].msg) = NoError
          /\ Becomes(o, [op[o] EXCEPT !.pc = "watching"])
          /\ mempool' = [mempool EXCEPT ![o] = Append(@, op[o].msg)]
       \/ /\ UpdateClientError(op[o].msg) # NoError
          /\ Becomes(o, Exited(o, "failed"))
          /\ UNCHANGED mempool

\* The transactions of one account are included in the order of their nonces.
Include(o) ==
    /\ mempool[o] # <<>>
    /\ UpdateClient(Head(mempool[o]))
    /\ mempool' = [mempool EXCEPT ![o] = Tail(@)]
    /\ UNCHANGED <<head, op, crashes>>

\* watch() returns once the transaction is included, whether it succeeded or
\* reverted.
Finish(o) ==
    LET logged == op[o].msg.sp1Proof.publicValues.newHeight.revisionHeight
    IN  /\ At(o, "watching")
        /\ mempool[o] = <<>>
        /\ Becomes(o, [Started(logged) EXCEPT
                           !.pc = IF OnlyOnce THEN "exited" ELSE "sleeping",
                           !.exit = IF OnlyOnce THEN "done" ELSE "none"])
        /\ UNCHANGED mempool

\* Mutant: the client state is read once, before the loop.
WakeWithoutReading(o) ==
    /\ At(o, "sleeping")
    /\ Becomes(o, [op[o] EXCEPT !.pc = "targeting"])
    /\ UNCHANGED mempool

\* Sixty seconds are short against the clocks modelled: any time may pass.
Wake(o) ==
    /\ At(o, "sleeping")
    /\ Becomes(o, [op[o] EXCEPT !.pc = "polling"])
    /\ UNCHANGED mempool

Restart(o) ==
    /\ At(o, "exited")
    /\ Becomes(o, Started(op[o].logged))
    /\ UNCHANGED mempool

\* The process is killed, or an RPC call fails and ? returns its error.
Crash(o) ==
    /\ ~At(o, "exited")
    /\ crashes < MaxCrashes
    /\ crashes' = crashes + 1
    /\ op' = [op EXCEPT ![o] = Exited(o, "killed")]
    /\ UNCHANGED <<vars, head, mempool>>

OperatorStep(o) ==
    \/ GetClientState(o)
    \/ GetTarget(o)
    \/ Prove(o)
    \/ Send(o)
    \/ Finish(o)
    \/ Wake(o)
    \/ Restart(o)

\* A block's time is not ahead of the clock when it is produced.
ProduceBlock ==
    /\ head < Len(Chain)
    /\ Seconds(Chain[head + 1].time) <= blockTimestamp
    /\ head' = head + 1
    /\ UNCHANGED <<vars, op, mempool, crashes>>

Clock == AdvanceTime /\ UNCHANGED operatorVars

\* Transactions of anybody else.
OtherTransaction ==
    /\ \/ \E m \in UpdateMsgs : UpdateClient(m)
       \/ \E m \in MembershipMsgs : Membership(m)
       \/ \E m \in MisbehaviourMsgs : Misbehaviour(m)
       \/ UpgradeClient
    /\ UNCHANGED operatorVars

SystemInit ==
    /\ Init
    /\ head = GenesisClientState.latestHeight.revisionHeight
    /\ op = [o \in Operators |-> Started(0)]
    /\ mempool = [o \in Operators |-> <<>>]
    /\ crashes = 0

SystemNext ==
    \/ \E o \in Operators : OperatorStep(o) \/ Include(o) \/ Crash(o)
    \/ ProduceBlock
    \/ Clock
    \/ OtherTransaction

SystemSpec == SystemInit /\ [][SystemNext]_systemVars

\* Operators run and are restarted, transactions get included and the chain
\* produces the blocks whose time has come.  Nothing is assumed of the clock or
\* of anybody else: a behaviour where the clock stops is one where, from there
\* on, a proof takes less than a second.
Fairness ==
    /\ \A o \in Operators :
           WF_systemVars(OperatorStep(o)) /\ WF_systemVars(Include(o))
    /\ WF_systemVars(ProduceBlock)

FairSystemSpec == SystemSpec /\ Fairness

-----------------------------------------------------------------------------
(* Correctness.                                                            *)

\* What the operator holds has the type its step needs.
OperatorTypeOK ==
    /\ head \in Heights
    /\ \A o \in Operators :
           /\ op[o].pc \in {"polling", "targeting", "proving", "sending",
                            "watching", "sleeping", "exited"}
           /\ op[o].exit \in {"none", "failed", "panicked", "killed", "done"}
           /\ op[o].logged \in 0..head
           /\ op[o].pc \in {"targeting", "proving"} =>
                  /\ op[o].client \in ClientState
                  /\ op[o].client.latestHeight.revisionHeight \in 1..head
           /\ At(o, "proving") => op[o].target \in 1..head
           /\ op[o].pc \in {"sending", "watching"} =>
                  op[o].msg \in MsgUpdateClient
           /\ \A i \in DOMAIN mempool[o] : mempool[o][i] \in MsgUpdateClient

\* The state an update announces is the chain's at its height.
OfChain(o) ==
    /\ o.newHeight.revisionHeight \in Heights
    /\ o.newConsensusState = ConsensusStateOf(Chain[o.newHeight.revisionHeight])

\* Blocks are whole seconds apart, so that no state of the chain is as old as
\* the one before it.
SecondsIncrease ==
    \A h, k \in Heights :
        h < k => Seconds(Chain[h].time) < Seconds(Chain[k].time)

\* Faulty validators are at most a third of every set the chain announces, the
\* others sign the chain's blocks only.
HonestMajority ==
    /\ IsFiniteSet(Validators)
    /\ \E faulty \in SUBSET Validators :
           /\ \A h \in Heights :
                  3 * Cardinality(faulty \cap Chain[h].nextValidators)
                      <= Cardinality(Chain[h].nextValidators)
           /\ \A b \in Blocks :
                  \/ b.signers \subseteq faulty
                  \/ b.height \in Heights /\ BlockId(b) = BlockId(Chain[b.height])

\* Whatever could be signed, nobody submits a header that is not the chain's.
OnlyChainUpdates ==
    /\ \A m \in UpdateMsgs : OfChain(m.sp1Proof.publicValues)
    /\ \A m \in MembershipMsgs :
           m.proof.proofType = "SP1MembershipAndUpdateClientProof" =>
               OfChain(m.proof.sp1Proof.publicValues.updateClientOutput)

StoresChain ==
    \A h \in UINT32 :
        IsStored(h) =>
            /\ h \in Heights
            /\ consensusStateHashes[h] = ConsensusStateOf(Chain[h])

\* The client tells the truth: under an honest majority every state it stores is
\* the chain's own, in whatever order blocks, operators and other senders act,
\* and it is not frozen.
AgreesWithChain == ~clientState.isFrozen /\ StoresChain

Fresh(env) ==
    /\ env.now <= blockTimestamp
    /\ blockTimestamp - env.now <= ALLOWED_SP1_CLOCK_DRIFT

\* A proposal made in time is accepted and does not freeze the client, however
\* stale the client state it was built from has become: the trusted state the
\* operator took from the chain is the one the contract stores, and the update
\* of another operator or of an earlier run of the same one does not void it.
FreshProposalAccepted ==
    \A o \in Operators :
        At(o, "sending") =>
            LET output == op[o].msg.sp1Proof.publicValues
            IN  Fresh(output.env) =>
                    /\ UpdateClientError(op[o].msg) = NoError
                    /\ CheckUpdateResult(output) # "Misbehaviour"

\* Whatever membership returned for is the answer of the chain: the value its
\* store held under the path, or that the path was not there, before the block at
\* the proof height, and the time of that block.
AnswersAreTheChains ==
    receipt.fn = "membership" /\ receipt.error = NoError =>
        LET h == receipt.msg.proofHeight.revisionHeight
        IN  /\ h \in Heights
            /\ receipt.msg.value = Query(receipt.msg.path, h - 1).value
            /\ receipt.timestamp = Seconds(Chain[h].time)

\* Any list of paths can be proved at any stored height of the chain but the
\* first, and the contract gives the answer of the chain for each path of it.
MembershipServed ==
    \A h \in Heights \ {1}, paths \in PathLists :
        IsStored(h) /\ ~clientState.isFrozen =>
            /\ KVPairsProvable(paths, Chain[h])
            /\ \A i \in DOMAIN paths :
                   HandleSP1MembershipProofError(
                       [proofHeight |-> HeightOf(Chain[h]),
                        path |-> paths[i],
                        value |-> Query(paths[i], h - 1).value,
                        proof |-> MembershipProofMsg(Chain[h], paths)]) = NoError

\* One transaction can update the client to any provable block and read any
\* path there, whether or not somebody updated to that block before.
UcAndMembershipServed ==
    \A t \in Heights, h \in 1..head, paths \in PathLists :
        LET client == [GenesisClientState EXCEPT !.latestHeight.revisionHeight = t]
            env == EnvOf(Chain[t], client, blockTimestamp)
            proof == UcAndMembershipProofMsg(Chain[t], Chain[h], env, paths)
            Msg(path) == [proofHeight |-> HeightOf(Chain[h]), path |-> path,
                          value |-> Query(path, h - 1).value, proof |-> proof]
            hashes == IF IsStored(h) THEN consensusStateHashes
                      ELSE HashesWith(HeightOf(Chain[h]),
                                      ConsensusStateOf(Chain[h]))
        IN  /\ IsStored(t) /\ ~clientState.isFrozen
            /\ UcAndMembershipProvable(Chain[t], Chain[h], env, paths)
            =>
                \A i \in DOMAIN paths :
                    /\ UcAndMembershipError(Msg(paths[i])) = NoError
                    /\ UcAndMembershipFinalError(Msg(paths[i]), hashes) = NoError

\* Evidence of two conflicting blocks over stored states freezes the client, and
\* never evidence for another height that has the same lower 32 bits.
EvidenceServed ==
    \A e \in Evidence :
        LET env == EnvOf(EvidenceBlock(e.trustedHeight2), GenesisClientState,
                         blockTimestamp)
            m == SubmitMisbehaviourMsg(e, env)
            o == m.sp1Proof.publicValues
        IN  /\ ~clientState.isFrozen
            /\ {NodeHeight(e.trustedHeight1), NodeHeight(e.trustedHeight2)}
                   \subseteq {h \in Heights : IsStored(h)}
            /\ EvidenceProvable(e, env)
            =>
                /\ MisbehaviourError(m) = NoError
                /\ o.trustedHeight1.revisionHeight = e.trustedHeight1
                /\ o.trustedHeight2.revisionHeight = e.trustedHeight2

LatestBlock == clientState.latestHeight.revisionHeight

\* No header can be verified over the latest state any more.
Expired ==
    consensusStateHashes[LatestBlock].timestamp + clientState.trustingPeriod
        <= blockTimestamp

\* A header can be proved once the host's clock has passed its time.
HeadIsTooNew == Seconds(Chain[head].time) >= blockTimestamp

\* The client gets to the last block there is, through races, crashes and runs
\* that end with a panic, unless its latest state expires first.
CatchesUp == <>[](LatestBlock = head \/ HeadIsTooNew \/ Expired)

-----------------------------------------------------------------------------
(* What the repository says and the code does not do.                      *)

\* "Updated the ICS-07 Tendermint light client ... to block": run() says so,
\* and sp1_ics07_test.go expects it once run() returned.
LoggedUpdateIsStored ==
    \A o \in Operators : op[o].logged # 0 => IsStored(op[o].logged)

\* "will poll an onchain Tendermint light client".
KeepsPolling == \A o \in Operators : op[o].exit # "panicked"
=============================================================================
