# Verification of sp1-ics07-tendermint

TLA+ models, TLC runs and TLAPS proofs of the SP1 ICS-07 Tendermint light
client: the Solidity contract that follows a Tendermint chain, the programs
whose SP1 proofs it accepts, and the operator that feeds it.

## 1. The system

```
  counterparty chain --RPC--> operator / relayers --SP1 proof--> contract on the EVM
     blocks, store             run the programs in               stores client and
                               the zkVM                          consensus states
```

| Part | State it keeps | Operations | Makes it correct |
|---|---|---|---|
| Contract (`contracts/src/SP1ICS07Tendermint.sol`) | client state, one consensus state hash per height, cache of verified proofs | constructor, `updateClient`, `membership` (two proof types), `misbehaviour`, `upgradeClient` (unsupported) | what it stores goes back to the genesis state through committed and endorsed headers; stored states never change; freezing is final and needs misbehaviour; membership answers what a stored root commits to |
| Messages (`contracts/src/msgs`, `errors`) | none | ABI structs and errors | |
| Programs (`programs/*`) | none: a run panics or commits one output | update-client, membership, uc-and-membership, misbehaviour | an output is only committed for a verified header, pair, or pair of conflicting headers |
| Packages (`packages/*`) | none | conversions between ibc-rs types and structs | times lose their fraction of a second |
| Operator (`operator/src/runners/operator.rs`) | in memory: the client state it read, the target, the message it proved | poll, fetch the target, prove, send, wait, sleep | the client follows the chain and gets to its head; what is logged happened |
| RPC client (`operator/src/rpc.rs`) | in memory: the answers so far | four requests per light block | the block returned is one block of the chain, whole |
| Command line (`operator/src/cli/command.rs`) | none | subcommands and their options | no options it lets pass make a useless client |
| Genesis and proof commands (`operator/src/runners/genesis.rs`, `fixtures/`) | a file | read light blocks, parameters and store proofs from a node, prove, write | what they write is what the contract accepts, and what fits together |
| Deploy script (`contracts/script`) | none | constructor call, then assertions | |

Interactions: a relayer calls the contract; the contract calls the SP1
verifier; the operator calls the contract's `getClientState`, a node's RPC and
the prover, in this order, waiting in between; a command writes a file that is
deployed, and whose message is submitted, later.  There is no shared memory and
no persisted state but the contract's and that file.

What is hard:

- senders are anybody, messages are submitted in any order, late, or twice;
- the trusted state in a proof is chosen by its sender, the contract only
  compares its hash;
- three clocks: header times (nanoseconds), `env.now` (seconds, the prover's
  host), `block.timestamp`;
- paths that return before the proof is verified (NoOp), that skip the
  verifier (cache), or that write and then revert (combined proof);
- the operator's state is stale when it sends, its transaction may be included
  after it died or revert after it was found to work, and every error or panic
  ends it;
- one light block is four requests, maybe to different nodes, and one command
  several of them, while the chain grows and changes its parameters.

`PROJECT.json` lists each hazard at its line with the properties that cover it.

## 2. Modules

```
ICS07Msgs <- TendermintVerifier <- SP1Programs <- SP1ICS07Tendermint ..refines..> LightClient
                                        ^             ^        ^   ^
                                   OperatorMsgs <-----|--- Operator |
                                     ^      ^---------|-- Commands -+
                              TendermintRpc           |
                        ..refines..> AtomicRead   (proofs)

SP1ICS07TendermintProofs <- SP1ICS07TendermintRefinement <- ChainProofs
    ChainProofs (and Operator) <- OperatorProofs <- AgreementProofs
    ChainProofs (and Commands) <- CommandsProofs
TendermintRpcProofs, of TendermintRpc
```

`<-` is "is extended by".  `MCSP1ICS07Tendermint`, `MCOperator`,
`MCTendermintRpc` and `MCCommands` are the instances for TLC; `MCChain` is the
chain the second and the fourth share.

- **ICS07Msgs**: the structs as records, with their integer widths as bounds
  (`MAX_UINT32`, `MAX_UINT64`, `UINT8_MAX`).  A hash stands for the value hashed
  (keccak256 and SHA-256 are only compared, and assumed injective); `NoHash` is
  `bytes32(0)`.
- **TendermintVerifier**: signed blocks and the checks of ibc-rs and
  tendermint-light-client-verifier, which are outside the repository and
  modelled from their use: validators have one vote each; header times count
  ticks, consensus states and `env.now` whole seconds.  `HostTimestamp` wraps as
  `env.now * 1_000_000_000` does in a u64.
- **SP1Programs**: for each program the outputs it can commit.  `VerifyProof`
  is the SP1 verifier: a proof passes iff it was made by a run of the program
  its key names (SP1's soundness is assumed).
- **SP1ICS07Tendermint**: the contract.  One action per entry point and one for
  the clock.  Checks are chained in the order of the code,
  `Require(c, e) ?? ...`, and the first failing one is the revert error; a
  revert changes only `receipt`, what the sender of the last transaction sees.
  `verifiedProofs` holds the proofs whose hash maps to true.
- **LightClient**: what a light client promises, without proofs, messages,
  errors or a cache: a growing set of trusted states, each vouched for by a
  younger-than-expired lower one, an end once two contradicting known headers
  are shown, and answers that trusted states commit to.  The mapping
  (`LC == INSTANCE LightClient WITH ...` in SP1ICS07Tendermint): `trusted` is
  the non-zero part of `consensusStateHashes`, `answer` the height, path and value of a
  `membership` that returned, `Expired` includes the drift, and headers
  contradict each other when ibc-rs says so or, as `checkUpdateResult` has it,
  when their times are not increasing in whole seconds.
- **OperatorMsgs**: what the operator's commands compute from a node's answers,
  and when their assertions or the prover panic.
- **Operator**: operators, transactions in flight, the chain's head and other
  senders, composed with the contract.  An action is what `run()` does between
  two waits: `GetClientState`, `GetTarget` (latest block), `Prove` (host clock,
  proof), `Send` (gas estimation, which fails if the call would revert),
  `Finish` (`watch()`, log), `Wake`; `Crash` and `Restart` at any point.
- **TendermintRpc**: one `get_light_block`, an action per request: `Status`,
  `Commit`, `ValidatorsOfHeight`, `NextValidatorsOfHeight` (height + 1 wraps in a
  u32).  Each request reaches any of several nodes, which advance in between and
  may lag or fail.  **AtomicRead** is the same call as one read at one moment.
- **Commands**: a run of `genesis` or of one of the four `fixtures` commands:
  `Invoke` (the command line and the assertions), `GetLightBlocks`,
  `FirstFromEnv` and `FromEnv` (staking parameters, checks, client state), one
  `Prove...` per command (clock, prover, file); then `Deploy`, and `SubmitFile`,
  what the contract's tests do with a fixture.  Between any two of them the
  chain grows, changes its unbonding period, and time passes.

Abstracted: ABI, CBOR and protobuf encodings (a message that does not decode
reverts or panics before anything is written), gas, events, log wording, the
inside of merkle and SP1 proofs, voting power other than one.

## 3. Properties and runs

| Run | Question | Bounds |
|---|---|---|
| `contract_byzantine` | Is everything stored, served or refused sound while two thirds of the validators also sign a fork at height 2 and a too early block 3? | 8 blocks, heights 1 to 3, a validator rotation, all provable updates between them, bad ones with one field wrong each, 9 pair lists, evidence over any two trusted blocks, and over a genesis height state the client never stored, clock 2 to 6, 2 ticks per second |
| `operators_race` | Do two operators, with stale state, a fast host clock, a crash and senders of forged blocks, keep the client on the chain, and is a proposal made in time always accepted? | 2 operators (symmetric), 3 blocks, clock 2 to 6, 1 crash, 2 forged blocks signed by a validator that is no more than a third of any set |
| `operators_progress` | Does the client get to the head of the chain, and can anything but misbehaviour freeze it? | 2 operators, 3 honest blocks a second apart, 1 crash, every point at which the clock may stop |
| `relayers_served` | Is what the proof commands build accepted in every state, and what `membership` answers true of the chain? | lists of one and two paths, proofs for every stored height and proofs of one height claimed for the next, evidence over every pair of stored heights, and for height 8, which is height 1 to the node (`MAX_UINT32` is 6) |
| `rpc_atomic` | Is a light block put together from four answers one block of the chain? | 2 nodes, 4 blocks whose validators all differ, requests for 0, 2, 4 and the latest; `MAX_UINT32` is 4, so 4 + 1 wraps |
| `commands_deploy` | Is what a command wrote, whenever it is deployed, a client that takes its message and can be updated? | 158 command lines over all commands: blocks present, missing and in the wrong order, trust levels on both sides of 1/3 and 1, periods default, given and too long; unbonding period 3 or 6 and changing; 3 blocks, clock 2 to 6 |

Contract: `LatestHeightIsHighest`, `ChainOfTrust`, `SameRevision`,
`ConsensusStatesImmutable`, `AcceptedUpdateIsStored` (also on the NoOp path that
skips the proof), `MembershipSound` and `CachedProofsWereVerified` (also from
the cache), `FrozenIsFinal`, `FrozenOnlyByMisbehaviour`, `AddedWhileTrusted`,
and `IsLightClient`, the refinement.
System: `AgreesWithChain` (a minority of signers cannot make the client store
anything but the chain, or freeze it), `FreshProposalAccepted`, `CatchesUp`,
`MembershipServed`, `UcAndMembershipServed`, `EvidenceServed`, and
`AnswersAreTheChains` (what `membership` returned for is the value, or the
absence, of the path in the chain's store at that height, and the time is that
of its block).
RPC client: `IsAtomicRead`, the refinement.
Commands: `FixtureServed` (the genesis and the message of one file fit together
however the chain changed while the command ran), `GenesisServes` (no options
that pass the command line make a client that refuses the next block during its
own trusting period; `parse_trust_threshold` is the only check of the trust
level there is).  `TypeOK`, `OperatorTypeOK`, `RpcTypeOK` and `CommandsTypeOK` are the type
invariants.

`FixtureServed` leaves out evidence whose headers have different trusted
heights: `fixtures/misbehaviour.rs:96` takes the client state of the second
trusted block "since they will both be the same", but the two differ in
`latestHeight`, and a contract made of that genesis has no state for the first.
What it covers of `misbehaviour` is two reads of one trusted block, between
which the chain's parameters may change.

`Commands` has one clock: the host that proves reads `block.timestamp`.  A
fixture proved on a host that is ahead is "in the future" for a contract until
the difference has passed, and one proved on a host that is behind is too old
that much earlier.  What skewed clocks do to a proof on its way is the subject
of `Operator` (its `ClockSkews`, in `operators_race`); `FixtureServed` says
nothing of them.

The program looks the two trusted states of evidence up in a map by revision
height, so that of two for one height only the second counts
(`programs/misbehaviour/src/lib.rs:42`).  `contract_byzantine` submits such
pairs, and pairs of two heights, with one state that was never stored and vouches for
headers that no stored state does.  They are also submitted when the genesis state has
expired: only then do the states of the client not vouch for conflicting
headers themselves, so that freezing on such evidence is not what `LightClient`
allows.  A contract that looks up only one of the two states breaks
`IsLightClient` there (the second mutant of that property).

Why the bounds are enough: three heights give an update below, at and above the
latest height, an adjacent and a skipping verification, and a trusted state
that is not the latest; the clock range lets a proof be in the future, fresh,
at the drift and too old, and the genesis state expire (`trustingPeriod` 4,
drift 1).  Two ticks per second put the fraction of a second that
conversions lose between blocks.  `MAX_UINT64` is 15, above every time of the
instances: `ClockAssumption` says that block timestamps fit a u64 of nanoseconds
(until the year 2554), and
`env.now` beyond that does wrap.  `UINT8_MAX` is 2, so lists of three are the 256 of the code: the
contract allows them and no program commits them.  Bounds on behaviour:
`MaxTimestamp` (clock), `MaxCrashes`, the length of `Chain`, `MAX_UINT32`.

Deadlock is checked in every run: a transaction, a request or a command can
always be made.  The contract never stops, so no run says anything about a
halting system.

**Fairness** (`FairSystemSpec`): each operator takes its next step, a sent
transaction is included, and the chain produces a block once its time has come.
An operator that exited is started again: nothing in the repository does that,
but without `--only-once` the loop has no other exit than an error, and
`operator_idle_chain` shows that it takes that exit in ordinary circumstances,
so that no progress can be promised of one that is left alone.  Nothing is assumed of the
clock, of crashes or of other senders.  The contract's window for a proof is
3000 s; no code bounds the prover, so the clock may pass it each time, as long
as the clock moves.  Behaviours in which it stops at some point are those in
which proofs take less than the drift from there on: without this no operator
can be expected to succeed.  `CatchesUp` then demands the head of the chain,
unless the head is as new as the host's clock (not provable yet) or the
client's latest state has expired.  It is checked for host clocks that agree
with the chain's; with a clock that is always ahead of `block.timestamp` every
proof is "in the future", and gas estimation fails.

Runs that expect a violation check a sentence of the repository:

| Run | Says | Does |
|---|---|---|
| `subsecond_freeze` | frozen "due to misbehavior"; an update submitted again is a NoOp | blocks within one second have equal timestamps: the second submission of an honest update freezes the client |
| `subsecond_timestamp` | `checkUpdateResult`: misbehaviour if the timestamp is not increasing | not looked at when the height is new |
| `trusting_period_drift` | headers are valid during the trusting period | plus up to 3000 s |
| `missing_path_panic` | `MembershipProofKeyNotFound` for a path that is not in the proof | 256 pairs overflow the `uint8` counter |
| `operator_unchecked_receipt` | "Updated the ... light client", and the client is higher after `--only-once` | `watch()` also returns for a reverted transaction |
| `operator_idle_chain` | the operator polls | with no newer provable block the prover's `expect` ends it |

Tendermint's block interval is commonly above a second but not bounded below,
so the first is a matter of configuration of the counterparty chain.

Every property of a passing run has a mutant of the modelled code that breaks
it (`PROJECT.json`, "mutants"; the mutated operators stand before the originals
and say what they change).

## 4. Proofs

All theorems are about every value of the constants: any number of validators,
blocks, heights, nodes and operators, any messages of the right types, any
clock.  They rest on the named assumptions of the modules and on the model of
`VerifyProof`:

- `MsgsAssumption`, `ChainAssumption`, `ContractAssumption`: types;
- `GenesisAssumption`: the genesis state is that of a committed block, as the
  genesis command makes it; `OperatorAssumption` says that it made it, of a
  block of the chain with the trust level and period of the client;
- `ClockAssumption`: see above, needed for `AddedWhileTrusted`;
- `NodeAssumption`: the chain's blocks have increasing heights and one chain id,
  and commit to the state before them; `CommandsAssumption`: types, and that the
  node has a block when it is first asked;
- `ValidatorsAssumption`: a header announces the validators of the next block.

TLC evaluates them on every run.

**The contract** (`SP1ICS07TendermintProofs`).  Its lemmas are about `Step`, a
transaction with *any* message of the right types, or the clock, so that they
can be used of the composed system too.

1. `StepCases`: a step keeps the client, adds one state by an update that was
   verified against a stored state (`AddsState`), or freezes, on an update or on
   evidence; the cache gains at most one verified proof.  That needs
   `CachedProofsWereVerified`, which is inductive alone (`CacheIsSound`),
   because the combined handler adds a state on the word of the cache.
2. `TypeCorrect`.
3. `IInv`, the inductive invariant: the types, the cache, and
   `ParametersAreFixed` (chain id and trust level never change, so that a state
   endorsed once stays endorsed at the genesis trust level),
   `StoredFromBlocks` (each stored state is that of a committed block at its
   own height: without it a state could be trusted at another height),
   `LatestHeightIsHighest`, `SameRevision`, `ChainOfTrust`.  `AddInvariant` is
   the case that matters; freezing and the clock frame it (`FrameInvariant`).
4. From `IInv`: `LatestHeightCorrect`, `ChainOfTrustCorrect`,
   `RevisionCorrect`, and the step properties `StatesAreImmutable` (a stored
   height is never the height of an Update), `FreezingIsFinal` and
   `TrustedWhenAdded` (the two clocks added up).
5. `FreezingNeedsMisbehaviour` assumes `DistinctSeconds`: blocks of different
   times fall into different seconds.  `subsecond_freeze` shows that it is
   needed.
6. `MembershipCorrect`, `UpdateCorrect`: what callers may conclude from a
   transaction that returned.

Each is proved of `StepSpec` first (`Step...`, `StepSpecInvariance`), then of `Spec`.

**The refinement** (`SP1ICS07TendermintRefinement`, `Refinement`): under `IInv`
each step is one of LightClient's.  An update is `Serve` with `Extend`, the
combined handler `Extend` and `Reply` at once, both ways to freeze are `Freeze`
(on an update because the header it is about and the stored one contradict each
other), and everything that reverts, or returns without a change, `Refuse` or
`Serve`.

**The RPC client** (`TendermintRpcProofs`): the inductive invariant
`RpcInv` is `RpcTypeOK` and that the validators kept are those of the commit's
height; `Commit` is the abstract read, the other requests
stutter or fail (`RpcReadsAtomically`).  A wrapped height is zero, which no node
has.

**What is built from the chain** (`ChainProofs`): lemmas about the operators of
OperatorMsgs that the operators, the relayers and the commands have in common.
Outputs and messages made of blocks of the chain have their types
(`UpdateTyped`, `AnswersTyped`), the program commits them when it was given what
it verifies (`...Proved`), and in a state in which the trusted blocks are stored,
the environment is valid and the client is not frozen the contract's checks all
pass (`UpdateTaken`, `MembershipTaken`, `UcAndMembershipTaken`,
`EvidenceTaken`).  `KVPairAnswered` is the only one that needs well-foundedness:
a list with the path has a first pair with it, where the contract's loop stops.

**The system** (`OperatorProofs`): `SystemStepIsStep`, to the contract the
composed system is one more set of senders, so `IInv` and the refinement hold of
it (`SystemIsLightClient`), and so does everything above (`SystemKeepsContract`,
`SystemFreezingNeedsMisbehaviour`); `OpInv` adds what an operator holds between two
waits: a client state once read is one whose latest height is stored and whose
parameters are the contract's *still*, and a message is one provable from a
stored block.  `OperatorTypeCorrect` follows.

**Agreement and service** (`AgreementProofs`), each under an assumption about
the constants, stated where it is needed:

| Theorem | Assumes |
|---|---|
| `AgreementCorrect` (`AgreesWithChain`) | `HonestMajority`: faulty validators are at most a third of each set the chain announces, the others sign only the chain's blocks; `SecondsIncrease`: blocks fall into increasing seconds |
| `FreshProposalCorrect` | the same |
| `StoresChainCorrect`, `AnswersCorrect`, `MembershipServedCorrect`, `EvidenceServedCorrect` | `HonestMajority`, or `OnlyChainUpdates`: whatever could be signed, only headers of the chain are submitted |
| `UcAndMembershipServedCorrect` | the same, and `SecondsIncrease` |

The second alternative is there for evidence, which an honest majority leaves
nobody to make: validators that sign two blocks are found out, and until the
client is frozen its users are served.  `StoresChainCorrect` holds without
`SecondsIncrease`: blocks of one second can have the client frozen, never have
it store or answer anything wrong.  `AnswersCorrect` puts the parts together:
`StepMembershipCorrect` (the answer is what the stored root commits to),
`StoresChainCorrect` (the root is the chain's) and `ProvedIsAnswered` (that root
commits to the store before the block).

`EndorsedIsOfChain` is the core: a header endorsed by a third or more of a set
the chain announced has an honest signer.  Verification skips blocks, so the
induction is along the steps of the system, not along heights.
`MCOperator` assumes `StatesAreTheChains`, so TLC evaluates these
assumptions on the instances of `operators_race`, `operators_progress` and
`relayers_served`.

**The commands** (`CommandsProofs`): the inductive invariant `CommandsInv`
(`CommandsInvariance`) has three layers, one for each thing that outlives a read:
`Holds`, what the running command has read is a block of the chain and, once
made, a genesis of that block under *some* value of the unbonding period;
`FileInv`, genesis and message of the file were made of one block at one moment;
`DeploymentInv`, until its message is submitted the contract is as constructed
from the file.  All three speak of the head and of the clock only as upper
bounds, so that new blocks and later times keep them (`HoldsLater`,
`WrittenLater`).  `FixtureServed` is the fourth part: the step `SubmitFile`
establishes it, one lemma per command (`SubmitUpdate`, `SubmitMembership`,
`SubmitUcAndMembership`, `SubmitEvidence`), from what `AtDeployment` says of a
contract just deployed and from ChainProofs; a submission that was in time when
it was made stays served (`WasFresh`).  `CommandsTypeCorrect` and
`FixtureServedCorrect` follow.

`GenesisServesCorrect` assumes `ChainIsValid`: two thirds of its validators
committed each block, and the next one is later and from the validators it
announced.  `NextProvable` is its core: such a successor is adjacent, so no trust
level from a third to one matters, and the rest is arithmetic on ticks and
seconds.  `MCCommands` assumes `ChainIsValid` of its instance, so TLC evaluates it.

`GenesisMeetsAssumptions` closes the circle: whatever a command writes as a
genesis satisfies what `ContractAssumption`, `GenesisAssumption` and
`OperatorAssumption` ask of the states all other theorems start from.

Every property that a passing run checks is stated by a theorem but one:
`CatchesUp`, as liveness under fairness is beyond the prover, is only
model-checked.

## 5. Not modelled

End-to-end tests and the invalid cases of the Foundry tests (read for what they
expect), generated bindings and ABI, build scripts, CI, the wallet, output paths
and the encoding of key paths, gas, the SP1 prover network and what it is given
to run.  Liveness with `--only-once` or an operator that nobody restarts does not hold
(section 3).  One hazard in
`PROJECT.json` has no property: an unbonding period below three seconds makes the
default trusting period zero; nothing in the code or the documents bounds it.

## 6. Plan

Done: the modules of section 2 and their proofs.

What could come next:

1. The safety part of `CatchesUp`: which steps may lower the distance between
   client and head, as action properties, so that only fairness is left to TLC.
2. Account nonces and replacement of a stuck transaction after a restart: the
   code leaves both to alloy, so this is a model of alloy more than of the
   repository.

## 7. Running

```
tlc -workers 2 -config Contract_byzantine.cfg MCSP1ICS07Tendermint.tla
tlc -workers 2 -config Operators_race.cfg MCOperator.tla
tlapm SP1ICS07TendermintProofs.tla
```

The other configurations belong to the same MC modules: `Contract_*`,
`SubSecond_*`, `TrustingPeriod_*` and `MissingPath_*` to
`MCSP1ICS07Tendermint`, `Operator*` and `Relayers_*` to `MCOperator`,
`Rpc_*` to `MCTendermintRpc`, `Commands_*` to `MCCommands`.
