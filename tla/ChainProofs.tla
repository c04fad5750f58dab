------------------------------ MODULE ChainProofs ------------------------------
(***************************************************************************)
(* What the operator and its commands build from blocks of the chain has   *)
(* the contract's types, is proved by the program it names, and passes the *)
(* contract's checks once its trusted state is stored and its environment  *)
(* is the client's.                                                        *)
(*                                                                         *)
(* The lemmas are about one message in one state: AgreementProofs uses     *)
(* them of the operators, CommandsProofs of the commands.                  *)
(***************************************************************************)
EXTENDS OperatorMsgs, SP1ICS07TendermintRefinement, WellFoundedInduction

-----------------------------------------------------------------------------
(* Blocks and environments.                                                *)

\* The blocks up to a height of the chain.
LEMMA ChainHeights ==
    /\ Heights \subseteq Nat /\ Heights \subseteq UINT32
    /\ \A n \in Heights : 1..n \subseteq Heights
    /\ \A n \in Heights : Chain[n] \in Blocks
<1>1. Len(Chain) \in Nat
  BY NodeAssumption
<1>2. Heights \subseteq Nat /\ \A n \in Heights : 1..n \subseteq Heights
  BY <1>1 DEF Heights
<1>3. Heights \subseteq UINT32
  BY NodeAssumption
<1>4. \A n \in Heights : Chain[n] \in Blocks
  BY NodeAssumption DEF Heights
<1>5. QED
  BY <1>2, <1>3, <1>4

\* A block of the chain gives a height and a consensus state of their types.
LEMMA BlockOfChain ==
    ASSUME NEW h \in Heights
    PROVE  /\ Chain[h] \in Block /\ Chain[h].height = h /\ h \in UINT32
           /\ HeightOf(Chain[h]) \in Height
           /\ HeightOf(Chain[h]).revisionHeight = h
           /\ ConsensusStateOf(Chain[h]) \in ConsensusState
           /\ ConsensusStateOf(Chain[h]).root = Chain[h].appHash
<1>1. Chain[h] \in Block /\ Chain[h].height = h /\ h \in UINT32
  BY ChainHeights, NodeAssumption, ChainAssumption
<1>2. RevisionNumber[Chain[h].chainId] \in UINT32
  BY <1>1, ChainAssumption DEF Block
<1>3. Seconds(Chain[h].time) \in Nat
  BY <1>1, ChainAssumption DEF Block, Seconds
<1>4. QED
  BY <1>1, <1>2, <1>3 DEF HeightOf, Height, ConsensusStateOf, ConsensusState, Block

\* All blocks of the chain have one revision number.
LEMMA OneRevision ==
    ASSUME NEW h \in Heights, NEW k \in Heights
    PROVE  /\ Chain[h].chainId = Chain[k].chainId
           /\ HeightOf(Chain[h]).revisionNumber = HeightOf(Chain[k]).revisionNumber
           /\ HeightOf(Chain[h]).revisionNumber = RevisionNumber[Chain[k].chainId]
BY NodeAssumption DEF HeightOf

\* A time that block.timestamp can show is a uint64.
LEMMA NowFits ==
    ASSUME NEW now \in 0..MaxTimestamp
    PROVE  now \in UINT64
<1>1. now \in Nat /\ MaxTimestamp \in Nat /\ now <= MaxTimestamp
  BY ContractAssumption
<1>2. MaxTimestamp <= MaxTimestamp * TicksPerSecond
  <2>1. 1 * MaxTimestamp <= TicksPerSecond * MaxTimestamp
    BY <1>1, ChainAssumption, TicksMonotone
  <2>2. \A x, y \in Nat : 1 * x = x /\ y * x = x * y
    OBVIOUS
  <2>3. QED
    BY <1>1, <2>1, <2>2, ChainAssumption
<1>3. MaxTimestamp * TicksPerSecond \in Nat /\ MAX_UINT64 \in Nat
  BY <1>1, ChainAssumption, MsgsAssumption
<1>4. QED
  BY <1>1, <1>2, <1>3, ClockAssumption DEF UINT64

\* The environment the operator makes of a block and a client state.
LEMMA EnvOfTyped ==
    ASSUME NEW h \in Heights, NEW client,
           client.trustLevel \in TrustThreshold, client.trustingPeriod \in UINT32,
           NEW now \in 0..MaxTimestamp
    PROVE  EnvOf(Chain[h], client, now) \in Env
<1>1. Chain[h].chainId \in ChainIds
  BY BlockOfChain DEF Block
<1>2. QED
  BY <1>1, NowFits DEF EnvOf, Env

-----------------------------------------------------------------------------
(* Updates.                                                                *)

\* The public values of an update between two blocks.
LEMMA UpdateOutputFields ==
    ASSUME NEW t \in Heights, NEW n \in Heights, NEW env
    PROVE  LET o == UpdateOutput(Chain[t], Chain[n], env)
           IN  /\ o.env = env
               /\ o.trustedHeight = HeightOf(Chain[t])
               /\ o.trustedHeight.revisionHeight = t
               /\ o.trustedConsensusState = ConsensusStateOf(Chain[t])
               /\ o.newHeight = HeightOf(Chain[n])
               /\ o.newHeight.revisionHeight = n
               /\ o.newConsensusState = ConsensusStateOf(Chain[n])
               /\ o.newConsensusState.root = Chain[n].appHash
BY BlockOfChain DEF UpdateOutput

\* They have their type.
LEMMA UpdateTyped ==
    ASSUME NEW t \in Heights, NEW n \in Heights, NEW env \in Env
    PROVE  /\ UpdateOutput(Chain[t], Chain[n], env) \in UpdateClientOutput
           /\ UpdateClientMsg(Chain[t], Chain[n], env) \in MsgUpdateClient
<1>1. UpdateOutput(Chain[t], Chain[n], env) \in UpdateClientOutput
  BY BlockOfChain DEF UpdateOutput, UpdateClientOutput
<1>2. QED
  BY <1>1 DEF UpdateClientMsg, SP1ProofFrom, MsgUpdateClient, SP1ProofOf, VKeys,
     ProofBytes

\* What the operator asserts before it proves is what the program proves, of a
\* block above the trusted one.
LEMMA UpdateProved ==
    ASSUME NEW t \in Heights, NEW n \in Heights, NEW env \in Env,
           UpdateProvable(Chain[t], Chain[n], env)
    PROVE  /\ t < n
           /\ CommitsUpdateClient(UpdateOutput(Chain[t], Chain[n], env))
           /\ VerifyProof(UpdateClientMsg(Chain[t], Chain[n], env).sp1Proof)
<1> DEFINE o == UpdateOutput(Chain[t], Chain[n], env)
           p == UpdateClientMsg(Chain[t], Chain[n], env).sp1Proof
<1>1. t < n
  BY BlockOfChain DEF UpdateProvable, VerifyHeader, ValidateBasic
<1>2. CommitsUpdateClient(o)
  BY UpdateOutputFields, ChainHeights DEF CommitsUpdateClient, UpdateProvable
<1>3. /\ p.vKey = UPDATE_CLIENT_PROGRAM_VKEY /\ p.proof = "proved"
      /\ p.publicValues = o
  BY DEF UpdateClientMsg, SP1ProofFrom
<1>4. VerifyProof(p)
  BY <1>2, <1>3, UpdateTyped DEF VerifyProof
<1>5. QED
  BY <1>1, <1>2, <1>4

\* updateClient takes a verified update over a stored state.
LEMMA UpdateTaken ==
    ASSUME NEW t \in Heights, NEW n \in Heights, NEW env \in Env,
           UpdateProvable(Chain[t], Chain[n], env),
           ~clientState.isFrozen, EnvIsValid(env),
           IsTrusted(HeightOf(Chain[t]), ConsensusStateOf(Chain[t]))
    PROVE  /\ ValidateUpdateClientPublicValues(UpdateOutput(Chain[t], Chain[n], env))
                  = NoError
           /\ UpdateClientError(UpdateClientMsg(Chain[t], Chain[n], env)) = NoError
<1> DEFINE o == UpdateOutput(Chain[t], Chain[n], env)
           m == UpdateClientMsg(Chain[t], Chain[n], env)
<1>1. m.sp1Proof.vKey = UPDATE_CLIENT_PROGRAM_VKEY /\ m.sp1Proof.publicValues = o
  BY DEF UpdateClientMsg, SP1ProofFrom
<1>2. ValidateUpdateClientPublicValues(o) = NoError
  BY UpdateOutputFields, UpdateChecked
<1>3. VerifySP1Proof(m.sp1Proof) = NoError
  BY UpdateProved DEF VerifySP1Proof, Require
<1>4. QED
  BY <1>1, <1>2, <1>3 DEF UpdateClientError, Require, ??, NoError

-----------------------------------------------------------------------------
(* Membership.                                                             *)

\* A list that has the path, always with the same value, answers it: there is a
\* first pair with the path.
LEMMA KVPairAnswered ==
    ASSUME NEW kvPairs, Len(kvPairs) \in Nat, NEW path, NEW value,
           NEW i \in 1..Len(kvPairs), kvPairs[i].path = path,
           \A j \in 1..Len(kvPairs) :
               kvPairs[j].path = path => kvPairs[j].value = value
    PROVE  ValidateKVPair(kvPairs, path, value) = NoError
<1> DEFINE matches == {j \in 1..Len(kvPairs) : kvPairs[j].path = path}
<1>1. matches \subseteq Nat /\ matches # {}
  OBVIOUS
<1>2. PICK f \in matches : \A j \in matches : ~(<<j, f>> \in OpToRel(<, Nat))
  BY <1>1, NatLessThanWellFounded, WFMin
<1>3. \A j \in matches : f <= j
  <2> HIDE DEF matches
  <2>1. \A x, y \in Nat : x < y => <<x, y>> \in OpToRel(<, Nat)
    BY Zenon DEF OpToRel
  <2>2. \A j \in matches : ~(j < f)
    BY <1>1, <1>2, <2>1
  <2>3. \A x, y \in Nat : ~(x < y) => y <= x
    OBVIOUS
  <2>4. QED
    BY <1>1, <2>2, <2>3
<1>4. f \in matches /\ kvPairs[f].value = value
  BY <1>2
<1>5. QED
  <2> HIDE DEF matches
  <2>1. \E k \in matches : (\A j \in matches : k <= j) /\ kvPairs[k].value = value
    BY <1>3, <1>4
  <2>2. QED
    BY <1>1, <2>1 DEF ValidateKVPair, Require, NoError, matches

\* What a node answers about a list of paths at a block is a list of pairs with
\* those paths, each of which the block's app hash commits to.
LEMMA AnswersTyped ==
    ASSUME NEW h \in Heights, NEW paths \in Seq(Paths)
    PROVE  LET kvPairs == KVPairsAt(paths, h)
           IN  /\ kvPairs \in Seq(KVPair)
               /\ Len(kvPairs) = Len(paths)
               /\ DOMAIN kvPairs = 1..Len(paths)
               /\ \A i \in 1..Len(paths) :
                      /\ kvPairs[i] = Query(paths[i], h - 1)
                      /\ kvPairs[i].path = paths[i]
                      /\ Proves(Chain[h].appHash, kvPairs[i])
<1> DEFINE kvPairs == KVPairsAt(paths, h)
<1>1. /\ Store[Chain[h].appHash] = StateAt[h - 1]
      /\ \A path \in DOMAIN StateAt[h - 1] :
             StateAt[h - 1][path] \in Values \ {EmptyValue}
  BY NodeAssumption
<1>2. ASSUME NEW path \in Paths
      PROVE  /\ Query(path, h - 1) \in KVPair
             /\ Query(path, h - 1).path = path
             /\ Proves(Chain[h].appHash, Query(path, h - 1))
  BY <1>1, MsgsAssumption DEF Query, KVPair, Proves
<1>3. DOMAIN paths = 1..Len(paths) /\ \A i \in 1..Len(paths) : paths[i] \in Paths
  OBVIOUS
<1>4. kvPairs = [i \in 1..Len(paths) |-> Query(paths[i], h - 1)]
  BY <1>3 DEF KVPairsAt
<1>5. kvPairs \in [1..Len(paths) -> KVPair] /\ Len(paths) \in Nat
  <2>1. \A i \in 1..Len(paths) : Query(paths[i], h - 1) \in KVPair
    BY <1>2, <1>3
  <2>2. QED
    BY <1>4, <2>1
<1>6. kvPairs \in Seq(KVPair) /\ Len(kvPairs) = Len(paths)
  BY <1>4, <1>5
<1>7. QED
  BY <1>2, <1>3, <1>4, <1>6

\* Each pair of the list is found in it, also when a path is asked for twice.
LEMMA AnswersFound ==
    ASSUME NEW h \in Heights, NEW paths \in Seq(Paths), NEW i \in 1..Len(paths)
    PROVE  ValidateKVPair(KVPairsAt(paths, h), paths[i],
                          Query(paths[i], h - 1).value) = NoError
<1> DEFINE kvPairs == KVPairsAt(paths, h)
<1>1. /\ Len(kvPairs) = Len(paths) /\ Len(kvPairs) \in Nat
      /\ i \in 1..Len(kvPairs)
      /\ kvPairs[i].path = paths[i]
  BY AnswersTyped
<1>2. ASSUME NEW j \in 1..Len(kvPairs), kvPairs[j].path = paths[i]
      PROVE  kvPairs[j].value = Query(paths[i], h - 1).value
  <2>1. /\ j \in 1..Len(paths)
        /\ kvPairs[j] = Query(paths[j], h - 1) /\ kvPairs[j].path = paths[j]
    BY <1>1, AnswersTyped
  <2>2. paths[j] = paths[i]
    BY <1>2, <2>1
  <2>3. QED
    BY <2>1, <2>2
<1>3. QED
  <2> HIDE DEF kvPairs
  <2>1. ValidateKVPair(kvPairs, paths[i], Query(paths[i], h - 1).value) = NoError
    BY <1>1, <1>2, KVPairAnswered
  <2>2. QED
    BY <2>1 DEF kvPairs

\* Any list of one to 255 paths can be proved at any block but the first.
LEMMA AnswersProvable ==
    ASSUME NEW h \in Heights, NEW paths \in Seq(Paths), Len(paths) \in 1..UINT8_MAX
    PROVE  /\ CommitsKVPairs(Chain[h].appHash, KVPairsAt(paths, h))
           /\ h # 1 => KVPairsProvable(paths, Chain[h])
<1>1. CommitsKVPairs(Chain[h].appHash, KVPairsAt(paths, h))
  <2>1. \A i \in 1..Len(paths) : Proves(Chain[h].appHash, KVPairsAt(paths, h)[i])
    BY AnswersTyped
  <2>2. Len(KVPairsAt(paths, h)) = Len(paths)
    BY AnswersTyped
  <2>3. QED
    BY <2>1, <2>2 DEF CommitsKVPairs
<1>2. h # 1 => Chain[h].height = h /\ h > 1
  BY ChainHeights, BlockOfChain DEF Heights
<1>3. QED
  BY <1>1, <1>2 DEF KVPairsProvable

\* A list that the programs commit has a length the contract takes.
LEMMA LengthTaken ==
    ASSUME NEW root, NEW kvPairs, CommitsKVPairs(root, kvPairs)
    PROVE  ValidateLength(kvPairs) = NoError
BY MsgsAssumption DEF CommitsKVPairs, ValidateLength, Require, NoError

\* A proof that verifies passes, from the cache or not.
LEMMA VerifiedPasses ==
    ASSUME NEW p, NEW kvPairs, VerifyProof(p)
    PROVE  VerifyKVProof(p, kvPairs) = NoError
BY DEF VerifyKVProof, VerifySP1ProofCached, VerifySP1Proof, Require

\* The membership proof of such a list has its type and verifies.
LEMMA MembershipProved ==
    ASSUME NEW h \in Heights, NEW paths \in Seq(Paths), Len(paths) \in 1..UINT8_MAX
    PROVE  LET proof == MembershipProofMsg(Chain[h], paths)
           IN  /\ proof \in SP1MembershipProof
               /\ proof.sp1Proof.publicValues
                      = [commitmentRoot |-> Chain[h].appHash,
                         kvPairs |-> KVPairsAt(paths, h)]
               /\ VerifyProof(proof.sp1Proof)
<1> DEFINE proof == MembershipProofMsg(Chain[h], paths)
           p == proof.sp1Proof
           kvPairs == KVPairsAt(paths, h)
<1>1. kvPairs \in Seq(KVPair) /\ CommitsKVPairs(Chain[h].appHash, kvPairs)
  BY AnswersTyped, AnswersProvable
<1>2. /\ Chain[h].appHash \in Roots /\ Chain[h].height = h
      /\ ConsensusStateOf(Chain[h]) \in ConsensusState
  BY BlockOfChain DEF Block
<1> HIDE DEF kvPairs
<1>3. /\ p.vKey = MEMBERSHIP_PROGRAM_VKEY /\ p.proof = "proved"
      /\ p.publicValues = [commitmentRoot |-> Chain[h].appHash, kvPairs |-> kvPairs]
      /\ p = [vKey |-> p.vKey, publicValues |-> p.publicValues, proof |-> p.proof]
      /\ proof = [proofType |-> "SP1MembershipProof", sp1Proof |-> p,
                  trustedConsensusState |-> ConsensusStateOf(Chain[h])]
  BY <1>2 DEF MembershipProofMsg, SP1ProofFrom, kvPairs
<1>4. p.publicValues \in MembershipOutput
  BY <1>1, <1>2, <1>3 DEF MembershipOutput
<1>5. VerifyProof(p)
  BY <1>1, <1>3, <1>4 DEF VerifyProof, CommitsMembership
<1>6. proof \in SP1MembershipProof
  <2>1. p \in SP1ProofOf(MembershipOutput)
    BY <1>3, <1>4 DEF SP1ProofOf, VKeys, ProofBytes
  <2> HIDE DEF p
  <2>2. QED
    BY <1>2, <1>3, <2>1 DEF SP1MembershipProof
<1>7. QED
  BY <1>3, <1>5, <1>6 DEF kvPairs

\* The message that asks such a proof for one of its paths at the height of the
\* state it was made for.
MembershipMsgOf(h, paths, i) ==
    [proofHeight |-> HeightOf(Chain[h]), path |-> paths[i],
     value |-> Query(paths[i], h - 1).value,
     proof |-> MembershipProofMsg(Chain[h], paths)]

\* membership takes it while the client is not frozen and stores that state.
LEMMA MembershipTaken ==
    ASSUME NEW h \in Heights, NEW paths \in Seq(Paths), Len(paths) \in 1..UINT8_MAX,
           NEW i \in 1..Len(paths), ~clientState.isFrozen,
           consensusStateHashes[h] = ConsensusStateOf(Chain[h]),
           clientState.latestHeight.revisionNumber
               = HeightOf(Chain[h]).revisionNumber
    PROVE  HandleSP1MembershipProofError(MembershipMsgOf(h, paths, i)) = NoError
<1> DEFINE m == MembershipMsgOf(h, paths, i)
           proof == MembershipProofMsg(Chain[h], paths)
           p == proof.sp1Proof
           kvPairs == KVPairsAt(paths, h)
           trusted == ConsensusStateOf(Chain[h])
<1>1. /\ m.proofHeight = HeightOf(Chain[h]) /\ m.path = paths[i]
      /\ m.value = Query(paths[i], h - 1).value /\ m.proof = proof
  BY DEF MembershipMsgOf
<1>2. /\ p.vKey = MEMBERSHIP_PROGRAM_VKEY
      /\ p.publicValues = [commitmentRoot |-> Chain[h].appHash, kvPairs |-> kvPairs]
      /\ proof.trustedConsensusState = trusted
  BY BlockOfChain DEF MembershipProofMsg, SP1ProofFrom
<1>3. VerifyKVProof(p, kvPairs) = NoError
  BY MembershipProved, VerifiedPasses
<1>4. ValidateLength(kvPairs) = NoError
  BY AnswersProvable, LengthTaken
<1>5. ValidateKVPair(kvPairs, m.path, m.value) = NoError
  BY <1>1, AnswersFound
<1>6. HeightOf(Chain[h]).revisionHeight = h /\ trusted.root = Chain[h].appHash
  BY BlockOfChain
<1>7. ValidateMembershipOutput(Chain[h].appHash, h, trusted, consensusStateHashes)
          = NoError
  BY <1>6 DEF ValidateMembershipOutput, NotFrozen, Require, ??, NoError
<1>8. QED
  <2> HIDE DEF m, proof, trusted, kvPairs
  <2>1. HandleSP1MembershipProofError(m) = NoError
    BY <1>1, <1>2, <1>3, <1>4, <1>5, <1>6, <1>7
    DEF HandleSP1MembershipProofError, Require, ??, NoError
  <2>2. QED
    BY <2>1 DEF m

-----------------------------------------------------------------------------
(* Update and membership at once.                                          *)

\* Such a proof carries the update and the pairs, and verifies.
LEMMA UcAndMembershipProved ==
    ASSUME NEW t \in Heights, NEW n \in Heights, NEW env \in Env,
           NEW paths \in Seq(Paths),
           UcAndMembershipProvable(Chain[t], Chain[n], env, paths)
    PROVE  LET proof == UcAndMembershipProofMsg(Chain[t], Chain[n], env, paths)
           IN  /\ proof \in SP1MembershipAndUpdateClientProof
               /\ proof.sp1Proof.vKey = UPDATE_CLIENT_AND_MEMBERSHIP_PROGRAM_VKEY
               /\ proof.sp1Proof.publicValues
                      = [updateClientOutput |-> UpdateOutput(Chain[t], Chain[n], env),
                         kvPairs |-> KVPairsAt(paths, n)]
               /\ VerifyProof(proof.sp1Proof)
               /\ ValidateLength(KVPairsAt(paths, n)) = NoError
<1> DEFINE proof == UcAndMembershipProofMsg(Chain[t], Chain[n], env, paths)
           p == proof.sp1Proof
           o == UpdateOutput(Chain[t], Chain[n], env)
           kvPairs == KVPairsAt(paths, n)
<1>1. /\ UpdateProvable(Chain[t], Chain[n], env)
      /\ Len(paths) \in 1..UINT8_MAX
  BY DEF UcAndMembershipProvable, KVPairsProvable
<1>2. /\ kvPairs \in Seq(KVPair)
      /\ CommitsKVPairs(Chain[n].appHash, kvPairs)
  BY <1>1, AnswersTyped, AnswersProvable
<1>3. ValidateLength(kvPairs) = NoError
  BY <1>2, LengthTaken
<1>4. /\ o \in UpdateClientOutput /\ CommitsUpdateClient(o)
      /\ o.newConsensusState.root = Chain[n].appHash
  <2>1. o \in UpdateClientOutput
    BY UpdateTyped
  <2>2. CommitsUpdateClient(o)
    BY <1>1, UpdateProved
  <2>3. o.newConsensusState.root = Chain[n].appHash
    BY UpdateOutputFields
  <2>4. QED
    BY <2>1, <2>2, <2>3
<1>5. Chain[n].height = n
  BY BlockOfChain
<1> HIDE DEF o, kvPairs
<1>6. /\ p.vKey = UPDATE_CLIENT_AND_MEMBERSHIP_PROGRAM_VKEY /\ p.proof = "proved"
      /\ p.publicValues = [updateClientOutput |-> o, kvPairs |-> kvPairs]
      /\ p = [vKey |-> p.vKey, publicValues |-> p.publicValues, proof |-> p.proof]
      /\ proof = [proofType |-> "SP1MembershipAndUpdateClientProof", sp1Proof |-> p]
  BY <1>5 DEF UcAndMembershipProofMsg, SP1ProofFrom, o, kvPairs
<1>7. p.publicValues \in UcAndMembershipOutput
  BY <1>2, <1>4, <1>6 DEF UcAndMembershipOutput
<1>8. VerifyProof(p)
  BY <1>2, <1>4, <1>6, <1>7 DEF VerifyProof, CommitsUcAndMembership
<1>9. proof \in SP1MembershipAndUpdateClientProof
  <2>1. p \in SP1ProofOf(UcAndMembershipOutput)
    BY <1>6, <1>7 DEF SP1ProofOf, VKeys, ProofBytes
  <2> HIDE DEF p
  <2>2. QED
    BY <1>6, <2>1 DEF SP1MembershipAndUpdateClientProof
<1>10. QED
  BY <1>3, <1>6, <1>8, <1>9 DEF o, kvPairs

\* The message that asks such a proof for one of its paths.
UcAndMembershipMsgOf(t, n, env, paths, i) ==
    [proofHeight |-> HeightOf(Chain[n]), path |-> paths[i],
     value |-> Query(paths[i], n - 1).value,
     proof |-> UcAndMembershipProofMsg(Chain[t], Chain[n], env, paths)]

\* membership takes it while the client is not frozen and stores the trusted
\* state, unless the update is misbehaviour; hashes is what the update left.
LEMMA UcAndMembershipTaken ==
    ASSUME NEW t \in Heights, NEW n \in Heights, NEW env \in Env,
           NEW paths \in Seq(Paths), NEW i \in 1..Len(paths),
           UcAndMembershipProvable(Chain[t], Chain[n], env, paths),
           ~clientState.isFrozen, EnvIsValid(env),
           IsTrusted(HeightOf(Chain[t]), ConsensusStateOf(Chain[t])),
           CheckUpdateResult(UpdateOutput(Chain[t], Chain[n], env)) # "Misbehaviour",
           NEW hashes, hashes[n] = ConsensusStateOf(Chain[n])
    PROVE  LET m == UcAndMembershipMsgOf(t, n, env, paths, i)
           IN  /\ UcAndMembershipError(m) = NoError
               /\ UcAndMembershipFinalError(m, hashes) = NoError
<1> DEFINE m == UcAndMembershipMsgOf(t, n, env, paths, i)
           proof == UcAndMembershipProofMsg(Chain[t], Chain[n], env, paths)
           p == proof.sp1Proof
           o == UpdateOutput(Chain[t], Chain[n], env)
           kvPairs == KVPairsAt(paths, n)
<1>1. /\ m.proofHeight = HeightOf(Chain[n]) /\ m.path = paths[i]
      /\ m.value = Query(paths[i], n - 1).value /\ m.proof = proof
  BY DEF UcAndMembershipMsgOf
<1>2. /\ p.vKey = UPDATE_CLIENT_AND_MEMBERSHIP_PROGRAM_VKEY
      /\ p.publicValues = [updateClientOutput |-> o, kvPairs |-> kvPairs]
      /\ VerifyProof(p)
      /\ ValidateLength(kvPairs) = NoError
  BY UcAndMembershipProved
<1>3. VerifyKVProof(p, kvPairs) = NoError
  BY <1>2, VerifiedPasses
<1>4. ValidateUpdateClientPublicValues(o) = NoError
  BY UpdateTaken DEF UcAndMembershipProvable
<1>5. /\ o.newHeight = HeightOf(Chain[n]) /\ o.newHeight.revisionHeight = n
      /\ o.newConsensusState = ConsensusStateOf(Chain[n])
      /\ o.newConsensusState.root = Chain[n].appHash
  BY UpdateOutputFields
<1>6. ValidateKVPair(kvPairs, m.path, m.value) = NoError
  BY <1>1, AnswersFound
<1>7. ValidateMembershipOutput(o.newConsensusState.root,
                               o.newHeight.revisionHeight,
                               o.newConsensusState, hashes) = NoError
  BY <1>5 DEF ValidateMembershipOutput, NotFrozen, Require, ??, NoError
<1> HIDE DEF m, proof, o, kvPairs
<1>8. UcAndMembershipError(m) = NoError
  BY <1>1, <1>2, <1>3, <1>4, <1>5 DEF UcAndMembershipError, Require, ??, NoError
<1>9. UcAndMembershipFinalError(m, hashes) = NoError
  <2>1. CheckUpdateResult(o) # "Misbehaviour"
    BY DEF o
  <2>2. QED
    BY <1>1, <1>2, <1>6, <1>7, <2>1
    DEF UcAndMembershipFinalError, Require, ??, NoError
<1>10. QED
  BY <1>8, <1>9 DEF m

-----------------------------------------------------------------------------
(* Evidence.                                                               *)

\* The heights of evidence that can be proved are those the node was asked for.
LEMMA EvidenceHeights ==
    ASSUME NEW e, NEW env, EvidenceProvable(e, env)
    PROVE  \A t \in {e.trustedHeight1, e.trustedHeight2} :
               t \in UINT32 /\ NodeHeight(t) = t /\ EvidenceBlock(t) = Chain[t]
<1>1. \A t \in UINT32 : NodeHeight(t) = t
  BY MsgsAssumption, ModSmall DEF UINT32, NodeHeight
<1>2. QED
  BY <1>1 DEF EvidenceProvable, EvidenceBlock

\* The public values of evidence over two blocks of the chain.
LEMMA EvidenceFields ==
    ASSUME NEW e, NEW env, EvidenceProvable(e, env)
    PROVE  LET t1 == e.trustedHeight1
               t2 == e.trustedHeight2
               p == SubmitMisbehaviourMsg(e, env).sp1Proof
               o == p.publicValues
           IN  /\ p.vKey = MISBEHAVIOUR_PROGRAM_VKEY /\ p.proof = "proved"
               /\ o = [env |-> env,
                       trustedHeight1 |-> HeightOf(Chain[t1]),
                       trustedHeight2 |-> HeightOf(Chain[t2]),
                       trustedConsensusState1 |-> ConsensusStateOf(Chain[t1]),
                       trustedConsensusState2 |-> ConsensusStateOf(Chain[t2])]
               /\ o.env = env
               /\ o.trustedHeight1 = HeightOf(Chain[t1])
               /\ o.trustedHeight2 = HeightOf(Chain[t2])
               /\ o.trustedConsensusState1 = ConsensusStateOf(Chain[t1])
               /\ o.trustedConsensusState2 = ConsensusStateOf(Chain[t2])
<1> DEFINE p == SubmitMisbehaviourMsg(e, env).sp1Proof
<1>1. /\ EvidenceBlock(e.trustedHeight1) = Chain[e.trustedHeight1]
      /\ EvidenceBlock(e.trustedHeight2) = Chain[e.trustedHeight2]
  BY EvidenceHeights
<1>2. /\ p.vKey = MISBEHAVIOUR_PROGRAM_VKEY /\ p.proof = "proved"
      /\ p.publicValues
             = [env |-> env,
                trustedHeight1 |-> HeightOf(Chain[e.trustedHeight1]),
                trustedHeight2 |-> HeightOf(Chain[e.trustedHeight2]),
                trustedConsensusState1 |-> ConsensusStateOf(Chain[e.trustedHeight1]),
                trustedConsensusState2 |-> ConsensusStateOf(Chain[e.trustedHeight2])]
  BY <1>1 DEF SubmitMisbehaviourMsg, SP1ProofFrom
<1>3. QED
  <2> HIDE DEF p
  <2>1. /\ p.publicValues.env = env
        /\ p.publicValues.trustedHeight1 = HeightOf(Chain[e.trustedHeight1])
        /\ p.publicValues.trustedHeight2 = HeightOf(Chain[e.trustedHeight2])
        /\ p.publicValues.trustedConsensusState1
               = ConsensusStateOf(Chain[e.trustedHeight1])
        /\ p.publicValues.trustedConsensusState2
               = ConsensusStateOf(Chain[e.trustedHeight2])
    BY <1>2
  <2>2. QED
    BY <1>2, <2>1 DEF p

\* Evidence the command asserts is proved by the program, which finds the trusted
\* states by their heights in one map.
LEMMA EvidenceProved ==
    ASSUME NEW e \in MisbehaviourEvidence, NEW env \in Env,
           EvidenceProvable(e, env),
           e.trustedHeight1 \in Heights, e.trustedHeight2 \in Heights,
           env.chainId = Chain[e.trustedHeight2].chainId
    PROVE  LET m == SubmitMisbehaviourMsg(e, env)
           IN  m \in MsgSubmitMisbehaviour /\ VerifyProof(m.sp1Proof)
<1> DEFINE t1 == e.trustedHeight1
           t2 == e.trustedHeight2
           m == SubmitMisbehaviourMsg(e, env)
           p == m.sp1Proof
           o == p.publicValues
<1>1. /\ p.vKey = MISBEHAVIOUR_PROGRAM_VKEY /\ p.proof = "proved"
      /\ o = [env |-> env,
              trustedHeight1 |-> HeightOf(Chain[t1]),
              trustedHeight2 |-> HeightOf(Chain[t2]),
              trustedConsensusState1 |-> ConsensusStateOf(Chain[t1]),
              trustedConsensusState2 |-> ConsensusStateOf(Chain[t2])]
  BY EvidenceFields
<1>2. m = [sp1Proof |-> [vKey |-> p.vKey, publicValues |-> o, proof |-> p.proof]]
  BY DEF SubmitMisbehaviourMsg, SP1ProofFrom
<1> HIDE DEF m
<1>3. /\ o.env = env
      /\ o.trustedHeight1 = HeightOf(Chain[t1])
      /\ o.trustedHeight2 = HeightOf(Chain[t2])
      /\ o.trustedConsensusState1 = ConsensusStateOf(Chain[t1])
      /\ o.trustedConsensusState2 = ConsensusStateOf(Chain[t2])
  BY EvidenceFields DEF m
<1>4. /\ HeightOf(Chain[t1]).revisionHeight = t1
      /\ HeightOf(Chain[t2]).revisionHeight = t2
  BY BlockOfChain
<1>5. o \in MisbehaviourOutput
  BY <1>1, BlockOfChain DEF MisbehaviourOutput
<1>6. CommitsMisbehaviour(o)
  <2>1. \A t \in {t1, t2} :
            TrustedConsensusStates(o)[t] = ConsensusStateOf(Chain[t])
    BY <1>3, <1>4 DEF TrustedConsensusStates
  <2>2. /\ ValidThreshold(env.trustThreshold)
        /\ e.header1.height >= e.header2.height
        /\ VerifyMisbehaviourHeader(ConsensusStateOf(Chain[t1]),
               [revisionNumber |-> RevisionNumber[e.header1.chainId],
                revisionHeight |-> t1], e.header1, env)
        /\ VerifyMisbehaviourHeader(ConsensusStateOf(Chain[t2]),
               [revisionNumber |-> RevisionNumber[e.header2.chainId],
                revisionHeight |-> t2], e.header2, env)
        /\ Conflicting(e.header1, e.header2)
    BY EvidenceHeights DEF EvidenceProvable, EvidenceVerifies
  <2>3. ASSUME NEW t \in {t1, t2}, NEW b \in {e.header1, e.header2}
        PROVE  HeightOf(Chain[t]) = [revisionNumber |-> RevisionNumber[b.chainId],
                                     revisionHeight |-> t]
    <3>1. b.chainId = env.chainId
      BY <2>2 DEF VerifyMisbehaviourHeader, VerifyAgainstTrusted
    <3>2. Chain[t].height = t /\ Chain[t].chainId = env.chainId
      BY NodeAssumption
    <3>3. QED
      BY <3>1, <3>2 DEF HeightOf
  <2>4. e.header1 \in Blocks /\ e.header2 \in Blocks
    BY DEF MisbehaviourEvidence
  <2>5. QED
    BY <1>3, <1>4, <2>1, <2>2, <2>3, <2>4 DEF CommitsMisbehaviour
<1>7. VerifyProof(p)
  BY <1>1, <1>5, <1>6 DEF VerifyProof
<1>8. m \in MsgSubmitMisbehaviour
  BY <1>1, <1>2, <1>5 DEF MsgSubmitMisbehaviour, SP1ProofOf, VKeys, ProofBytes
<1>9. QED
  BY <1>7, <1>8 DEF m

\* misbehaviour takes it while the client is not frozen and stores the states.
LEMMA EvidenceTaken ==
    ASSUME NEW e \in MisbehaviourEvidence, NEW env \in Env,
           EvidenceProvable(e, env),
           e.trustedHeight1 \in Heights, e.trustedHeight2 \in Heights,
           env.chainId = Chain[e.trustedHeight2].chainId,
           ~clientState.isFrozen, EnvIsValid(env),
           IsTrusted(HeightOf(Chain[e.trustedHeight1]),
                     ConsensusStateOf(Chain[e.trustedHeight1])),
           IsTrusted(HeightOf(Chain[e.trustedHeight2]),
                     ConsensusStateOf(Chain[e.trustedHeight2]))
    PROVE  MisbehaviourError(SubmitMisbehaviourMsg(e, env)) = NoError
<1> DEFINE m == SubmitMisbehaviourMsg(e, env)
           o == m.sp1Proof.publicValues
<1>1. /\ m.sp1Proof.vKey = MISBEHAVIOUR_PROGRAM_VKEY
      /\ o.env = env
      /\ o.trustedHeight1 = HeightOf(Chain[e.trustedHeight1])
      /\ o.trustedHeight2 = HeightOf(Chain[e.trustedHeight2])
      /\ o.trustedConsensusState1 = ConsensusStateOf(Chain[e.trustedHeight1])
      /\ o.trustedConsensusState2 = ConsensusStateOf(Chain[e.trustedHeight2])
  <2>1. m.sp1Proof.vKey = MISBEHAVIOUR_PROGRAM_VKEY /\ o.env = env
    BY DEF SubmitMisbehaviourMsg, SP1ProofFrom
  <2>2. /\ o.trustedHeight1 = HeightOf(Chain[e.trustedHeight1])
        /\ o.trustedHeight2 = HeightOf(Chain[e.trustedHeight2])
        /\ o.trustedConsensusState1 = ConsensusStateOf(Chain[e.trustedHeight1])
        /\ o.trustedConsensusState2 = ConsensusStateOf(Chain[e.trustedHeight2])
    BY EvidenceFields
  <2>3. QED
    BY <2>1, <2>2
<1>2. ValidateMisbehaviourOutput(o) = NoError
  <2>1. ValidateEnv(o.env) = NoError
    BY <1>1, EnvChecked
  <2>2. /\ ValidateTrusted(o.trustedHeight1, o.trustedConsensusState1) = NoError
        /\ ValidateTrusted(o.trustedHeight2, o.trustedConsensusState2) = NoError
    BY <1>1, TrustedChecked
  <2>3. QED
    BY <2>1, <2>2 DEF ValidateMisbehaviourOutput, NotFrozen, Require, ??, NoError
<1>3. VerifySP1Proof(m.sp1Proof) = NoError
  BY EvidenceProved DEF VerifySP1Proof, Require
<1>4. QED
  BY <1>1, <1>2, <1>3 DEF MisbehaviourError, Require, ??, NoError

=============================================================================
