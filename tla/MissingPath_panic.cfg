SPECIFICATION Spec
CONSTANTS
  v1 = v1  v2 = v2  v3 = v3  v4 = v4
  r1 = r1  r2 = r2  r3 = r3  rFork = rFork
  path1 = path1  path2 = path2
  a = a  b = b  empty = empty
  NoHash = NoHash
  ChainIds <- MCChainIds
  Validators <- MCValidators
  Roots <- MCRoots
  Paths <- MCPaths
  Values <- MCValues
  EmptyValue = empty
  MAX_UINT32 = 4
  MAX_UINT64 = 15
  UINT8_MAX = 2
  UPDATE_CLIENT_PROGRAM_VKEY = "update_client"
  MEMBERSHIP_PROGRAM_VKEY = "membership"
  UPDATE_CLIENT_AND_MEMBERSHIP_PROGRAM_VKEY = "uc_and_membership"
  MISBEHAVIOUR_PROGRAM_VKEY = "misbehaviour"
  RevisionNumber <- MCRevisionNumber
  Store <- MCStore
  ALLOWED_SP1_CLOCK_DRIFT = 1
  GenesisClientState <- MCClientState
  GenesisConsensusState <- MCConsensusState
  DeploymentTimestamp = 2
  MaxTimestamp = 6
  UpdateMsgs <- MCUpdateMsgs
  MembershipMsgs <- MCMembershipMsgs
  MisbehaviourMsgs <- MCMisbehaviourMsgs
  TicksPerSecond = 1
  Blocks <- HonestBlocks
INVARIANT MissingPathIsReported
