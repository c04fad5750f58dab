SPECIFICATION SystemSpec
CONSTANTS
  v1 = v1  v2 = v2  v3 = v3  v4 = v4
  r1 = r1  r2 = r2  r3 = r3  r4 = r4  rFork = rFork
  path1 = path1  path2 = path2
  a = a  b = b  empty = empty
  o1 = o1  o2 = o2
  NoHash = NoHash
  NoPeriod = NoPeriod
  ChainIds <- MCChainIds
  Validators <- MCValidators
  Roots <- MCRoots
  Paths <- MCPaths
  Values <- MCValues
  EmptyValue = empty
  MAX_UINT32 = 6
  MAX_UINT64 = 15
  UINT8_MAX = 2
  UPDATE_CLIENT_PROGRAM_VKEY = "update_client"
  MEMBERSHIP_PROGRAM_VKEY = "membership"
  UPDATE_CLIENT_AND_MEMBERSHIP_PROGRAM_VKEY = "uc_and_membership"
  MISBEHAVIOUR_PROGRAM_VKEY = "misbehaviour"
  RevisionNumber <- MCRevisionNumber
  TicksPerSecond = 1
  Store <- MCStore
  ALLOWED_SP1_CLOCK_DRIFT = 1
  GenesisClientState <- MCClientState
  GenesisConsensusState <- MCConsensusState
  PathLists <- MCPathLists
  Chain <- MCChain
  StateAt <- ShortStateAt
  Blocks <- HonestBlocks
  UpdateMsgs <- None
  MembershipMsgs <- None
  MisbehaviourMsgs <- None
  Evidence <- None
  Operators = {o1}
  OnlyOnce = FALSE
  ClockSkews <- Exact
  MaxCrashes = 0
  DeploymentTimestamp = 2
  MaxTimestamp = 6
INVARIANTS KeepsPolling
