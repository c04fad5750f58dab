SPECIFICATION RpcSpec
CONSTANTS
  v1 = v1  v2 = v2  v3 = v3
  r1 = r1
  n1 = n1  n2 = n2
  path1 = path1  empty = empty
  NoHash = NoHash
  NoPeriod = NoPeriod
  Latest = Latest  Nothing = Nothing  Failed = Failed
  ChainIds <- MCChainIds
  Validators <- MCValidators
  Roots <- MCRoots
  Paths = {path1}
  Values = {empty}
  EmptyValue = empty
  MAX_UINT32 = 4
  MAX_UINT64 = 15
  UINT8_MAX = 2
  UPDATE_CLIENT_PROGRAM_VKEY = "update_client"
  MEMBERSHIP_PROGRAM_VKEY = "membership"
  UPDATE_CLIENT_AND_MEMBERSHIP_PROGRAM_VKEY = "uc_and_membership"
  MISBEHAVIOUR_PROGRAM_VKEY = "misbehaviour"
  RevisionNumber <- MCRevisionNumber
  TicksPerSecond = 1
  Store <- MCStore
  Blocks <- MCBlocks
  Chain <- MCChain
  StateAt <- MCStateAt
  Nodes = {n1, n2}
  RequestedHeights <- MCRequestedHeights
INVARIANTS RpcTypeOK
PROPERTIES IsAtomicRead
