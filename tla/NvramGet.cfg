SPECIFICATION Spec
CONSTANTS
  FLASH_BLOCK_NUM = 2
  RT2860_NVRAM = 1
  MAX_CACHE_ENTRY = 2
  Procs = {p1, p2}
  BlockOf <- MCBlockOf
  Daemon = Daemon
  WebInit = "WebInit"
  Names <- MCNames
  UserValues <- MCUserValues
  Defaults <- MCDefaults
  UserFiles <- MCUserFiles
  Junk = Junk
  Ones = Ones
  ErasedCrc = ErasedCrc
  None = None
  Oops = Oops
  Factory <- MCFactory
  MaxUses = 1
  MaxFaults = 0
INVARIANT GetIsFresh
