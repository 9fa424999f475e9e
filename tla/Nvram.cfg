SPECIFICATION FairSpec
CONSTANTS
  FLASH_BLOCK_NUM = 2
  RT2860_NVRAM = 1
  MAX_CACHE_ENTRY = 2
  Procs = {p1}
  BlockOf <- MCBlockOf
  Daemon = Daemon
  WebInit = "WebInit"
  Names <- MCNames
  UserValues <- MCUserValues
  Defaults <- MCDefaults
  UserFiles <- MCUserFiles
  Junk = Junk
  Ones = Ones
  ErasedCrc = ErasedCrc
  None = None
  Oops = Oops
  Factory <- MCFactory
  MaxUses = 1
  MaxFaults = 1
INVARIANTS TypeOK CleanMeansSaved PidMeansDefaults
PROPERTIES ImplementsStore DaemonFinishes
