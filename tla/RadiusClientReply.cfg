CONSTANTS
  ap1 = ap1
  ap2 = ap2
  key1 = key1
  key2 = key2
  Sta = {s1, s2}
  Ap = {ap1}
  Secrets = {key1, key2}
  Confs <- MCSingle
  IdMod = 3
  MaxEntries = 2
  MaxRetries = 3
  NumFailover = 1
  FirstWait = 1
  MaxWait = 3
  MaxTimers = 2
SPECIFICATION Spec
PROPERTY NewReplyNewRequest
