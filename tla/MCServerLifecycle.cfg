SPECIFICATION FairLifecycle
CONSTANTS
  r1 = r1
  r2 = r2
  Kinds = {"identity-api", "identity-worker", "workspace-api"}
  Configs <- MCConfigs
  Request = {r1, r2}
  StopTimeout = 2
  ReadTimeout = 1
  RequestTimeout = 2
  ProbeTimeout = 1
  MailTimeout = 2
  MetricTimeout = 2
  FlushTimeout = 2
  BrokerTimeout = 1
  DropTimeout = 1

INVARIANTS
  LifecycleInv
  NothingIsCutOff
  ExitCodeIsRight
  StopsInBoundedTime
  WholeOrNothing

PROPERTY Stops
