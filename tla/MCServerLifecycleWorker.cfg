SPECIFICATION LifecycleSpec
CONSTANTS
  r1 = r1
  r2 = r2
  Kinds = {"identity-worker"}
  Configs <- MCConfigs
  Request = {r1}
  StopTimeout = 5
  ReadTimeout = 5
  RequestTimeout = 5
  ProbeTimeout = 2
  MailTimeout = 5
  MetricTimeout = 5
  FlushTimeout = 4
  BrokerTimeout = 10
  DropTimeout = 15

INVARIANT WorkerStopsCleanly
