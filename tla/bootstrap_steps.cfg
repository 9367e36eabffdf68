CONSTANTS
  CoreTables <- MCCoreTables
  SysTables <- MCSysTables
  IniTables <- MCIniTables
  NumSysParams = 2
  RetryTimes = 2
  MASTER = MASTER
  SLAVE = SLAVE
SPECIFICATION Spec
CHECK_DEADLOCK FALSE
INVARIANTS
  TypeOK
  SuccessMeansBootstrapped
