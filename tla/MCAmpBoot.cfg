CONSTANTS
  Cpu <- MCCpu
  BootCpu = 0
  NrCpus = 2
  Configurations <- MCConfigurations
  Trees <- MCTrees
  Written = {768}
  MaxFaults = 1
  LinuxSlow = TRUE
SPECIFICATION FairSpec
INVARIANTS TypeOK StartedOnce SysfsKnows LinuxNotOffered
PROPERTY EveryCoreStarted
CHECK_DEADLOCK FALSE
