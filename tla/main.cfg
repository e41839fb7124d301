SPECIFICATION HostSpec
CONSTANTS
  MainContexts = 2
  Totals = {1200, 2000, 6000}
  Given = {"none", "one", "profile", "other"}
  Execs = {0, 1, 2, 3, 4, 5, 6, 7}
  Iterations = {0, 1000}
  Cost = {1, 10, 50, 101, 310, 9000}
  Overhead = {0, 7}
  Phase = {0, 4294000}
  WrongTypes = {}
  BitFaults = {"list", "state"}
  Clocks = {"clock", "timespec"}
  NSECS_PER_SEC = 12
  TIMER_RES_DIVIDER = 4
  Longest = 14
  Measurements = 1
  MULTITHREAD = 3
  Methods = {"pthread", "fork", "socket"}
  Calibrates = {FALSE, TRUE}
  FaultSets = {{}, {"fork"}, {"shmat"}, {"stop"}}
  Runs = 2
CHECK_DEADLOCK FALSE
INVARIANTS SafeMemory TimesRight AutoDuration VerdictRight NoFalseValid
PROPERTIES RunsEnd
