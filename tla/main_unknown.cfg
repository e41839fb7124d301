SPECIFICATION Spec
CONSTANTS
  MULTITHREAD = 1
  Totals = {1200, 2000, 6000}
  Given = {"none", "one", "profile", "other"}
  Execs = {0, 7}
  Iterations = {0, 1000}
  Cost = {1, 10, 50, 101, 310, 9000}
  Overhead = {0, 7}
  Phase = {0, 4294000}
  WrongTypes = {}
  BitFaults = {"list", "state"}
CHECK_DEADLOCK FALSE
INVARIANTS ValidatedMeansSuccessful
