CONSTANTS
  s1 = s1
  s2 = s2
  total = total
  Source = {s1, s2}
  Total = total
  Kinds = {"netstat", "infiniband", "rapl", "numastats", "cpustat", "schedstat",
           "nfsiostat", "iostat", "lustre", "gpfs", "nfs"}
  Modulus = 3
  MaxTime = 3
  MaxGrowth = 1
  MaxEvents = 1
SPECIFICATION CountersSpec
INVARIANTS
  CountersTypeOK
  DifferencesAddUp
PROPERTIES
  ErrorLastsOneRead
  RatesAreExact
CHECK_DEADLOCK FALSE
