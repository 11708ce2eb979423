SPECIFICATION FairSpec
CONSTANTS
  r1 = r1
  r2 = r2
  r3 = r3
  Requests = {r1, r2}
  MaxPolls = 2
  MaxDuplicates = 1
  MaxTrouble = 1
INVARIANTS TypeOK AppliedOnce PaidAtStripe PaidIsRecorded
PROPERTIES PaymentRecorded
CHECK_DEADLOCK FALSE
