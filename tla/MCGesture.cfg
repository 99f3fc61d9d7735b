CONSTANTS
  s1 = s1
  s2 = s2
  s3 = s3
  a = a
  b = b
  NoSig = NoSig
  Sources = {s1, s2, s3}
  Items <- SaidItems
  Phones = {a, b}
  MaxProps = 3
  MaxDeaths = 1
  Verifying = {1}
  MaxContents = 1
  MaxPages = 2
  MaxQueue = 2
  MaxLaunches = 2
SPECIFICATION RentalSpec
CHECK_DEADLOCK FALSE
INVARIANTS
  OnlyThePersonVerifies
