SPECIFICATION FairSpec
CONSTANTS
  p1 = p1
  p2 = p2
  c1 = c1
  Publishers <- const_Publishers
  Customers <- const_Customers
  MaxVersions = 4
  MaxChanges = 3
  Lines = 2
INVARIANTS MenuInvariant AuthoritativePrices
PROPERTY PublicationsEnd
CHECK_DEADLOCK FALSE
