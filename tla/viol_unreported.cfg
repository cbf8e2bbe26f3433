SPECIFICATION Spec
CONSTANTS
  a = a
  b = b
  c = c
  Addresses <- MCAddresses
  Known <- MCTwo
  New <- MCNone
  MaxSorts = 0
INVARIANTS
  ErrorsAreReported
