CONSTANTS
  dev01 = dev01  alice = alice  here = here  there = there  one = one  other = other
  Participant = {dev01, alice}
  Checkout = {here}
  Terminal = {one, other}
  First = dev01
  MaxId = 3
  MaxMakes = 2
  None = None
SPECIFICATION WorkshopSpec
INVARIANT NeverCollide
\* At MaxMakes nothing may be left to do.
CHECK_DEADLOCK FALSE
