CONSTANTS
  dev01 = dev01  alice = alice  here = here  there = there  one = one  other = other
  Participant = {dev01, alice}
  Checkout = {here, there}
  Terminal = {one, other}
  First = dev01
  MaxId = 3
  MaxMakes = 4
  None = None
SPECIFICATION WorkshopSpec
SYMMETRY WorkshopSymmetry
INVARIANTS OwnNames PageIsOwn GatewaysLive
PROPERTIES BootstrapRepairs DestroyIsOwn DeployKeepsBackends ImplementsCopies
\* At MaxMakes nothing may be left to do.
CHECK_DEADLOCK FALSE
