SPECIFICATION Spec
CONSTANTS
  GuestFds = {2, 3, 4, 5}
  Inherited <- MCInherited
  FIRST_FD = 3
  HostFds <- MCHostFds
  Pipes = {p1, p2}
  PIPE_CAPACITY = 2
  MAX = 2
  EventSets <- MCEvents
  Minimums = {0, 5}
  Targets = {4}
  h1 = h1
  h2 = h2
  h3 = h3
  h4 = h4
  h5 = h5
  None = None
SYMMETRY MCSymmetry
INVARIANTS
  HostOwned
  EventfdSignalled
  RegistrationsOpen
  EventfdPolled
  EndOfFile
  PollsAgree
