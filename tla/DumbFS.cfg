\* One client makes three calls about two files, each with one resend and three
\* replies of the outside on their way.
SPECIFICATION Spec
CONSTANTS
  Clients = {c}
  Paths = {p, q}
  Blocks = {b}
  Modes <- OneWay
  Hole = Hole
  None = None
  MaxCalls = 3
  MaxResends = 1
  MaxReplies = 3
SYMMETRY PathsAlike
INVARIANTS
  HandlesAreOpen
  NoHoles
PROPERTY
  ImplementsService
CHECK_DEADLOCK FALSE
