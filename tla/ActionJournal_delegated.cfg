SPECIFICATION MCSpec
CONSTANTS
  Kinds = {"delegated"}
  r1 = r1  r2 = r2  a = a  b = b  c1 = c1
  None = None
  Requests = {r1, r2}
  Processes = {r1, r2}
  Process <- OwnProcess
  Scopes = {a, b}
  Delegated = {a, b}
  Contents = {c1}
  MaxAttempts = 1
  Shapes <- KindShapes
  IndexLoss = TRUE
INVARIANT OneRootActorSends
SYMMETRY Symmetric
