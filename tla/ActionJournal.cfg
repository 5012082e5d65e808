SPECIFICATION MCSpec
CONSTANTS
  Kinds = {"one", "two"}
  r1 = r1  r2 = r2  a = a  b = b  c1 = c1
  None = None
  Requests = {r1, r2}
  Processes = {r1, r2}
  Process <- OwnProcess
  Scopes = {a, b}
  Delegated = {}
  Contents = {c1}
  MaxAttempts = 2
  Shapes <- KindShapes
  IndexLoss = FALSE
INVARIANTS TypeOK AtMostOneSend AnswersAreTrue OneScopeSends
PROPERTY ImplementsActionKey
SYMMETRY Symmetric
