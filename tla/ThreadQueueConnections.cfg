SPECIFICATION Spec
CHECK_DEADLOCK FALSE
CONSTANTS
    i1 = i1  i2 = i2  i3 = i3
    c1 = c1  c2 = c2
    m1 = m1
    text = text  image = image
    Ids = {i1}
    Conns = {c1, c2}
    Clients = {m1}
    Inputs = {text, image}
    Images = {image}
    MaxAccepted = 1
    MaxTurns = 1
    MaxTasks = 1
    MaxSealing = 2
    Workloads <- ConnectionLoads
    NoId = NoId  NoConn = NoConn  NoClient = NoClient  NoInput = NoInput
SYMMETRY Symmetry
INVARIANTS
    ClosedConnectionsAreForgotten
    RetirementIsFenced
