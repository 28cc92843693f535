SPECIFICATION Spec
CHECK_DEADLOCK FALSE
CONSTANTS
    i1 = i1  i2 = i2  i3 = i3
    c1 = c1  c2 = c2
    m1 = m1
    text = text  image = image
    Ids = {i1, i2, i3}
    Conns = {c1}
    Clients = {m1}
    Inputs = {text, image}
    Images = {image}
    MaxAccepted = 1
    MaxTurns = 3
    MaxTasks = 1
    MaxSealing = 2
    Workloads <- CustodyLoads
    NoId = NoId  NoConn = NoConn  NoClient = NoClient  NoInput = NoInput
INVARIANTS
    TypeOK
    NoInputLost
    ReceiptsAreTrue
    PendingKeepsEntry
PROPERTIES
    OnlyStartResumes
    DroppedStaysDropped
