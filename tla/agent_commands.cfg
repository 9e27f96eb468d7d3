CONSTANTS
    Commands = {c1, c2}
    Kinds = {"rotate_ui_password", "upgrade"}
    Handlers = {h1, h2}
    NoCmd = NoCmd
    MaxAcks = 1
    MaxSpurious = 1
    MaxFaults = 1
SYMMETRY Symmetry
SPECIFICATION Spec
INVARIANTS
    TypeOK
    OneInFlight
    PublishedBeforeCompleted
    HandedOnce
PROPERTIES
    SingleDirection
    ImplementsBoard
