CONSTANTS
    Commands = {c1}
    Kinds = {"rotate_ui_password", "upgrade"}
    Handlers = {h1, h2}
    NoCmd = NoCmd
    MaxAcks = 1
    MaxSpurious = 1
    MaxFaults = 1
SPECIFICATION FairSpec
PROPERTIES
    CommandsEnd
    SettlesLikeBoard
