\* Two handlers that may overlap, and two browsers of which one comes back.
SPECIFICATION FeedSpec
CONSTANTS
    Runs = {"a"}
    Publishers = {p1, p2}
    Clients = {c1, c2}
    Capacity = 1
    Replayed <- MCReplayed
    MaxVersion = 3
    MaxHides = 1
    MaxConnects = 3
INVARIANTS
    FeedTypeOK
    NoSendOnClosedChannel
    NoUpdateLost
PROPERTIES
    BrowsersCatchUp
CHECK_DEADLOCK FALSE
