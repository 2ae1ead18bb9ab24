\* After a shutdown, with the connection closed, nothing need happen any more.
CONSTANTS
    a = a
    b = b
    Topics = {a, b}
    FirstTokens = {a}
    Prices = {1}
    Ticks = {1, 2}
    MaxChanges = 1
    MaxUpdates = 1
    MaxWire = 1
    MaxFaults = 1

SPECIFICATION FairSpec
INVARIANTS OneLifeline SubscribedAsWanted
PROPERTIES StaysConnected BooksCatchUp
CHECK_DEADLOCK FALSE
