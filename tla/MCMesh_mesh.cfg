SPECIFICATION FairSpec
CONSTANTS
    Nodes = {n1, n2}
    Holders = {n1, n2}
    Requests = {r1}
    NoNode = NoNode
    Ceiling = 1
    MaxLegs = 3
INVARIANTS CountsExact NoBounce
PROPERTIES GonePeerNotRouted OrphanFreesSlot
