SPECIFICATION FairUpgradeSpec
CONSTANTS
    Sibling = {n1, n2}
    NoNode = NoNode
    MaxVersion = 3
    Pre = {3}
    Beta = {n1}
    Staged = {n1}
    Serviced = {n2}
    MaxFaults = 1
    MaxCrashes = 1
INVARIANTS
    OnlySigned
PROPERTIES
    Upgraded
CHECK_DEADLOCK FALSE
