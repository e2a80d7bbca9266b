SPECIFICATION FairSpec
CONSTANTS
    Daemons = {d1, d2, d3}
    Managed = {d1}
    MaxKills = 3
    MaxFiles = 2
INVARIANTS
    ServedSocketIsRestricted
PROPERTIES
    FilesSurvive
    Recovers
