CONSTANTS
    Node <- MCNode
    MemVec <- MCMemVec
    LookupTableLevels = 2
    None = None
    InitTable <- MCInitTable
    MaxInFlight = 2
SPECIFICATION Spec
CONSTRAINT InFlightBound
INVARIANTS TablesOrdered ConfirmationsBacked HalfLinksAreInFlight
PROPERTIES SlotsOnlyTighten ForwardsApproach
