\* A configuration that is edited and removed; every call returns under fair scheduling and deadlines.
SPECIFICATION SessionSpec
CONSTANTS
    w = w
    r = r
    Nothing = Nothing
    Requests <- SessionRequests
    KindsOf <- OneEach
    Slots <- SessionSlots
    MaxRevision = 2
PROPERTIES
    CallsReturn
