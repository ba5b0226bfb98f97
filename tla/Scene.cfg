CONSTANTS
    Names <- MCNames
    Places <- MCPlaces
    Kinds <- MCKinds
    Lonly <- MCKinds
    Requires <- MCRequires
    WritesNameOf <- MCWritesNameOf
    TypeName <- MCTypeName
    MaxObjects = 3
    MaxComponents = 2
    MaxSize = 4
    MaxEdits = 1
SPECIFICATION Spec
INVARIANTS
    IdsContiguous
    LinksAgree
    ComponentsComplete
    ParentSaved
    UndefinedOnlyAfterFault
PROPERTIES
    RoundTrip
CHECK_DEADLOCK FALSE
