SPECIFICATION Spec
\* The use of an invalid pointer ends the program.
CHECK_DEADLOCK FALSE
CONSTANTS
    Drawables <- MCDrawables
    PathOf <- MCPathOf
    WithTransform <- MCWithTransform
    Buttons = {2, 3}
    Watched = {2}
    MaxIDs = 3
    MaxChanges = 6
INVARIANTS
    SavedIsShown
    UndefinedOnlyByMisuse
    NothingLeaks
    KlickedOverButton
