\* One edit and one publication are enough.
SPECIFICATION ComposerSpec
CONSTANTS
    MaxEdits = 2
    MaxInstances = 2
    MaxSends = 1
    Nothing = Nothing
INVARIANTS
    RecoveredIsUnpublished
