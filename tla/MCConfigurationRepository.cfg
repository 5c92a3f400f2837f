CONSTANTS
    compiled = compiled
    edited = edited
    other = other
    Configurations = {compiled, edited, other}
    Default = compiled
    MaxGeneration = 5
    MaxFaults = 2
SPECIFICATION Spec
INVARIANTS
    RepositoryTypeOK
    ChangeIsAtomicAndDurable
PROPERTY
    SaveSparesLoadedSlot
