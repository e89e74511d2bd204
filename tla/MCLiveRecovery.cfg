SPECIFICATION FairSpec
CONSTANTS
    Targets = {notes, attachments}
    Data = {v1, v2}
    Absent = absent
    NoImage = noImage
    MaxStops = 2
INVARIANTS
    TypeOK
    RecoveryNeverRefuses
PROPERTIES
    ImplementsAtomicVault
    AnswerIsDurable
    VaultOpensAgain
