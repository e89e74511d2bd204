SPECIFICATION FairSpec
CONSTANTS
    None = None
    Casts <- TurnsOfTheAssistant
    MaxTurns = 2
INVARIANTS
    TypeOK
    OperationIsAlone
    IdleChatIsClean
    AppliedChangeIsShown
PROPERTIES
    ChangeIsConsented
    VaultIsFreed
    ComposerComesBack
CHECK_DEADLOCK FALSE
