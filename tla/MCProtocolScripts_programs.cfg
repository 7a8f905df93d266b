SPECIFICATION Spec
CONSTANTS
    Scripts <- MCScripts
    Plan <- MCPlan
    Agendas <- ProgramAgendas
    Legacy <- ProgramLegacy
    Resumable <- MCResumable
    Contracts <- MCContracts
    Words <- MCWords
    Slots <- MCSlots
    Counters <- MCCounters
    Records <- MCRecords
    NoRecord = "none"
    UserSlot <- MCUserSlot
    Needs <- ProtocolNeeds
    Escrow = "ChargedParticles"
    UniverseSlot = "escrow.universe"
    Programs <- RewardPrograms
    Purse <- ProtocolPurse
    MaxInstances = 3
    MaxFaults = 2
    MaxUserChanges = 0
INVARIANTS
    LiveProgramsAreComplete
PROPERTIES
    DepositsResume
    ImplementsOrderedSteps
    AgendaCompletes
CHECK_DEADLOCK FALSE
