SPECIFICATION Spec
CONSTANTS
    Scripts <- MCScripts
    Plan <- MCPlan
    Agendas <- RolloutAgendas
    Legacy <- RolloutLegacy
    Resumable <- MCResumable
    Contracts <- MCContracts
    Words <- MCWords
    Slots <- MCSlots
    Counters <- MCCounters
    Records <- MCRecords
    NoRecord = "none"
    UserSlot <- MCUserSlot
    Needs <- ProtocolNeeds
    Escrow = "ChargedParticles"
    UniverseSlot = "escrow.universe"
    Programs <- RewardPrograms
    Purse <- ProtocolPurse
    MaxInstances = 2
    MaxFaults = 1
    MaxUserChanges = 2
INVARIANTS
    TypeOK
    WiresAreDeployed
    ProtocolIsWired
    OrphansAreFaults
    TrackedIsMigrated
    ChangesAreKept
CHECK_DEADLOCK FALSE
