SPECIFICATION PlanningSpec
CONSTANTS
    Conversation <- MCConversation
    Bundle <- MCBundle
    Place <- MCPlace
    Exclusive = {6}
    Attestation <- MCAttestation
    Utility = {0, 1}
    Capacity = 3
    MaxPerClient = 2
    MaxPerClientRole = 1
    MaxPerFamily = 2
    MaxPerSector = 2
INVARIANTS
    PlanKeepsLimits
    LeftOutForAReason
    ProposalsAreAttested
CHECK_DEADLOCK FALSE
