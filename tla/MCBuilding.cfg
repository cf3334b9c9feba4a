SPECIFICATION BuildingSpec
CONSTANT
    Client <- MCClient
INVARIANTS
    BundlesHoldTogether
    RoutedToAPermittedRole
    IdentifiedProblemsAreDiscussed
    ExplanationFollowsTheGraph
CHECK_DEADLOCK FALSE
