CONSTANTS
    k0 = k0
    k1 = k1
    a = a
    b = b
    Calls <- TwoCalls
    NumProspeo = 1
    NumApollo = 1
    Key <- BothKeys
    ProspeoKey <- OneProspeoKey
    ApolloKey <- OneApolloKey
    ProspeoEffects <- OneOfEachKind
    ApolloEffects <- OneOfEachKind
    Hits <- MCHits
    VerdictsGiven <- MCVerdicts
    FiveMinutes = 1
    Hour = 1
    MaxTime = 1
    MaxFinds = 2
SPECIFICATION FairSpec
INVARIANTS
    TypeOK
    ReasonIsTrue
    AsksNoFurther
PROPERTIES
    ImplementsChain
    ResolutionsWindDown
    EveryResolutionEnds
