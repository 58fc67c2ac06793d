SPECIFICATION GadgetSpec
CONSTANT Users <- MCUsers
INVARIANTS
    TeardownClears
    SetUpComplete
PROPERTY
    FlagTrue
