SPECIFICATION Spec
CONSTANTS
    dsOverBt = dsOverBt
    gadget = gadget
    dsByCable = dsByCable
    ds4 = ds4
    ourDualSense = ourDualSense
    aDualShock = aDualShock
    Devices = {dsOverBt, gadget, dsByCable, ds4}
    Kind <- MCKind
    Controller <- MCController
    Gadgets <- MCGadgets
CONSTRAINT FewAtOnce
INVARIANTS
    NoTwins
    PlayersDistinct
    WorkerOutlived
PROPERTY
    GadgetIsAccepted
