SPECIFICATION Spec
CONSTANTS
    Lanes = {l1, l2}
    NumPools = 2
    PageGroupCount <- TwoPools
    LogicalPageCapacity <- TwoCapacities
SYMMETRY LaneSymmetry
VIEW ReadableState
INVARIANTS
    PagesAreAccounted
    TablesMatchMapping
    BundleAllOrNothing
    ValidatedBundleApplies
