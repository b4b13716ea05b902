CONSTANTS
    r1 = r1
    r2 = r2
    None = None
    Reqs <- MCReqs
    FullMethods <- MCFullMethods
    Resolvers <- MCResolvers
    Names = {"g", "h"}
    GlobalRate = 1
    GlobalBurst = 1
    Span = 2
SPECIFICATION Spec
INVARIANT DocumentedRate
SYMMETRY Symmetry
