SPECIFICATION Spec
CONSTANTS
    Docs = {d1, d2}
    Sources = {s}
    SourceOf <- Alike
    v1 = v1
    v2 = v2
    Requests = {v1, v2}
    Reviews = {r1, r2}
    Nobody = Nobody
    Kind <- Kinds
    FirstParty = FALSE
    TextOf <- Edited
    MaxSwitches = 1
INVARIANTS Consistent DecisionKept OnlyApproved VersionsDistinct
CHECK_DEADLOCK FALSE
SYMMETRY Sym
