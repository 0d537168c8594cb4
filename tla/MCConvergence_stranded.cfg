SPECIFICATION FairSpec
CONSTANTS
    w = w
    g = g
    r = r
    d = d
    k = k
    w1 = w1
    w2 = w2
    r1 = r1
    r2 = r2
    d1 = d1
    d2 = d2
    k1 = k1
    k2 = k2
    k3 = k3
    None = None
    Workspaces = {w}
    Guardrails = {g}
    Destinations = {}
    Keys = {k}
    DefaultOf <- DefaultIsG
    Placement <- AllInW
    RailOf <- UnderG
    Named <- MCNamed
    Configs = {"A", "B"}
    MaxMishaps = 1
    Ignores = TRUE
    Adopts = FALSE
    MaxEdits = 0
PROPERTY EventuallyMatches
