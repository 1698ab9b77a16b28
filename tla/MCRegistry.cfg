\* Two requests from the panel or from machines edit and use one project name
\* with two environments and two keys; two projects or environments
\* are made over time, so numbers are given out again.
CONSTANTS
    c1 = c1
    c2 = c2
    k1 = k1
    k2 = k2
    t1 = t1
    Clients = {c1, c2}
    ProjectSlugs = {"shop"}
    EnvSlugs = {"prod", "dev"}
    Secrets = {k1, k2}
    Scope <- WriteAndAdmin
    Tokens = {t1}
    Offered <- Ops
    MaxMade = 2
    Null = Null
SPECIFICATION Spec
SYMMETRY Symmetry
INVARIANTS NothingAdopted SlugsNameOne DeadKeysStayOut
PROPERTY StraysOnlyOvertaken
