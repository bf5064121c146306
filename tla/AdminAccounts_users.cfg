\* Two backends that start together and four clicks on the users page.
CONSTANTS
    a = a
    b = b
    i1 = i1
    i2 = i2
    None = None
    Seed = seed
    Email = {seed, a, b}
    Instance = {i1, i2}
    Proxied = FALSE
    MaxCalls = 3
    MaxClicks = 4
    MaxFaults = 2
SPECIFICATION Spec
SYMMETRY Alike
INVARIANTS SuperAdminStands ConfirmedIsListed
CHECK_DEADLOCK FALSE
