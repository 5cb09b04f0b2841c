SPECIFICATION Spec
CONSTANTS
    Clients = {"c1", "c2"}
    Callers = {"r1", "r2", "probe"}
    ClientOf <- MCClientOf
    Probes = {"probe"}
    Lifetimes = {0, 3}
    Skew = 1
    Window = 1
    MaxTime = 2
    MaxGrants = 3
INVARIANTS TypeOK LoginSurvives ReplayedOnlyAcrossClients
PROPERTIES RetryCarriesNewToken
