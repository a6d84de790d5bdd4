SPECIFICATION Spec
CONSTANTS
    Addrs = {a1, a2}
    NoSource = NoSource
    MaxRestarts = 1
    MaxFailures = 2
    Finite = TRUE
PROPERTY NewAddressIsTried
