SPECIFICATION Spec
CONSTANTS
    Servers = {s1, s2}
    Addresses = {a1, a2}
    MaxRetries = 1
    MaxBoots = 2
INVARIANTS
    TypeOK
    LeaseIsOffered
    OneServerCommits
PROPERTY
    Returns
