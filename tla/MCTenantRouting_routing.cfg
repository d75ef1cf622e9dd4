SPECIFICATION Spec
CONSTANTS
    a1 = a1  a2 = a2  t1 = t1  t2 = t2
    None = None  Host = Host
    Actors = {a1, a2}
    Tenants = {t1, t2}
    HostTtl = 2
    TenantTtl = 1
    MaxAge = 1
    MaxChanges = 4
    MaxCrashes = 1
SYMMETRY Symmetry
INVARIANTS TypeOK VerifiedWasProved RoutedByProof CacheIsCurrent StaleNoLonger
