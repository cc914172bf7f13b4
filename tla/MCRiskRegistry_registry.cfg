\* Two servers that publish, two flushes that may overlap, one reader.
SPECIFICATION Spec
CONSTANTS
    Records = {r1, r2}
    Servers = {s1, s2}
    Flushes = {f1, f2}
    Readers = {q1}
    Targets = {t1, t2}
    Faults = {"cut", "other_batch"}
SYMMETRY RegistrySymmetry
INVARIANTS RootIsAvailable QueuedIsKept IncludedIsGenuine
CHECK_DEADLOCK FALSE
