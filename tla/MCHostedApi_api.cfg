\* Two or three requests of every kind on two servers, under six configurations; the
\* stores lose answers, the API restarts, windows end.
SPECIFICATION Spec
CONSTANTS
    r1 = r1  r2 = r2  r3 = r3  pay1 = pay1
    Requests <- MCRequests
    Profiles <- MCProfiles
    Payments = {pay1}
    Environments <- MCEnvironments
    Traffic <- MCTraffic
    MaxRequests <- MCMaxRequests
    QuotaMax <- MCQuotaMax
    QuotaWindow = 2
    ReplayWindow = 2
    Capacity = 2
    MaxTime = 2
    MaxRestarts = 1
SYMMETRY Symmetry
INVARIANTS OncePerStore RefusedWasRecorded QuotaHolds RecentIsLastRecorded KeyNeverHurts RelayAndWriteToolsAreKeyed PaidIsServedUnlessUnheard
CHECK_DEADLOCK FALSE
