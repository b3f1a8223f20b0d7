SPECIFICATION CacheSpec
CONSTANTS
    KeepAlls = {TRUE, FALSE}
    MaxSamples = 3
    MaxQuota = 3
    PerInstance = 2
    Size = {1, 2}
    Slot = {1, 2, 3, 4}
    Modulus = 8
    MaxWrites = 4
    MaxExpired = 3
INVARIANTS CacheTypeOK QuotaMatches SlotsAccounted LimitsKept EvictsOnlyWhenFullUnpruned
\* every sample has been written
CHECK_DEADLOCK FALSE
