SPECIFICATION MCSpec
CONSTANTS
    Threads = {t1}
    Recs = {1, 2, 3, 4, 5, 6, 7, 8, 9, 10, 11, 12, 13, 14, 15}
    Ptrs = {p1, p2, p3}
    Sizes = {1, 2}
    Callstacks = {c1, c2}
    MaxAdds = 3
    MaxOom = 1
    NULL = NULL
    Choice <- Lowest
SYMMETRY Symmetry
INVARIANTS TypeOK RecordsAccounted WalkOnOwnRecords GroupsAgree PairingExact SnapshotIsMoment NothingLeft
