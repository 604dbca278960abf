SPECIFICATION FairSpec
CONSTANTS
    Repo = {1, 2, 3}
    Existing = {1, 2}
    BacklogBatch = 1
    RecentBatch = 1
    ChangedBatch = 1
    None = None
    Fault = {"listing", "crash", "torn"}
    MaxEvents = 3
INVARIANTS NothingSkipped
PROPERTIES EverythingIndexed
