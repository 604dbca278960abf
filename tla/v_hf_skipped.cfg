SPECIFICATION Spec
CONSTANTS
    Repo = {1, 2, 3}
    Existing = {1, 2}
    BacklogBatch = 1
    RecentBatch = 1
    ChangedBatch = 1
    None = None
    Fault = {"scan"}
    MaxEvents = 3
INVARIANTS NothingSkipped
