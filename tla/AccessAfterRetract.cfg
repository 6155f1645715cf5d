\* A grant and a retraction: the retraction is confirmed before the read of the grant is stored.
SPECIFICATION DisclosureSpec
CONSTANTS
    Jobs = {j1, j2}
    Levels = {1}
    MaxHeight = 2
    MaxReindexes = 0
    MaxFailures = 0
    MaxCrashes = 0
CHECK_DEADLOCK FALSE
INVARIANT AccessFollowsChain
