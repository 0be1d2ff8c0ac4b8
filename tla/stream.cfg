CONSTANTS
    other = other
    r1 = r1
    c1 = c1
    MaxStarts = 2
    Work = {1, 2, other}
    Timeout = 1
    Readers = {r1}
    Closers = {c1}
    MaxItems = 1
    MaxActs = 2
SPECIFICATION FairSpec
INVARIANTS EndIsPublished QuietAfterClose StartedOnce
PROPERTIES NoPrematureTimeout ReadersEnd
CHECK_DEADLOCK FALSE
