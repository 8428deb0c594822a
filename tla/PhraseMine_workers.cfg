\* Two workers, a corpus that changes while it is mined, one mishap: a surface
\* leaves or a worker is killed.
SPECIFICATION FairSpec
CONSTANTS
    a = a
    b = b
    Workers = {1, 2}
    Surfaces = {1, 2}
    Initial = {2}
    Phrases = {a, b}
    PhrasesOf <- Alike
    PageSize = 1
    Min = 1
    MaxMishaps = 1
INVARIANTS TypeOK PagesOnce RestartedCountsRight AloneIsRight
PROPERTY Stamped
CHECK_DEADLOCK FALSE
