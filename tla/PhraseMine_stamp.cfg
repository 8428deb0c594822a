\* Two workers publish and mine at the same time while the corpus grows.
SPECIFICATION Spec
CONSTANTS
    a = a
    b = b
    Workers = {1, 2}
    Surfaces = {1, 2}
    Initial = {1}
    Phrases = {a, b}
    PhrasesOf <- Apart
    PageSize = 1
    Min = 1
    MaxMishaps = 0
INVARIANT StampTold
CHECK_DEADLOCK FALSE
