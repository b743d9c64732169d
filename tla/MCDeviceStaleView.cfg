SPECIFICATION Spec
CONSTANTS
    t1 = t1  t2 = t2  a1 = a1  a2 = a2  k1 = k1
    HeapSize = 2
    Threads = {t1, t2}
    Arrays = {a1, a2}
    Keys = {k1}
    Host = Host
    NoArray = NoArray
    InputsStable = FALSE
    Batches = {}
SYMMETRY Symmetric
PROPERTY ChangeRefused
