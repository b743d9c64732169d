SPECIFICATION Spec
CONSTANTS
    t1 = t1  t2 = t2  g1 = g1  g2 = g2
    x1 = x1  x2 = x2  x3 = x3  c1 = c1  c2 = c2
    Threads = {t1, t2}
    Outputs = 2
    Subgraphs <- OnePlain
    Panics = TRUE
    BeginsEmpty = TRUE
    SpecLimit = 2
    Generators = {g1}
    Addresses = {x1}
    Contents = {c1}
    None = None
INVARIANTS SuccessIsCorrect
