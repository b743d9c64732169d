SPECIFICATION Spec
CONSTANTS
    s1 = s1  s2 = s2  t1 = t1  t2 = t2
    w1 = w1  w2 = w2  b1 = b1  m = m  n = n
    x1 = x1  x2 = x2  x3 = x3
    Sessions = {s1, s2}
    Threads = {t1, t2}
    Tensors = {w1, w2, b1}
    Large = {w1, w2}
    Meta <- MCMeta
    Addresses = {x1, x2, x3}
    MaxRetained = 1
    None = None
SYMMETRY Symmetric
INVARIANTS TypeOK ResolvedRight BytesOutliveLeaves SharedOnce NothingLeft
