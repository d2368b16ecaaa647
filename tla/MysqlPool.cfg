\* Four MysqlConn objects around a pool of two.
CONSTANTS
    h1 = h1
    h2 = h2
    h3 = h3
    h4 = h4
    c1 = c1
    c2 = c2
    c3 = c3
    c4 = c4
    c5 = c5
    c6 = c6
    Holders = {h1, h2, h3, h4}
    Handles = {c1, c2, c3, c4, c5, c6}
    None = None
    MaxSize = 2
SPECIFICATION Spec
INVARIANTS TypeOK NoSharedConnection CountsMatch
PROPERTY KeptUnlessInExcess
SYMMETRY Symmetry
