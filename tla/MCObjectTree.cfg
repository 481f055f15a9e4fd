CONSTANTS
    root = root
    f = f
    g = g
    x = x
    y = y
    z = z
    a = a
    b = b
    ca = ca
    Nodes = {root, f, g, x, y}
    Folders = {root, f, g}
    Root = root
    Ordered = {root}
    Vetoers = {}
    Replaceable = {}
    Kinds <- AllKinds
    Ids = {a, b, ca}
    CopyOf <- CopyIds
    Reserved = {ca}
    Tokens = {token}
    Deltas = {2}
    NoNode = NoNode
    NoClip = NoClip
    MaxSize = 4
SPECIFICATION TSpec
SYMMETRY Same
CONSTRAINT Small
 
PROPERTIES MovesLoseNothing OrderIsKept
CHECK_DEADLOCK FALSE
