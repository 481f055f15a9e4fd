\* forms of up to four fields; three calls and a retry; files of up to seven bytes in
\* pieces of two, uploaded three times within two seconds; two folders, a document and two locks
CONSTANTS
    Forms <- MCForms
    Unsafe = {"<y"}
    MaxFields = 4
    Pages <- MCPages
    ErrorPage <- MCErrorPage
    MaxCalls = 3
    MaxRetries = 1
    ChunkSize = 2
    Sizes = {0, 1, 3, 5, 7}
    RangeSets <- MCRangeSets
    LongSuffixes = FALSE
    MaxUploads = 3
    MaxClock = 2
    root = root  f1 = f1  f2 = f2  doc = doc  null = null  id1 = id1  id2 = id2  t1 = t1  t2 = t2  c1 = c1  c2 = c2  p1 = p1  p2 = p2  script = script
    Nodes = {root, f1, f2, doc, null}
    Folders = {root, f1, f2}
    Root = root
    Ordered = {}
    Vetoers = {}
    Replaceable = {}
    Kinds <- AllKinds
    Ids = {id1, id2}
    CopyOf <- CopyIds
    Reserved = {}
    Tokens = {t1, t2}
    Deltas = {}
    NoNode = NoNode
    NoClip = NoClip
    LockNulls = {null}
    Deep = {t1}
    NoPath = NoPath
    IntoItself = FALSE
    MaxSize = 5
SPECIFICATION MSpec
SYMMETRY Alike
CONSTRAINT Small
INVARIANTS FormsAreRight AnswerIsRead  LocksFit SharedStatesHold
PROPERTIES ObjectsHold DeepIsWhole 
CHECK_DEADLOCK FALSE
