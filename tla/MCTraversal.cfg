CONSTANTS
    app = app
    f = f
    d = d
    p = p
    h = h
    v = v
    u = u
    bim = bim
    sdm = sdm
    alice = alice
    b1 = b1
    b2 = b2
    b3 = b3
    Nodes = {app, f, d, h, p, v, u, bim, sdm}
    Folders = {app, f}
    Root = app
    Monsters = {v}
    UserFolders = {u}
    BidManagers = {bim}
    SdManagers = {sdm}
    Managed = {f, sdm}
    Titles = {"f", "g", "s"}
    Sites <- Begin
    Undocumented = {p}
    RoleOf <- Roles
    KnownIn <- Known
    Users = {alice}
    Requests <- All
    HostMap <- Mapped
    Segment <- Vh
    Virtual <- Marks
    BadNames = {"_ZopeId", "_vh_x", "_vh_y", "_x"}
    Hidden = {"aq_self"}
    BidName = "_ZopeId"
    Bids = {b1, b2, b3}
    Namespaces <- Confs
    NullRes = NullRes
    Handler = Handler
    NoNode = NoNode
    NoId = NoId
    NoBid = NoBid
    NoUser = NoUser
    Nobody = Nobody
    Deleted = Deleted
SPECIFICATION Spec
INVARIANTS HooksFitTheSite ParentsAreClosed NothingAcquiredIsWritten UrlsAreTheClients
PROPERTIES SessionsComeBack
SYMMETRY Sym
CHECK_DEADLOCK FALSE
