SPECIFICATION Spec
CONSTANTS
    None = None
    p1 = p1  p2 = p2  portA = portA  portB = portB  Hello = Hello  Nginx = Nginx  Tomcat = Tomcat  Site = Site
    Procs = {p1, p2}
    Ports = {portA, portB}
    Apps = {"web"}
    Accounts = {"a"}
    SvcNames = {}
    Balanced = {"web"}
    Users <- MCOneUser
    Lower <- MCOneUserLower
    Yamls = {Nginx}
    Deps <- MCNginx
    Svcs <- MCNginxSvcs
    Pinned = {Nginx}
    Orders = {1}
    OrdersOf <- MCOneOrdersOf
    Statuses = {2}
    Kinds = {"deployUrl", "deployId", "clean"}
    MaxPolls = 2
    MaxInFlight = 2
    StartsInTime = FALSE
    Faulty = {}
    CrashAt = {}
    MaxCrashes = 0
CHECK_DEADLOCK FALSE
INVARIANT NoOrphanService
