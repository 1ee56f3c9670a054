SPECIFICATION Spec
CONSTANTS
    None = None
    p1 = p1  p2 = p2  portA = portA  portB = portB  Hello = Hello  Nginx = Nginx  Tomcat = Tomcat  Site = Site
    Procs = {p1}
    Ports = {portA, portB}
    Apps = {"web", "db"}
    Accounts = {"a"}
    SvcNames = {"dbsvc", "websvc"}
    Balanced = {"web"}
    Users <- MCSpellings
    Lower <- MCSpellingsLower
    Yamls = {Hello, Nginx, Tomcat, Site}
    Deps <- MCDeps
    Svcs <- MCSvcs
    Pinned = {Nginx, Tomcat, Site}
    Orders = {1}
    OrdersOf <- MCSpellingsOrdersOf
    Statuses = {2}
    Kinds = {"deployUrl", "deployId", "clean"}
    MaxPolls = 2
    MaxInFlight = 1
    StartsInTime = FALSE
    Faulty <- NotDeletes
    CrashAt <- NotDelSvc
    MaxCrashes = 1
SYMMETRY Symmetry
CHECK_DEADLOCK FALSE
INVARIANTS  Reachable AckedDeploy 
PROPERTIES CallsRunOut
