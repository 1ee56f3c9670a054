SPECIFICATION Spec
CONSTANTS
    None = None
    p1 = p1  p2 = p2  portA = portA  portB = portB  Hello = Hello  Nginx = Nginx  Tomcat = Tomcat  Site = Site
    Procs = {p1}
    Ports = {portA, portB}
    Apps = {"web", "db"}
    Accounts = {"a"}
    SvcNames = {"dbsvc"}
    Balanced = {"web"}
    Users <- MCOneUser
    Lower <- MCOneUserLower
    Yamls = {Tomcat}
    Deps <- MCTomcat
    Svcs <- MCTomcatSvcs
    Pinned = {Tomcat}
    Orders = {1}
    OrdersOf <- MCOneOrdersOf
    Statuses = {2}
    Kinds = {"deployUrl", "deployId", "clean"}
    MaxPolls = 2
    MaxInFlight = 1
    StartsInTime = FALSE
    Faulty = {}
    CrashAt = {}
    MaxCrashes = 0
CHECK_DEADLOCK FALSE
INVARIANT FailedDeployIsCleaned
