SPECIFICATION Spec
CONSTANTS
    None = None
    p1 = p1  p2 = p2  portA = portA  portB = portB  Hello = Hello  Nginx = Nginx  Tomcat = Tomcat  Site = Site
    Procs = {p1, p2}
    Ports = {portA, portB}
    Apps = {"web"}
    Accounts = {"a", "b"}
    SvcNames = {}
    Balanced = {"web"}
    Users <- MCUsers
    Lower <- MCUsersLower
    Yamls = {Hello}
    Deps <- MCHello
    Svcs <- MCHelloSvcs
    Pinned = {}
    Orders = {1, 2}
    OrdersOf <- MCOrdersOf
    Statuses = {2}
    Kinds = {"deployUrl", "compute"}
    MaxPolls = 2
    MaxInFlight = 1
    StartsInTime = FALSE
    Faulty = {}
    CrashAt = {}
    MaxCrashes = 0
CHECK_DEADLOCK FALSE
INVARIANT ForwardReachesOwnApp
