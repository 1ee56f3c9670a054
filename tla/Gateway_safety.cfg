SPECIFICATION Spec
CONSTANTS
    None = None
    p1 = p1  p2 = p2  portA = portA  portB = portB  Hello = Hello  Nginx = Nginx  Tomcat = Tomcat  Site = Site
    Procs = {p1, p2}
    Ports = {portA}
    Apps = {"web"}
    Accounts = {"a", "b"}
    SvcNames = {}
    Balanced = {"web"}
    Users <- MCUsers
    Lower <- MCUsersLower
    Yamls = {Nginx}
    Deps <- MCNginx
    Svcs <- MCNginxSvcs
    Pinned = {Nginx}
    Orders = {1, 2}
    OrdersOf <- MCOrdersOf
    Statuses = {2, 3}
    Kinds = {"deployId", "clean", "compute"}
    MaxPolls = 1
    MaxInFlight = 2
    StartsInTime = FALSE
    Faulty = {"delDep"}
    CrashAt = {"waitReady", "setApp"}
    MaxCrashes = 0
SYMMETRY Symmetry
CHECK_DEADLOCK FALSE
INVARIANTS TypeOK Grounding EntranceProvenance ForwardProvenance AppProvenance
  
