SPECIFICATION Spec
CHECK_DEADLOCK FALSE
CONSTANTS
    None = None
    v1 = v1  v2 = v2  x1 = x1  x2 = x2  c1 = c1
    Visitors = {v1, v2}
    Clients = {c1}
    Users = {"0xA", "0xB"}
    Accounts = {"a", "b"}
    Account <- MCAccount
    Wallet <- MCWallet
    Terms <- MCTerms
    Foreign = Foreign
    Cheat <- MCCheat
    Proxies = {x1, x2}
    Limit = 64
    SignExpire = 1
    CookieExpire = 2
    Slow = 1
    Age = 1
    MaxSignIns = 2
    FirstJar <- MCFirstJar
    Horizon = 3
SYMMETRY Symmetry
INVARIANT TypeOK
PROPERTIES  OwnEntrance LoginLasts
