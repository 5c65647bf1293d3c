SPECIFICATION Spec
CONSTANTS
    u1 = u1
    Users = {u1}
    Orders = {o1}
    Requests = {r1, r2}
    Owner <- OwnerOf
    Amount <- AmountOf
    FirstBalance = 0
    AdminBalances <- BalancesTyped
    Charges = {1}
    Hashes = {h1}
    NoHash = NoHash
    NoRow = NoRow
    None = None
    MaxOpenings = 2
    MaxCharged = 2
SYMMETRY Symmetric
INVARIANTS
    CreditOncePerOpening
    StatusTellsCredit
    NoOverdraft
    LedgerExact
    StaleCacheHasCause
PROPERTIES
    Implements
CHECK_DEADLOCK FALSE
