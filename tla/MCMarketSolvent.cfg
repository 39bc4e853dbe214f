SPECIFICATION MarketSpec
CONSTANTS
    u1 = u1
    u2 = u2
    Vault = Vault
    Pool = Pool
    NoOne = NoOne
    Owner = u1
    Users <- TwoUsers
    Accounts <- AllAccounts
    Unit = 1
    Price = 1
    MinRatio = 2
    Ratios <- OneRatio
    Funds = 40
    Others = 40
    Amounts <- Some
    Sends <- Ten
    MaxPositions = 2
    MaxCalls = 5
INVARIANTS
    Solvent
CHECK_DEADLOCK FALSE
