CONSTANTS
    u1 = u1
    Account = {u1}
    Owner = u1
    Dex = Dex
    Router = Router
    Dead = Dead
    Token = {1, 2, 3}
    MaxPairs = 2
    MaximumBalance = 5
    Supply = 5
    Deposit = {2}
    Output = {1}
    ShareAmount = {2}
    ShareAllowance = {2}
    Approval = {3}
    In = {3}
    Minimum = {0}
    MaxHops = 2
SPECIFICATION DexSpec
INVARIANTS  Solvent ReservesCovered
CHECK_DEADLOCK FALSE
