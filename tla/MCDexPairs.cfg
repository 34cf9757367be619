CONSTANTS
    u1 = u1
    Account = {u1}
    Owner = u1
    Dex = Dex
    Router = Router
    Dead = Dead
    Token = {1, 2}
    MaxPairs = 1
    MaximumBalance = 45
    Supply = 45
    Deposit = {15, 30}
    Output = {1}
    ShareAmount = {28}
    ShareAllowance = {28}
SPECIFICATION Spec
INVARIANTS TypeOK SharesAddUp
PROPERTIES StaysSeeded ShareValueKept GrowthKept
CHECK_DEADLOCK FALSE
