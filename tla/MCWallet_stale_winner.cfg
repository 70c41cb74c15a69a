\* MySQL: the buyer's snapshot is older than the last bid.
CONSTANTS
    u1 = u1  u2 = u2  u3 = u3  a1 = a1  a2 = a2  s1 = s1  r1 = r1  r2 = r2
    Null = Null
    Backend = "mysql"
    User = {u1, u2}
    Auction = {a1}
    Snatch = {}
    Request = {r1}
    Lowest <- OneLow
    Highest <- ThreeHigh
    Amplitude <- OneStep
    Deposit <- OneStep
    CostPoints <- OneCost
    Balance0 <- TwoFunds
    Points0 <- OnePoint
    Amounts = {1, 2}
    MaxBids = 2
SPECIFICATION Spec
INVARIANT WinnerClaims
CHECK_DEADLOCK FALSE
