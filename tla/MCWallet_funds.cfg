\* Two users move money between points, balance, requests, an auction and a snatch.
CONSTANTS
    u1 = u1  u2 = u2  u3 = u3  a1 = a1  a2 = a2  s1 = s1  r1 = r1  r2 = r2
    Null = Null
    Backend = "sqlite"
    User = {u1, u2}
    Auction = {a1}
    Snatch = {s1}
    Request = {r1, r2}
    Lowest <- TwoLow
    Highest <- ThreeHigh
    Amplitude <- TwoStep
    Deposit <- OneStep
    CostPoints <- OneCost
    Balance0 <- OnePoint
    Points0 <- OnePoint
    Amounts = {1, 2, 3}
    MaxBids = 3
SPECIFICATION Spec
SYMMETRY Symmetry
INVARIANTS TypeOK MoneyConserved FrozenExplained LogExplains WinnerClaims BidsRise
CHECK_DEADLOCK FALSE
