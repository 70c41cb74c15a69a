\* One order paid in parts, or two that may be merged, on MySQL: what the locks keep although snapshots
\* are overtaken, and that a repeated notification is served.
CONSTANTS
    u1 = u1  o1 = o1  o2 = o2  o3 = o3  p1 = p1  p2 = p2  c1 = c1  c2 = c2  i1 = i1  i2 = i2  t1 = t1  t2 = t2
    Null = Null
    Backend = "mysql"
    User = {u1}
    Order = {o1, o2, o3}
    Intent = {i1, i2}
    Trade = {t1}
    Channel = {c1}
    Payment = {p1}
    Owner <- OwnedByU1
    PayFee <- FreeAndDear
    Placings <- O1OrBoth
    Due <- TwoAndOne
    Balance0 <- OneFunds
    Pay0 = p1
    Cents = {1}
SPECIFICATION PartLiveSpec
PROPERTIES CallbackServed SettleServed OnlyMergeOverwrites
INVARIANTS OneOpenIntent BalanceKept
CHECK_DEADLOCK FALSE
