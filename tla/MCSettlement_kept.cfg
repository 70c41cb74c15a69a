\* MySQL: a settlement and a cancellation overlap.
CONSTANTS
    u1 = u1  o1 = o1  o2 = o2  o3 = o3  p1 = p1  p2 = p2  c1 = c1  c2 = c2  i1 = i1  i2 = i2  t1 = t1  t2 = t2
    Null = Null
    Backend = "mysql"
    User = {u1}
    Order = {o1}
    Intent = {i1}
    Trade = {t1}
    Channel = {c1}
    Payment = {p1}
    Owner <- OwnedByU1
    PayFee <- FreeAndDear
    Placings <- O1Only
    Due <- OneEach
    Balance0 <- OneFunds
    Pay0 = p1
    Cents = {1}
SPECIFICATION Spec
INVARIANT NothingBookedUnpaid
CHECK_DEADLOCK FALSE
