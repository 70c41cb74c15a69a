\* One order with two intents, or two orders that may be merged, on SQLite: whichever transactions overlap, its money is collected once.
CONSTANTS
    u1 = u1  o1 = o1  o2 = o2  o3 = o3  p1 = p1  p2 = p2  c1 = c1  c2 = c2  i1 = i1  i2 = i2  t1 = t1  t2 = t2
    Null = Null
    Backend = "sqlite"
    User = {u1}
    Order = {o1, o2, o3}
    Intent = {i1, i2}
    Trade = {t1, t2}
    Channel = {c1, c2}
    Payment = {p1, p2}
    Owner <- OwnedByU1
    PayFee <- FreeAndDear
    Placings <- O1OrBoth
    Due <- OneEach
    Balance0 <- OneFunds
    Pay0 = p1
    Cents = {1}
SPECIFICATION PartSpec
SYMMETRY Symmetry
INVARIANTS TypeOK PaidExact NothingBookedUnpaid ConsumedOnce OkIsPaid
PROPERTIES ImplementsCollection FinalStays
CHECK_DEADLOCK FALSE
