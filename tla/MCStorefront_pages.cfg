\* Two clients of one user, the pages for visitors, and an account with two requests at a time, on either database.
CONSTANTS
    u1 = u1  c1 = c1  c2 = c2  g1 = g1  p1 = p1  p2 = p2  w1 = w1  i1 = i1  i2 = i2  o1 = o1  o2 = o2
    r1 = r1  r2 = r2  e1 = e1  e2 = e2  a1 = a1  a2 = a2  t1 = t1  t2 = t2  m1 = m1  m2 = m2
    Client = {c1, c2}
    Goods = {g1}
    SkuGoods = {g1}
    Payment = {p1, p2}
    Packs = {w1}
    Null = Null
    PriceRows <- Rows
    PayFee <- FreeAndDear
    PackFee <- OneForPack
    ShippingFee = 1
    Bundle <- OneOfG1
    MaxQty = 2
    MaxStock = 2
    MaxRec = 3
    MaxVersion = 2
    Request = {r1, r2}
    Ip = {i1, i2}
    Option = {o1, o2}
    CanMulti = TRUE
    Referer = {"home", "list"}
    Email = {e1, e2}
    MaxMail = 3
    MaxClicks = 3
    User = {u1}
    None = None
    Address = {a1, a2}
    Token = {t1, t2}
    Mail = {m1, m2}
    MaxHash = 3
SPECIFICATION PartSpec
VIEW UpToNames
INVARIANTS TypeOK VersionTellsLine QuoteIsOrder CountersAddUp
INVARIANTS AccountsTyped SessionsMatchPassword VerifiedIsCurrent TokenUsedOnce
PROPERTIES ListedByConsent ReplacedKnowingly
CHECK_DEADLOCK FALSE
