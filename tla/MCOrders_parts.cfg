\* One user with gifts, reductions and SKU lines, or with points and money, or two with one bonus between them.
CONSTANTS
    u1 = u1  u2 = u2  g1 = g1  g2 = g2  k1 = k1  k2 = k2  k3 = k3  p1 = p1  p2 = p2  b1 = b1  w1 = w1
    User = {u1, u2}
    Goods = {g1, g2}
    Bonus = {b1}
    Key = {k1, k2}
    Payment = {p1, p2}
    Null = Null
    SkuGoods = {g1}
    GiftGoods = {g2}
    ExchangeGoods = {g1}
    GroupGoods = {}
    Offers = {"package", "cut", "gift"}
    Bundle <- G1Once
    Price <- ThreeAndOne
    GroupPrice <- OneOfEach
    PointPrice <- OneOfEach
    Stock0 <- TwoOfEach
    SkuStock0 <- OneOfEach
    PayFee <- FreeAndDear
    BonusMoney <- OneEach
    BonusMin <- OneEach
    Points0 <- OneFunds
    Balance0 <- TwoFunds
    ShippingFee = 0
    PackFee <- OneForPack
    Packs = {w1}
    BundlePrice = 1
    OfferCut = 1
    OfferMin = 0
    GiftLimit = 1
    PointChoice = {1}
    SurplusChoice = {2}
    MaxQty = 1
    MaxMoney = 20
    MaxOrder = 3
SPECIFICATION PartSpec
SYMMETRY KeySymmetry
INVARIANTS GoodsConserved GiftsUnderOffer PointsExplained BonusUsedOnce PaidInFull BalanceExplained
PROPERTY ClosedStaysClosed
CHECK_DEADLOCK FALSE
