\* The payment method comes from the selection, which the first request consumed.
CONSTANTS
    u1 = u1  u2 = u2  g1 = g1  g2 = g2  k1 = k1  k2 = k2  k3 = k3  p1 = p1  p2 = p2  b1 = b1  w1 = w1
    User = {u1}
    Goods = {g1}
    Bonus = {}
    Key = {k1}
    Payment = {p1}
    Null = Null
    SkuGoods = {}
    GiftGoods = {}
    ExchangeGoods = {}
    GroupGoods = {}
    Offers = {}
    Bundle <- NoGoods
    Price <- ThreeOfEach
    GroupPrice <- OneOfEach
    PointPrice <- OneOfEach
    Stock0 <- TwoOfEach
    SkuStock0 <- NoGoods
    PayFee <- FreeAndDear
    BonusMoney <- OneEach
    BonusMin <- OneEach
    Points0 <- OneFunds
    Balance0 <- ThreeFunds
    ShippingFee = 0
    PackFee <- OneForPack
    Packs = {}
    BundlePrice = 0
    OfferCut = 1
    OfferMin = 1
    GiftLimit = 0
    PointChoice = {}
    SurplusChoice = {1, 3}
    MaxQty = 1
    MaxMoney = 20
    MaxOrder = 2
SPECIFICATION Spec
PROPERTY ReplayRecognised
CHECK_DEADLOCK FALSE
