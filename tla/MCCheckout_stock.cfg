\* Two users compete for the same goods; SKU lines, merging and redemption.
CONSTANTS
    u1 = u1  u2 = u2  g1 = g1  g2 = g2  k1 = k1  k2 = k2  k3 = k3  p1 = p1  p2 = p2  b1 = b1  w1 = w1
    User = {u1, u2}
    Goods = {g1}
    Bonus = {}
    Key = {k1, k2}
    Payment = {p1}
    Null = Null
    SkuGoods = {g1}
    GiftGoods = {}
    ExchangeGoods = {g1}
    GroupGoods = {g1}
    Offers = {}
    Bundle <- NoGoods
    Price <- OneOfEach
    GroupPrice <- OneOfEach
    PointPrice <- OneOfEach
    Stock0 <- TwoOfEach
    SkuStock0 <- OneOfEach
    PayFee <- FreeAndDear
    BonusMoney <- OneEach
    BonusMin <- OneEach
    Points0 <- TwoFunds
    Balance0 <- NoFunds
    ShippingFee = 0
    PackFee <- OneForPack
    Packs = {}
    BundlePrice = 0
    OfferCut = 0
    OfferMin = 0
    GiftLimit = 0
    PointChoice = {}
    SurplusChoice = {}
    MaxQty = 2
    MaxMoney = 9
    MaxOrder = 3
SPECIFICATION StockSpec
SYMMETRY BothSymmetry
INVARIANTS TypeOK GoodsConserved SpecFollowsCart OneOrderPerKey
PROPERTY ImplementsCollection
CHECK_DEADLOCK FALSE
