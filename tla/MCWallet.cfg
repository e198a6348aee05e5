SPECIFICATION Spec
CONSTANTS
    Nil = Nil
    Orders = {1, 2, 3}
    Price <- MCPrice
    Product <- MCProduct
    AutoRefund = {2}
    Malformed = {3}
    Denoms = {"d1", "d2"}
    CoinValue = 4
    RefreshFee = 1
    RefundFee = 1
    MaxGroups <- MCMaxGroups
    MaxTasks <- MCMaxTasks
    Attempts = 2
    Coins = 3
    Scenes = {"pay", "shop", "refresh", "refund", "withdraw", "restore", "recoup", "deposit", "tip"}
INVARIANTS LedgerConserved NeverOverclaims SignedIsDerivable  PaidExactly AbortReturnsCoins ReserveNotOverdrawn
PROPERTY SpentStaysSpent
CHECK_DEADLOCK FALSE
