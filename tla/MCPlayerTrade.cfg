SPECIFICATION Spec
CONSTANTS
    ana = ana
    bo = bo
    sword = sword
    shield = shield
    Players = {ana, bo}
    Stacks = {sword, shield}
    Empty = Empty
    Slots = {1}
    TradeSlots = 1
    PurseCap = 1
    Packs0 <- MCPacks0
    Purses0 <- MCPurses0
    Vendors0 = 1
    NoTrade = NoTrade
    InFlight = 2
    MaxClicks = 5
    MaxChanges = 1
    MaxTrades = 2
INVARIANTS NothingMadeOrLost QuietWindowIsCurrent
PROPERTY GivesWhatThisTradeShowed
CHECK_DEADLOCK FALSE
