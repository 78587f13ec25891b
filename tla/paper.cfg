SPECIFICATION EitherSpec
CONSTANTS
    f1 = f1
    f2 = f2
    Fillers <- TwoFillers
    Tickers = {"A"}
    Quantities = {1, 2}
    Quotes <- MCQuotes
    InitialCash = 3
    Batch = 2
    QuoteFails = TRUE
    MaxOrders = 3
INVARIANTS PaperInv LedgerBalances
PROPERTIES BookedOnce FairOrdersSettle
