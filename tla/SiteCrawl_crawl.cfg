\* Two clients and a walk over every site of three pages; three backends.
CONSTANTS
    stock = stock  patchright = patchright  camoufox = camoufox  cloak = cloak
    Calls = {c1, c2, c3}
    Mapper = c1
    Wants <- Asked
    MapWant <- ByMap
    Fallbacks <- Order
    Enabled = {stock, patchright, camoufox}
    Capable <- Able
    MaxSamples = 2
    MaxRedirects = 2
    Stock = stock
    Pages = {1, 2, 3}
    Seed = 1
    Sites <- AllSites
    Maps <- AllMaps
    None = None
SPECIFICATION Spec
INVARIANTS FetchesAreHonest MapIsRight
PROPERTIES NoChallengeStored FullHistoryLosesWeight FetchesAndMapsEnd
