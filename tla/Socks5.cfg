SPECIFICATION FairSpec
CONSTANTS
  Host <- OurHost
  Hosts <- SomeHosts
  Addresses <- OurAddresses
  Offers <- SomeOffers
  Pairs <- AllPairs
INVARIANTS TypeOK OnlyTheseOverrun WrittenWhole GrantsAllowed BelievesGrant
PROPERTIES RefusalTold
CHECK_DEADLOCK FALSE
