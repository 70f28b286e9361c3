SPECIFICATION FairSpec
CONSTANTS
    Radix = 2
    BlockedIPv4 <- MCBlockedIPv4
    IPv6 = {0, 1}
    BlockedIPv6 = {0}
    Name = {"public", "internal"}
    InternalName = {"internal"}
    AllowedPort = {80, 443}
    URLs <- MCURLs
    Locations <- MCLocations
    Addresses <- MCAddresses
    MaxRedirects = 2
    MaxBytes = 2
    MaxChunk = 2
INVARIANTS
    FetchedIsAllowed
    TrailIsTrue
    BodyIsWhatFits
    NumbersAreRead
PROPERTY
    EveryFetchEnds
CHECK_DEADLOCK FALSE
