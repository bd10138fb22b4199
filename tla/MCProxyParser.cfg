SPECIFICATION Spec
CONSTANTS
    Symbols <- MCSymbols
    Formats <- MCFormats
    Lines <- MCLines
    Proxies <- MCProxies
    Damage <- MCDamage
    MaxDamagedLength = 26
INVARIANTS
    TiersAgree
    StrictIsExact
    LenientExtendsStrict
    WrittenIsRead
    URLRoundTrip
CHECK_DEADLOCK FALSE
