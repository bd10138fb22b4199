--------------------------- MODULE MCProxyParser ---------------------------
(***************************************************************************)
(* Lines and formats for TLC.                                              *)
(***************************************************************************)
EXTENDS ProxyParser

MCSymbols ==
    Alnum \cup Unprintable
        \cup {":", "/", "@", "[", "]", "(", ")", "%", ".", "-", "_", "~", "t", "h", "d", "u", "p"}

MCFormats == {
    SchemeHostPort,
    FullCredentials,
    \* host:port:user:pass behind a scheme
    <<"%", "t", ":", "/", "/", "%", "h", ":", "%", "d", ":", "%", "u", ":", "%", "p">>,
    \* a literal percent sign, brackets around the scheme, credentials first
    <<"(", "%", "t", ")", "%", "u", ":", "%", "p", "@", "%", "h", "%", "%", "%", "d">>,
    \* text behind the last field
    <<"%", "t", ":", "/", "/", "%", "h", ":", "%", "d", "/">>,
    \* no scheme
    <<"%", "u", ":", "%", "p", "@", "%", "h", ":", "%", "d">>}

Http == <<"http", ":", "/", "/">>
Socks == <<"socks5", ":", "/", "/">>
User == <<"x", ":", "a", "@">>
Zoned == <<"[", ":", ":", "1", "%", "a", "]", ":", "8">>
Name(n) == [i \in 1 .. n |-> "a"]

MCLines == {
    Http \o <<"a", ":", "8">>,
    <<"HTTP", ":", "/", "/", "a", ".", "1", "x", ":", "0", "8", "0">>,
    Http \o <<"1", ".", "2", ".", "3", ".", "4", ":", "6", "5", "5", "3", "5">>,
    Http \o User \o <<"2", "5", "5", ".", "1", "0", ".", "0", ".", "1", ":", "1">>,
    Http \o Zoned,
    Http \o <<"[", ":", ":", "1", ".", "2", ".", "3", ".", "4", "]", ":", "8">>,
    Socks \o <<"@", "[", "1", ":", ":", "]", ":", "8">>,
    Socks \o <<"x", "@">> \o User \o <<"a", "-", "b", ":", "8">>,
    <<"socks4", ":", "/", "/", "x", ":", "@", "a", ":", "8">>,
    Http \o <<"a", ":", "8", ":", "x", ":", "a">>,
    <<"(", "http", ")", "x", ":", "a", "@", "[", ":", ":", "]", "%", "8">>,
    <<"(", "http", ")", "x", "@", "a", "%", "8">>,
    Http \o User \o Name(7) \o <<".">> \o Name(8) \o <<":", "8">>,
    Http \o Name(55) \o <<":", "8">>,
    Http \o User \o Name(51) \o <<":", "8">>,
    Http \o User \o Name(52) \o <<":", "8">>,
    Http \o Name(63) \o <<":", "8">>,
    Http \o Name(64) \o <<":", "8">>,
    Http \o Name(62) \o <<".", "a", ":", "8">>}

Proxy(scheme, host, username, password) ==
    [scheme |-> <<scheme>>, host |-> host, hostAt |-> Absent,
     username |-> username, password |-> password]

MCProxies == {
    Proxy("http", <<"a", ".", ":", "0", "8">>, <<>>, <<>>),
    Proxy("https", Zoned, <<>>, <<>>),
    Proxy("socks5h", Zoned, <<"x", "@", "%", "/">>, <<":", "%", "/">>),
    Proxy("socks4a", <<"1", ".", "0", ".", "0", ".", "1", ":", "1">>, <<"[">>, <<>>)}

MCDamage == {"a", "0", "9", ":", "/", "@", ".", "-", "[", "]", "%", "TAB", "http"}
=============================================================================
