--------------------------- MODULE MCProxyRequest ---------------------------
(* Bounded instances of ProxyRequest: two concurrent requests, a baseline  *)
(* method, a method of the extend list, a refused one and a missing one,   *)
(* and calls that bitcoind may read in its own way.                        *)
EXTENDS ProxyRequest

CONSTANTS get, extra, refused

Single(m) == Body("single", <<Call(m, "V2", 1, TRUE)>>)

MCBaseline == {get}
MCExtend == {extra}

\* One body of each kind that the handler tells apart.
MCBodies ==
    {Body("tooLarge", <<>>), Body("unreadable", <<>>), Body("malformed", <<>>),
     Single(get), Single(refused), Single(NoMethod), Body("batch", <<>>),
     Body("batch", <<Call(get, "V1", Null, TRUE), Call(extra, "V2", 2, FALSE)>>),
     Body("batch", <<Call(extra, "V2", 1, TRUE), Call(refused, "V1", 2, TRUE), Call(refused, "V2", Null, FALSE)>>),
     Body("batch", <<Call(get, "V1", 3, TRUE), Call(NoMethod, "V1", Null, TRUE)>>)}
=============================================================================
