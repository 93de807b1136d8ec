--------------------------- MODULE MCNodeMetadata ---------------------------
(* Instances of NodeMetadata for TLC.                                      *)
EXTENDS NodeMetadata

Config(args, disableWallet, password, secret) ==
    [args |-> args, disableWallet |-> disableWallet, password |-> password, secret |-> secret]

\* Arguments that fight the hardening, change the network, repeat a flag, or
\* are in quotes.
Overriding == <<Opt("regtest", 1), Opt("rpcport", 9000), No("rpcbind"), Opt("rpcallowip", "10.0.0.0/8")>>
Repeated == <<Opt("rpcbind", "10.0.0.1"), No("port"), Opt("port", 9001), Opt("port", 9002), Opt("wallet", "w")>>
Quoted == <<Word("rpcport", FALSE, 9000, "quoted"), Word("port", FALSE, 9001, "quoted"),
            Opt("blocknotify", "command"), Word("port", FALSE, 9003, "inside")>>

SomeConfigs == {
    Config(<<>>, TRUE, 2, "invalid"), Config(<<>>, FALSE, NoPassword, "none"),
    Config(Overriding, FALSE, 1, "valid"), Config(Repeated, TRUE, 1, "valid"),
    Config(Quoted, FALSE, 1, "none") }

Conf(name, value) == Word(name, FALSE, value, "conf")
SomeConfFiles == {<<>>, [i \in {0} |-> Conf("regtest", 1)]}
=============================================================================
