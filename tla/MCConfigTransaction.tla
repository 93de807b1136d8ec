------------------------ MODULE MCConfigTransaction ------------------------
(* Configs for the config transaction.  A config is written                *)
(* C(creds, args, release, pver, opts).                                    *)
EXTENDS ConfigTransaction

CONSTANTS k0, k1, k2, a1, a2, bad, none, v1, v2, p0, p1, p2, o1, o2

C(creds, args, release, pver, opts) ==
    [creds |-> creds, args |-> args, release |-> release, pver |-> pver, opts |-> opts]

NoRelease == {none}
BrokenValues == {bad}
Commands == {"command"}
Kills == {"command", "kill", "die", "status"}

None == {}

\* The charm's defaults (no credentials, no release), and a full deployment.
Deployed == {C(k0, a1, none, p1, o1), C(k1, a1, v1, p1, o1)}

\* A full rotation, one more proxy option, and node args and proxy options with
\* which the service does not stay up.
Targets == {C(k2, a2, v2, p2, o1), C(k1, a1, v1, p1, o2), C(k1, bad, v1, p1, o1), C(k1, a1, v1, p1, bad)}

\* Units that run: rotate the credentials, install a release, change the proxy.
GoodDeployed == {C(k1, a1, v1, p1, o1)}
GoodTargets == {C(k2, a1, v1, p1, o1), C(k1, a2, v2, p1, o1), C(k1, a1, v1, p2, o2)}

\* The version is cleared while the credentials change.
ClearedTargets == {C(k2, a1, none, p1, o1)}
=============================================================================
