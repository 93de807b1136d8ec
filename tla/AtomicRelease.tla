--------------------------- MODULE AtomicRelease ---------------------------
(***************************************************************************)
(* What bitcoin.install_release promises to its callers (the install hook  *)
(* and the config transaction), seen from between its calls: one call      *)
(* replaces bitcoind and bitcoin-cli together by the requested release, or *)
(* leaves both as they were.  Only a call whose own recovery failed, or    *)
(* whose hook process was killed, may leave anything else behind.          *)
(***************************************************************************)
CONSTANTS Releases,     \* release versions that can be installed
          Absent        \* "no file at this path"

Bins == {"bitcoind", "cli"}
Contents == Releases \cup {Absent}

VARIABLES installed,    \* what is at BINARY_PATH and CLI_PATH between calls
          busy,         \* a call is in progress
          req,          \* the release of the current or last call
          result        \* how the last call ended

vars == <<installed, busy, req, result>>

Init ==
    /\ installed \in [Bins -> Contents]
    /\ busy = FALSE
    /\ req = Absent
    /\ result = "none"

Begin ==
    /\ ~busy
    /\ busy' = TRUE
    /\ req' \in Releases
    /\ result' = "none"
    /\ UNCHANGED installed

Commit ==
    /\ busy
    /\ busy' = FALSE
    /\ installed' = [b \in Bins |-> req]
    /\ result' = "ok"
    /\ UNCHANGED req

Abort ==
    /\ busy
    /\ busy' = FALSE
    /\ result' = "failed"
    /\ UNCHANGED <<installed, req>>

\* Recovery itself failed, or the process died half way.
Damage ==
    /\ busy
    /\ busy' = FALSE
    /\ installed' \in [Bins -> Contents]
    /\ result' \in {"broken", "killed"}
    /\ UNCHANGED req

Next == Begin \/ Commit \/ Abort \/ Damage

Spec == Init /\ [][Next]_vars
=============================================================================
