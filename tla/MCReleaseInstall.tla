-------------------------- MODULE MCReleaseInstall --------------------------
(* The release installer on two releases: the one that may be installed and *)
(* the one that is requested, which includes requesting what is installed.  *)
EXTENDS ReleaseInstall

CONSTANTS r1, r2
MCReleases == {r1, r2}
=============================================================================
