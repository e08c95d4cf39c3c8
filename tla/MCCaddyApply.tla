---------------------------- MODULE MCCaddyApply ----------------------------
EXTENDS CaddyApply, TLC

\* Calls are alike, and so are the configurations caddy can load.
Alike == Permutations(Calls) \cup Permutations(Valid)
=============================================================================
