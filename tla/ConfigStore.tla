---------------------------- MODULE ConfigStore ----------------------------
(***************************************************************************)
(* What apply promises: the Caddyfile and the configuration caddy runs     *)
(* change together, to something caddy accepted, or not at all             *)
(* (caddy/README.md, "How apply stays safe").  Two exceptions are part of  *)
(* the promise: the operator edits the file and reloads it by hand, and a  *)
(* disk that refuses the restore leaves the new file behind, unloaded, and *)
(* the caller is told so.                                                  *)
(***************************************************************************)
CONSTANTS Configs, Valid, Absent

VARIABLES stored,   \* the Caddyfile, or Absent
          running,  \* the configuration caddy runs
          told,     \* callers told that the new file was left behind
          byHand    \* contents somebody put there by hand

Init == stored \in Configs \cup {Absent} /\ running \in Valid /\ told = {} /\ byHand = {stored}

\* A successful apply.
Commit == /\ \E c \in Valid : c # stored /\ stored' = c /\ running' = c
          /\ UNCHANGED <<told, byHand>>

\* A failed apply whose previous file could not be put back.
Lose == /\ stored' \in Valid
        /\ told' # told /\ told \subseteq told'
        /\ UNCHANGED <<running, byHand>>

Edit == /\ stored' \in Configs \cup {Absent}
        /\ byHand' = byHand \cup {stored'}
        /\ UNCHANGED <<running, told>>

Reload == stored \in Valid /\ running' = stored /\ UNCHANGED <<stored, told, byHand>>

Next == Commit \/ Lose \/ Edit \/ Reload
Spec == Init /\ [][Next]_<<stored, running, told, byHand>>
=============================================================================
