--------------------------- MODULE SecretBackend ---------------------------
(***************************************************************************)
(* What a secret backend plugin (onepassword, keeper) promises its host,   *)
(* without saying how: every resolve is answered once, either with a       *)
(* failure or with a value it read from the remote vault itself while it   *)
(* alone held the vendor SDK.  Nothing is cached between calls, so a       *)
(* served value is never older than the call it answers.                   *)
(*                                                                         *)
(* A caller and its use of the SDK are separate: a caller may fail (its    *)
(* deadline passes) while its SDK call still runs and still holds the      *)
(* slot.                                                                   *)
(***************************************************************************)
EXTENDS Naturals

CONSTANTS Calls,   \* the resolves the host makes
          NoCall   \* the slot is free

VARIABLES stored,  \* version of the secret in the remote vault, from 1
          slot,    \* the resolve whose SDK call is in flight, or NoCall
          phase,   \* what the host knows of each resolve
          asked,   \* version stored when the resolve was asked
          read,    \* version the resolve's own SDK call read, 0 for none
          value    \* version handed to the host, 0 for none

vars == <<stored, slot, phase, asked, read, value>>

Phases == {"idle", "pending", "failed", "served"}

TypeOK == /\ stored \in Nat
          /\ slot \in Calls \cup {NoCall}
          /\ phase \in [Calls -> Phases]
          /\ asked \in [Calls -> Nat]
          /\ read \in [Calls -> Nat]
          /\ value \in [Calls -> Nat]

Init == /\ stored = 1
        /\ slot = NoCall
        /\ phase = [c \in Calls |-> "idle"]
        /\ asked = [c \in Calls |-> 0]
        /\ read = [c \in Calls |-> 0]
        /\ value = [c \in Calls |-> 0]

\* The secret is rotated in the vault, by anyone.
Rotate == /\ stored' = stored + 1
          /\ UNCHANGED <<slot, phase, asked, read, value>>

\* The host asks; a resolve that cannot run is refused at once.
Ask(c, refused) == /\ phase[c] = "idle"
                   /\ phase' = [phase EXCEPT ![c] = IF refused THEN "failed" ELSE "pending"]
                   /\ asked' = [asked EXCEPT ![c] = stored]
                   /\ UNCHANGED <<stored, slot, read, value>>

Take(c) == /\ phase[c] = "pending"
           /\ slot = NoCall
           /\ slot' = c
           /\ UNCHANGED <<stored, phase, asked, read, value>>

\* The SDK call of the slot's holder reads the vault.
Read(c) == /\ slot = c
           /\ read' = [read EXCEPT ![c] = stored]
           /\ UNCHANGED <<stored, slot, phase, asked, value>>

Free == /\ slot # NoCall
        /\ slot' = NoCall
        /\ UNCHANGED <<stored, phase, asked, read, value>>

Serve(c) == /\ phase[c] = "pending"
            /\ read[c] # 0
            /\ phase' = [phase EXCEPT ![c] = "served"]
            /\ value' = [value EXCEPT ![c] = read[c]]
            /\ UNCHANGED <<stored, slot, asked, read>>

Fail(c) == /\ phase[c] = "pending"
           /\ phase' = [phase EXCEPT ![c] = "failed"]
           /\ UNCHANGED <<stored, slot, asked, read, value>>

Next == \/ Rotate
        \/ Free
        \/ \E c \in Calls : \/ \E refused \in BOOLEAN : Ask(c, refused)
                            \/ Take(c) \/ Read(c) \/ Serve(c) \/ Fail(c)

Spec == Init /\ [][Next]_vars

=============================================================================
