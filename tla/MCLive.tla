------------------------------- MODULE MCLive -------------------------------
(***************************************************************************)
(* Where a call waits for another: the slot of the onepassword backend, that *)
(* of the keeper backend, and the mutex over tailscale's token, one of them  *)
(* in a behaviour.  What does not run stays where no fair step is enabled.   *)
(***************************************************************************)
EXTENDS OnePassword, TLC

CONSTANTS Bound, Refused, NoVault, RefusedVault,
          KeyIds, Devices, Tags, maxListedKeys, Unborn, Gone

VARIABLES scope,
          kpConfig, vault, kpProblem, kpHeld, kpBusy, up, kpCaller, kpSnap, kpWorker, kpGot,
          kpSent, kpDone, kpOutcome, kpStored, kpLoads, loaded, kpAsked, askedIn, kpHeldIn,
          creds, cached, lock, pc, req, list, keys, devices, out, there, shown, tsCalm

Vault == INSTANCE Keeper
           WITH config <- kpConfig, problem <- kpProblem, held <- kpHeld, busy <- kpBusy,
                caller <- kpCaller, snap <- kpSnap, worker <- kpWorker, got <- kpGot,
                sent <- kpSent, done <- kpDone, outcome <- kpOutcome, stored <- kpStored,
                loads <- kpLoads, asked <- kpAsked, heldIn <- kpHeldIn
Tailscale == INSTANCE TailscaleTailnet WITH calm <- tsCalm

keeperVars == <<kpConfig, vault, kpProblem, kpHeld, kpBusy, up, kpCaller, kpSnap, kpWorker, kpGot,
                kpSent, kpDone, kpOutcome, kpStored, kpLoads, loaded, kpAsked, askedIn, kpHeldIn>>
tailnetVars == <<creds, cached, lock, pc, req, list, keys, devices, out, there, shown, tsCalm>>

MCInit ==
  /\ scope \in {"onepassword", "keeper", "tailscale"}
  /\ Init /\ Vault!Init /\ Tailscale!Init
  /\ scope # "onepassword" => config = "missing"
  /\ scope # "keeper" => kpConfig = "missing"
  /\ scope # "tailscale" => /\ creds = "none" /\ keys = [k \in KeyIds |-> Unborn]
                            /\ devices = [d \in Devices |-> [authorized |-> FALSE, tags |-> {}]]

MCNext ==
  \/ scope = "onepassword" /\ Next /\ UNCHANGED <<scope, keeperVars, tailnetVars>>
  \/ scope = "keeper" /\ Vault!Next /\ UNCHANGED <<scope, vars, tailnetVars>>
  \/ scope = "tailscale" /\ Tailscale!Next /\ UNCHANGED <<scope, vars, keeperVars>>

MCSpec == /\ MCInit /\ [][MCNext]_<<scope, vars, keeperVars, tailnetVars>>
          /\ Fairness /\ Vault!Fairness /\ Tailscale!Fairness

\* "A resolve waiting behind a slow one" (plugin.go) and a call waiting for
\* another's token exchange: with nothing that hangs, every call of the three is
\* answered, and the slot it waited for is given back.
EveryCallReturns == /\ EveryCommandReturns /\ SlotIsFreed
                    /\ Vault!EveryCommandReturns
                    /\ Tailscale!EveryCallAnswered

\* "... still honours its own deadline", in either backend and whatever hangs.
DeadlinesHonoured == DeadlineHonoured /\ Vault!DeadlineHonoured
=============================================================================
