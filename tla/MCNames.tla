------------------------------ MODULE MCNames ------------------------------
(***************************************************************************)
(* Where names and nodes are kept: tailscale's tailnet or namecheap's zone,  *)
(* one of them in a behaviour.                                               *)
(***************************************************************************)
EXTENDS TailscaleTailnet, TLC

CONSTANTS Keys, NoKey, Shapes, MX, Hidden, Most, Asked, TTL, www, mx

VARIABLES scope,
          process, client, scrub, ncPc, ncReq, sent, zone, ncOut, said, ncShown, cut, ncCalm

Namecheap == INSTANCE NamecheapZone
               WITH pc <- ncPc, req <- ncReq, out <- ncOut, shown <- ncShown, calm <- ncCalm

ASSUME ZoneAssumption == NoKey \notin Keys /\ \A b \in Asked : Namecheap!IsRecords(b, {0, TTL})

zoneVars == <<process, client, scrub, ncPc, ncReq, sent, zone, ncOut, said, ncShown, cut, ncCalm>>

\* Sets of a hidden record and an open one, alone, with another ttl, or both.
MCAsked == {<<www, 0>> :> 1, <<www, TTL>> :> 2, <<mx, 0>> :> 1,
            <<www, 0>> :> 1 @@ <<mx, TTL>> :> 1}

MCInit ==
  /\ scope \in {"tailscale", "namecheap"}
  /\ Init /\ Namecheap!Init
  /\ scope # "namecheap" => zone = CHOOSE z \in Namecheap!Zones : TRUE
  /\ scope # "tailscale" => /\ creds = "none" /\ keys = [k \in KeyIds |-> Unborn]
                            /\ devices = [d \in Devices |-> [authorized |-> FALSE, tags |-> {}]]

MCNext == \/ scope = "tailscale" /\ Next /\ UNCHANGED <<scope, zoneVars>>
          \/ scope = "namecheap" /\ Namecheap!Next /\ UNCHANGED <<scope, vars>>

MCSpec == MCInit /\ [][MCNext]_<<scope, vars, zoneVars>>

\* The types of whichever runs.
TypesOK == TypeOK /\ (scope = "namecheap" => Namecheap!TypeOK)

\* What is checked of the zone, stated in its module.
ZoneIsAsGiven == Namecheap!ZoneIsAsGiven
OnlyUnloadHarms == Namecheap!OnlyUnloadHarms

\* A change that follows its preview is the change that was shown, of a zone's
\* records as of a device.
ChangesAreAsShown == Namecheap!DiffIsTheChange /\ DeviceChangeAsShown

\* Calls are alike, and so are auth keys and API keys, which are taken from one
\* set.
Alike == Permutations(Calls) \cup Permutations(KeyIds)
=============================================================================
