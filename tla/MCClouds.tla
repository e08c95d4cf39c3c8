------------------------------ MODULE MCClouds ------------------------------
(***************************************************************************)
(* Where things run: digitalocean's plugin with its firewalls, or with the   *)
(* rest of an account, or azure's, one of them in a behaviour.               *)
(***************************************************************************)
EXTENDS DigitalOcean, AzureEstate, SequencesExt

CONSTANTS Things, Places, Nobody, Tags, Absent, MaxGB, PageSize, MaxPages

ASSUME FleetAssumption ==
  IsFiniteSet(Things) /\ MaxGB \in Nat \ {0} /\ PageSize \in Nat \ {0} /\ MaxPages \in Nat \ {0}

VARIABLES scope,
          azConfig, azBackend, loads, default, resolved, visible, stage, using, requested,
          target, named, sole,
          ready, order, at, gb, tagged, flStage, flReq, page, found, flSaid, since, flDid, flLost, shrunk

Kind == [t \in Things |-> IF t = "ip" THEN "reserved_ip" ELSE IF t = "web" THEN "droplet" ELSE "volume"]

Fleet == INSTANCE OceanFleet WITH stage <- flStage, req <- flReq, said <- flSaid, did <- flDid, lost <- flLost
Azure == INSTANCE AzureSubscription WITH config <- azConfig, backend <- azBackend

oceanVars == vars
azureVars == <<azConfig, azBackend, loads, default, resolved, visible, stage, using, requested,
               target, named, sole>>
fleetVars == <<ready, order, at, gb, tagged, flStage, flReq, page, found, flSaid, since, flDid,
               flLost, shrunk>>

\* An account nobody asks for.
NoAccount ==
  /\ ready = FALSE /\ order = <<>> /\ at = <<>> /\ gb = <<>> /\ tagged = <<>>
  /\ flStage = <<>> /\ flReq = <<>> /\ page = <<>> /\ found = <<>> /\ flSaid = <<>>
  /\ since = <<>> /\ flDid = {} /\ flLost = {} /\ shrunk = {}

\* Bound: what is there at first is listed in one order; nothing depends on which.
InTurn == LET ids == SetToSeq(Things)
           IN \A i, j \in DOMAIN ids : i < j /\ order[ids[j]] > 0 => order[ids[i]] < order[ids[j]]

MCInit ==
  /\ scope \in {"digitalocean", "fleet", "azure"}
  /\ Init /\ Azure!Init
  /\ IF scope = "fleet" THEN Fleet!FleetInit /\ InTurn /\ {"ip", "web"} \subseteq Fleet!There ELSE NoAccount
  /\ scope # "digitalocean" => fw = [i \in Ids |-> Unborn]
  /\ scope # "azure" => azConfig = NoSub /\ visible = {}

MCNext ==
  \/ scope = "digitalocean" /\ Next /\ UNCHANGED <<scope, fleetVars, azureVars>>
  \/ scope = "fleet" /\ Fleet!FleetNext /\ UNCHANGED <<scope, oceanVars, azureVars>>
  \/ scope = "azure" /\ Azure!Next /\ UNCHANGED <<scope, oceanVars, fleetVars>>

MCSpec == MCInit /\ [][MCNext]_<<scope, oceanVars, fleetVars, azureVars>>

\* The types of whichever runs.
TypesOK == /\ TypeOK
           /\ scope = "fleet" => Fleet!FleetTypeOK
           /\ scope = "azure" => Azure!TypeOK

\* What is checked of the others, stated in their modules.
FleetIsAsTold == scope = "fleet" => Fleet!FleetIsAsTold
SubscriptionIsExplained == Azure!SubscriptionIsExplained

\* Calls are alike, and so are subscriptions.
Alike == Permutations(Calls) \cup Permutations(Subs)
=============================================================================
