------------------------------ MODULE MCSites ------------------------------
(***************************************************************************)
(* Where sites are served from: Cloudflare's zones and buckets and Vercel's  *)
(* deployments, one of them in a behaviour.  The Cloudflare plugin's calls    *)
(* are either all of zones and DNS or all of verify_token and R2, which share *)
(* the plugin's state and nothing else; one bucket name, one key, two records *)
(* and their one address in the tailnet and one outside are enough for two    *)
(* calls to meet at each.                                                     *)
(***************************************************************************)
EXTENDS CloudflareDNS, CloudflareR2, Sequences, TLC

CONSTANTS Profiles, NoFile, Trees, Unbuilt, Outputs

VARIABLES scope,  \* which operations are called: "zone", "r2" or "vercel"
          loaded, token, file, linked, head, tree, built, deployed, printed, url, disturbed,
          vcPc, vcPlan, vcOut, vcSaid, vcCut, vcShown

Vercel == INSTANCE VercelDeploy
  WITH pc <- vcPc, plan <- vcPlan, out <- vcOut, said <- vcSaid, cut <- vcCut, shown <- vcShown

ASSUME SitesAssumption == Profiles \subseteq Vercel!Profile /\ Outputs \subseteq Seq(Vercel!Line)

vercelVars == <<loaded, token, file, linked, head, tree, built, deployed, printed, url, disturbed,
                vcPc, vcPlan, vcOut, vcSaid, vcCut, vcShown>>

\* One profile, and one that cannot be planned: its checkout is not there.
P(there) == [provider |-> "", dir |-> there, commands |-> {"build"}, project |-> TRUE]
MCProfiles == {P(TRUE), P(FALSE)}

\* The deployment's URL alone, behind the dashboard's, or behind it in a line that
\* says Production.
L(p, u) == [production |-> p, urls |-> u]
MCOutputs == {<<>>, <<L(FALSE, <<"dashboard">>)>>,
              <<L(FALSE, <<"deployment">>), L(FALSE, <<"dashboard">>)>>,
              <<L(TRUE, <<"dashboard", "deployment">>), L(FALSE, <<"deployment">>)>>}

r2All == <<r2Vars, said>>
cloudflareVars == <<pluginVars, pc, req, out, cut, calm, zoneVars, r2All>>
vars == <<scope, cloudflareVars, vercelVars>>

NoBuckets == /\ buckets = {} /\ keys = [k \in Keys |-> Unborn] /\ scrub = {} /\ learned = {}
             /\ said = {} /\ handed = {} /\ stray = {} /\ minted = [c \in Calls |-> NoKey]
NoZone == zone = [i \in Ids |-> Unborn] /\ plan = [c \in Calls |-> NoPlan] /\ shown = {}

\* The records there are first: of the ttl these calls may give one where they
\* give it, which is in an upsert, and of an automatic ttl elsewhere.
Published == \A i \in Records : zone[i].ttl # 1 => ~zone[i].proxied /\ zone[i].content \in Tailnet

\* A checkout nobody deploys from.
NoCheckout ==
  /\ loaded = FALSE /\ token = NoToken /\ file = NoFile /\ linked = FALSE
  /\ head = Unbuilt /\ tree = Unbuilt /\ built = Unbuilt
  /\ deployed = {} /\ printed = <<>> /\ url = "none" /\ disturbed = {}
  /\ vcPc = <<>> /\ vcPlan = <<>> /\ vcOut = "none" /\ vcSaid = NoToken /\ vcCut = {} /\ vcShown = {}

Init == /\ PluginInit
        /\ \/ scope = "zone" /\ ZoneInit /\ Published /\ NoBuckets /\ NoCheckout
           \/ scope = "r2" /\ R2Init /\ NoZone /\ NoCheckout
           \/ scope = "vercel" /\ backend = NoToken /\ NoBuckets /\ NoZone /\ Vercel!Init

Next == \/ scope = "zone" /\ ZoneNext /\ UNCHANGED <<scope, r2All, vercelVars>>
        \/ scope = "r2" /\ R2Next /\ UNCHANGED <<scope, zoneVars, vercelVars>>
        \/ scope = "vercel" /\ Vercel!Next /\ UNCHANGED <<scope, cloudflareVars>>

Spec == Init /\ [][Next]_vars

\* The types of whichever runs.
TypeOK == /\ IF scope = "zone" THEN ZoneTypeOK ELSE R2TypeOK
          /\ scope = "vercel" => Vercel!TypeOK

\* The codes of errorCode (plugin.go) tell a caller whether to repeat a call:
\* one answered invalid_args or credential_missing changed nothing at Cloudflare,
\* and none of its earlier requests did.
RefusedChangedNothing ==
  [][out' \in Refusals =>
       UNCHANGED <<zone, cloud>> /\ \A c \in Calls : pc'[c] # pc[c] => minted[c] = NoKey]_vars

\* The gate (writeMode, ready, errorCode) holds: what it lets through to write, a
\* zone, a record, a bucket or a key, was acknowledged, no call finds the backend
\* gone but one unloaded under, and what is refused changed nothing.
GateHolds == /\ OnlyAcknowledgedChanges /\ OnlyAcknowledgedRecords
             /\ RefusedChangedNothing /\ []PanicsOnlyUnderUnload

\* What is checked of Vercel, stated in its module.
DeploysAsPlanned == Vercel!DeploysAsPlanned
OutputIsReadAndScrubbed == Vercel!OutputIsReadAndScrubbed
ChangedCheckoutIsStale == Vercel!ChangedCheckoutIsStale

\* Calls are alike, and so are records and the states of a checkout, which are
\* taken from one set.
Alike == Permutations(Calls) \cup Permutations(Ids)
=============================================================================
