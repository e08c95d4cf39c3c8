---------------------------- MODULE AzureEstate ----------------------------
(***************************************************************************)
(* The subscriptions and backends of AzureSubscription.                     *)
(***************************************************************************)
EXTENDS Naturals

CONSTANTS Subs,     \* subscription ids
          NoSub,    \* the empty string
          MaxLoads  \* bound: backends built

ASSUME EstateAssumption == NoSub \notin Subs /\ MaxLoads \in Nat

Loads == 0..MaxLoads
Option == Subs \cup {NoSub}
=============================================================================
