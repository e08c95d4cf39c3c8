----------------------------- MODULE OceanFleet -----------------------------
(***************************************************************************)
(* The rest of a DigitalOcean account: volumes, snapshots, keys, reserved   *)
(* IPs, projects, droplets' power, and tags.  Most operations are one       *)
(* request behind the gate of DigitalOcean.tla; assign_tag is up to three,  *)
(* and a list is up to maxListPages of them while others create and delete. *)
(* ops_storage.go, ops_account.go, sdk_storage.go, sdk_account.go and       *)
(* plugin.go under digitalocean/internal/digitaloceanplugin.                *)
(*                                                                         *)
(* A thing has one place: the droplet a volume is attached to or a reserved *)
(* IP points at, for a droplet "on" or nowhere; a thing of kind "resource"  *)
(* is one of which only the project it belongs to matters.                  *)
(***************************************************************************)
EXTENDS Naturals, FiniteSets

CONSTANTS Calls,     \* operation calls
          Things,    \* ids of what the account may hold
          Kind,      \* [Things -> what each is]
          Places,    \* where a volume, a reserved IP or a resource may be
          Nobody,    \* nowhere, neither one of these nor "on"
          Tags, Absent,
          MaxGB,     \* maxVolumeGB
          PageSize,  \* listPageSize
          MaxPages   \* maxListPages

\* create_snapshot is create_volume_snapshot and create_droplet_snapshot.
Kinds == {"volume", "snapshot", "ssh_key", "reserved_ip", "droplet", "resource", "project", "vpc"}
Creates == {"create_volume", "create_snapshot", "add_ssh_key"}
Deletes == {"delete_volume", "delete_snapshot", "delete_ssh_key", "destroy"}
Puts == {"attach_volume", "assign_reserved_ip", "start", "assign_project_resources"}
Clears == {"detach_volume", "unassign_reserved_ip", "stop"}
Lists == {"list_volumes", "list_snapshots", "list_ssh_keys", "list_reserved_ips",
          "list_droplets", "list_projects", "list_vpcs"}
Several == {"assign_tag", "assign_project_resources"}
Ops == Creates \cup Deletes \cup Puts \cup Clears \cup Lists \cup {"resize_volume", "assign_tag"}

\* What an operation is about; assign_tag takes droplets, volumes and snapshots.
About(op) ==
  CASE op \in {"create_volume", "delete_volume", "attach_volume", "detach_volume",
               "resize_volume", "list_volumes"} -> {"volume"}
    [] op \in {"create_snapshot", "delete_snapshot", "list_snapshots"} -> {"snapshot"}
    [] op \in {"add_ssh_key", "delete_ssh_key", "list_ssh_keys"} -> {"ssh_key"}
    [] op \in {"assign_reserved_ip", "unassign_reserved_ip", "list_reserved_ips"} -> {"reserved_ip"}
    [] op \in {"start", "stop", "destroy", "list_droplets"} -> {"droplet"}
    [] op = "assign_project_resources" -> {"resource"}
    [] op = "list_projects" -> {"project"}
    [] op = "list_vpcs" -> {"vpc"}
    [] op = "assign_tag" -> {"volume", "snapshot", "droplet"}

Of(op) == {t \in Things : Kind[t] \in About(op)}

\* The arguments: ids of one kind for a tag and for a project, otherwise one id; a
\* place; a size, from out of range to out of range; a tag.  A list has none.
Request(op, ids, p, n, t) == [op |-> op, ids |-> ids, place |-> p, gb |-> n, tag |-> t]
Requests ==
  UNION {{Request(op, ids, p, n, t) :
            ids \in IF op \in Several THEN UNION {SUBSET {t \in Of(op) : Kind[t] = k} : k \in Kinds}
                    ELSE IF op \in Lists THEN {{}}
                    ELSE {{i} : i \in Of(op)},
            p \in IF op = "start" THEN {"on"}
                  ELSE IF op \in Puts \cup {"detach_volume"} THEN Places ELSE {Nobody},
            n \in IF op \in {"create_volume", "resize_volume"} THEN 0..MaxGB + 1 ELSE {0},
            t \in IF op = "assign_tag" THEN Tags ELSE {Absent}} : op \in Ops}

VARIABLES
  ready,   \* p.backend is there
  order,   \* [Things -> its turn in the lists that show it, or 0: it is not there]
  at,      \* [Things -> its place]
  gb,      \* [Things -> its size]
  tagged,  \* [Tags -> what carries it, or Absent]
  stage,   \* [Calls -> where the call is]
  req,     \* [Calls -> its request]
  page,    \* [Calls -> opt.Page]
  found,   \* [Calls -> what its list has]
  said,    \* [Calls -> its answer]
  since,   \* history: [Calls -> what its list should have]
  did,     \* history: calls whose write DigitalOcean carried out
  lost,    \* history: those whose answer did not arrive
  shrunk   \* history: lists under which something was deleted

fleet == <<order, at, gb, tagged, did, lost, shrunk>>
fleetVars == <<ready, order, at, gb, tagged, stage, req, page, found, said, since, did, lost, shrunk>>

NoRequest == Request("list_volumes", {}, Nobody, 0, Absent)
Answers == {"none", "refused", "credential_missing", "preview", "ok", "error", "whole", "truncated"}

FleetTypeOK ==
  /\ ready \in BOOLEAN
  /\ order \in [Things -> Nat]
  /\ \A t, u \in Things : order[t] = order[u] => t = u \/ order[t] = 0
  /\ at \in [Things -> Places \cup {Nobody, "on"}] /\ gb \in [Things -> 0..MaxGB]
  /\ tagged \in [Tags -> {Absent} \cup SUBSET Things]
  /\ stage \in [Calls -> {"idle", "send", "readTag", "makeTag", "putTag", "walk", "returned"}]
  /\ req \in [Calls -> [op : Ops, ids : SUBSET Things, place : Places \cup {Nobody, "on"},
                        gb : 0..MaxGB, tag : Tags \cup {Absent}]]
  /\ page \in [Calls -> 1..MaxPages]
  /\ found \in [Calls -> SUBSET Things] /\ since \in [Calls -> SUBSET Things]
  /\ said \in [Calls -> Answers]
  /\ did \subseteq Calls /\ lost \subseteq did /\ shrunk \subseteq Calls

There == {t \in Things : order[t] > 0}

FleetInit ==
  /\ ready \in BOOLEAN
  /\ order \in [Things -> 0..Cardinality(Things)]
  /\ {order[t] : t \in There} = 1..Cardinality(There)
  /\ at = [t \in Things |-> Nobody]
  /\ gb = [t \in Things |-> IF Kind[t] = "volume" /\ order[t] > 0 THEN 1 ELSE 0]
  /\ tagged \in [Tags -> {Absent, {}}]
  /\ stage = [c \in Calls |-> "idle"] /\ req = [c \in Calls |-> NoRequest]
  /\ page = [c \in Calls |-> 1] /\ found = [c \in Calls |-> {}]
  /\ said = [c \in Calls |-> "none"] /\ since = [c \in Calls |-> {}]
  /\ did = {} /\ lost = {} /\ shrunk = {}

\* What a list shows in all, and the place of one of them in it.
Shown(r) == Of(r.op) \cap There
Turn(r, t) == Cardinality({u \in Shown(r) : order[u] <= order[t]})

-----------------------------------------------------------------------------
(* The gate.                                                               *)

\* id, dropletID, positiveInt, requiredList: what a handler does not refuse.
Sound(r) == /\ r.op \in Several => r.ids # {}
            /\ r.op \in {"create_volume", "resize_volume"} => r.gb \in 1..MaxGB

Answer(c, a) == /\ stage' = [stage EXCEPT ![c] = "returned"]
                /\ said' = [said EXCEPT ![c] = a]

\* A call that ran returns, and only its answer and what it listed are kept.
Return(c, a) == /\ Answer(c, a)
                /\ req' = [req EXCEPT ![c] = NoRequest]
                /\ page' = [page EXCEPT ![c] = 1]

Goto(c, s) == stage' = [stage EXCEPT ![c] = s] /\ UNCHANGED <<req, page, said>>

\* mode: "dry", "acked" or "bare".  A read needs no acknowledgment and has no
\* preview, and start, alone among the writes, has none either.
NotPreviewed(op) == op \in Lists \cup {"start"}
Outcome(r, mode) ==
  IF \/ mode = "dry" /\ NotPreviewed(r.op)
     \/ mode = "bare" /\ r.op \notin Lists
     \/ ~Sound(r) THEN "refused"
  ELSE IF mode = "dry" THEN "preview"
  ELSE IF ~ready THEN "credential_missing" ELSE "begins"

Ask(c, r, mode) ==
  /\ stage[c] = "idle"
  /\ UNCHANGED <<ready, page, found, fleet>>
  /\ IF Outcome(r, mode) # "begins"
     THEN Answer(c, Outcome(r, mode)) /\ UNCHANGED <<req, since>>
     ELSE /\ stage' = [stage EXCEPT ![c] = IF r.op \in Lists THEN "walk"
                                           ELSE IF r.op = "assign_tag" THEN "readTag" ELSE "send"]
          /\ req' = [req EXCEPT ![c] = r]
          /\ since' = [since EXCEPT ![c] = IF r.op \in Lists THEN Shown(r) ELSE {}]
          /\ UNCHANGED said

-----------------------------------------------------------------------------
(* One request.                                                            *)

At(c, s, ops) == stage[c] = s /\ req[c].op \in ops /\ UNCHANGED <<ready, found, since>>
The(c) == CHOOSE t \in req[c].ids : TRUE

\* DigitalOcean carries it out; its answer arrives or is lost.
Done(c) == /\ did' = did \cup {c}
           /\ \/ Return(c, "ok") /\ UNCHANGED lost
              \/ Return(c, "error") /\ lost' = lost \cup {c}

Fails(c) == /\ At(c, stage[c], Ops) /\ stage[c] \in {"send", "readTag", "makeTag", "putTag", "walk"}
            /\ Return(c, "error") /\ UNCHANGED fleet

\* A new thing is shown anywhere in a list.
Create(c) == /\ At(c, "send", Creates) /\ The(c) \notin There
             /\ \E i \in 1..Cardinality(There) + 1 :
                  order' = [t \in Things |-> IF t = The(c) THEN i
                                             ELSE IF order[t] >= i THEN order[t] + 1 ELSE order[t]]
             /\ gb' = [gb EXCEPT ![The(c)] = req[c].gb]
             /\ Done(c) /\ UNCHANGED <<at, tagged, shrunk>>

\* "DigitalOcean refuses while it is attached."
Delete(c) == /\ At(c, "send", Deletes) /\ The(c) \in There
             /\ Kind[The(c)] = "volume" => at[The(c)] = Nobody
             /\ order' = [t \in Things |-> IF t = The(c) THEN 0
                                           ELSE IF order[t] > order[The(c)] THEN order[t] - 1 ELSE order[t]]
             /\ at' = [at EXCEPT ![The(c)] = Nobody] /\ gb' = [gb EXCEPT ![The(c)] = 0]
             /\ tagged' = [t \in Tags |-> IF tagged[t] = Absent THEN Absent ELSE tagged[t] \ {The(c)}]
             /\ shrunk' = shrunk \cup {d \in Calls : stage[d] = "walk"}
             /\ Done(c)

\* A volume has one droplet at most; a reserved IP moves at once, and so does all
\* that is given to a project.
Put(c) == /\ At(c, "send", Puts) /\ req[c].ids \subseteq There
          /\ req[c].op = "attach_volume" => at[The(c)] = Nobody
          /\ at' = [t \in Things |-> IF t \in req[c].ids THEN req[c].place ELSE at[t]]
          /\ Done(c) /\ UNCHANGED <<order, gb, tagged, shrunk>>

Clear(c) == /\ At(c, "send", Clears) /\ The(c) \in There
            /\ req[c].op = "detach_volume" => at[The(c)] = req[c].place
            /\ at' = [at EXCEPT ![The(c)] = Nobody]
            /\ Done(c) /\ UNCHANGED <<order, gb, tagged, shrunk>>

Resize(c) == /\ At(c, "send", {"resize_volume"}) /\ The(c) \in There /\ req[c].gb > gb[The(c)]
             /\ gb' = [gb EXCEPT ![The(c)] = req[c].gb]
             /\ Done(c) /\ UNCHANGED <<order, at, tagged, shrunk>>

-----------------------------------------------------------------------------
(* TagResources: read the tag, create it on a 404 only, put it.            *)

ReadTag(c) == /\ At(c, "readTag", {"assign_tag"})
              /\ Goto(c, IF tagged[req[c].tag] = Absent THEN "makeTag" ELSE "putTag")
              /\ UNCHANGED fleet

PutTagUnread(c) ==                 \* mutant: an answer of 404 is no matter
  /\ At(c, "makeTag", {"assign_tag"})
  /\ Return(c, "ok") /\ UNCHANGED fleet

\* A tag that somebody made since is no error of DigitalOcean's, or is one (Fails).
MakeTag(c) == /\ At(c, "makeTag", {"assign_tag"})
              /\ tagged' = [tagged EXCEPT ![req[c].tag] = IF @ = Absent THEN {} ELSE @]
              /\ Goto(c, "putTag") \/ Return(c, "error")
              /\ UNCHANGED <<order, at, gb, did, lost, shrunk>>

PutTag(c) == /\ At(c, "putTag", {"assign_tag"})
             /\ tagged[req[c].tag] # Absent /\ req[c].ids \subseteq There
             /\ tagged' = [tagged EXCEPT ![req[c].tag] = @ \cup req[c].ids]
             /\ Done(c) /\ UNCHANGED <<order, at, gb, shrunk>>

-----------------------------------------------------------------------------
(* walk, and the loops of the lists that do not use it.                    *)

Page(r, n) == {t \in Shown(r) : Turn(r, t) \in (n - 1) * PageSize + 1..n * PageSize}

\* How a page ends: "Stop on the last page, and on an empty one", and at the cap.
EndSilent(c, last, shown) ==       \* mutant: what the cap cuts off is not told
  IF last \/ shown = {} \/ page[c] >= MaxPages THEN "whole" ELSE "more"

End(c, last, shown) == IF last \/ shown = {} THEN "whole"
                       ELSE IF page[c] >= MaxPages THEN "truncated" ELSE "more"

\* Links may promise more than there is, but never less.
Walk(c) ==
  /\ stage[c] = "walk" /\ UNCHANGED <<ready, since, fleet>>
  /\ LET shown == Page(req[c], page[c])
     IN /\ found' = [found EXCEPT ![c] = @ \cup shown]
        /\ \E last \in BOOLEAN :
             /\ last => page[c] * PageSize >= Cardinality(Shown(req[c]))
             /\ IF End(c, last, shown) = "more"
                THEN page' = [page EXCEPT ![c] = @ + 1] /\ UNCHANGED <<stage, req, said>>
                ELSE Return(c, End(c, last, shown))

FleetNext == \E c \in Calls :
  \/ stage[c] = "idle" /\ \E r \in Requests, mode \in {"dry", "acked", "bare"} : Ask(c, r, mode)
  \/ Create(c) \/ Delete(c) \/ Put(c) \/ Clear(c) \/ Resize(c)
  \/ ReadTag(c) \/ MakeTag(c) \/ PutTag(c) \/ Walk(c) \/ Fails(c)

FleetSpec == FleetInit /\ [][FleetNext]_fleetVars

-----------------------------------------------------------------------------
\* ok means that the write was carried out, for a tag that everything named was
\* given it; anything else that it was not, or that its answer was lost.
AnswersAreTrue ==
  \A c \in Calls : /\ said[c] = "ok" => c \in did
                   /\ said[c] \notin {"none", "ok"} => c \notin did \ lost

\* "The compiled-in connector read one page of 100 and silently dropped the
\* rest" (sdk_backend.go): a list not marked truncated has all there was when it
\* began, if nothing was deleted while it was read page by page.
WholeIsWhole ==
  \A c \in Calls : said[c] = "whole" /\ c \notin shrunk => since[c] \subseteq found[c]

\* What the plugin says of the account is so.
FleetIsAsTold == AnswersAreTrue /\ WholeIsWhole
=============================================================================
