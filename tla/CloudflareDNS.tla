--------------------------- MODULE CloudflareDNS ---------------------------
(***************************************************************************)
(* The Cloudflare plugin's zone and DNS operations: upsert_a_record, which  *)
(* reads the zone, looks the name up and creates or updates by what it      *)
(* found, and the single requests it meets.  plugin.go, upsert.go,          *)
(* api_backend.go and sdk_backend.go.                                       *)
(*                                                                         *)
(* There is one zone and one host name in it, which a caller writes inside  *)
(* the zone ("qualified") or under it ("relative").  Names of other zones,  *)
(* record types other than A and MX priorities are left out.               *)
(***************************************************************************)
EXTENDS CloudflarePlugin, FiniteSets, Integers

CONSTANTS Ids,      \* DNS record ids
          Tailnet,  \* addresses in 100.64.0.0/10
          Public,   \* every other IPv4 address
          TTLs      \* record TTLs other than 1, which is automatic

Record == [content : Tailnet \cup Public, ttl : TTLs \cup {1}, proxied : BOOLEAN]

ASSUME DNSAssumption == /\ IsFiniteSet(Ids) /\ Ids \cap {"new", "none"} = {}
                        /\ Tailnet \cap Public = {} /\ 0 \notin TTLs
                        /\ Unborn \notin Record /\ Gone \notin Record

\* Effects the connector declares for them.
ZoneReads == {"list_zones", "list_dns_records"}
ZoneWrites == {"create_zone", "create_dns_record", "delete_dns_record", "upsert_a_record"}

Spellings == {"relative", "qualified"}

\* Arguments, with 0 for a ttl not given.
ZoneArguments(op) ==
  CASE op = "upsert_a_record" ->
         [name : Spellings, content : Tailnet \cup Public, ttl : TTLs \cup {0}, proxied : BOOLEAN]
    [] op = "create_dns_record" -> [content : Tailnet \cup Public, proxied : BOOLEAN]
    [] op = "delete_dns_record" -> [id : Ids]
    [] OTHER -> {"none"}
DNSRequests == UNION {[op : {o}, arg : ZoneArguments(o), dry : Forms, ack : BOOLEAN] : o \in ZoneReads \cup ZoneWrites}

VARIABLES zone,  \* Cloudflare's records: [Ids -> a record, Unborn or Gone]
          plan,  \* [Calls -> upsertPlan: what is written, over which record]
          shown  \* history: the last preview, while calm and the zone as it was

zoneVars == <<zone, plan, shown>>

NoPlan == [id |-> "none"]
Plans == [id : {"new"}, after : Record] \cup [id : Ids, before : Record, after : Record]
Actions == {"created", "updated", "unchanged"}

ZoneTypeOK == /\ PluginTypeOK
          /\ pc \in [Calls -> {"idle", "zone", "find", "update", "create", "delete", "new",
                               "list"}]
          /\ zone \in [Ids -> Record \cup {Unborn, Gone}]
              /\ req \in [Calls -> {Kept(r) : r \in DNSRequests} \cup {None}]
          /\ plan \in [Calls -> Plans \cup {NoPlan}]
          /\ shown \subseteq [arg : ZoneArguments("upsert_a_record"), action : Actions]

ZoneInit == /\ zone \in [Ids -> Record \cup {Unborn}]
            /\ plan = [c \in Calls |-> NoPlan]
            /\ shown = {}

Records == {i \in Ids : zone[i] \in Record}

-----------------------------------------------------------------------------
(* Arrival.                                                                *)

SoundAnyAddress(r) ==              \* mutant: upsert_a_record takes any address
  r.op = "upsert_a_record" => ~r.arg.proxied

\* Argument checks past the shape of the text: upsert_a_record publishes tailnet
\* addresses, and never through the proxy.
Sound(r) == r.op = "upsert_a_record" => r.arg.content \in Tailnet /\ ~r.arg.proxied

Accepted == {r \in DNSRequests : WriteMode(r) /\ Sound(r)}

\* A preview needs no credential, and only upsert_a_record's reads anything.
ReadsNothing(r) == Dry(r) /\ (r.op # "upsert_a_record" \/ backend = NoToken)

\* What is kept of those that go on to the backend, if there is one.
ZoneBegun == {Kept(r) : r \in {r \in Accepted : ~Dry(r) \/ r.op = "upsert_a_record"}}

ZoneFirst(r) == CASE r.op = "upsert_a_record" -> "zone"
              [] r.op = "create_dns_record" -> "create"
              [] r.op = "delete_dns_record" -> "delete"
              [] r.op = "create_zone" -> "new"
              [] OTHER -> "list"

ZoneStart(c) ==
  \/ /\ \/ Refuse(c, DNSRequests \ Accepted)
        \/ Preview(c, {r \in Accepted : ReadsNothing(r)})
        \/ NoCredential(c, {r \in Accepted : ~ReadsNothing(r)})
     /\ UNCHANGED zoneVars
  \/ /\ \E r \in ZoneBegun : Begin(c, r, ZoneFirst(r))
     /\ shown' = IF calm' THEN shown ELSE {}
     /\ UNCHANGED <<zone, plan>>

-----------------------------------------------------------------------------
(* Requests.                                                               *)

\* A call that ran returns, and its locals go.
Return(c, o) == Answers(c, o) /\ plan' = [plan EXCEPT ![c] = NoPlan]

\* A read fails.
Fails(c, Code(_)) == /\ \E code \in {Code(f) : f \in Failures} : Return(c, code)
                     /\ UNCHANGED <<zone, shown>>

\* A write that would make the zone z: carried out and answered, carried out and
\* the answer not usable, or not carried out.
Writes(c, z, Code(_)) ==
  \/ zone' = z /\ shown' = {} /\ Return(c, "ok")
  \/ zone' = z /\ shown' = {} /\ \E code \in {Code(f) : f \in MayHaveHappened} : Return(c, code)
  \/ Fails(c, Code)

GetZone(c) == /\ At(c, "zone")
              /\ \/ Goto(c, "find") /\ UNCHANGED zoneVars
                 \/ Fails(c, ApiCode)

QualifiedAsGiven(name) == name     \* mutant: the name is looked up as it was given

\* The zone's own name for it.
QualifiedName(name) == "qualified"

\* The A records Cloudflare has at a name.
FindARecords(fqdn) == IF fqdn = "qualified" THEN Records ELSE {}

PlannedOverAny(arg) ==             \* mutant: of several records, one is taken
  LET found == FindARecords(QualifiedName(arg.name))
      After(old) == [content |-> arg.content, proxied |-> FALSE,
                     ttl |-> IF arg.ttl = 0 THEN old ELSE arg.ttl]
  IN IF found = {} THEN {[id |-> "new", after |-> After(1)]}
     ELSE {[id |-> i, before |-> zone[i], after |-> After(zone[i].ttl)] : i \in found}

PlannedTTLAsGiven(arg) ==          \* mutant: a ttl not given is written as 0
  LET found == FindARecords(QualifiedName(arg.name))
      after == [content |-> arg.content, proxied |-> FALSE, ttl |-> arg.ttl]
  IN IF found = {} THEN {[id |-> "new", after |-> after]}
     ELSE {[id |-> i, before |-> zone[i], after |-> after] :
             i \in IF Cardinality(found) = 1 THEN found ELSE {}}

\* planUpsert on what FindARecords answered: none, create; one, that one; more,
\* no plan.  An update keeps the ttl if none is given.
Planned(arg) ==
  LET found == FindARecords(QualifiedName(arg.name))
      After(old) == [content |-> arg.content, proxied |-> FALSE,
                     ttl |-> IF arg.ttl = 0 THEN old ELSE arg.ttl]
  IN IF found = {} THEN {[id |-> "new", after |-> After(1)]}
     ELSE {[id |-> i, before |-> zone[i], after |-> After(zone[i].ttl)] :
             i \in IF Cardinality(found) = 1 THEN found ELSE {}}

\* An update that would change nothing is not sent.
Action(p) == IF p.id = "new" THEN "created"
             ELSE IF p.before = p.after THEN "unchanged" ELSE "updated"

ComesToRequest(c, p) ==            \* mutant: a dry run goes on to the request
  IF Action(p) = "unchanged" THEN "ok" ELSE "request"

\* What a call makes of its plan.
ComesTo(c, p) == IF req[c].dry THEN "preview"
                 ELSE IF Action(p) = "unchanged" THEN "ok" ELSE "request"

PlanUpsert(c) ==
  /\ At(c, "find")
  /\ LET arg == req[c].arg IN
     \/ Planned(arg) = {} /\ Return(c, "invalid_args") /\ UNCHANGED shown
     \/ \E p \in Planned(arg) :
          CASE ComesTo(c, p) = "preview" -> /\ Return(c, "preview")
                                           /\ shown' = IF calm THEN {[arg |-> arg, action |-> Action(p)]} ELSE {}
            [] ComesTo(c, p) = "ok" -> Return(c, "ok") /\ UNCHANGED shown
            [] OTHER -> /\ plan' = [plan EXCEPT ![c] = p]
                        /\ Goto(c, IF p.id = "new" THEN "create" ELSE "update")
                        /\ UNCHANGED shown
  /\ UNCHANGED zone

\* FindARecords fails.
FindFails(c) == At(c, "find") /\ Fails(c, ApiCode)

\* The PATCH names the record by its id, which another call may have deleted.
UpdateDNSRecord(c) ==
  /\ At(c, "update")
  /\ IF plan[c].id \in Records
     THEN Writes(c, [zone EXCEPT ![plan[c].id] = plan[c].after], ApiCode)
     ELSE Fails(c, ApiCode)

\* What create_dns_record was given, or the upsert planned.
Wanted(c) == IF req[c].op = "upsert_a_record" THEN plan[c].after
             ELSE [content |-> req[c].arg.content, proxied |-> req[c].arg.proxied, ttl |-> 1]

CreateDNSRecord(c) ==
  /\ At(c, "create")
  /\ \/ \E i \in Ids : zone[i] = Unborn /\ Writes(c, [zone EXCEPT ![i] = Wanted(c)], SdkCode)
     \/ Fails(c, SdkCode)

DeleteDNSRecord(c) ==
  /\ At(c, "delete")
  /\ IF req[c].arg.id \in Records
     THEN Writes(c, [zone EXCEPT ![req[c].arg.id] = Gone], SdkCode)
     ELSE Fails(c, SdkCode)

\* A new zone is not this one.
CreateZone(c) == At(c, "new") /\ Writes(c, zone, SdkCode)

List(c) == /\ At(c, "list")
           /\ \/ Return(c, "ok") /\ UNCHANGED <<zone, shown>>
              \/ Fails(c, SdkCode)

ZoneStep(c) == GetZone(c) \/ PlanUpsert(c) \/ FindFails(c) \/ UpdateDNSRecord(c)
               \/ CreateDNSRecord(c) \/ DeleteDNSRecord(c) \/ CreateZone(c) \/ List(c)

ZoneDies(c) == /\ Panics(c) /\ plan' = [d \in Calls |-> NoPlan]
               /\ shown' = {} /\ UNCHANGED zone

ZoneHost == (Unload \/ \E token \in Offered : LoadWith(token)) /\ UNCHANGED zoneVars

ZoneNext == ZoneHost \/ \E c \in Calls : ZoneStart(c) \/ ZoneStep(c) \/ ZoneDies(c)

-----------------------------------------------------------------------------
\* Call c, an upsert, succeeds in this step.
Upserted(c) == /\ c \in Running /\ pc'[c] = "idle" /\ out' = "ok"
                /\ req[c].op = "upsert_a_record"

\* "It must be impossible to point one at a public address by accident" and
\* "always unproxied" (upsert.go, connector.go): whatever the interleaving, a
\* record becomes public or proxied only by a create_dns_record.
PublicOnlyByCreate ==
  [][\A i \in Ids : (/\ zone'[i] \in Record /\ zone'[i] # zone[i]
                     /\ zone'[i].proxied \/ zone'[i].content \in Public)
       => \E c \in Calls : pc[c] = "create" /\ req[c].op = "create_dns_record"]_<<pluginVars, pc, req, out, cut, calm, zoneVars>>

\* As long as calls come one at a time, an upsert that succeeded leaves one A
\* record at the name: with the address asked for, not proxied, and the ttl
\* asked for or else the one it had; a retry of one whose answer was lost does
\* not make a second.
UpsertSettles ==
  [][calm' => \A c \in Calls : Upserted(c) =>
       \E i \in Ids :
          LET arg == req[c].arg IN
          /\ {j \in Ids : zone'[j] \in Record} = {i}
          /\ zone'[i].content = arg.content /\ ~zone'[i].proxied
          /\ zone'[i].ttl = IF arg.ttl # 0 THEN arg.ttl
                            ELSE IF zone[i] \in Record THEN zone[i].ttl ELSE 1]_<<pluginVars, pc, req, out, cut, calm, zoneVars>>

\* "So that the plugin's own contract is 'no unacknowledged write'" (writeMode,
\* plugin.go), of zones and records: a call that stands before a request that
\* writes was acknowledged and is no dry run, a dry upsert having read as a real
\* one does; and the zone changes by such a call alone.
Sends(c) == pc[c] \in {"create", "update", "delete", "new"} /\ req[c].op \in ZoneReads \cup ZoneWrites

OnlyAcknowledgedRecords ==
  /\ [](\A c \in Calls : Sends(c) => req[c].op \in ZoneWrites /\ req[c].ack /\ ~req[c].dry)
  /\ [][zone' # zone => \E c \in Calls : Sends(c) /\ pc'[c] # pc[c]]_<<pluginVars, pc, req, out, cut, calm, zoneVars>>

\* "Preview and the real call both build it, so the preview is the call's own
\* plan" (upsert.go): as long as calls come one at a time, an upsert does what a
\* preview of it, of the same zone, said.
DoesWhatWasShown ==
  [][calm' => \A c \in Calls : Upserted(c) =>
       \A s \in shown : s.arg = req[c].arg =>
          s.action = IF pc[c] = "find" THEN "unchanged" ELSE Action(plan[c])]_<<pluginVars, pc, req, out, cut, calm, zoneVars>>

\* The promise of upsert_a_record (connector.go), to leave one unproxied record of
\* a tailnet address, and what it must never do on the way.
UpsertIsSafe == UpsertSettles /\ PublicOnlyByCreate
=============================================================================
