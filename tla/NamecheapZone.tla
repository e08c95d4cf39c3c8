--------------------------- MODULE NamecheapZone ---------------------------
(***************************************************************************)
(* The Namecheap plugin and a domain it administers.  setHosts replaces the *)
(* whole zone and its email routing; a dry run reads the zone and shows the *)
(* difference.  plugin.go, client.go, args.go, dto.go and scrub.go under    *)
(* namecheap/internal/namecheapplugin.                                      *)
(*                                                                         *)
(* A record is a shape (its type, host, value and MX preference) and a ttl, *)
(* 0 in a set that leaves it out; sets of records are bags.  The key travels *)
(* in the URL of every request, so the text of a network error holds it.    *)
(***************************************************************************)
EXTENDS Integers, FiniteSets, Bags

CONSTANTS Calls,    \* slots for operation calls
          Keys,     \* API keys
          NoKey,    \* the empty string
          Shapes,   \* records but for their ttl
          MX,       \* those of type MX or MXE
          Hidden,   \* those getHosts leaves out
          Most,     \* records in a zone, at most
          Asked,    \* the sets callers give, of these
          TTL       \* what Namecheap makes of a ttl left out

\* The bags of records, of these ttls, that a set or a zone may be.
Sets(ttls) == {b \in UNION {[S -> 1..Most] : S \in SUBSET (Shapes \X ttls)} :
                 BagCardinality(b) <= Most}

\* How often e is in the bag b.
Count(b, e) == IF BagIn(e, b) THEN b[e] ELSE 0

IsRecords(b, ttls) == IsABag(b) /\ DOMAIN b \subseteq Shapes \X ttls

EmailTypes == {"MX", "FWD"}        \* of five

\* Arguments: records may be absent, and an email_type unknown.
Given(op) ==
  CASE op = "set_dns_record_set" ->
         [email : EmailTypes \cup {"junk"}, records : Asked, present : BOOLEAN]
    [] op = "set_custom_nameservers" -> [nameservers : 0..2]
    [] OTHER -> {"none"}

ReadOperations == {"list_domains", "get_domain_status", "get_dns_record_set", "list_dns_records"}
writeOperations == {"set_dns_record_set", "set_custom_nameservers"}
refusedTools == {"create_dns_record", "delete_dns_record"}
Operations == ReadOperations \cup writeOperations \cup refusedTools
ZoneRequests == UNION {[op : {o}, arg : Given(o), dry : BOOLEAN, ack : BOOLEAN] : o \in Operations}

VARIABLES process,  \* "up", or how it died: "pulled" or "panicked"
          client,   \* p.backend: the key it holds, or NoKey for nil
          scrub,    \* the key p.scrub removes
          pc,       \* [Calls -> where the call is]
          req,      \* [Calls -> its operation and arguments]
          sent,     \* [Calls -> the key of the client its request went out with]
          zone,     \* the domain: its records and email routing
          out,      \* how a call was answered in the step just taken
          said,     \* the key in the error text of the step just taken
          shown,    \* history: the last preview, while calm and the zone as it was
          cut,      \* history: calls running when the host unloaded
          calm      \* history: so far no call arrived while another ran

pluginVars == <<process, client, scrub>>
callVars == <<pc, req, sent, out, said, cut>>
vars == <<pluginVars, callVars, zone, shown, calm>>

Codes == {"invalid_args", "credential_missing", "unavailable", "uncoded"}
None == [op |-> "none", arg |-> "none", dry |-> FALSE]

Kept(r) == [op |-> r.op, arg |-> r.arg, dry |-> r.dry]
Zones == [records : Sets({TTL}), email : EmailTypes]

TypeOK == /\ process \in {"up", "pulled", "panicked"}
          /\ client \in Keys \cup {NoKey} /\ scrub \in Keys \cup {NoKey}
          /\ pc \in [Calls -> {"idle", "ready", "read", "diff", "set", "servers"}]
          /\ \A c \in Calls : (pc[c] = "idle") = (req[c] = None)
          /\ sent \in [Calls -> Keys \cup {NoKey}]
          /\ IsRecords(zone.records, {TTL}) /\ zone.email \in EmailTypes
          /\ out \in {"none", "ok", "preview"} \cup Codes
          /\ said \in Keys \cup {NoKey}
          /\ \A p \in shown : /\ IsRecords(p.add, {0, TTL}) /\ IsRecords(p.remove, {TTL})
                               /\ p.email \in EmailTypes
          /\ cut \subseteq Calls /\ calm \in BOOLEAN

Init == /\ process = "up" /\ client = NoKey /\ scrub = NoKey
        /\ pc = [c \in Calls |-> "idle"] /\ req = [c \in Calls |-> None]
        /\ sent = [c \in Calls |-> NoKey]
        /\ zone \in Zones
        /\ out = "none" /\ said = NoKey /\ shown = {} /\ cut = {} /\ calm = TRUE

Running == {c \in Calls : pc[c] # "idle"}

-----------------------------------------------------------------------------
(* The host.  It delivers other keys only to a plugin it has unloaded.      *)

LoadOfTheFirst(key) ==             \* mutant: the scrubber of the first Load stays
  IF scrub = NoKey THEN key ELSE scrub

\* Load makes the scrubber anew.
ScrubberOf(key) == key

Load == /\ process = "up"
        /\ \E key \in Keys \cup {NoKey} :
             /\ client \in {NoKey, key}
             /\ client' = key /\ scrub' = ScrubberOf(key)
        /\ out' = "none" /\ said' = NoKey
        /\ UNCHANGED <<process, pc, req, sent, zone, shown, cut, calm>>

Unload == /\ process = "up"
          /\ client' = NoKey /\ cut' = Running
          /\ out' = "none" /\ said' = NoKey
          /\ UNCHANGED <<process, scrub, pc, req, sent, zone, shown, calm>>

-----------------------------------------------------------------------------
(* Arrival.                                                                *)

\* What call() checks first.  A write not acknowledged is an error without a
\* code; of a read, only that it has no dry run is checked.
Gate(r) == CASE r.op \in refusedTools -> "invalid_args"
             [] r.op \in writeOperations /\ ~r.dry /\ ~r.ack -> "uncoded"
             [] r.op \in ReadOperations /\ r.dry -> "invalid_args"
             [] OTHER -> "pass"

\* The records that FWD rules out.
MailOf(records) == {e \in BagToSet(records) : e[1] \in MX}

ValidateEachMode(arg) ==           \* mutant: the records are not looked at
  arg.email \in EmailTypes

\* DNSRecordSet.Validate
Validate(arg) == arg.email \in EmailTypes /\ (arg.email = "FWD" => MailOf(arg.records) = {})

Sound(r) == CASE r.op = "set_dns_record_set" -> r.arg.present /\ Validate(r.arg)
              [] r.op = "set_custom_nameservers" -> r.arg.nameservers >= 2
              [] OTHER -> TRUE

\* The preview of nameservers is the request; that of a record set reads the zone.
ReadsNothing(r) == r.dry /\ r.op = "set_custom_nameservers"

Accepted == {r \in ZoneRequests : Gate(r) = "pass" /\ Sound(r)}

\* An answer to a call that has sent nothing.
Answers(o) == /\ out' = o /\ said' = NoKey
              /\ UNCHANGED <<pluginVars, pc, req, sent, zone, shown, cut>>

Arrives(c) == process = "up" /\ c \notin Running /\ calm' = (calm /\ Running = {})

Refuse(c) == /\ Arrives(c)
             /\ \E o \in {IF Gate(r) = "pass" THEN "invalid_args" ELSE Gate(r) :
                            r \in ZoneRequests \ Accepted} : Answers(o)

Preview(c) == Arrives(c) /\ {r \in Accepted : ReadsNothing(r)} # {} /\ Answers("preview")

NoCredential(c) == /\ Arrives(c) /\ client = NoKey
                   /\ {r \in Accepted : ~ReadsNothing(r)} # {} /\ Answers("credential_missing")

ReadyUnlooked == TRUE              \* mutant: p.backend is not looked at

Ready == client # NoKey

\* The call has passed ready(), and goes on to p.backend.
Begin(c) ==
  /\ Arrives(c) /\ Ready
  /\ \E r \in Accepted : ~ReadsNothing(r) /\ req' = [req EXCEPT ![c] = Kept(r)]
  /\ pc' = [pc EXCEPT ![c] = "ready"]
  /\ shown' = IF calm' THEN shown ELSE {}
  /\ out' = "none" /\ said' = NoKey /\ UNCHANGED <<pluginVars, sent, zone, cut>>

-----------------------------------------------------------------------------
(* Requests.                                                               *)

First(r) == CASE r.op \in ReadOperations -> "read"
              [] r.op = "set_custom_nameservers" -> "servers"
              [] OTHER -> IF r.dry THEN "diff" ELSE "set"

\* p.backend is read again, and the client it was sends the request.
Send(c) ==
  /\ process = "up" /\ pc[c] = "ready" /\ client # NoKey
  /\ pc' = [pc EXCEPT ![c] = First(req[c])] /\ sent' = [sent EXCEPT ![c] = client]
  /\ out' = "none" /\ said' = NoKey /\ UNCHANGED <<pluginVars, req, zone, shown, cut, calm>>

\* It is nil by now: the process and its calls end.
Panics(c) ==
  /\ process = "up" /\ pc[c] = "ready" /\ client = NoKey
  /\ process' = IF c \in cut THEN "pulled" ELSE "panicked"
  /\ pc' = [d \in Calls |-> "idle"] /\ req' = [d \in Calls |-> None]
  /\ sent' = [d \in Calls |-> NoKey]
  /\ out' = "none" /\ said' = NoKey /\ cut' = {} /\ shown' = {}
  /\ UNCHANGED <<client, scrub, zone, calm>>

\* Namecheap answers with an error of the credentials or another, and refuses;
\* or it may have carried the request out: its status is not 200, the answer
\* does not parse or does not confirm, or there is none, of which isUnreachable
\* knows some kinds, and not a connection that ends or a certificate.
Refused == {"credential", "api"}
MayHaveHappened == {"status", "garbled", "unreachable", "broken", "unconfirmed"}

errorCode(f) == CASE f = "credential" -> "credential_missing"
                  [] f = "unreachable" -> "unavailable"
                  [] OTHER -> "uncoded"

\* scrubber.text, by the time the error is there.
Text(key) == IF key = scrub THEN NoKey ELSE key

Returns(c, o, text) ==
  /\ process = "up"
  /\ pc' = [pc EXCEPT ![c] = "idle"] /\ req' = [req EXCEPT ![c] = None]
  /\ sent' = [sent EXCEPT ![c] = NoKey]
  /\ out' = o /\ said' = text /\ cut' = cut \ {c}
  /\ UNCHANGED <<pluginVars, calm>>

\* net/http quotes the URL, and the key in it, if there is no answer; if only its
\* end is missing it does not.
Quoted(c, f) == {NoKey} \cup (IF f \in {"unreachable", "broken"} THEN {sent[c]} ELSE {})

FailsBy(c, failures) ==
  \E f \in failures : \E key \in Quoted(c, f) : Returns(c, errorCode(f), Text(key))
Fails(c) == FailsBy(c, Refused \cup MayHaveHappened) /\ UNCHANGED <<zone, shown>>

\* ListDomains, GetDomainStatus and GetDNSRecordSet for the operations that read.
Read(c) == /\ pc[c] = "read"
           /\ \/ Returns(c, "ok", NoKey) /\ UNCHANGED <<zone, shown>>
              \/ Fails(c)

\* GetDNSRecordSet: of the zone's records, those getHosts returns.
Seen(records) == [e \in {e \in BagToSet(records) : e[1] \notin Hidden} |-> records[e]]

AddUncounted(current, proposed) == \* mutant: a record there once is there twice
  [e \in BagToSet(proposed) \ BagToSet(current) |-> proposed[e]]

\* diffRecordSets counts duplicates.
Add(current, proposed) == proposed (-) current
Remove(current, proposed) == current (-) proposed

\* A dry run of set_dns_record_set; a failed read fails it.
Diff(c) ==
  /\ pc[c] = "diff"
  /\ \/ /\ Returns(c, "preview", NoKey) /\ UNCHANGED zone
        /\ shown' = IF ~calm THEN {}
                    ELSE LET arg == req[c].arg
                             now == Seen(zone.records)
                         IN {[arg |-> arg, add |-> Add(now, arg.records),
                              remove |-> Remove(now, arg.records), email |-> arg.email]}
     \/ Fails(c)

StoredAsGiven(records) == records  \* mutant: a ttl left out stays out

\* What Namecheap stores of a set: a ttl left out is its own.
Stored(records) ==
  LET n(s) == Count(records, <<s, 0>>) + Count(records, <<s, TTL>>)
  IN [e \in {s \in Shapes : n(s) > 0} \X {TTL} |-> n(e[1])]

SetKeepsHidden(arg) ==             \* mutant: what was not seen is sent along
  [records |-> Stored(arg.records) (+) (zone.records (-) Seen(zone.records)), email |-> arg.email]

\* setHosts: every record and the email routing, whatever was there.
SetHosts(arg) == [records |-> Stored(arg.records), email |-> arg.email]

\* A write that would make the zone z.
Writes(c, z) ==
  \/ zone' = z /\ shown' = {} /\ Returns(c, "ok", NoKey)
  \/ zone' = z /\ shown' = {} /\ FailsBy(c, MayHaveHappened)
  \/ Fails(c)

SetDNSRecordSet(c) == pc[c] = "set" /\ Writes(c, SetHosts(req[c].arg))

\* Namecheap may answer that it updated nothing, and the plugin passes it on.
\* The records stay, though nobody may be asking for them any more.
SetCustomNameservers(c) == pc[c] = "servers" /\ Writes(c, zone)

Next == \/ Load \/ Unload
        \/ \E c \in Calls : \/ Refuse(c) \/ Preview(c) \/ NoCredential(c) \/ Begin(c) \/ Send(c)
                            \/ Panics(c) \/ Read(c) \/ Diff(c) \/ SetDNSRecordSet(c)
                            \/ SetCustomNameservers(c)

Spec == Init /\ [][Next]_vars

-----------------------------------------------------------------------------
\* Call c sets the records in this step, and says so.
Replaces(c) == pc[c] = "set" /\ pc'[c] = "idle" /\ out' = "ok"

\* "Replaces every host record and sets email routing; records you omit are
\* deleted" (README.md, connector.go): as long as calls come one at a time, the
\* zone is then the set that was given, what getHosts hid of it before included.
SetIsComplete ==
  [][calm' => \A c \in Calls : Replaces(c) =>
       zone'.records = Stored(req[c].arg.records) /\ zone'.email = req[c].arg.email]_vars

\* RecordSetDiff (dto.go) is "what set_dns_record_set would change, computed
\* against the records getHosts returns now": as long as calls come one at a
\* time, a set that follows its preview, of the same zone, takes away of the
\* records that can be seen those listed and adds those listed, each as often as
\* it was listed.
DiffIsTheChange ==
  [][calm' => \A c \in Calls, s \in shown : Replaces(c) /\ s.arg = req[c].arg =>
       Seen(zone'.records) = Seen(Stored((Seen(zone.records) (-) s.remove) (+) s.add))]_vars

\* "MX records conflict with email_type FWD" (dto.go): no write of the plugin,
\* answered or not, leaves a zone with both.
MailIsNotInConflict ==
  [][zone'.records # zone.records \/ zone'.email # zone.email =>
       ~(zone'.email = "FWD" /\ MailOf(zone'.records) # {})]_vars

\* "The plugin scrubs every error at its boundary, because the API key travels
\* in the query string" (client.go): across reloads, and the changes of key they
\* bring, only a call that was running when the host unloaded says its key.
KeyStaysUnsaid == [][said' # NoKey => \E c \in cut : pc'[c] # pc[c]]_vars

\* Without an Unload under a running call no call reaches a nil backend.
PanicsOnlyUnderUnload == process # "panicked"

\* A zone is what it was set to (client.go), and one whose mail can arrive.
ZoneIsAsGiven == SetIsComplete /\ MailIsNotInConflict

\* Only an Unload under a running call does a call harm (plugin.go): no other
\* makes it reach a nil backend, or say its key.
OnlyUnloadHarms == []PanicsOnlyUnderUnload /\ KeyStaysUnsaid
=============================================================================
