---------------------------- MODULE DigitalOcean ----------------------------
(***************************************************************************)
(* The DigitalOcean plugin's lifecycle, its write gate, its operation       *)
(* telemetry, and the writes of more than one request: update_firewall      *)
(* (read, overlay, full replace) and create_droplet (create, look up), with *)
(* the firewall operations they meet.  plugin.go, ops_firewalls.go,         *)
(* sdk_firewalls.go, sdk_backend.go and telemetry.go under                  *)
(* digitalocean/internal/digitaloceanplugin.                                *)
(*                                                                         *)
(* The plugin holds no lock.  A step is one read of p.backend with the      *)
(* request it sends and the answer it gets, or one call of the host.  A     *)
(* firewall is a function from its fields to sets of items: rule lists,     *)
(* tags and attached droplets; the name is one more field.                  *)
(***************************************************************************)
EXTENDS FiniteSets

CONSTANTS Calls,    \* operation calls
          Tokens,   \* API tokens
          Ids,      \* firewall ids
          Fields,   \* fields of a firewall
          Items,    \* what a field may list
          Forms,    \* the shapes dry_run arrives in
          NoToken, Unborn, Gone

GivenOf(S) == UNION {[F -> SUBSET Items] : F \in SUBSET S}
Given == GivenOf(Fields)
Firewall == [Fields -> SUBSET Items]
Ops == {"create_firewall", "update_firewall", "delete_firewall", "assign_firewall_droplets",
        "unassign_firewall_droplets", "create_droplet"}
Request == [op : Ops, id : Ids, given : Given, dry : Forms, ack : BOOLEAN]

\* The fields an operation's input schema has.
Takes(op) == IF op \in {"create_firewall", "update_firewall"} THEN Fields
             ELSE IF op \in {"delete_firewall", "create_droplet"} THEN {}
             ELSE {"droplet_ids"}
Requests == UNION {[op : {op}, id : Ids, given : GivenOf(Takes(op)), dry : Forms, ack : BOOLEAN] :
                     op \in Ops}

ASSUME ConstantsAssumption ==
  /\ "droplet_ids" \in Fields /\ Ids # {} /\ Forms # {}
  /\ NoToken \notin Tokens
  /\ Unborn \notin Firewall /\ Gone \notin Firewall /\ Unborn # Gone
  /\ Forms \subseteq {"absent", "bool", "text", "junk"}

VARIABLES
  config,   \* the token in the init config or the environment, or NoToken
  backend,  \* p.backend: the token it was built with, or NoToken for nil
  alive,    \* FALSE once a nil backend was called
  fw,       \* DigitalOcean's firewalls
  made,     \* calls a droplet was created for
  pc,       \* [Calls -> where the call is]
  req,      \* [Calls -> its request]
  current,  \* [Calls -> the firewall updateFirewall read]
  out,      \* [Calls -> how it was answered]
  event,    \* [Calls -> the telemetry event attached to its answer]
  did,      \* history: calls whose write DigitalOcean carried out
  lost,     \* history: those whose answer did not arrive
  worded,   \* history: calls answered a preview whose dry_run came as text
  cut,      \* history: calls running when the host unloaded
  calm      \* history: so far no call arrived while another ran

cloud == <<fw, made, did, lost>>
plugin == <<config, backend, alive>>
vars == <<config, backend, alive, fw, made, pc, req, current, out, event, did, lost, worded, cut, calm>>

Stages == {"idle", "get", "send", "lookup", "returned"}
Outs == {"none", "refused", "credential_missing", "preview", "ok", "reference", "error"}

TypeOK == /\ config \in Tokens \cup {NoToken}
          /\ backend \in Tokens \cup {NoToken}
          /\ alive \in BOOLEAN
          /\ fw \in [Ids -> Firewall \cup {Unborn, Gone}]
          /\ made \subseteq Calls
          /\ pc \in [Calls -> Stages]
          /\ req \in [Calls -> Request]
          /\ current \in [Calls -> Firewall]
          /\ out \in [Calls -> Outs]
          /\ event \in [Calls -> {"none", "change", "preview"}]
          /\ did \subseteq Calls /\ lost \subseteq Calls
          /\ worded \subseteq Calls /\ cut \subseteq Calls
          /\ calm \in BOOLEAN

Blank == [f \in Fields |-> {}]
NoRequest == CHOOSE r \in Requests : TRUE

Init == /\ config = NoToken /\ backend = NoToken /\ alive = TRUE
        /\ fw \in [Ids -> Firewall \cup {Unborn}]
        /\ made = {} /\ did = {} /\ lost = {} /\ worded = {} /\ cut = {} /\ calm = TRUE
        /\ pc = [c \in Calls |-> "idle"]
        /\ req = [c \in Calls |-> NoRequest]
        /\ current = [c \in Calls |-> Blank]
        /\ out = [c \in Calls |-> "none"]
        /\ event = [c \in Calls |-> "none"]

Running == {c \in Calls : pc[c] \in {"get", "send", "lookup"}}

-----------------------------------------------------------------------------
(* The host: Init, Load, Unload.                                           *)

Configure == /\ alive
             /\ config' \in Tokens \cup {NoToken}
             /\ UNCHANGED <<backend, alive, pc, req, current, out, event, worded, cut, calm, cloud>>

\* Load builds a backend if it has a token and no backend yet.
Load == /\ alive
        /\ backend = NoToken /\ config # NoToken
        /\ backend' = config
        /\ UNCHANGED <<config, alive, pc, req, current, out, event, worded, cut, calm, cloud>>

Unload == /\ alive
          /\ backend' = NoToken
          /\ cut' = cut \cup Running
          /\ UNCHANGED <<config, alive, pc, req, current, out, event, worded, calm, cloud>>

-----------------------------------------------------------------------------
(* The gate: writeMode, the handler's argument checks, the preview, ready. *)

\* args.boolean: a bool, or text such as "true", "1" or "yes".
Dry(r) == r.dry \in {"bool", "text"}

\* The arguments a handler accepts.
Sound(r) ==
  /\ r.dry # "junk"
  /\ r.op = "update_firewall" => DOMAIN r.given # {}
  /\ r.op \in {"assign_firewall_droplets", "unassign_firewall_droplets"} =>
       "droplet_ids" \in DOMAIN r.given /\ r.given["droplet_ids"] # {}

Accepted(r) == Sound(r) /\ (Dry(r) \/ r.ack)

EventOfGiven(r) ==                 \* mutant: whatever came as no bool is a preview
  IF r.dry = "absent" THEN "preview" ELSE "change"

EventOfAny(r) == "change"          \* mutant: nobody asks whether it was a dry run

\* withOperationTelemetry looks at the raw argument, and takes a bool only.
EventOf(r) == IF r.dry = "bool" THEN "preview" ELSE "change"

Answers(c, r, o) ==
  /\ pc' = [pc EXCEPT ![c] = "returned"]
  /\ out' = [out EXCEPT ![c] = o]
  /\ event' = [event EXCEPT ![c] = IF o \in {"preview", "ok", "reference"}
                                   THEN EventOf(r) ELSE "none"]
  /\ worded' = IF o = "preview" /\ r.dry = "text" THEN worded \cup {c} ELSE worded

\* A call that ran returns, and its locals go.
Return(c, o) == /\ Answers(c, req[c], o)
                /\ req' = [req EXCEPT ![c] = NoRequest]
                /\ current' = [current EXCEPT ![c] = Blank]

Goto(c, s) == pc' = [pc EXCEPT ![c] = s] /\ UNCHANGED <<out, event, worded>>

\* A call arrives.
Asks(c) == alive /\ pc[c] = "idle" /\ UNCHANGED <<current, cut, plugin, cloud>>

Refuse(c, r) == Asks(c) /\ ~Accepted(r) /\ Answers(c, r, "refused") /\ UNCHANGED req

Preview(c, r) == Asks(c) /\ Accepted(r) /\ Dry(r) /\ Answers(c, r, "preview") /\ UNCHANGED req

NoCredential(c, r) ==
  /\ Asks(c) /\ Accepted(r) /\ ~Dry(r)
  /\ backend = NoToken
  /\ Answers(c, r, "credential_missing") /\ UNCHANGED req

First(r) == IF r.op = "update_firewall" THEN "get" ELSE "send"

BeginUnready(c, r) ==              \* mutant: no ready() before the backend
  /\ Asks(c) /\ Accepted(r) /\ ~Dry(r)
  /\ req' = [req EXCEPT ![c] = r]
  /\ Goto(c, First(r))

Begin(c, r) ==
  /\ Asks(c) /\ Accepted(r) /\ ~Dry(r)
  /\ req' = [req EXCEPT ![c] = r]
  /\ backend # NoToken
  /\ Goto(c, First(r))

-----------------------------------------------------------------------------
(* The requests.                                                           *)

At(c, s) == alive /\ pc[c] = s /\ backend # NoToken

\* A method call on a nil p.backend.
Panic(c) == /\ alive /\ c \in Running /\ backend = NoToken
            /\ alive' = FALSE
            /\ UNCHANGED <<config, backend, pc, req, current, out, event, worded, cut, calm, cloud>>

\* GetFirewall in updateFirewall.
Read(c) ==
  /\ At(c, "get")
  /\ \/ /\ fw[req[c].id] \in Firewall
        /\ current' = [current EXCEPT ![c] = fw[req[c].id]]
        /\ Goto(c, "send") /\ UNCHANGED req
     \/ Return(c, "error")
  /\ UNCHANGED <<cut, plugin, cloud>>

\* The write was carried out; its answer arrives or is lost.
Done(c) == /\ did' = did \cup {c}
           /\ \/ Return(c, "ok") /\ UNCHANGED lost
              \/ Return(c, "error") /\ lost' = lost \cup {c}
           /\ UNCHANGED <<cut, plugin>>

Fails(c) == /\ At(c, "send")
            /\ Return(c, "error")
            /\ UNCHANGED <<cut, plugin, cloud>>

OverlayOnBlank(w, given) ==        \* mutant: the update sends only what was given
  [f \in Fields |-> IF f \in DOMAIN given THEN given[f] ELSE {}]

OverlayPartial(w, given) ==        \* mutant: a null list for what was not given
  [f \in DOMAIN given |-> given[f]]

\* spec: what was read, with what was given over it.
Overlay(w, given) == [f \in Fields |-> IF f \in DOMAIN given THEN given[f] ELSE w[f]]

CreateFirewall(c) ==
  /\ At(c, "send") /\ req[c].op = "create_firewall"
  /\ \E i \in Ids : fw[i] = Unborn /\ fw' = [fw EXCEPT ![i] = Overlay(Blank, req[c].given)]
  /\ Done(c) /\ UNCHANGED made

\* The request's firewall exists, and becomes w.
Becomes(c, w) == /\ fw[req[c].id] \in Firewall
                 /\ fw' = [fw EXCEPT ![req[c].id] = w]
                 /\ Done(c) /\ UNCHANGED made

UpdateFirewall(c) ==
  /\ At(c, "send") /\ req[c].op = "update_firewall"
  /\ Becomes(c, Overlay(current[c], req[c].given))

DeleteFirewall(c) ==
  /\ At(c, "send") /\ req[c].op = "delete_firewall"
  /\ Becomes(c, Gone)

AddFirewallDroplets(c) ==
  /\ At(c, "send") /\ req[c].op = "assign_firewall_droplets"
  /\ LET w == fw[req[c].id] IN
     Becomes(c, [w EXCEPT !["droplet_ids"] = @ \cup req[c].given["droplet_ids"]])

RemoveFirewallDroplets(c) ==
  /\ At(c, "send") /\ req[c].op = "unassign_firewall_droplets"
  /\ LET w == fw[req[c].id] IN
     Becomes(c, [w EXCEPT !["droplet_ids"] = @ \ req[c].given["droplet_ids"]])

\* CreateDroplet: with its id, the droplet is looked up; without, it is an error.
CreateDroplet(c) ==
  /\ At(c, "send") /\ req[c].op = "create_droplet"
  /\ made' = made \cup {c} /\ did' = did \cup {c}
  /\ \/ Goto(c, "lookup") /\ UNCHANGED <<req, current, lost>>
     \/ Return(c, "error") /\ lost' = lost \cup {c}
  /\ UNCHANGED <<fw, cut, plugin>>

LookUpOrFail(c) ==                 \* mutant: a failed look-up fails the call
  /\ At(c, "lookup")
  /\ Return(c, "ok") \/ Return(c, "error")
  /\ UNCHANGED <<cut, plugin, cloud>>

\* "Created, billable, and not to be retried: report the id."
LookUp(c) ==
  /\ At(c, "lookup")
  /\ Return(c, "ok") \/ Return(c, "reference")
  /\ UNCHANGED <<cut, plugin, cloud>>

Start(c) == /\ \E r \in Requests : Refuse(c, r) \/ Preview(c, r) \/ NoCredential(c, r) \/ Begin(c, r)
            /\ calm' = (calm /\ Running = {})

Requested(c) ==
  \/ Read(c) \/ Fails(c) \/ CreateFirewall(c) \/ UpdateFirewall(c) \/ DeleteFirewall(c)
  \/ AddFirewallDroplets(c) \/ RemoveFirewallDroplets(c) \/ CreateDroplet(c) \/ LookUp(c)

Step(c) == Panic(c) \/ (Requested(c) /\ UNCHANGED calm)

Next == Configure \/ Load \/ Unload \/ \E c \in Calls : Start(c) \/ Step(c)

Spec == Init /\ [][Next]_vars

-----------------------------------------------------------------------------
\* The three places that call p.backend are guarded by ready(): without an
\* Unload under a running call, no call reaches a nil backend.
PanicsOnlyUnderUnload == alive \/ \E c \in Running : c \in cut

\* The answer tells what happened: ok means DigitalOcean carried the write
\* out, and an error means it did not, unless its answer was lost.  A droplet
\* that was created is reported even if the look-up after it fails.
AnswerIsTrue ==
  \A c \in Calls : /\ out[c] \in {"ok", "reference"} => c \in did
                   /\ out[c] \in {"error", "preview", "refused", "credential_missing"} =>
                        c \notin did \ lost

\* "a change, or a preview when it was a dry run" (telemetry.go): every write that
\* was carried out and answered is reported as a change, only what changed nothing
\* is reported as a preview, and a preview is, unless its dry_run came as text:
\* the code reports such a preview as a change, against that sentence.
TelemetryIsTrue ==
  \A c \in Calls : /\ out[c] \in {"ok", "reference"} => event[c] = "change"
                   /\ event[c] = "preview" => out[c] = "preview" /\ c \notin did
                   /\ out[c] = "preview" /\ c \notin worded => event[c] = "preview"

\* What a call reports, to its caller and to the host's telemetry, happened; and
\* only an Unload under it keeps it from reporting at all.
ReportIsTrue == AnswerIsTrue /\ TelemetryIsTrue /\ PanicsOnlyUnderUnload

\* How a call looks to the caller.
Answer == [c \in Calls |-> IF out[c] \in {"ok", "reference"} \/ pc[c] = "lookup" THEN "ok"
                           ELSE IF out[c] = "error" THEN "error"
                           ELSE IF c \in Running THEN "sent"
                           ELSE "none"]

Store == INSTANCE Inventory WITH asked <- req, answer <- Answer

\* "Only the arguments given change: omitted name, rules, droplet_ids and tags
\* are kept as they are" (update_firewall's description, ops_firewalls.go), and
\* the like for the other writes: as long as calls come one at a time, each
\* takes effect at one moment, on exactly what it was given, and only when
\* acknowledged.
IsInventory == Store!Init /\ [][calm' => Store!Next]_<<fw, made, req, Answer>>
=============================================================================
