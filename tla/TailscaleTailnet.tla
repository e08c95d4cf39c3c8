-------------------------- MODULE TailscaleTailnet --------------------------
(***************************************************************************)
(* The Tailscale plugin's control-plane operations: the OAuth token that    *)
(* every request of every call shares, behind a mutex, and what the         *)
(* operations do to a tailnet's keys and devices.  connector.go,            *)
(* declarations.go and api_backend.go under                                 *)
(* tailscale/internal/tailscaleplugin.                                      *)
(*                                                                         *)
(* The plugin is loaded, with an API key, an OAuth client or nothing, and   *)
(* stays so.  Its scrubber and the gap between ready() and the use of       *)
(* p.backend are the ones of CloudflareR2 and CloudflarePlugin.  The local  *)
(* operations (status, up, down, serve) run one command and are left out.   *)
(***************************************************************************)
EXTENDS Integers, FiniteSets

CONSTANTS Calls,          \* slots for operation calls
          KeyIds, Devices, Tags,
          maxListedKeys,
          Unborn, Gone

Device == [authorized : BOOLEAN, tags : SUBSET Tags]

ASSUME TailnetAssumption == /\ maxListedKeys \in Nat \ {0} /\ IsFiniteSet(KeyIds) /\ "free" \notin Calls
                            /\ Unborn # Gone /\ "live" \notin {Unborn, Gone} /\ Gone \notin Device

Reads == {"list_auth_keys", "list_devices", "get_device"}
ackOperations == {"mint_auth_key", "revoke_key", "delete_device", "set_tags", "authorize_device"}

\* Arguments past their shape, the lifetime of a key by where it falls.
Given(op) == CASE op = "mint_auth_key" -> [tags : SUBSET Tags, ttl : {"short", "fits", "long"}]
               [] op = "revoke_key" -> [id : KeyIds]
               [] op = "set_tags" -> [id : Devices, tags : SUBSET Tags]
               [] op \in {"delete_device", "authorize_device", "get_device"} -> [id : Devices]
               [] OTHER -> {"none"}
Requests == UNION {[op : {o}, arg : Given(o), dry : BOOLEAN, ack : BOOLEAN] : o \in Reads \cup ackOperations}

VARIABLES creds,    \* what the backend was built with: "key", "oauth" or "none"
          cached,   \* b.accessToken: "none", "live" before its tokenExpiry, "expired"
          lock,     \* who holds b.mu, or "free"
          pc,       \* [Calls -> where the call is]
          req,      \* [Calls -> its operation and arguments]
          list,     \* [Calls -> keys to read back, those read, and whether that is all]
          keys,     \* the tailnet's keys: [KeyIds -> Unborn, "live" or Gone]
          devices,  \* its devices: [Devices -> Device or Gone]
          out,      \* how a call was answered in the step just taken
          there,    \* history: [Calls -> keys there ever since the call began]
          shown,    \* history: the last preview of a device, while calm and it as it was
          calm      \* history: so far no call arrived while another ran

tailnet == <<keys, devices>>
vars == <<creds, cached, lock, pc, req, list, tailnet, out, there, shown, calm>>

None == [op |-> "none", arg |-> "none", dry |-> FALSE]
Kept(r) == [op |-> r.op, arg |-> r.arg, dry |-> r.dry]
NoList == [todo |-> {}, read |-> {}, all |-> FALSE]
Codes == {"invalid_args", "credential_missing", "unavailable", "uncoded"}

TypeOK == /\ creds \in {"key", "oauth", "none"}
          /\ cached \in {"none", "live", "expired"}
          /\ lock \in Calls \cup {"free"}
          /\ pc \in [Calls -> {"idle", "authorize", "exchange", "send"}]
          /\ \A c \in Calls : (pc[c] = "idle") = (req[c] = None)
          /\ list \in [Calls -> [todo : SUBSET KeyIds, read : SUBSET KeyIds, all : BOOLEAN]]
          /\ \A c \in Calls : Cardinality(list[c].todo \cup list[c].read) <= maxListedKeys
          /\ keys \in [KeyIds -> {Unborn, "live", Gone}]
          /\ devices \in [Devices -> Device \cup {Gone}]
          /\ out \in {"none", "ok", "truncated", "preview"} \cup Codes
          /\ there \in [Calls -> SUBSET KeyIds]
          /\ calm \in BOOLEAN

Init == /\ creds \in {"key", "oauth", "none"} /\ cached = "none" /\ lock = "free"
        /\ pc = [c \in Calls |-> "idle"] /\ req = [c \in Calls |-> None]
        /\ list = [c \in Calls |-> NoList]
        /\ keys \in [KeyIds -> {Unborn, "live"}] /\ devices \in [Devices -> Device]
        /\ out = "none" /\ there = [c \in Calls |-> {}] /\ shown = {} /\ calm = TRUE

Running == {c \in Calls : pc[c] # "idle"}
Live == {k \in KeyIds : keys[k] = "live"}
Present == {d \in Devices : devices[d] # Gone}

-----------------------------------------------------------------------------
(* Arrival.                                                                *)

\* What callAPI looks at first: a read has no dry run; a write not acknowledged
\* is an error without a code.
Gate(r) == CASE r.dry /\ r.op \in Reads -> "invalid_args"
             [] r.op \in ackOperations /\ ~r.dry /\ ~r.ack -> "uncoded"
             [] OTHER -> "pass"

Sound(r) == r.op = "mint_auth_key" => r.arg.tags # {} /\ r.arg.ttl = "fits"

Accepted == {r \in Requests : Gate(r) = "pass" /\ Sound(r)}

Refusals == {IF Gate(r) = "pass" THEN "invalid_args" ELSE Gate(r) : r \in Requests \ Accepted}

\* Only the preview of a mint needs no credential and reads nothing.
ReadsNothing(r) == r.dry /\ r.op = "mint_auth_key"

Begun == {Kept(r) : r \in {r \in Accepted : ~ReadsNothing(r)}}

Arrives(c) == c \notin Running /\ calm' = (calm /\ Running = {})

Answer(c) == /\ Arrives(c)
             /\ out' \in Refusals \cup {"preview"} \cup (IF creds = "none" THEN {"credential_missing"} ELSE {})
             /\ UNCHANGED <<creds, cached, lock, pc, req, list, tailnet, there, shown>>

Begin(c) == /\ Arrives(c) /\ creds # "none"
            /\ \E r \in Begun : req' = [req EXCEPT ![c] = r]
            /\ pc' = [pc EXCEPT ![c] = "authorize"]
            /\ there' = [there EXCEPT ![c] = IF req'[c].op = "list_auth_keys" THEN Live ELSE {}]
            /\ shown' = IF calm' THEN shown ELSE {}
            /\ out' = "none" /\ UNCHANGED <<creds, cached, lock, list, tailnet>>

-----------------------------------------------------------------------------
(* The credential of a request.                                            *)

Goto(c, s) == pc' = [pc EXCEPT ![c] = s] /\ out' = "none" /\ UNCHANGED <<creds, req, calm>>

Return(c, o) == /\ pc' = [pc EXCEPT ![c] = "idle"] /\ req' = [req EXCEPT ![c] = None]
                /\ list' = [list EXCEPT ![c] = NoList]
                /\ there' = [d \in Calls |-> IF d = c THEN {} ELSE there[d] \ {k \in KeyIds : keys'[k] = Gone}]
                /\ out' = o /\ UNCHANGED <<creds, calm>>

AcquireBusy(c) == TRUE             \* mutant: the cache is looked at without b.mu

\* b.mu.Lock
Acquire(c) == lock = "free"

\* oauthToken: the token there is, if it is live.  An API key needs none.
Authorize(c) ==
  /\ pc[c] = "authorize"
  /\ \/ creds = "key" /\ Goto(c, "send") /\ UNCHANGED lock
     \/ /\ creds = "oauth" /\ Acquire(c)
        /\ IF cached = "live" THEN Goto(c, "send") /\ UNCHANGED lock
                              ELSE Goto(c, "exchange") /\ lock' = c
  /\ UNCHANGED <<cached, list, tailnet, there, shown>>

\* What a request comes back with if not an answer to decode: a 400 or a 404, a
\* 401, another status, none at all, one that does not decode.
Failures == {"invalid", "unauthorized", "status", "unreachable", "garbled"}
MayHaveHappened == {"status", "unreachable", "garbled"}

errorCode(f) == CASE f = "unauthorized" -> "credential_missing"
                  [] f = "invalid" -> "invalid_args"
                  [] f = "unreachable" -> "unavailable"
                  [] OTHER -> "uncoded"

\* Of the exchange, a 400 is the credential's fault and a 404 the caller's.
ExchangeCodes == {errorCode(f) : f \in Failures}

LockOfTheFailed(c) == lock         \* mutant: a failed exchange keeps b.mu

\* The deferred Unlock.
Unlock(c) == "free"

\* The exchange, with b.mu held all along.  A token that lives for no longer
\* than 30 seconds is used once and never found live.
Exchange(c) ==
  /\ pc[c] = "exchange"
  /\ UNCHANGED <<tailnet, shown>>
  /\ \/ /\ cached' \in {"live", "expired"} /\ Goto(c, "send")
        /\ lock' = "free" /\ UNCHANGED <<list, there>>
     \/ /\ \E code \in ExchangeCodes : Return(c, code)
        /\ lock' = Unlock(c) /\ UNCHANGED cached

\* Time passes.
Expires == /\ cached = "live" /\ cached' = "expired" /\ out' = "none"
           /\ UNCHANGED <<creds, lock, pc, req, list, tailnet, there, shown, calm>>

-----------------------------------------------------------------------------
(* Requests.                                                               *)

Sends(c, ops, dry) == pc[c] = "send" /\ req[c].op \in ops /\ req[c].dry = dry

Fails(c) == /\ UNCHANGED <<tailnet, shown>>
            /\ \E code \in {errorCode(f) : f \in Failures} : Return(c, code)

\* A write, carried out and answered, carried out only, or neither.
Writes(c, makes) ==
  \/ makes /\ shown' = {} /\ \/ Return(c, "ok")
                             \/ \E code \in {errorCode(f) : f \in MayHaveHappened} : Return(c, code)
  \/ Fails(c)

unlocked == <<cached, lock>>

Read(c) == /\ Sends(c, {"list_devices", "get_device"}, FALSE)
           /\ (UNCHANGED <<tailnet, shown>> /\ Return(c, "ok")) \/ Fails(c)
           /\ UNCHANGED unlocked

\* Created with its value, or without, which is an error that names its id.
CreateAuthKey(c) ==
  /\ Sends(c, {"mint_auth_key"}, FALSE)
  /\ \/ \E k \in KeyIds : keys[k] = Unborn /\ Writes(c, keys' = [keys EXCEPT ![k] = "live"] /\ UNCHANGED devices)
     \/ Fails(c)
  /\ UNCHANGED unlocked

RevokeAuthKey(c) ==
  /\ Sends(c, {"revoke_key"}, FALSE)
  /\ IF req[c].arg.id \in Live
     THEN Writes(c, keys' = [keys EXCEPT ![req[c].arg.id] = Gone] /\ UNCHANGED devices)
     ELSE Fails(c)
  /\ UNCHANGED unlocked

\* What delete_device, authorize_device and set_tags make of a device.
Changed(r, device) == CASE r.op = "delete_device" -> Gone
                        [] r.op = "authorize_device" -> [device EXCEPT !.authorized = TRUE]
                        [] OTHER -> [device EXCEPT !.tags = r.arg.tags]

ChangeDevice(c) ==
  /\ Sends(c, {"delete_device", "authorize_device", "set_tags"}, FALSE)
  /\ LET d == req[c].arg.id
     IN IF d \in Present
        THEN Writes(c, devices' = [devices EXCEPT ![d] = Changed(req[c], devices[d])] /\ UNCHANGED keys)
        ELSE Fails(c)
  /\ UNCHANGED unlocked

EqualSubsets(a, b) == a \subseteq b \* mutant: tags only added go unseen

equalSets(a, b) == a \subseteq b /\ b \subseteq a

\* devicePreview of the device as it was read: what is said of the change.
DevicePreview(r, device) ==
  [req |-> r,
   nothing |-> CASE r.op = "set_tags" -> equalSets(device.tags, r.arg.tags)
                 [] r.op = "authorize_device" -> device.authorized
                 [] OTHER -> FALSE,
   added |-> IF r.op = "set_tags" THEN r.arg.tags \ device.tags ELSE {},
   removed |-> IF r.op = "set_tags" THEN device.tags \ r.arg.tags ELSE {}]

\* The dry runs read what the write would be about; a key that was revoked can
\* still be read, and is previewed with a warning.
Preview(c) ==
  /\ Sends(c, ackOperations, TRUE)
  /\ \/ /\ req[c].op = "revoke_key" /\ keys[req[c].arg.id] # Unborn
        /\ UNCHANGED <<tailnet, shown>> /\ Return(c, "preview")
     \/ /\ req[c].op # "revoke_key" /\ req[c].arg.id \in Present
        /\ UNCHANGED tailnet /\ Return(c, "preview")
        /\ shown' = IF calm THEN {DevicePreview([req[c] EXCEPT !.dry = FALSE], devices[req[c].arg.id])} ELSE {}
     \/ Fails(c)
  /\ UNCHANGED unlocked

CutIsWhole(ids) == TRUE            \* mutant: a list that was cut says nothing of it

\* Whether ids, the most that are read back, are all the keys there are.
Truncated(ids) == ids = Live

Uncapped(ids) == ids = Live        \* mutant: every key is read back

\* The first maxListedKeys there are.
Capped(ids) == Cardinality(ids) = maxListedKeys \/ (ids = Live /\ Cardinality(ids) < maxListedKeys)

\* The ids, of which the first maxListedKeys are read back one request each.
ListKeys(c) ==
  /\ Sends(c, {"list_auth_keys"}, FALSE) /\ list[c] = NoList
  /\ \/ \E ids \in SUBSET Live :
          /\ UNCHANGED <<tailnet, shown>>
          /\ Capped(ids)
          /\ IF ids = {} THEN Return(c, "ok")
             ELSE /\ list' = [list EXCEPT ![c] = [todo |-> ids, read |-> {}, all |-> Truncated(ids)]]
                  /\ Goto(c, "authorize") /\ UNCHANGED there
     \/ Fails(c)
  /\ UNCHANGED unlocked

\* One of them: a failure is the listing's, and a key revoked meanwhile may be
\* answered with or be one.
GetAuthKey(c) ==
  /\ Sends(c, {"list_auth_keys"}, FALSE)
  /\ \/ \E k \in list[c].todo :
          /\ UNCHANGED <<tailnet, shown>>
          /\ IF list[c].todo = {k} THEN Return(c, IF list[c].all THEN "ok" ELSE "truncated")
             ELSE /\ list' = [list EXCEPT ![c].todo = @ \ {k}, ![c].read = @ \cup {k}]
                  /\ Goto(c, "authorize") /\ UNCHANGED there
     \/ list[c].todo # {} /\ Fails(c)
  /\ UNCHANGED unlocked

Step(c) == \/ Authorize(c) \/ Exchange(c) \/ Read(c) \/ CreateAuthKey(c) \/ RevokeAuthKey(c)
           \/ ChangeDevice(c) \/ Preview(c) \/ ListKeys(c) \/ GetAuthKey(c)

Next == Expires \/ \E c \in Calls : Answer(c) \/ Begin(c) \/ Step(c)

Spec == Init /\ [][Next]_vars

\* Every request ends, for the HTTP client gives it 30 seconds; and a mutex that
\* is free again and again is got, for waiters queue for it.
Fairness == \A c \in Calls : WF_vars(pc[c] # "authorize" /\ Step(c)) /\ SF_vars(Authorize(c))

-----------------------------------------------------------------------------
\* "Exchanged for a short-lived bearer token, cached until shortly before it
\* expires" (api_backend.go): calls that meet make one exchange, never one each,
\* and none while the token they share is live.
ExchangesOnlyWhenNeeded ==
  \A c \in Calls : pc[c] = "exchange" => /\ creds = "oauth" /\ cached # "live"
                                         /\ \A d \in Calls \ {c} : pc[d] # "exchange"

\* A listing that does not say truncated has read every key there was from its
\* first request to its last, however long it took and whatever came and went.
ListIsWhole ==
  [][out' = "ok" => \A c \in Calls : req[c].op = "list_auth_keys" /\ pc'[c] = "idle" =>
       there[c] \subseteq list[c].read \cup list[c].todo]_vars

\* Call c carries out the write that p previewed, and says so.
DoesAsShown(c, p) == /\ req[c] = p.req /\ pc[c] = "send" /\ pc'[c] = "idle" /\ out' = "ok"

\* A change of tags adds and removes what its preview said, a change the preview
\* said would change nothing changes nothing, and one of which it did not say so
\* changes the device, as long as calls come one at a time and the device is as
\* it was previewed.
DeviceChangeAsShown ==
  [][\A c \in Calls, p \in shown : DoesAsShown(c, p) =>
       LET d == p.req.arg.id
       IN /\ p.nothing <=> UNCHANGED devices
          /\ p.req.op = "set_tags" =>
               devices'[d].tags = (devices[d].tags \ p.removed) \cup p.added]_vars

\* Every call is answered, also behind another's exchange that fails.
EveryCallAnswered == \A c \in Calls : pc[c] # "idle" ~> pc[c] = "idle"
=============================================================================
