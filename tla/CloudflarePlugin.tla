-------------------------- MODULE CloudflarePlugin --------------------------
(***************************************************************************)
(* The Cloudflare plugin around its operations: Load and Unload, the write  *)
(* gate, the code an error is given, and what a request can come back with. *)
(* plugin.go, args.go and api_backend.go under                              *)
(* cloudflare/internal/cloudflareplugin.  CloudflareDNS and CloudflareR2    *)
(* extend it with the operations; the scrubber is in CloudflareR2, where    *)
(* there are secrets to learn.                                              *)
(*                                                                         *)
(* The plugin locks its scrubber and nothing else.  A step is one read of   *)
(* p.backend with the request it sends and the answer, or one call of the   *)
(* host.  Calls are slots, used one call after another.                     *)
(***************************************************************************)
CONSTANTS Calls,    \* slots for operation calls
          Tokens,   \* API tokens
          NoToken,  \* the empty string
          Unborn,   \* what a record or a key is before it is made,
          Gone      \* and after it is deleted

ASSUME CloudflareAssumption == NoToken \notin Tokens /\ Unborn # Gone

VARIABLES
  process,  \* "up", or how it died: a nil backend was called by a call the
            \* host had unloaded under ("pulled"), or by another ("panicked")
  backend,  \* p.backend: the token it was built with, or NoToken for nil
  pc,       \* [Calls -> where the call is]
  req,      \* [Calls -> its operation and arguments, while it runs]
  out,      \* how a call was answered in the step just taken
  cut,      \* history: calls running when the host unloaded
  calm      \* history: so far no call arrived while another ran

pluginVars == <<process, backend>>

Codes == {"invalid_args", "credential_missing", "unavailable", "uncoded"}

PluginTypeOK == /\ process \in {"up", "pulled", "panicked"}
                /\ backend \in Tokens \cup {NoToken}
                /\ out \in {"none", "ok", "preview"} \cup Codes
                /\ cut \subseteq Calls
                /\ calm \in BOOLEAN

None == [op |-> "none", arg |-> "none", dry |-> FALSE, ack |-> FALSE]

PluginInit == /\ process = "up" /\ backend = NoToken
              /\ pc = [c \in Calls |-> "idle"] /\ req = [c \in Calls |-> None] /\ out = "none"
              /\ cut = {} /\ calm = TRUE

Running == {c \in Calls : pc[c] # "idle"}

-----------------------------------------------------------------------------
(* The host.                                                               *)

\* What token() finds in the config of the last Init, or in the environment.
Offered == Tokens \cup {NoToken}

\* Load with that token builds a backend only if there is none.
LoadWith(token) == /\ process = "up"
                   /\ backend' = IF backend = NoToken THEN token ELSE backend
                   /\ out' = "none"
                   /\ UNCHANGED <<process, pc, req, cut, calm>>

Unload == /\ process = "up"
          /\ backend' = NoToken
          /\ cut' = Running
          /\ out' = "none"
          /\ UNCHANGED <<process, pc, req, calm>>

-----------------------------------------------------------------------------
(* The gate.                                                               *)

\* The shapes dry_run arrives in: no value, a bool or a text for true, neither.
Forms == {"absent", "true", "junk"}

WriteOperationsButOne ==           \* mutant: delete_dns_record is not on the list
  {"upsert_a_record", "create_r2_credential", "revoke_r2_credential", "create_r2_bucket",
   "delete_r2_bucket", "create_zone", "create_dns_record"}

\* The one list of operations that change Cloudflare.
WriteOperations == {"upsert_a_record", "create_r2_credential", "revoke_r2_credential",
                    "create_r2_bucket", "delete_r2_bucket", "create_zone",
                    "create_dns_record", "delete_dns_record"}

Dry(r) == r.dry = "true"

\* A junk dry_run is a problem wherever problems are looked at, which is
\* everywhere but in list_zones.
Junk(r) == r.dry = "junk" /\ r.op # "list_zones"

WriteModeUngated(r) ==             \* mutant: a write needs no acknowledgment
  ~Junk(r) /\ (r.op \in WriteOperations \/ ~Dry(r))

\* A write runs dry or acknowledged; a read has no dry run.
WriteMode(r) == /\ ~Junk(r)
                /\ IF r.op \in WriteOperations THEN Dry(r) \/ r.ack ELSE ~Dry(r)

\* What is kept of a call that goes on to the backend.
Kept(r) == [r EXCEPT !.dry = Dry(r), !.ack = r.ack /\ r.op \in WriteOperations /\ ~Dry(r)]

\* A call arrives in slot c, and is answered, the way o, if requests has any.
Asks(c) == /\ process = "up" /\ c \notin Running
           /\ calm' = (calm /\ Running = {})
           /\ UNCHANGED pluginVars

Answered(c, requests, o) == /\ Asks(c) /\ requests # {} /\ out' = o
                            /\ UNCHANGED <<pc, req, cut>>

Refuse(c, requests) == Answered(c, requests, "invalid_args")

\* Without a credential the previews are the request alone.
Preview(c, requests) == Answered(c, requests, "preview")

\* ready() finds no backend.
NoCredential(c, requests) == backend = NoToken /\ Answered(c, requests, "credential_missing")

BeginUnready(c, r, s) ==           \* mutant: neither ready() nor the previews' check
  /\ Asks(c) /\ out' = "none"
  /\ req' = [req EXCEPT ![c] = r] /\ pc' = [pc EXCEPT ![c] = s]
  /\ UNCHANGED cut

\* ready() finds one, or a preview does; the call goes on to s.
Begin(c, r, s) ==
  /\ Asks(c) /\ backend # NoToken /\ out' = "none"
  /\ req' = [req EXCEPT ![c] = r] /\ pc' = [pc EXCEPT ![c] = s]
  /\ UNCHANGED cut

-----------------------------------------------------------------------------
(* Requests.                                                               *)

still == <<pluginVars, calm>>

Goto(c, s) == pc' = [pc EXCEPT ![c] = s] /\ out' = "none" /\ UNCHANGED <<req, cut, still>>

Answers(c, o) == /\ pc' = [pc EXCEPT ![c] = "idle"] /\ req' = [req EXCEPT ![c] = None]
                 /\ out' = o /\ cut' = cut \ {c}
                 /\ UNCHANGED still

At(c, s) == process = "up" /\ pc[c] = s /\ backend # NoToken

\* A method called on a nil p.backend: the process and all its calls end.
Panics(c) == /\ process = "up" /\ c \in Running /\ backend = NoToken
             /\ process' = IF c \in cut THEN "pulled" ELSE "panicked"
             /\ pc' = [d \in Calls |-> "idle"] /\ req' = [d \in Calls |-> None] /\ out' = "none" /\ cut' = {}
             /\ UNCHANGED <<backend, calm>>

\* What apiBackend.do makes of a request that gave nothing to decode: a 400 or
\* a 404, a 401, any other status or a success of false, no answer at all, and
\* an answer that does not decode.
Failures == {"invalid", "unauthorized", "status", "unreachable", "garbled"}

\* Those after which Cloudflare may have done what it was asked.
MayHaveHappened == {"status", "unreachable", "garbled"}

ApiCodeOfAnswered(f) ==            \* mutant: what did not succeed was refused
  IF f = "unreachable" THEN "unavailable" ELSE "invalid_args"

\* errorCode on an error of ours.
ApiCode(f) == CASE f = "unauthorized" -> "credential_missing"
                [] f = "invalid" -> "invalid_args"
                [] f = "unreachable" -> "unavailable"
                [] OTHER -> "uncoded"

\* errorCode on an error of the SDK, whose statuses it does not know.
SdkCode(f) == IF f = "unreachable" THEN "unavailable" ELSE "uncoded"

-----------------------------------------------------------------------------
\* ready() and the previews' own checks stand before every use of p.backend:
\* without an Unload under a running call, no call reaches a nil backend.
PanicsOnlyUnderUnload == process # "panicked"

\* What an error code and a preview promise the caller who decides whether to
\* repeat the call: the call changed nothing at Cloudflare.
Refusals == {"invalid_args", "credential_missing", "preview"}
=============================================================================
