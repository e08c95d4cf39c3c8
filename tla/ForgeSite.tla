----------------------------- MODULE ForgeSite -----------------------------
(***************************************************************************)
(* The Laravel Forge plugin and a site it administers: plugin.go, client.go *)
(* and args.go under forge/internal/forgeplugin.                            *)
(*                                                                         *)
(* The plugin is loaded, with a token or without, and stays so; its Unload, *)
(* Load and scrubber are NamecheapZone's.  Every operation is one request,  *)
(* but for the dry run of deploy_site and of exec_site_command, which make  *)
(* none.  A script is its lines and whether the last of them is ended.      *)
(***************************************************************************)
EXTENDS TextDiff

CONSTANTS Calls,    \* slots for operation calls
          Scripts   \* the scripts there may be, [lines, eol]

Reads == {"list_servers", "get_server", "list_sites", "get_deployment_script"}
writeOperations == {"update_deployment_script", "deploy_site", "exec_site_command"}

\* What is written; a content or a command that is blank counts as none.
Blank == [lines |-> <<>>, eol |-> FALSE]
Nothing == [lines |-> <<"no script">>, eol |-> FALSE]
Command == [lines |-> <<"a command">>, eol |-> FALSE]
Given(op) == CASE op = "update_deployment_script" -> Scripts \cup {Blank}
               [] op = "exec_site_command" -> {Command, Blank}
               [] OTHER -> {Nothing}

\* An id that a call lacks or gives as 0, and one that Forge does not know.
Ids == {"known", "unknown", "missing"}
SiteRequests == UNION {[op : {o}, arg : Given(o), id : Ids, dry : BOOLEAN, ack : BOOLEAN] :
                         o \in Reads \cup writeOperations}

VARIABLES token,   \* p.backend is there
          pc,      \* [Calls -> "idle", or "sent" with its request under way]
          req,     \* [Calls -> its operation and arguments]
          script,  \* the site's deployment script
          ran,     \* what the site was told to run in the step just taken
          out,     \* how a call was answered in that step
          shown,   \* history: the last diff shown, while calm and the script as it was
          calm     \* history: so far no call arrived while another ran

vars == <<token, pc, req, script, ran, out, shown, calm>>

None == [op |-> "none", arg |-> Nothing, id |-> "none", dry |-> FALSE]
Kept(r) == [op |-> r.op, arg |-> r.arg, id |-> r.id, dry |-> r.dry]
Codes == {"invalid_args", "credential_missing", "unavailable", "uncoded"}

TypeOK == /\ token \in BOOLEAN /\ calm \in BOOLEAN
          /\ pc \in [Calls -> {"idle", "sent"}]
          /\ \A c \in Calls : (pc[c] = "idle") = (req[c] = None)
          /\ req \in [Calls -> {Kept(r) : r \in SiteRequests} \cup {None}]
          /\ script \in Scripts
          /\ ran \subseteq Scripts \cup {Command} /\ Cardinality(ran) <= 1
          /\ out \in {"none", "ok", "preview"} \cup Codes
          /\ \A s \in shown : s.diff.changed = (s.content # script)

Init == /\ token \in BOOLEAN /\ script \in Scripts
        /\ pc = [c \in Calls |-> "idle"] /\ req = [c \in Calls |-> None]
        /\ ran = {} /\ out = "none" /\ shown = {} /\ calm = TRUE

Running == {c \in Calls : pc[c] # "idle"}

-----------------------------------------------------------------------------
\* What call() looks at first; a write not acknowledged is an error without a code.
Gate(r) == CASE r.op \in Reads /\ r.dry -> "invalid_args"
             [] r.op \in writeOperations /\ ~r.dry /\ ~r.ack -> "uncoded"
             [] OTHER -> "pass"

BlankToo(r) == r.op = "list_servers" \/ r.id # "missing"  \* mutant: a blank content is one

\* positiveID and requiredRaw.
Sound(r) == /\ r.op = "list_servers" \/ r.id # "missing"
            /\ r.arg # Blank

Accepted == {r \in SiteRequests : Gate(r) = "pass" /\ Sound(r)}

\* The previews that ask Forge nothing.
ReadsNothing(r) == r.dry /\ r.op # "update_deployment_script"

\* What is sent to Forge.
Sent == {Kept(r) : r \in {r \in Accepted : ~ReadsNothing(r)}}

Arrives(c) == c \notin Running /\ calm' = (calm /\ Running = {})

Answer(c) ==
  /\ Arrives(c)
  /\ out' \in {IF Gate(r) = "pass" THEN "invalid_args" ELSE Gate(r) : r \in SiteRequests \ Accepted}
              \cup {"preview"} \cup (IF token THEN {} ELSE {"credential_missing"})
  /\ ran' = {} /\ UNCHANGED <<token, pc, req, script, shown>>

Send(c) ==
  /\ Arrives(c) /\ token
  /\ \E r \in Sent : req' = [req EXCEPT ![c] = r]
  /\ pc' = [pc EXCEPT ![c] = "sent"]
  /\ shown' = IF calm' THEN shown ELSE {}
  /\ ran' = {} /\ out' = "none" /\ UNCHANGED <<token, script>>

\* The request was refused, or it may have been carried out: another status, no
\* answer, or of a command one that does not parse.
Failures(r) == (IF r.id = "unknown" THEN {"404"} ELSE {"401", "status", "unreachable"})
                 \cup (IF r.op = "exec_site_command" THEN {"garbled"} ELSE {})
MayHaveHappened == {"status", "unreachable", "garbled"}

GarbledIsInvalid(f) ==             \* mutant: what does not parse is the caller's fault
  CASE f = "401" -> "credential_missing" [] f = "unreachable" -> "unavailable"
    [] f \in {"404", "garbled"} -> "invalid_args" [] OTHER -> "uncoded"

errorCode(f) == CASE f = "401" -> "credential_missing"
                  [] f = "404" -> "invalid_args"
                  [] f = "unreachable" -> "unavailable"
                  [] OTHER -> "uncoded"

Returns(c, o) == /\ pc[c] = "sent" /\ pc' = [pc EXCEPT ![c] = "idle"]
                 /\ req' = [req EXCEPT ![c] = None]
                 /\ out' = o /\ UNCHANGED <<token, calm>>

FailsBy(c, failures) == \E code \in {errorCode(f) : f \in failures} : Returns(c, code)

Fails(c) == FailsBy(c, Failures(req[c])) /\ ran' = {} /\ UNCHANGED <<script, shown>>

Read(c) == /\ req[c].op \in Reads /\ req[c].id # "unknown"
           /\ Returns(c, "ok") /\ ran' = {} /\ UNCHANGED <<script, shown>>

\* The dry run of an update, of the script there is.
Diff(c) == /\ req[c].op = "update_deployment_script" /\ req[c].dry /\ req[c].id = "known"
           /\ Returns(c, "preview") /\ ran' = {} /\ UNCHANGED script
           /\ shown' = IF calm THEN {[content |-> req[c].arg, diff |-> diffScripts(script, req[c].arg)]}
                       ELSE {}

\* A write: answered, or carried out with an answer that is not known to be one.
Write(c, op) == /\ req[c].op = op /\ ~req[c].dry /\ req[c].id = "known"
                /\ Returns(c, "ok") \/ FailsBy(c, MayHaveHappened \cap Failures(req[c]))

UpdateDeploymentScript(c) == /\ Write(c, "update_deployment_script")
                             /\ script' = req[c].arg /\ shown' = {} /\ ran' = {}

DeploySite(c) == /\ Write(c, "deploy_site")
                 /\ ran' = {script} /\ UNCHANGED <<script, shown>>

ExecuteSiteCommand(c) == /\ Write(c, "exec_site_command")
                         /\ ran' = {req[c].arg} /\ UNCHANGED <<script, shown>>

Next == \E c \in Calls : \/ Answer(c) \/ Send(c) \/ Read(c) \/ Diff(c) \/ Fails(c)
                         \/ UpdateDeploymentScript(c) \/ DeploySite(c) \/ ExecuteSiteCommand(c)

Spec == Init /\ [][Next]_vars

-----------------------------------------------------------------------------
\* "Returns a line diff against the proposed content" (connector.go): as long as
\* calls come one at a time, an update that follows its preview, of the same
\* script, makes of the lines there are those the hunks make of them, changes
\* something if and only if the preview said so, and adds and removes as many
\* lines as it said, the preview that gave up on the lines aside.
UpdateIsTheDiff ==
  [][calm' => \A c \in Calls, s \in shown :
       pc[c] = "sent" /\ pc'[c] = "idle" /\ out' = "ok" /\ ~req[c].dry
         /\ req[c].op = "update_deployment_script" /\ req[c].arg = s.content =>
         /\ s.diff.changed = (script' # script)
         /\ Len(script'.lines) = Len(script.lines) + s.diff.added - s.diff.removed
         /\ ~s.diff.truncated => Patched(script.lines, s.diff.hunks) = script'.lines]_vars

\* The codes of errorCode (plugin.go) tell a caller whether to repeat a call: one
\* answered invalid_args or credential_missing has run nothing on the site and
\* left its script alone, so that nothing is deployed or run twice for it.
RefusedDidNothing ==
  [][out' \in {"invalid_args", "credential_missing"} => ran' = {} /\ script' = script]_vars
=============================================================================
