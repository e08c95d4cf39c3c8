---------------------------- MODULE VercelDeploy ----------------------------
(***************************************************************************)
(* The Vercel plugin: a deploy computes its steps from the operator's       *)
(* profile and checkout, and runs them one after another in that checkout.  *)
(* plugin.go, deploy.go, profiles.go, dto.go and scrub.go under             *)
(* vercel/internal/vercelplugin.                                            *)
(*                                                                         *)
(* There is one profile and one checkout.  The operator's own commands in   *)
(* preflight and build write nothing into the checkout but the build.  Of   *)
(* what a deploy prints only the lines with a URL are there, and of those   *)
(* whether they mention production and which URLs they hold.                *)
(***************************************************************************)
EXTENDS Integers, Sequences, FiniteSetsExt

CONSTANTS Calls,     \* slots for operation calls
          Tokens, NoToken,
          Profiles,  \* what the profiles file may hold, of Profile
          NoFile,    \* it cannot be read, or not as profiles
          Trees,     \* what the checkout may hold
          Unbuilt,   \* no build or half of one, and no commit
          Outputs    \* what a deploy may print, sequences of Line

Profile == [provider : {"", "vercel", "other"}, dir : BOOLEAN,
            commands : SUBSET {"preflight", "build"}, project : BOOLEAN]
URLs == {"deployment", "dashboard"}
Line == [production : BOOLEAN, urls : {<<>>} \cup {<<u>> : u \in URLs} \cup (URLs \X URLs)]

VARIABLES loaded,   \* between Load and Unload
          token,    \* the token delivered, which p.scrub removes
          file,     \* the profiles file
          linked,   \* .vercel/project.json is there
          head,     \* the commit checked out
          tree,     \* the working tree
          built,    \* what the build in it was made of
          deployed, \* what the step just taken put into production, if anything
          pc,       \* [Calls -> where the call is]
          plan,     \* [Calls -> its steps, those left, and (history) what a preview like it was of]
          out,      \* how a deploy or its dry run ended in the step just taken
          said,     \* the token in the text of its answer
          printed,  \* what the deploy of the step just taken printed
          url,      \* the deployment URL found in it
          cut,      \* history: calls running when the host unloaded
          disturbed,\* history: calls running while another changed files or build
          shown     \* history: the last preview and the tree it was of, till a run
                    \* follows it or the host unloads; if git answered, and nobody
                    \* changed files while it was made

machine == <<file, head, tree>>
hostVars == <<loaded, token>>
answer == <<out, said, deployed, printed, url>>
vars == <<hostVars, machine, linked, built, pc, plan, answer, cut, disturbed, shown>>

Steps == {"preflight", "build", "link", "deploy"}
NoPlan == [steps |-> {}, left |-> {}, dry |-> FALSE, profile |-> NoFile, token |-> NoToken,
           asShown |-> {}]

TypeOK == /\ loaded \in BOOLEAN /\ token \in Tokens \cup {NoToken}
          /\ file \in Profiles \cup {NoFile} /\ linked \in BOOLEAN
          /\ {head, tree} \subseteq Trees /\ built \in Trees \cup {Unbuilt}
          /\ deployed \subseteq [tree : Trees, built : Trees \cup {Unbuilt}, linked : BOOLEAN]
          /\ pc \in [Calls -> {"idle", "git", "run"}]
          /\ \A c \in Calls : /\ plan[c].left \subseteq plan[c].steps /\ plan[c].steps \subseteq Steps
                              /\ pc[c] = "run" => "deploy" \in plan[c].left /\ ~plan[c].dry
          /\ out \in {"none", "ok", "preview", "failed"}
          /\ said \in Tokens \cup {NoToken} /\ url \in URLs \cup {"none"}
          /\ cut \cup disturbed \subseteq Calls

Init == /\ loaded = FALSE /\ token = NoToken
        /\ file \in Profiles \cup {NoFile} /\ linked \in BOOLEAN
        /\ head \in Trees /\ tree \in Trees /\ built \in Trees \cup {Unbuilt}
        /\ pc = [c \in Calls |-> "idle"] /\ plan = [c \in Calls |-> NoPlan]
        /\ out = "none" /\ said = NoToken /\ deployed = {} /\ printed = <<>> /\ url = "none"
        /\ cut = {} /\ disturbed = {} /\ shown = {}

Running == {c \in Calls : pc[c] # "idle"}
\* An answer that says no token and puts nothing into production.
Says(o) == out' = o /\ said' = NoToken /\ deployed' = {} /\ printed' = <<>> /\ url' = "none"
Silent == Says("none")

-----------------------------------------------------------------------------
(* The host and the operator.                                              *)

\* Init and Load: other secrets come only to a plugin that was unloaded.
Load == /\ ~loaded /\ loaded' = TRUE
        /\ token' \in Tokens \cup {NoToken}
        /\ Silent /\ UNCHANGED <<machine, linked, built, pc, plan, cut, disturbed, shown>>

\* Unload itself does nothing.
Unload == /\ loaded /\ loaded' = FALSE /\ cut' = Running /\ shown' = {}
          /\ Silent /\ UNCHANGED <<token, machine, linked, built, pc, plan, disturbed>>

\* The operator edits the profile, changes the working tree or commits it.
Edit == /\ \/ file' \in (Profiles \cup {NoFile}) \ {file} /\ UNCHANGED <<head, tree>>
           \/ tree' \in Trees \ {tree} /\ UNCHANGED <<file, head>>
           \/ head # tree /\ head' = tree /\ UNCHANGED <<file, tree>>
        /\ disturbed' = Running
        /\ Silent /\ UNCHANGED <<hostVars, linked, built, pc, plan, cut, shown>>

-----------------------------------------------------------------------------
(* Arrival.                                                                *)

Arrives(c) == loaded /\ c \notin Running

\* A read asked to be dry, a deploy that is neither dry nor acknowledged, no
\* profile named, none of that name, none that can be planned, no token.  The
\* code of the refusal is left out.
Refuse(c) == /\ Arrives(c) /\ Silent
             /\ UNCHANGED <<hostVars, machine, linked, built, pc, plan, cut, disturbed, shown>>

\* status, and list_profiles, which needs no token.
Read(c) == /\ Arrives(c) /\ (token # NoToken \/ file # NoFile)
           /\ Silent
           /\ UNCHANGED <<hostVars, machine, linked, built, pc, plan, cut, disturbed, shown>>

\* What planDeploy refuses, but for a CLI it does not find to link with, which is
\* looked for anew by each call.
Plannable(profile) == /\ profile.provider # "other" /\ profile.dir
                      /\ linked \/ profile.project

\* The steps of a plan.
StepsOf(profile) == profile.commands \cup {"deploy"} \cup (IF linked THEN {} ELSE {"link"})

\* planDeploy, for a dry run or a run.
PlanDeploy(c) ==
  /\ Arrives(c) /\ token # NoToken /\ file # NoFile /\ Plannable(file)
  /\ \E dry \in BOOLEAN :
       plan' = [plan EXCEPT ![c] = [NoPlan EXCEPT !.steps = StepsOf(file), !.left = StepsOf(file),
                                                  !.dry = dry, !.profile = file, !.token = token]]
  /\ pc' = [pc EXCEPT ![c] = "git"] /\ disturbed' = disturbed \ {c}
  /\ Silent /\ UNCHANGED <<hostVars, machine, linked, built, cut, shown>>

Ends(c) == /\ pc' = [pc EXCEPT ![c] = "idle"] /\ plan' = [plan EXCEPT ![c] = NoPlan]
           /\ cut' = cut \ {c}

CleanAlways == FALSE              \* mutant: the working tree is not looked at

\* git status --porcelain says something.
Dirty == tree # head

\* What inspectGit may find: a git command that fails says nothing, as a clean
\* checkout does.
Inspected == {[commit |-> a, dirty |-> b] : a \in {head, Unbuilt}, b \in {Dirty, FALSE}}

\* It is what there is: the commands it is from did not fail.
Answered(git) == git.commit = head /\ git.dirty = Dirty

InspectGitOn(c) ==                 \* mutant: a dry run goes on
  /\ pc[c] = "git" /\ pc' = [pc EXCEPT ![c] = "run"]
  /\ Silent /\ UNCHANGED <<hostVars, machine, linked, built, plan, cut, disturbed, shown>>

\* Here a dry run ends, with its plan, the profile's digest and the checkout.
InspectGit(c) ==
  /\ pc[c] = "git"
  /\ \E git \in Inspected :
       LET preview == [steps |-> plan[c].steps, profile |-> plan[c].profile, git |-> git]
       IN IF plan[c].dry
          THEN /\ Ends(c) /\ Says("preview")
               /\ shown' = {[preview |-> preview, was |-> t] :
                               t \in IF Answered(git) /\ c \notin disturbed THEN {tree} ELSE {}}
          ELSE /\ plan' = [plan EXCEPT ![c].profile = NoFile,
                                       ![c].asShown = {[was |-> p.was, dirty |-> git.dirty] :
                                          p \in {q \in shown : Answered(git) /\ q.preview = preview}}]
               /\ pc' = [pc EXCEPT ![c] = "run"] /\ Silent /\ shown' = {} /\ UNCHANGED cut
  /\ UNCHANGED <<hostVars, machine, linked, built, disturbed>>

-----------------------------------------------------------------------------
(* A run.                                                                  *)

Rank == [preflight |-> 1, build |-> 2, link |-> 3, deploy |-> 4]

\* The step that is due.
Due(c) == CHOOSE s \in plan[c].left : \A t \in plan[c].left : Rank[s] <= Rank[t]

TextAsItCame(t) == t               \* mutant: nothing is removed

\* scrubber.text, of a text that may hold the token t.
Text(t) == IF t = token THEN NoToken ELSE t

\* What a step does to the machine and to production, if it does it all.
Effect(c, s) == CASE s = "build" -> built' = tree /\ UNCHANGED linked /\ deployed' = {}
                  [] s = "link" -> linked' = TRUE /\ UNCHANGED built /\ deployed' = {}
                  [] s = "deploy" -> /\ deployed' = {[tree |-> tree, built |-> built, linked |-> linked]}
                                     /\ UNCHANGED <<built, linked>>
                  [] OTHER -> UNCHANGED <<built, linked>> /\ deployed' = {}

\* Or some of it: it failed, or its process group was killed at the deadline.
Partly(c, s) == \/ UNCHANGED <<built, linked>> /\ deployed' = {}
                \/ s # "build" /\ Effect(c, s)
                \/ s = "build" /\ built' = Unbuilt /\ UNCHANGED linked /\ deployed' = {}

\* The steps that are handed the token, and may print it.
GivenToken == {"link", "deploy"}

\* What the output of the steps so far, the one that is due included, may hold of it.
Said(c) == {NoToken} \cup
           {Text(plan[c].token) : s \in GivenToken \cap ({Due(c)} \cup (plan[c].steps \ plan[c].left))}

\* The first of its URLs that is allowed.
preferredURL(line, allowDashboard) ==
  LET found == {i \in DOMAIN line.urls : allowDashboard \/ line.urls[i] # "dashboard"}
  IN IF found = {} THEN "none" ELSE line.urls[Min(found)]

\* The last line that matches, by what it matches.
Pass(lines, match(_)) ==
  LET hits == {i \in DOMAIN lines : match(lines[i]) # "none"}
  IN IF hits = {} THEN "none" ELSE match(lines[Max(hits)])

AnyURL(lines) == Pass(lines, LAMBDA l : preferredURL(l, TRUE))   \* mutant: one pass

extractDeploymentURL(lines) ==
  LET production == Pass(lines, LAMBDA l : IF l.production THEN preferredURL(l, TRUE) ELSE "none")
      deployment == Pass(lines, LAMBDA l : preferredURL(l, FALSE))
  IN IF production # "none" THEN production
     ELSE IF deployment # "none" THEN deployment ELSE Pass(lines, LAMBDA l : preferredURL(l, TRUE))

\* All but production.
Quiet == out' = "none" /\ said' = NoToken /\ printed' = <<>> /\ url' = "none"

\* A build is the other runs' too, in the same checkout.
Disturbs(c) == disturbed' = disturbed \cup (IF Due(c) = "build" THEN Running \ {c} ELSE {})

\* A step before the deploy, done.
Does(c) ==
  /\ pc[c] = "run" /\ Due(c) # "deploy"
  /\ Effect(c, Due(c))
  /\ plan' = [plan EXCEPT ![c].left = @ \ {Due(c)}]
  /\ Disturbs(c) /\ Quiet
  /\ UNCHANGED <<hostVars, machine, pc, cut, shown>>

\* The deploy, done: the run has succeeded.
Deploys(c) ==
  /\ pc[c] = "run" /\ Due(c) = "deploy"
  /\ Effect(c, "deploy")
  /\ printed' \in Outputs /\ url' = extractDeploymentURL(printed')
  /\ out' = "ok" /\ said' \in Said(c)
  /\ Ends(c) /\ UNCHANGED <<hostVars, machine, disturbed, shown>>

FailsOn(c) ==                      \* mutant: goes on after a failure
  /\ pc[c] = "run" /\ Due(c) # "deploy" /\ Partly(c, Due(c))
  /\ plan' = [plan EXCEPT ![c].left = @ \ {Due(c)}]
  /\ Disturbs(c) /\ Quiet
  /\ UNCHANGED <<hostVars, machine, pc, cut, shown>>

\* A step that fails ends the run.
Fails(c) ==
  /\ pc[c] = "run" /\ Partly(c, Due(c))
  /\ out' = "failed" /\ said' \in Said(c)
  /\ printed' = <<>> /\ url' = "none" /\ Disturbs(c)
  /\ Ends(c) /\ UNCHANGED <<hostVars, machine, shown>>

Next == \/ Load \/ Unload \/ Edit
        \/ \E c \in Calls : \/ Refuse(c) \/ Read(c) \/ PlanDeploy(c) \/ InspectGit(c)
                            \/ Does(c) \/ Deploys(c) \/ Fails(c)

Spec == Init /\ [][Next]_vars

-----------------------------------------------------------------------------
\* A run puts something into production only from a repository that is linked,
\* and built from what is checked out if it has a build step (deploy.go: "in
\* order, stopping at the first that fails"), also when other runs plan, link,
\* deploy and fail meanwhile, as long as they do not build.
DeploysWhatItPrepared ==
  [][\A c \in Calls \ disturbed, d \in deployed' : pc'[c] # pc[c] =>
       d.linked /\ ("build" \in plan[c].steps => d.built = d.tree)]_vars

\* "A profile or checkout that changes between the approval and the run makes the
\* approval stale" (README.md, dto.go), of a clean checkout: whatever the operator
\* edited, committed or undid in between, what a run that plans what was previewed
\* puts into production is what was in the checkout at the preview, if git answered
\* and nobody changed files while either of the two worked.
CleanRunIsThePreview ==
  [][\A c \in Calls \ disturbed, d \in deployed' : pc[c] = "run" /\ pc'[c] = "idle" =>
       \A s \in plan[c].asShown : ~s.dirty => d.tree = s.was]_vars

\* The same of any checkout.  A preview holds of a dirty one that it is dirty and
\* not what is in it.
ChangedCheckoutIsStale ==
  [][\A c \in Calls \ disturbed, d \in deployed' : pc[c] = "run" /\ pc'[c] = "idle" =>
       \A s \in plan[c].asShown : d.tree = s.was]_vars

\* Every output and error is scrubbed: only a run that was under way when the
\* host unloaded can say its token.
TokenStaysUnsaid == [][said' # NoToken => \E c \in cut : pc'[c] # pc[c]]_vars

\* Where the deployment is: the dashboard is named only if nothing else is, or if
\* a line about production names it first; and some URL is named if there is one.
URLIsTheDeployments ==
  LET Holding(u) == {i \in DOMAIN printed : u \in {printed[i].urls[j] : j \in DOMAIN printed[i].urls}}
  IN /\ (url = "none") = (Holding("deployment") \cup Holding("dashboard") = {})
     /\ url # "none" => Holding(url) # {}
     /\ url = "dashboard" => \/ Holding("deployment") = {}
                             \/ \E i \in Holding("dashboard") :
                                  printed[i].production /\ printed[i].urls[1] = "dashboard"

\* What a preview and the checkout promise (deploy.go, dto.go), a run keeps: it
\* deploys what it prepared, and of a clean checkout what was previewed.
DeploysAsPlanned == DeploysWhatItPrepared /\ CleanRunIsThePreview

\* The output of the vendor's command is read for the deployment's URL and gets
\* out without the token (deploy.go, plugin.go).
OutputIsReadAndScrubbed == []URLIsTheDeployments /\ TokenStaysUnsaid
=============================================================================
