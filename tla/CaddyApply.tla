----------------------------- MODULE CaddyApply -----------------------------
(***************************************************************************)
(* The caddy plugin's apply and reload: caddy/internal/caddyplugin/apply.go *)
(* and plugin.go, over one config_path.                                    *)
(*                                                                         *)
(* Nothing serialises calls: two hosts, or two calls of one host, may run  *)
(* apply over the same file, and the operator may edit it.  A step is one  *)
(* call on the filesystem, the start or the end of a caddy child, or a     *)
(* step of the child itself.  A caddy reload child reads the file, posts it *)
(* to the running caddy and waits; the post outlives a child killed at its *)
(* deadline.  A configuration stands for the text rendered from a set of   *)
(* routes; its permission bits travel with it and are left out.            *)
(***************************************************************************)
EXTENDS FiniteSets

CONSTANTS Calls,     \* calls of apply, render and reload
          Configs,   \* contents a Caddyfile may have
          Valid,     \* those caddy can load
          Absent,    \* no file at config_path
          Faults     \* what the world may do: "crash", "kill", "disk", "edit"

ASSUME ConstantsAssumption ==
  /\ Valid \subseteq Configs
  /\ Absent \notin Configs
  /\ Configs \cap {"none", "starting", "accepted", "refused"} = {}
  /\ Faults \subseteq {"crash", "kill", "disk", "edit"}

VARIABLES
  file,     \* what config_path holds, or Absent
  running,  \* the configuration caddy runs
  stage,    \* [Calls -> where the call is]
  want,     \* [Calls -> rendered.Caddyfile]
  cur,      \* [Calls -> cur, the file as apply read it]
  temps,    \* staging files on disk: <<call, which>>
  child,    \* [Calls -> its reload child: what it posted, or how it ended]
  outcome,  \* [Calls -> what the call answered]
  byHand,   \* history: contents somebody else put at config_path
  ran,      \* history: [Calls -> what caddy ran when the child started]
  replaced, \* history: [Calls -> what config_path held before the swap]
  calm      \* history: calls and edits came one at a time, with no crash and no
            \* deadline

vars == <<file, running, stage, want, cur, temps, child, outcome, byHand, ran, replaced, calm>>
locals == <<want, cur, ran, replaced>>

Contents == Configs \cup {Absent}
Stages == {"idle", "stage", "validate", "swap", "reload", "loading", "restore",
           "putBack", "reloading", "returned", "crashed"}
Outcomes == {"none", "invalid", "preview", "unchanged", "failed", "unavailable", "rejected",
             "applied", "rolledBack", "restoreFailed", "reloaded"}
Children == Configs \cup {"none", "starting", "accepted", "refused"}
Names == Calls \X {"candidate", "restore"}

FileTypeOK == /\ file \in Contents
              /\ running \in Valid
              /\ temps \subseteq Names
              /\ byHand \subseteq Contents
CallTypeOK == /\ stage \in [Calls -> Stages]
              /\ want \in [Calls -> Contents]
              /\ cur \in [Calls -> Contents]
              /\ child \in [Calls -> Children]
              /\ outcome \in [Calls -> Outcomes]
              /\ ran \in [Calls -> Contents]
              /\ replaced \in [Calls -> Contents]
TypeOK == FileTypeOK /\ CallTypeOK /\ calm \in BOOLEAN

Init ==
  /\ file \in Contents
  /\ running \in Valid
  /\ stage = [c \in Calls |-> "idle"]
  /\ want = [c \in Calls |-> Absent]
  /\ cur = [c \in Calls |-> Absent]
  /\ temps = {}
  /\ child = [c \in Calls |-> "none"]
  /\ outcome = [c \in Calls |-> "none"]
  /\ byHand = {file}
  /\ ran = [c \in Calls |-> Absent]
  /\ replaced = [c \in Calls |-> Absent]
  /\ calm = TRUE

-----------------------------------------------------------------------------
InFlight(c) == stage[c] \notin {"idle", "returned", "crashed"}
MayStart(c) == stage[c] = "idle"

Move(c, s) == stage' = [stage EXCEPT ![c] = s] /\ UNCHANGED outcome
Goto(c, s) == Move(c, s) /\ UNCHANGED locals

\* The locals of a call that ended are gone.
Forget(c) == /\ want' = [want EXCEPT ![c] = Absent]
             /\ cur' = [cur EXCEPT ![c] = Absent]
             /\ ran' = [ran EXCEPT ![c] = Absent]
             /\ replaced' = [replaced EXCEPT ![c] = Absent]

Answer(c, o) == /\ stage' = [stage EXCEPT ![c] = "returned"]
                /\ outcome' = [outcome EXCEPT ![c] = o]
                /\ Forget(c)

Keeps == UNCHANGED <<file, running>>

\* apply without acknowledgment, or with arguments that do not parse.
Refuse(c) ==
  /\ MayStart(c)
  /\ Answer(c, "invalid")
  /\ Keeps /\ UNCHANGED <<temps, child, byHand>>

\* render, and apply as a dry run: read the file, answer with the diff.
Preview(c) ==
  /\ MayStart(c)
  /\ Answer(c, "preview")
  /\ Keeps /\ UNCHANGED <<temps, child, byHand>>

\* apply reads the file and compares it with what it rendered.  An unreadable
\* file is the one error here.
Read(c) ==
  /\ MayStart(c)
  /\ \E w \in Configs :
       IF file = w THEN Answer(c, "unchanged")
       ELSE \/ /\ Move(c, "stage")
               /\ want' = [want EXCEPT ![c] = w]
               /\ cur' = [cur EXCEPT ![c] = file]
               /\ UNCHANGED <<ran, replaced>>
            \/ Answer(c, "failed")
  /\ Keeps /\ UNCHANGED <<temps, child, byHand>>

\* CreateTemp, WriteString, Close and Chmod; any may fail, and the deferred
\* RemoveFile then leaves no file.
Stage(c) ==
  /\ stage[c] = "stage"
  /\ \/ Goto(c, "validate") /\ temps' = temps \cup {<<c, "candidate">>}
     \/ Answer(c, "failed") /\ UNCHANGED temps
  /\ Keeps /\ UNCHANGED <<child, byHand>>

AcceptsAny(c) == c \in Calls   \* mutant: a failed validate is only logged

\* caddy validate on the candidate.  It may refuse a loadable file (no token
\* in the environment, a deadline), never accept one it cannot load.
Accepts(c) == want[c] \in Valid

Validate(c) ==
  /\ stage[c] = "validate"
  /\ \/ Accepts(c) /\ Goto(c, "swap") /\ UNCHANGED temps
     \/ \E o \in {"rejected", "unavailable"} :
          Answer(c, o) /\ temps' = temps \ {<<c, "candidate">>}
  /\ Keeps /\ UNCHANGED <<child, byHand>>

\* The rename, or its failure.
Swap(c) ==
  /\ stage[c] = "swap"
  /\ temps' = temps \ {<<c, "candidate">>}
  /\ \/ /\ Move(c, "reload") /\ file' = want[c]
        /\ replaced' = [replaced EXCEPT ![c] = file]
        /\ UNCHANGED <<want, cur, ran>>
     \/ Answer(c, "failed") /\ UNCHANGED file
  /\ UNCHANGED <<running, child, byHand>>

\* caddy reload starts, or its binary is gone since the validate.
Reload(c) ==
  /\ stage[c] = "reload"
  /\ \/ Move(c, "loading") /\ child' = [child EXCEPT ![c] = "starting"]
     \/ Move(c, "restore") /\ UNCHANGED child
  /\ UNCHANGED <<want, cur, replaced>>
  /\ ran' = [ran EXCEPT ![c] = running]
  /\ Keeps /\ UNCHANGED <<temps, byHand>>

\* The reload tool: the same child over the same file, and nothing to restore.
ReloadTool(c) ==
  /\ MayStart(c)
  /\ \/ Goto(c, "reloading") /\ child' = [child EXCEPT ![c] = "starting"]
     \/ Answer(c, "unavailable") /\ UNCHANGED child
  /\ Keeps /\ UNCHANGED <<temps, byHand>>

ReloadToolReturns(c) ==
  /\ stage[c] = "reloading"
  /\ \/ child[c] = "accepted" /\ Answer(c, "reloaded")
     \/ child[c] = "refused" /\ Answer(c, "failed")
  /\ Keeps /\ UNCHANGED <<temps, child, byHand>>

PostAbsent(c) ==                \* mutant: a missing file is posted too
  /\ child[c] = "starting"
  /\ child' = [child EXCEPT ![c] = file]
  /\ Keeps /\ UNCHANGED <<stage, temps, outcome, byHand, locals>>

\* The child reads config_path, adapts it and posts it to the running caddy.
Post(c) ==
  /\ child[c] = "starting"
  /\ child' = [child EXCEPT ![c] = IF file = Absent THEN "refused" ELSE file]
  /\ Keeps /\ UNCHANGED <<stage, temps, outcome, byHand, locals>>

\* caddy loads what a child posted, or refuses and keeps what it runs.
Accept(c) ==
  /\ child[c] \in Valid
  /\ running' = child[c]
  /\ child' = [child EXCEPT ![c] = "accepted"]
  /\ UNCHANGED <<file, stage, temps, outcome, byHand, locals>>

Decline(c) ==
  /\ child[c] \in Configs
  /\ child' = [child EXCEPT ![c] = "refused"]
  /\ Keeps /\ UNCHANGED <<stage, temps, outcome, byHand, locals>>

\* The caller's deadline passes: the child is killed, what it posted is not.
Kill(c) ==
  /\ "kill" \in Faults
  /\ \/ stage[c] = "loading" /\ Goto(c, "restore")
     \/ stage[c] = "reloading" /\ Answer(c, "failed")
  /\ child' = [child EXCEPT ![c] = IF @ = "starting" THEN "refused" ELSE @]
  /\ Keeps /\ UNCHANGED <<temps, byHand>>

LoadedOnPost(c) ==              \* mutant: the answer does not wait for caddy
  /\ stage[c] = "loading" /\ child[c] \in Configs
  /\ Answer(c, "applied")
  /\ Keeps /\ UNCHANGED <<temps, child, byHand>>

Loaded(c) ==
  /\ stage[c] = "loading" /\ child[c] = "accepted"
  /\ Answer(c, "applied")
  /\ Keeps /\ UNCHANGED <<temps, child, byHand>>

LoadFailsAnyway(c) ==           \* mutant: warnings on a good reload count as failure
  /\ stage[c] = "loading" /\ child[c] \in {"accepted", "refused"}
  /\ Goto(c, "restore")
  /\ Keeps /\ UNCHANGED <<temps, child, byHand>>

LoadFailsForGood(c) ==          \* mutant: nothing is put back
  /\ stage[c] = "loading" /\ child[c] = "refused"
  /\ Answer(c, "failed")
  /\ Keeps /\ UNCHANGED <<temps, child, byHand>>

LoadFails(c) ==
  /\ stage[c] = "loading" /\ child[c] = "refused"
  /\ Goto(c, "restore")
  /\ Keeps /\ UNCHANGED <<temps, child, byHand>>

RemoveNothing(c) ==             \* mutant: no previous file, nothing to restore
  /\ stage[c] = "restore" /\ cur[c] = Absent
  /\ Answer(c, "rolledBack")
  /\ Keeps /\ UNCHANGED <<temps, child, byHand>>

\* restore: remove the file if there was none, else stage the text that was
\* read and rename it over config_path.
RemoveFile(c) ==
  /\ stage[c] = "restore" /\ cur[c] = Absent
  /\ \/ file # Absent /\ file' = Absent /\ Answer(c, "rolledBack")
     \/ (file = Absent \/ "disk" \in Faults) /\ Answer(c, "restoreFailed") /\ UNCHANGED file
  /\ UNCHANGED <<running, temps, child, byHand>>

StageRestore(c) ==
  /\ stage[c] = "restore" /\ cur[c] # Absent
  /\ \/ Goto(c, "putBack") /\ temps' = temps \cup {<<c, "restore">>}
     \/ "disk" \in Faults /\ Answer(c, "restoreFailed") /\ UNCHANGED temps
  /\ Keeps /\ UNCHANGED <<child, byHand>>

PutBackLeaving(c) ==            \* mutant: no deferred removal
  /\ stage[c] = "putBack"
  /\ \/ file' = cur[c] /\ Answer(c, "rolledBack") /\ temps' = temps \ {<<c, "restore">>}
     \/ "disk" \in Faults /\ Answer(c, "restoreFailed") /\ UNCHANGED <<file, temps>>
  /\ UNCHANGED <<running, child, byHand>>

PutBack(c) ==
  /\ stage[c] = "putBack"
  /\ temps' = temps \ {<<c, "restore">>}
  /\ \/ file' = cur[c] /\ Answer(c, "rolledBack")
     \/ "disk" \in Faults /\ Answer(c, "restoreFailed") /\ UNCHANGED file
  /\ UNCHANGED <<running, child, byHand>>

\* The plugin process dies; its temporary files and its child do not.
Crash(c) ==
  /\ "crash" \in Faults /\ InFlight(c)
  /\ Move(c, "crashed") /\ Forget(c)
  /\ Keeps /\ UNCHANGED <<temps, child, byHand>>

\* The operator, or another program, writes config_path.
Edit ==
  /\ "edit" \in Faults
  /\ \E t \in Contents \ {file} : file' = t /\ byHand' = byHand \cup {t}
  /\ UNCHANGED <<running, stage, temps, child, outcome, locals>>

Step(c) ==
  \/ Refuse(c) \/ Preview(c) \/ Read(c) \/ Stage(c) \/ Validate(c) \/ Swap(c) \/ Reload(c)
  \/ ReloadTool(c) \/ ReloadToolReturns(c) \/ Post(c) \/ Accept(c) \/ Decline(c)
  \/ Loaded(c) \/ LoadFails(c) \/ RemoveFile(c) \/ StageRestore(c) \/ PutBack(c)

\* Nobody but c, or nobody at all, has a call in flight.
OnlyFor(c) == \A d \in Calls \ {c} : ~InFlight(d)
Nobody == \A c \in Calls : ~InFlight(c)

Next == \/ Edit /\ calm' = (calm /\ Nobody)
        \/ \E c \in Calls : Step(c) /\ calm' = (calm /\ OnlyFor(c))
        \/ \E c \in Calls : (Kill(c) \/ Crash(c)) /\ calm' = FALSE

Spec == Init /\ [][Next]_vars

-----------------------------------------------------------------------------
\* An invalid file never becomes the live one: what config_path holds was put
\* there by somebody else or passed caddy validate.
LiveFileIsValid == file \in Valid \cup byHand

\* Only a crash leaves a staging file behind.
NothingLeftBehind ==
  \A n \in temps : InFlight(n[1]) \/ stage[n[1]] = "crashed"

\* "Applied is true only when the new file is written, validated and reloaded
\* and stayed in place" (dto.go): when apply says so, config_path holds what it
\* rendered and caddy runs it, with one call at a time.
AppliedStayedInPlace ==
  [][calm' => \A c \in Calls : outcome[c] = "none" /\ outcome'[c] = "applied"
                                => file' = want[c] /\ running' = want[c]]_vars

\* "A failed reload leaves the old configuration running" (README): when apply
\* says it rolled back, caddy runs what it ran before the reload, if no deadline
\* killed the child that asked for it.
OldKeepsRunning ==
  [][calm' => \A c \in Calls : outcome[c] = "none" /\ outcome'[c] = "rolledBack"
                                => running' = ran[c]]_vars

\* An apply that says it rolled back has put back what its swap replaced.
PutsBack == \A c \in Calls : outcome[c] = "none" /\ outcome'[c] = "rolledBack"
                                => file' = replaced[c]

\* "3. caddy is reloaded; if that fails the previous file is put back"
\* (apply.go): config_path holds again what the swap replaced.
PreviousFileIsBack == [][PutsBack]_vars

\* The same, as long as calls come one at a time and none is killed.
AloneItPutsBack == [][calm' => PutsBack]_vars

\* What lies on the disk is in order: the live file is valid, and no staging file
\* of a call that returned is left next to it.
DiskIsInOrder == LiveFileIsValid /\ NothingLeftBehind

\* ApplyResult (dto.go) is true: of a call that was alone, "applied" says that the
\* new file is in place and runs, and "rolled back" that the old one is and does.
AnswerIsTrue == AppliedStayedInPlace /\ OldKeepsRunning /\ AloneItPutsBack

\* Until caddy has answered, or the previous file is back, the promise is that
\* nothing has changed yet.
Undecided(c) == \/ stage[c] \in {"reload", "restore", "putBack"}
                \/ stage[c] = "loading" /\ child[c] # "accepted"

Stored == IF \E c \in Calls : Undecided(c)
          THEN cur[CHOOSE c \in Calls : Undecided(c)] ELSE file

Told == {c \in Calls : outcome[c] = "restoreFailed"}

Store == INSTANCE ConfigStore WITH stored <- Stored, told <- Told

\* With one call at a time and no deadline or crash, apply is a transaction over
\* the file and the running configuration: what changes is a step of ConfigStore.
IsTransaction == Store!Init /\ [][calm' => Store!Next]_<<Stored, running, Told, byHand>>
=============================================================================
