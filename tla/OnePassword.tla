---------------------------- MODULE OnePassword ----------------------------
(***************************************************************************)
(* The onepassword plugin: onepassword/internal/opplugin/plugin.go.        *)
(*                                                                         *)
(* Each resolve has a caller (the handler goroutine that serves the host's *)
(* command/execute) and, once it owns the busy channel's one slot, a       *)
(* worker (the goroutine that talks to the SDK).  The worker outlives a    *)
(* caller whose context is done, and holds the slot until the SDK returns. *)
(* The host may rotate the configuration, load and unload at any moment.   *)
(*                                                                         *)
(* A step is one critical section of p.mu, one channel operation or one    *)
(* SDK call.  A resolve happens once per member of Calls; a client is named *)
(* after the resolve whose worker signed it in.                            *)
(***************************************************************************)
EXTENDS Naturals, FiniteSets

CONSTANTS Calls,         \* resolves the host makes
          Tokens,        \* well-formed service account tokens
          NoCall,        \* no client, no owner
          NoToken,       \* the empty string in p.token
          MaxLoads,      \* bound: Load calls in a behaviour
          MaxVersion     \* bound: versions of the secret in the vault

ASSUME ConstantsAssumption ==
  /\ NoCall \notin Calls
  /\ NoToken \notin Tokens
  /\ MaxLoads \in Nat
  /\ MaxVersion \in Nat \ {0}

\* What Init hands the plugin: a token that parses, none, or one that is not
\* a production service account token.
Configs == Tokens \cup {"missing", "malformed"}
Problems == {"none", "missing", "malformed"}
ASSUME ConfigsAssumption == Tokens \cap {"missing", "malformed"} = {}

VARIABLES
  config,   \* p.config: what the host resolved, or the environment
  token,    \* p.token
  problem,  \* p.problem
  client,   \* p.client
  held,     \* p.held, the values part
  busy,     \* the busy channel is full
  caller,   \* [Calls -> where resolve() is]
  snap,     \* [Calls -> the token its resolve read]
  worker,   \* [Calls -> where its goroutine is]
  using,    \* [Calls -> the client its goroutine got from clientFor]
  got,      \* [Calls -> what the goroutine has to say]
  sent,     \* [Calls -> the done channel holds got]
  done,     \* [Calls -> ctx.Done() is closed]
  outcome,  \* [Calls -> what Command returned]
  stored,   \* version of the secret in the vault
  loads,    \* Load calls so far
  asked,    \* history: version stored when Command was called
  heldIn,   \* history: loads when the value was held
  failed,   \* history: clients a Resolve failed through
  calm      \* history: the host loaded and unloaded only while no resolve ran

pluginVars == <<config, token, problem, client, held, loads, calm>>
callVars   == <<caller, snap, done, outcome, asked, heldIn>>
workVars   == <<worker, using, got, sent, failed>>
vars       == <<pluginVars, callVars, workVars, busy, stored>>

CallerStates == {"idle", "acquire", "await", "hold", "returned"}
WorkerStates == {"off", "clientFor", "signIn", "store", "resolve", "drop", "send", "release"}
Outcomes == {"none", "invalid_args", "credential_missing", "abandoned", "timeout", "failed", "value"}
Kinds == {"none", "value", "empty", "error"}
Nothing == [kind |-> "none", version |-> 0]

Answers == [kind : Kinds, version : Nat]

PluginTypeOK == /\ config \in Configs
                /\ token \in Tokens \cup {NoToken}
                /\ problem \in Problems
                /\ client \in Calls \cup {NoCall}
                /\ held \subseteq Nat
                /\ loads \in Nat
                /\ busy \in BOOLEAN
                /\ stored \in Nat
                /\ calm \in BOOLEAN

CallTypeOK == /\ caller \in [Calls -> CallerStates]
              /\ snap \in [Calls -> Tokens \cup {NoToken}]
              /\ done \in [Calls -> BOOLEAN]
              /\ outcome \in [Calls -> Outcomes]
              /\ asked \in [Calls -> Nat]
              /\ heldIn \in [Calls -> Nat]

WorkTypeOK == /\ worker \in [Calls -> WorkerStates]
              /\ using \in [Calls -> Calls \cup {NoCall}]
              /\ got \in [Calls -> Answers]
              /\ sent \in [Calls -> BOOLEAN]
              /\ failed \subseteq Calls

TypeOK == PluginTypeOK /\ CallTypeOK /\ WorkTypeOK

Init ==
  /\ config \in Configs
  /\ token = NoToken
  /\ problem = "none"
  /\ client = NoCall
  /\ held = {}
  /\ busy = FALSE
  /\ caller = [c \in Calls |-> "idle"]
  /\ snap = [c \in Calls |-> NoToken]
  /\ worker = [c \in Calls |-> "off"]
  /\ using = [c \in Calls |-> NoCall]
  /\ got = [c \in Calls |-> Nothing]
  /\ sent = [c \in Calls |-> FALSE]
  /\ done = [c \in Calls |-> FALSE]
  /\ outcome = [c \in Calls |-> "none"]
  /\ stored = 1
  /\ loads = 0
  /\ asked = [c \in Calls |-> 0]
  /\ heldIn = [c \in Calls |-> 0]
  /\ failed = {}
  /\ calm = TRUE

-----------------------------------------------------------------------------
(* What status and Health answer: the plugin is configured, and references *)
(* resolve against the address of the loaded token.                        *)
Configured == token # NoToken
StatusToken == token

(* The host's lifecycle calls. *)

\* The host need not wait for the resolves that run.
Quiet == \A c \in Calls : worker[c] = "off" /\ caller[c] \in {"idle", "returned"}
NoteQuiet == calm' = (calm /\ Quiet)

\* Plugin.Init: a new configuration, seen by the next Load.
Configure == /\ config' \in Configs
             /\ UNCHANGED <<token, problem, client, held, loads, calm, callVars, workVars, busy, stored>>

\* Mutant of Load: the token is kept without signInAddress's check.
LoadUnchecked == /\ loads < MaxLoads
                 /\ loads' = loads + 1
                 /\ client' = NoCall
                 /\ token' = config
                 /\ problem' = "none"
                 /\ held' = {}
                 /\ NoteQuiet
                 /\ UNCHANGED <<config, callVars, workVars, busy, stored>>

\* Mutant of Load: the client of the earlier load is kept.
LoadKeepingClient == /\ loads < MaxLoads
                     /\ loads' = loads + 1
                     /\ token' = IF config \in Tokens THEN config ELSE NoToken
                     /\ problem' = IF config \in Tokens THEN "none" ELSE config
                     /\ held' = {}
                     /\ NoteQuiet
                     /\ UNCHANGED <<config, client, callVars, workVars, busy, stored>>

\* Plugin.Load: everything of the earlier load is reset, offline.
Load == /\ loads < MaxLoads
        /\ loads' = loads + 1
        /\ client' = NoCall
        /\ token' = IF config \in Tokens THEN config ELSE NoToken
        /\ problem' = IF config \in Tokens THEN "none" ELSE config
        /\ held' = {}
        /\ NoteQuiet
        /\ UNCHANGED <<config, callVars, workVars, busy, stored>>

\* Mutant of Unload: the client is kept.
UnloadKeepingClient == /\ token' = NoToken
                       /\ NoteQuiet
                       /\ UNCHANGED <<config, client, problem, held, loads, callVars, workVars, busy, stored>>

\* Plugin.Unload: problem, address, held and scrub stay.
Unload == /\ client' = NoCall
          /\ token' = NoToken
          /\ NoteQuiet
          /\ UNCHANGED <<config, problem, held, loads, callVars, workVars, busy, stored>>

-----------------------------------------------------------------------------
(* The caller: Command and resolve. *)

Return(c, result) == /\ caller' = [caller EXCEPT ![c] = "returned"]
                     /\ outcome' = [outcome EXCEPT ![c] = result]

\* Command up to resolve's first critical section: a command that is not a
\* well-formed op:// resolve is refused, then the token is read.
Command(c) ==
  /\ caller[c] = "idle"
  /\ asked' = [asked EXCEPT ![c] = stored]
  /\ \/ /\ Return(c, "invalid_args")
        /\ snap' = snap
     \/ /\ token = NoToken
        /\ Return(c, "credential_missing")
        /\ snap' = snap
     \/ /\ token # NoToken
        /\ snap' = [snap EXCEPT ![c] = token]
        /\ caller' = [caller EXCEPT ![c] = "acquire"]
        /\ outcome' = outcome
  /\ UNCHANGED <<pluginVars, workVars, done, heldIn, busy, stored>>

\* The slot taken, and the go statement behind it (alone, a mutant of Acquire:
\* resolves that do not wait for each other).
Begin(c) == /\ caller[c] = "acquire"
            /\ busy' = TRUE
            /\ caller' = [caller EXCEPT ![c] = "await"]
            /\ worker' = [worker EXCEPT ![c] = "clientFor"]
            /\ UNCHANGED <<pluginVars, snap, done, outcome, asked, heldIn,
                           using, got, sent, failed, stored>>

\* The select's first case.
Acquire(c) == ~busy /\ Begin(c)

\* Mutant of Abandon: a mutex for the slot, the context looked at afterwards.
AbandonAfterLock(c) == /\ ~busy
                       /\ caller[c] = "acquire"
                       /\ done[c]
                       /\ Return(c, "abandoned")
                       /\ UNCHANGED <<pluginVars, workVars, snap, done, asked, heldIn, busy, stored>>

\* The select's other case: a waiter gives up at its own deadline.
Abandon(c) == /\ caller[c] = "acquire"
              /\ done[c]
              /\ Return(c, "abandoned")
              /\ UNCHANGED <<pluginVars, workVars, snap, done, asked, heldIn, busy, stored>>

\* got = <-done, and the checks that follow it.
Receive(c) == /\ caller[c] = "await"
              /\ sent[c]
              /\ IF got[c].kind = "value"
                 THEN /\ caller' = [caller EXCEPT ![c] = "hold"]
                      /\ outcome' = outcome
                 ELSE Return(c, "failed")
              /\ sent' = [sent EXCEPT ![c] = FALSE]
              /\ UNCHANGED <<pluginVars, snap, done, asked, heldIn,
                             worker, using, got, failed, busy, stored>>

\* Mutant of TimeOut: the caller gives the slot back when it gives up.
TimeOutReleasing(c) == /\ caller[c] = "await"
                       /\ done[c]
                       /\ Return(c, "timeout")
                       /\ busy' = FALSE
                       /\ UNCHANGED <<pluginVars, workVars, snap, done, asked, heldIn, stored>>

TimeOut(c) == /\ caller[c] = "await"
              /\ done[c]
              /\ Return(c, "timeout")
              /\ UNCHANGED <<pluginVars, workVars, snap, done, asked, heldIn, busy, stored>>

\* Mutant of Hold: the scrubber is made from the new value alone.
HoldLast(c) == /\ caller[c] = "hold"
               /\ held' = {got[c].version}
               /\ heldIn' = [heldIn EXCEPT ![c] = loads]
               /\ Return(c, "value")
               /\ UNCHANGED <<config, token, problem, client, loads, calm, workVars,
                              snap, done, asked, busy, stored>>

\* hold, then the return.
Hold(c) == /\ caller[c] = "hold"
           /\ held' = held \cup {got[c].version}
           /\ heldIn' = [heldIn EXCEPT ![c] = loads]
           /\ Return(c, "value")
           /\ UNCHANGED <<config, token, problem, client, loads, calm, workVars,
                          snap, done, asked, busy, stored>>

-----------------------------------------------------------------------------
(* The worker: the goroutine resolve starts. *)

\* clientFor's first critical section.
ClientFor(c) == /\ worker[c] = "clientFor"
                /\ using' = [using EXCEPT ![c] = client]
                /\ worker' = [worker EXCEPT ![c] = IF client = NoCall THEN "signIn" ELSE "resolve"]
                /\ UNCHANGED <<pluginVars, callVars, got, sent, failed, busy, stored>>

\* newClient: a network exchange with 1Password that may fail.
SignIn(c) == /\ worker[c] = "signIn"
             /\ \/ /\ worker' = [worker EXCEPT ![c] = "store"]
                   /\ using' = [using EXCEPT ![c] = c]
                   /\ got' = got
                \/ /\ worker' = [worker EXCEPT ![c] = "send"]
                   /\ got' = [got EXCEPT ![c] = [kind |-> "error", version |-> 0]]
                   /\ using' = using
             /\ UNCHANGED <<pluginVars, callVars, sent, failed, busy, stored>>

\* clientFor's second critical section: no check of what happened since the
\* first one.
Store(c) == /\ worker[c] = "store"
            /\ client' = using[c]
            /\ worker' = [worker EXCEPT ![c] = "resolve"]
            /\ UNCHANGED <<config, token, problem, held, loads, calm, callVars,
                           using, got, sent, failed, busy, stored>>

\* Mutant of Resolve: a failure is covered with a value resolved before.
ResolveOrPrior(c) ==
  /\ worker[c] = "resolve"
  /\ worker' = [worker EXCEPT ![c] = "send"]
  /\ \E version \in held \cup {stored} :
       got' = [got EXCEPT ![c] = [kind |-> "value", version |-> version]]
  /\ UNCHANGED <<pluginVars, callVars, using, sent, failed, busy, stored>>

\* client.Resolve: the SDK reads the vault, finds the value empty, or fails.
Resolve(c) ==
  /\ worker[c] = "resolve"
  /\ \/ /\ got' = [got EXCEPT ![c] = [kind |-> "value", version |-> stored]]
        /\ worker' = [worker EXCEPT ![c] = "send"]
        /\ failed' = failed
     \/ /\ got' = [got EXCEPT ![c] = [kind |-> "empty", version |-> 0]]
        /\ worker' = [worker EXCEPT ![c] = "send"]
        /\ failed' = failed
     \/ /\ got' = [got EXCEPT ![c] = [kind |-> "error", version |-> 0]]
        /\ worker' = [worker EXCEPT ![c] = "drop"]
        /\ failed' = failed \cup {using[c]}
  /\ UNCHANGED <<pluginVars, callVars, using, sent, busy, stored>>

\* Mutant of DropClient: the failed client stays.
DropNothing(c) == /\ worker[c] = "drop"
                  /\ worker' = [worker EXCEPT ![c] = "send"]
                  /\ UNCHANGED <<pluginVars, callVars, using, got, sent, failed, busy, stored>>

DropClient(c) == /\ worker[c] = "drop"
                 /\ client' = IF client = using[c] THEN NoCall ELSE client
                 /\ worker' = [worker EXCEPT ![c] = "send"]
                 /\ UNCHANGED <<config, token, problem, held, loads, calm, callVars,
                                using, got, sent, failed, busy, stored>>

\* Mutant of Send: an unbuffered done channel.
SendUnbuffered(c) == /\ worker[c] = "send"
                     /\ caller[c] = "await"
                     /\ sent' = [sent EXCEPT ![c] = TRUE]
                     /\ worker' = [worker EXCEPT ![c] = "release"]
                     /\ UNCHANGED <<pluginVars, callVars, using, got, failed, busy, stored>>

\* done <- answer: the channel has room for the one answer it ever gets, so
\* the send never waits for a caller that has gone.
Send(c) == /\ worker[c] = "send"
           /\ sent' = [sent EXCEPT ![c] = TRUE]
           /\ worker' = [worker EXCEPT ![c] = "release"]
           /\ UNCHANGED <<pluginVars, callVars, using, got, failed, busy, stored>>

\* The deferred receive from busy.
Release(c) == /\ worker[c] = "release"
              /\ busy' = FALSE
              /\ worker' = [worker EXCEPT ![c] = "off"]
              /\ UNCHANGED <<pluginVars, callVars, using, got, sent, failed, stored>>

-----------------------------------------------------------------------------
(* The environment. *)

\* The deadline of a resolve's context passes, or its host cancels it.
CtxDone(c) == /\ caller[c] \in {"acquire", "await"}
              /\ ~done[c]
              /\ done' = [done EXCEPT ![c] = TRUE]
              /\ UNCHANGED <<pluginVars, workVars, caller, snap, outcome, asked, heldIn, busy, stored>>

\* Somebody rotates the secret in the vault.
Rotate == /\ stored < MaxVersion
          /\ stored' = stored + 1
          /\ UNCHANGED <<pluginVars, callVars, workVars, busy>>

CallerStep(c) == Command(c) \/ Acquire(c) \/ Abandon(c) \/ Receive(c) \/ TimeOut(c) \/ Hold(c)
WorkerStep(c) == ClientFor(c) \/ SignIn(c) \/ Store(c) \/ Resolve(c) \/ DropClient(c)
                 \/ Send(c) \/ Release(c)
HostStep == Configure \/ Load \/ Unload

Next == \/ HostStep
        \/ Rotate
        \/ \E c \in Calls : CallerStep(c) \/ WorkerStep(c) \/ CtxDone(c)

Spec == Init /\ [][Next]_vars

\* Only the caller's own goroutine is assumed to run: the SDK may hang.
Fairness == \A c \in Calls : /\ WF_vars(Abandon(c) \/ Acquire(c))
                             /\ WF_vars(TimeOut(c) \/ Receive(c))
                             /\ WF_vars(Hold(c))

FairSpec == Spec /\ Fairness

\* Nothing hangs: the HTTP client's timeout bounds every SDK call, and senders
\* blocked on a channel are served in order, so a caller waiting for the slot
\* is not passed over for ever.
NothingHangs == \A c \in Calls : /\ WF_vars(WorkerStep(c))
                                 /\ SF_vars(Acquire(c))
                                 /\ WF_vars(Receive(c))

-----------------------------------------------------------------------------
(* Properties. *)

(* The SDK's WASM core is single-threaded: at most one worker exists, and   *)
(* the busy channel is full exactly while one does, so the slot is neither  *)
(* shared nor lost whichever callers give up (busy, plugin.go:39-42).       *)
OneWorker == \A c, d \in Calls : worker[c] # "off" /\ worker[d] # "off" => c = d
SlotInUse == busy <=> \E c \in Calls : worker[c] # "off"
SlotExclusive == OneWorker /\ SlotInUse

(* "A failed call drops the client so the next one authenticates afresh":   *)
(* no resolve is sent through a client that an earlier resolve failed       *)
(* through, whatever loads and unloads happen meanwhile.                    *)
FailedClientNotReused ==
  \A c \in Calls : worker[c] = "resolve" => using[c] \notin failed

(* No value is kept: what a resolve returns was read from the vault by its  *)
(* own worker after it was asked; a late answer to an abandoned resolve     *)
(* never reaches another.                                                   *)
ValueIsFresh ==
  \A c \in Calls : outcome[c] = "value" => got[c].version \in asked[c]..stored

(* hold is "for the life of the load": every value handed out under the     *)
(* current load is among the values to scrub, whoever resolved it and       *)
(* however the resolves overlapped.                                         *)
HeldForTheLoad ==
  \A c \in Calls : outcome[c] = "value" /\ heldIn[c] = loads => got[c].version \in held

(* The client a resolve is sent through was signed in with the token that   *)
(* resolve read in its first critical section, as long as the host loads    *)
(* and unloads only while nothing runs.                                     *)
ClientIsOfItsToken ==
  calm => \A c \in Calls : worker[c] = "resolve" => snap[using[c]] = snap[c]

(* status says "op:// references resolve against" the loaded token's        *)
(* address: a resolve that read the loaded token goes through a client      *)
(* signed in with that token.                                               *)
ResolvesAgainstStatusAddress ==
  \A c \in Calls : worker[c] = "resolve" /\ snap[c] = StatusToken => snap[using[c]] = StatusToken

(* After an unload that no resolve was running under, nothing of the        *)
(* earlier load is signed in.                                               *)
UnloadedIsSignedOut == calm /\ ~Configured => client = NoCall

(* Loads stay apart: what one handed out is known to its own scrubber, and  *)
(* of one that is over nothing is signed in (Load, Unload, hold).           *)
LoadsAreApart == HeldForTheLoad /\ UnloadedIsSignedOut

(* Every resolve the host makes is answered, even with no deadline, when    *)
(* nothing hangs.                                                           *)
EveryCommandReturns == NothingHangs => \A c \in Calls : (caller[c] = "acquire") ~> (caller[c] = "returned")

(* The slot is always given back, also by a worker nobody waits for.        *)
SlotIsFreed == NothingHangs => (busy ~> ~busy)

(* "A resolve waiting behind a slow one still honours its own deadline":    *)
(* once its context is done a resolve returns, although the SDK call that   *)
(* it waits for may never return.                                           *)
DeadlineHonoured == \A c \in Calls : done[c] ~> (caller[c] = "returned")

-----------------------------------------------------------------------------
(* The abstract service this plugin implements. *)

SlotOwner == IF \E c \in Calls : worker[c] # "off"
             THEN CHOOSE c \in Calls : worker[c] # "off"
             ELSE NoCall
PhaseOf(c) == IF outcome[c] = "value" THEN "served"
              ELSE IF caller[c] = "returned" THEN "failed"
              ELSE IF caller[c] = "idle" THEN "idle" ELSE "pending"
ReadBy(c) == got[c].version
ValueOf(c) == IF outcome[c] = "value" THEN got[c].version ELSE 0

Backend == INSTANCE SecretBackend WITH
             slot  <- SlotOwner,
             phase <- [c \in Calls |-> PhaseOf(c)],
             read  <- [c \in Calls |-> ReadBy(c)],
             value <- [c \in Calls |-> ValueOf(c)]

ImplementsBackend == Backend!Spec

=============================================================================
