------------------------------- MODULE Keeper -------------------------------
(***************************************************************************)
(* The keeper plugin: keeper/internal/keeperplugin/plugin.go.              *)
(*                                                                         *)
(* The same slot as onepassword's, without its client cache: a resolve     *)
(* reads p.vault once, and its worker uses that handle although the host   *)
(* may have loaded another configuration since.                            *)
(*                                                                         *)
(* New's closure returns newManager's *ksm.SecretsManager as the interface *)
(* vault.  When the SDK refuses a bound configuration that pointer is nil, *)
(* and a nil pointer in an interface is not a nil interface: p.vault is    *)
(* then neither nil nor usable (RefusedVault below).                       *)
(***************************************************************************)
EXTENDS Naturals, FiniteSets

CONSTANTS Calls,         \* resolves the host makes
          Bound,         \* bound configurations the SDK accepts
          Refused,       \* bound configurations the SDK refuses
          NoCall,        \* no worker
          NoVault,       \* the nil interface
          RefusedVault,  \* the interface holding a nil manager
          MaxLoads,      \* bound: Load calls in a behaviour
          MaxVersion     \* bound: versions of the secret in the vault

Unusable == {"missing", "unbound"}
Configs == Bound \cup Refused \cup Unusable
Problems == Unusable \cup {"none", "refused"}
Handles == Bound \cup {NoVault, RefusedVault}

ASSUME ConstantsAssumption ==
  /\ NoCall \notin Calls
  /\ NoVault \notin Bound /\ RefusedVault \notin Bound /\ NoVault # RefusedVault
  /\ Bound \cap Unusable = {} /\ Refused \cap (Bound \cup Unusable) = {}
  /\ MaxLoads \in Nat
  /\ MaxVersion \in Nat \ {0}

VARIABLES
  config,   \* p.config: what the host resolved, or the environment
  vault,    \* p.vault
  problem,  \* p.problem
  held,     \* p.held, the values part
  busy,     \* the busy channel is full
  up,       \* the process runs: a panic in a worker ends it
  caller,   \* [Calls -> where resolve() is]
  snap,     \* [Calls -> the handle its resolve read]
  worker,   \* [Calls -> where its goroutine is]
  got,      \* [Calls -> what the goroutine has to say]
  sent,     \* [Calls -> the done channel holds got]
  done,     \* [Calls -> ctx.Done() is closed]
  outcome,  \* [Calls -> what Command returned]
  stored,   \* version of the secret in the vault
  loads,    \* Load calls so far
  loaded,   \* history: the configuration the last Load read
  asked,    \* history: version stored when Command was called
  askedIn,  \* history: loads when Command was called
  heldIn    \* history: loads when the value was held

loadVars == <<config, vault, problem, loads, loaded>>
callVars == <<caller, snap, done, outcome, asked, askedIn, heldIn>>
workVars == <<worker, got, sent>>
vars     == <<loadVars, held, busy, up, callVars, workVars, stored>>

CallerStates == {"idle", "acquire", "await", "hold", "returned"}
WorkerStates == {"off", "ask", "send", "release"}
Outcomes == {"none", "invalid_args", "credential_missing", "abandoned", "timeout", "failed", "value"}
Kinds == {"none", "one", "many", "empty", "error"}
Nothing == [kind |-> "none", version |-> 0]

TypeOK ==
  /\ config \in Configs
  /\ vault \in Handles
  /\ problem \in Problems
  /\ held \subseteq Nat
  /\ busy \in BOOLEAN
  /\ up \in BOOLEAN
  /\ caller \in [Calls -> CallerStates]
  /\ snap \in [Calls -> Handles]
  /\ worker \in [Calls -> WorkerStates]
  /\ got \in [Calls -> [kind : Kinds, version : Nat]]
  /\ sent \in [Calls -> BOOLEAN]
  /\ done \in [Calls -> BOOLEAN]
  /\ outcome \in [Calls -> Outcomes]
  /\ stored \in Nat
  /\ loads \in Nat
  /\ loaded \in Configs
  /\ asked \in [Calls -> Nat]
  /\ askedIn \in [Calls -> Nat]
  /\ heldIn \in [Calls -> Nat]

Init ==
  /\ config \in Configs
  /\ vault = NoVault
  /\ problem = "none"
  /\ held = {}
  /\ busy = FALSE
  /\ up = TRUE
  /\ caller = [c \in Calls |-> "idle"]
  /\ snap = [c \in Calls |-> NoVault]
  /\ worker = [c \in Calls |-> "off"]
  /\ got = [c \in Calls |-> Nothing]
  /\ sent = [c \in Calls |-> FALSE]
  /\ done = [c \in Calls |-> FALSE]
  /\ outcome = [c \in Calls |-> "none"]
  /\ stored = 1
  /\ loads = 0
  /\ loaded = "missing"
  /\ asked = [c \in Calls |-> 0]
  /\ askedIn = [c \in Calls |-> 0]
  /\ heldIn = [c \in Calls |-> 0]

-----------------------------------------------------------------------------
(* The host's lifecycle calls. *)

Configure == /\ up
             /\ config' \in Configs
             /\ UNCHANGED <<vault, problem, loads, loaded, held, busy, up, callVars, workVars, stored>>

\* newVault, external to this code: the SDK's constructor returns a manager,
\* or nil, which New's closure wraps.
NewVault(conf) == IF conf \in Bound THEN conf ELSE RefusedVault

\* Mutant of Load: the raw configuration is taken for a vault.
LoadUnchecked == /\ up
                 /\ loads < MaxLoads
                 /\ loads' = loads + 1
                 /\ loaded' = config
                 /\ vault' = config
                 /\ problem' = "none"
                 /\ held' = {}
                 /\ UNCHANGED <<config, busy, up, callVars, workVars, stored>>

\* Mutant of Load: a vault already there is kept.
LoadKeepingVault == /\ up
                    /\ loads < MaxLoads
                    /\ loads' = loads + 1
                    /\ loaded' = config
                    /\ vault' = IF vault # NoVault \/ config \in Unusable THEN vault
                               ELSE NewVault(config)
                    /\ problem' = "none"
                    /\ held' = {}
                    /\ UNCHANGED <<config, busy, up, callVars, workVars, stored>>

\* parseConfig and newVault run inside Load's critical section.
Load == /\ up
        /\ loads < MaxLoads
        /\ loads' = loads + 1
        /\ loaded' = config
        /\ vault' = IF config \in Unusable THEN NoVault ELSE NewVault(config)
        /\ problem' = CASE config \in Unusable -> config
                        [] config \in Refused -> "refused"
                        [] config \in Bound -> "none"
        /\ held' = {}
        /\ UNCHANGED <<config, busy, up, callVars, workVars, stored>>

\* hostname, problem, held and scrub stay.
Unload == /\ up
          /\ vault' = NoVault
          /\ UNCHANGED <<config, problem, loads, loaded, held, busy, up, callVars, workVars, stored>>

-----------------------------------------------------------------------------
(* The caller: Command and resolve. *)

Return(c, result) == /\ caller' = [caller EXCEPT ![c] = "returned"]
                     /\ outcome' = [outcome EXCEPT ![c] = result]

Command(c) ==
  /\ up
  /\ caller[c] = "idle"
  /\ asked' = [asked EXCEPT ![c] = stored]
  /\ askedIn' = [askedIn EXCEPT ![c] = loads]
  /\ \/ /\ Return(c, "invalid_args")
        /\ snap' = snap
     \/ /\ vault = NoVault
        /\ Return(c, "credential_missing")
        /\ snap' = snap
     \/ /\ vault # NoVault
        /\ snap' = [snap EXCEPT ![c] = vault]
        /\ caller' = [caller EXCEPT ![c] = "acquire"]
        /\ outcome' = outcome
  /\ UNCHANGED <<loadVars, held, workVars, done, heldIn, busy, up, stored>>

\* The slot taken, and the go statement behind it (alone, a mutant of Acquire:
\* resolves that do not wait for each other).
Begin(c) == /\ up
            /\ caller[c] = "acquire"
            /\ busy' = TRUE
            /\ caller' = [caller EXCEPT ![c] = "await"]
            /\ worker' = [worker EXCEPT ![c] = "ask"]
            /\ UNCHANGED <<loadVars, held, snap, done, outcome, asked, askedIn, heldIn,
                           got, sent, up, stored>>

\* The select's first case.
Acquire(c) == ~busy /\ Begin(c)

\* Mutant of Abandon: a mutex for the slot, the context looked at afterwards.
AbandonAfterLock(c) == /\ up
                       /\ ~busy
                       /\ caller[c] = "acquire"
                       /\ done[c]
                       /\ Return(c, "abandoned")
                       /\ UNCHANGED <<loadVars, held, workVars, snap, done, asked, askedIn, heldIn,
                                      busy, up, stored>>

Abandon(c) == /\ up
              /\ caller[c] = "acquire"
              /\ done[c]
              /\ Return(c, "abandoned")
              /\ UNCHANGED <<loadVars, held, workVars, snap, done, asked, askedIn, heldIn,
                             busy, up, stored>>

\* got = <-done; only exactly one non-empty value is an answer.
Receive(c) == /\ up
              /\ caller[c] = "await"
              /\ sent[c]
              /\ IF got[c].kind = "one"
                 THEN /\ caller' = [caller EXCEPT ![c] = "hold"]
                      /\ outcome' = outcome
                 ELSE Return(c, "failed")
              /\ sent' = [sent EXCEPT ![c] = FALSE]
              /\ UNCHANGED <<loadVars, held, snap, done, asked, askedIn, heldIn,
                             worker, got, busy, up, stored>>

\* Mutant of TimeOut: the caller gives the slot back when it gives up.
TimeOutReleasing(c) == /\ up
                       /\ caller[c] = "await"
                       /\ done[c]
                       /\ Return(c, "timeout")
                       /\ busy' = FALSE
                       /\ UNCHANGED <<loadVars, held, workVars, snap, done, asked, askedIn, heldIn,
                                      up, stored>>

TimeOut(c) == /\ up
              /\ caller[c] = "await"
              /\ done[c]
              /\ Return(c, "timeout")
              /\ UNCHANGED <<loadVars, held, workVars, snap, done, asked, askedIn, heldIn,
                             busy, up, stored>>

\* Mutant of Hold: the scrubber is made from the new value alone.
HoldLast(c) == /\ up
               /\ caller[c] = "hold"
               /\ held' = {got[c].version}
               /\ heldIn' = [heldIn EXCEPT ![c] = loads]
               /\ Return(c, "value")
               /\ UNCHANGED <<loadVars, workVars, snap, done, asked, askedIn, busy, up, stored>>

Hold(c) == /\ up
           /\ caller[c] = "hold"
           /\ held' = held \cup {got[c].version}
           /\ heldIn' = [heldIn EXCEPT ![c] = loads]
           /\ Return(c, "value")
           /\ UNCHANGED <<loadVars, workVars, snap, done, asked, askedIn, busy, up, stored>>

-----------------------------------------------------------------------------
(* The worker. *)

\* Mutant of Ask: the SDK's cache, which serves the last good response when
\* Keeper cannot be reached.
AskCached(c) ==
  /\ up
  /\ worker[c] = "ask"
  /\ worker' = [worker EXCEPT ![c] = "send"]
  /\ \E version \in held \cup {stored} :
       got' = [got EXCEPT ![c] = [kind |-> "one", version |-> version]]
  /\ UNCHANGED <<loadVars, held, callVars, sent, busy, up, stored>>

\* v.GetNotationResults: through a usable handle the SDK answers with one
\* value, with several, with an empty or no value, or fails; through a nil
\* manager it fails or panics, and nothing recovers the panic.
Ask(c) ==
  /\ up
  /\ worker[c] = "ask"
  /\ \/ /\ snap[c] # RefusedVault
        /\ \E kind \in {"one", "many"} :
             got' = [got EXCEPT ![c] = [kind |-> kind, version |-> stored]]
        /\ worker' = [worker EXCEPT ![c] = "send"]
        /\ up' = up
     \/ /\ snap[c] # RefusedVault
        /\ got' = [got EXCEPT ![c] = [kind |-> "empty", version |-> 0]]
        /\ worker' = [worker EXCEPT ![c] = "send"]
        /\ up' = up
     \/ /\ got' = [got EXCEPT ![c] = [kind |-> "error", version |-> 0]]
        /\ worker' = [worker EXCEPT ![c] = "send"]
        /\ up' = up
     \/ /\ snap[c] = RefusedVault
        /\ up' = FALSE
        /\ UNCHANGED <<got, worker>>
  /\ UNCHANGED <<loadVars, held, callVars, sent, busy, stored>>

\* Mutant of Send: an unbuffered done channel.
SendUnbuffered(c) == /\ up
                     /\ worker[c] = "send"
                     /\ caller[c] = "await"
                     /\ sent' = [sent EXCEPT ![c] = TRUE]
                     /\ worker' = [worker EXCEPT ![c] = "release"]
                     /\ UNCHANGED <<loadVars, held, callVars, got, busy, up, stored>>

\* done <- answer into a channel with room for it.
Send(c) == /\ up
           /\ worker[c] = "send"
           /\ sent' = [sent EXCEPT ![c] = TRUE]
           /\ worker' = [worker EXCEPT ![c] = "release"]
           /\ UNCHANGED <<loadVars, held, callVars, got, busy, up, stored>>

\* The deferred receive from busy.
Release(c) == /\ up
              /\ worker[c] = "release"
              /\ busy' = FALSE
              /\ worker' = [worker EXCEPT ![c] = "off"]
              /\ UNCHANGED <<loadVars, held, callVars, got, sent, up, stored>>

-----------------------------------------------------------------------------
(* The environment. *)

CtxDone(c) == /\ up
              /\ caller[c] \in {"acquire", "await"}
              /\ ~done[c]
              /\ done' = [done EXCEPT ![c] = TRUE]
              /\ UNCHANGED <<loadVars, held, workVars, caller, snap, outcome, asked, askedIn, heldIn,
                             busy, up, stored>>

Rotate == /\ stored < MaxVersion
          /\ stored' = stored + 1
          /\ UNCHANGED <<loadVars, held, busy, up, callVars, workVars>>

CallerStep(c) == Command(c) \/ Acquire(c) \/ Abandon(c) \/ Receive(c) \/ TimeOut(c) \/ Hold(c)
WorkerStep(c) == Ask(c) \/ Send(c) \/ Release(c)
HostStep == Configure \/ Load \/ Unload

Next == \/ HostStep
        \/ Rotate
        \/ \E c \in Calls : CallerStep(c) \/ WorkerStep(c) \/ CtxDone(c)

Spec == Init /\ [][Next]_vars

\* As in OnePassword: the caller's own goroutine runs; the SDK may hang.
Fairness == \A c \in Calls : /\ WF_vars(Abandon(c) \/ Acquire(c))
                             /\ WF_vars(TimeOut(c) \/ Receive(c))
                             /\ WF_vars(Hold(c))

FairSpec == Spec /\ Fairness

\* newTransport bounds every request, and a blocked sender is served in its turn.
NothingHangs == \A c \in Calls : /\ WF_vars(WorkerStep(c))
                                 /\ SF_vars(Acquire(c))
                                 /\ WF_vars(Receive(c))

-----------------------------------------------------------------------------
(* Properties. *)

(* "The SDK client ... is not safe for concurrent use": at most one worker  *)
(* exists, and the busy channel is full exactly while one does, so a        *)
(* request that outlives its caller still holds off the next one.           *)
OneWorker == \A c, d \in Calls : worker[c] # "off" /\ worker[d] # "off" => c = d
SlotInUse == busy <=> \E c \in Calls : worker[c] # "off"
SlotExclusive == OneWorker /\ SlotInUse

(* "There is no cache here": what a resolve returns is a value its own      *)
(* worker read from the vault after it was asked, never an earlier answer.  *)
ValueIsFresh ==
  \A c \in Calls : outcome[c] = "value" => got[c].version \in asked[c]..stored

(* hold is "for the life of the load": every value handed out under the     *)
(* current load is among the values to scrub.                               *)
HeldForTheLoad ==
  \A c \in Calls : outcome[c] = "value" /\ heldIn[c] = loads => got[c].version \in held

(* status reports "references resolve against" the loaded hostname: a       *)
(* resolve asked since the last load never goes to the vault of an earlier  *)
(* one, whatever was in flight when the host loaded.                        *)
ResolvesAgainstLoaded ==
  \A c \in Calls : worker[c] = "ask" /\ askedIn[c] = loads /\ snap[c] # RefusedVault
                     => snap[c] = loaded

(* Loads stay apart: what one handed out is known to its own scrubber, and  *)
(* a resolve of the new one does not reach the old one's vault.             *)
LoadsAreApart == HeldForTheLoad /\ ResolvesAgainstLoaded

(* Every resolve the host makes is answered, even with no deadline, when    *)
(* nothing hangs.                                                           *)
EveryCommandReturns == NothingHangs => \A c \in Calls : (caller[c] = "acquire") ~> (caller[c] = "returned")

(* "A resolve waiting behind a slow one still honours its own deadline".    *)
DeadlineHonoured == \A c \in Calls : done[c] ~> (caller[c] = "returned")

-----------------------------------------------------------------------------
(* The abstract service this plugin implements. *)

SlotOwner == IF \E c \in Calls : worker[c] # "off"
             THEN CHOOSE c \in Calls : worker[c] # "off"
             ELSE NoCall
PhaseOf(c) == IF outcome[c] = "value" THEN "served"
              ELSE IF caller[c] = "returned" THEN "failed"
              ELSE IF caller[c] = "idle" THEN "idle" ELSE "pending"
ReadBy(c) == got[c].version
ValueOf(c) == IF outcome[c] = "value" THEN got[c].version ELSE 0

Backend == INSTANCE SecretBackend WITH
             slot  <- SlotOwner,
             phase <- [c \in Calls |-> PhaseOf(c)],
             read  <- [c \in Calls |-> ReadBy(c)],
             value <- [c \in Calls |-> ValueOf(c)]

ImplementsBackend == Backend!Spec

=============================================================================
