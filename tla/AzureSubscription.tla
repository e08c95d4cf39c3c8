------------------------- MODULE AzureSubscription -------------------------
(***************************************************************************)
(* Which subscription an azure operation acts on:                          *)
(* azure/internal/azplugin/backend.go and plugin.go.                       *)
(*                                                                         *)
(* Every Load builds a backend of its own, numbered by the load; a call    *)
(* keeps the one it found for the whole of ResolveSubscription, and reads  *)
(* p.backend again to do its work.  A step is one critical section of the  *)
(* backend's mutex, one ARM call or one read of p.backend.  A Load whose   *)
(* service principal is incomplete fails and changes nothing.              *)
(***************************************************************************)
EXTENDS AzureEstate, FiniteSets

CONSTANT Calls      \* calls of operations and of Health

VARIABLES
  config,    \* the subscription_id config field
  backend,   \* p.backend: its load, or 0 for nil
  loads,     \* backends built so far
  default,   \* [load -> configuredSubscription]
  resolved,  \* [load -> the memoised subscription]
  visible,   \* subscriptions the credential can see, in Azure
  stage,     \* [Calls -> where the call is]
  using,     \* [Calls -> the backend that resolves for it]
  requested, \* [Calls -> its subscription_id argument]
  target,    \* [Calls -> the subscription it gets, or got]
  named,     \* history: [load -> subscriptions named by a call's argument]
  sole       \* history: [load -> subscriptions listed as the only one]

pluginVars == <<config, backend, loads, default>>
vars == <<pluginVars, resolved, visible, stage, using, requested, target, named, sole>>

Stages == {"idle", "choose", "get", "list", "memoise", "use", "answered", "error", "panic"}

TypeOK ==
  /\ config \in Option
  /\ backend \in Loads /\ loads \in Loads
  /\ default \in [Loads -> Option]
  /\ resolved \in [Loads -> Option]
  /\ visible \subseteq Subs
  /\ stage \in [Calls -> Stages]
  /\ using \in [Calls -> Loads]
  /\ requested \in [Calls -> Option]
  /\ target \in [Calls -> Option]
  /\ named \in [Loads -> SUBSET Subs]
  /\ sole \in [Loads -> SUBSET Subs]

Init ==
  /\ config \in Option
  /\ backend = 0 /\ loads = 0
  /\ default = [l \in Loads |-> NoSub]
  /\ resolved = [l \in Loads |-> NoSub]
  /\ visible \in SUBSET Subs
  /\ stage = [c \in Calls |-> "idle"]
  /\ using = [c \in Calls |-> 0]
  /\ requested = [c \in Calls |-> NoSub]
  /\ target = [c \in Calls |-> NoSub]
  /\ named = [l \in Loads |-> {}]
  /\ sole = [l \in Loads |-> {}]

-----------------------------------------------------------------------------
(* The host and the estate's owner. *)

Configure ==
  /\ config' \in Option \ {config}
  /\ UNCHANGED <<backend, loads, default, resolved, visible, stage, using, requested, target, named, sole>>

LoadKeepingMemo ==              \* mutant: a new backend starts from the old memo
  /\ backend = 0 /\ loads < MaxLoads
  /\ loads' = loads + 1
  /\ backend' = loads'
  /\ default' = [default EXCEPT ![loads'] = config]
  /\ resolved' = [resolved EXCEPT ![loads'] = resolved[loads]]
  /\ UNCHANGED <<config, visible, stage, using, requested, target, named, sole>>

\* A backend that is there is kept, whatever the config says now.
Load ==
  /\ backend = 0 /\ loads < MaxLoads
  /\ loads' = loads + 1
  /\ backend' = loads'
  /\ default' = [default EXCEPT ![loads'] = config]
  /\ UNCHANGED <<config, resolved, visible, stage, using, requested, target, named, sole>>

Unload ==
  /\ backend # 0
  /\ backend' = 0
  /\ UNCHANGED <<config, loads, default, resolved, visible, stage, using, requested, target, named, sole>>

\* Access is granted or taken away.
Regrant ==
  /\ visible' \in SUBSET Subs \ {visible}
  /\ UNCHANGED <<pluginVars, resolved, stage, using, requested, target, named, sole>>

-----------------------------------------------------------------------------
Goto(c, s) == stage' = [stage EXCEPT ![c] = s]

Call(c) ==
  /\ stage[c] = "idle"
  /\ IF backend = 0 THEN Goto(c, "error") ELSE Goto(c, "choose")
  /\ using' = [using EXCEPT ![c] = backend]
  /\ \E s \in Option : requested' = [requested EXCEPT ![c] = s]
  /\ UNCHANGED <<pluginVars, resolved, visible, target, named, sole>>

PreferredMemo(c) ==             \* mutant: the memo before the configured default
  IF requested[c] # NoSub THEN requested[c]
  ELSE IF resolved[using[c]] # NoSub THEN resolved[using[c]] ELSE default[using[c]]

\* The explicit argument, then the configured default, then the memo.
Preferred(c) ==
  IF requested[c] # NoSub THEN requested[c]
  ELSE IF default[using[c]] # NoSub THEN default[using[c]] ELSE resolved[using[c]]

Choose(c) ==
  /\ stage[c] = "choose"
  /\ target' = [target EXCEPT ![c] = Preferred(c)]
  /\ Goto(c, IF Preferred(c) # NoSub THEN "get" ELSE "list")
  /\ UNCHANGED <<pluginVars, resolved, visible, using, requested, named, sole>>

GetUnhandled(c) ==              \* mutant: a failed Get ends nowhere
  /\ stage[c] = "get"
  /\ Goto(c, IF target[c] \in visible THEN "memoise" ELSE "getFailed")
  /\ UNCHANGED <<pluginVars, resolved, visible, using, requested, target, named, sole>>

\* armsubscriptions.Client.Get, or the credential fails.
Get(c) ==
  /\ stage[c] = "get"
  /\ \/ /\ target[c] \in visible
        /\ named' = [named EXCEPT ![using[c]] = @ \cup ({requested[c]} \ {NoSub})]
        /\ Goto(c, "memoise")
     \/ Goto(c, "error") /\ UNCHANGED named
  /\ UNCHANGED <<pluginVars, resolved, visible, using, requested, target, sole>>

\* The one subscription the account can see; none and several are errors, and
\* so is a listing that fails.
List(c) ==
  /\ stage[c] = "list"
  /\ \/ \E s \in Subs :
          /\ visible = {s}
          /\ target' = [target EXCEPT ![c] = s]
          /\ sole' = [sole EXCEPT ![using[c]] = @ \cup {s}]
          /\ Goto(c, "memoise")
     \/ Goto(c, "error") /\ UNCHANGED <<target, sole>>
  /\ UNCHANGED <<pluginVars, resolved, visible, using, requested, named>>

Memoise(c) ==
  /\ stage[c] = "memoise"
  /\ resolved' = [resolved EXCEPT ![using[c]] = target[c]]
  /\ Goto(c, "use")
  /\ UNCHANGED <<pluginVars, visible, using, requested, target, named, sole>>

\* Health and get_subscription answer at once; a listing reads p.backend again
\* and calls through a nil interface if the plugin was unloaded meanwhile.
Use(c) ==
  /\ stage[c] = "use"
  /\ \/ Goto(c, "answered")
     \/ backend = 0 /\ Goto(c, "panic")
     \/ backend # 0 /\ Goto(c, "error")
  /\ UNCHANGED <<pluginVars, resolved, visible, using, requested, target, named, sole>>

Step(c) == Call(c) \/ Choose(c) \/ Get(c) \/ List(c) \/ Memoise(c) \/ Use(c)
Next == Configure \/ Load \/ Unload \/ Regrant \/ \E c \in Calls : Step(c)
Spec == Init /\ [][Next]_vars

-----------------------------------------------------------------------------
Chosen(c) == stage[c] \in {"memoise", "use", "answered"}
ByDefault(c) == Chosen(c) /\ requested[c] = NoSub /\ default[using[c]] = NoSub

\* "the explicit argument, then the configured default": whatever calls with
\* other arguments memoise meanwhile, neither is overridden.
ChosenInOrder ==
  \A c \in Calls : Chosen(c) =>
    /\ requested[c] # NoSub => target[c] = requested[c]
    /\ requested[c] = NoSub /\ default[using[c]] # NoSub => target[c] = default[using[c]]

\* A call that names nothing acts on a subscription its own load has settled
\* on: one some call of that load named, or one that was the only one visible.
\* Nothing an earlier load memoised is used.
DefaultIsExplained ==
  \A c \in Calls : ByDefault(c) => target[c] \in named[using[c]] \cup sole[using[c]]

\* Whichever subscription a call acts on, there is a reason in its own load.
SubscriptionIsExplained == ChosenInOrder /\ DefaultIsExplained

\* "then the one subscription the account can see. It refuses to guess between
\* several" (backend.go): a call that names nothing, with nothing configured,
\* acts only on a subscription that was found to be the only one.
RefusesToGuess ==
  \A c \in Calls : ByDefault(c) => target[c] \in sole[using[c]]
=============================================================================
