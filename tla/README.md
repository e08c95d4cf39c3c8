# Verification of cerberus-plugins

TLA+ models of the cerberus plugins, the TLC runs that check them and the
TLAPS proofs about them. Source paths are relative to the repository's root;
`PROJECT.json` maps every definition of the models to the lines it stands for.

1. [The system](#1-the-system)
2. [Components, state, operations, properties](#2-components)
3. [The models](#3-the-models)
4. [The runs](#4-the-runs)
5. [The proofs](#5-the-proofs)
6. [Disagreements found](#6-disagreements-found)
7. [What is not modelled](#7-what-is-not-modelled)
8. [Plan](#8-plan)

To repeat a check: `tlc -config <Run>.cfg MC<Module>.tla`; a proof:
`tlapm <Module>Proofs.tla`.

## 1. The system

A cerberus host starts each plugin as a process and talks to it through the
plugin SDK: `Init` hands over the configuration, `Load` and `Unload` switch the
plugin on and off, `Health` reports, `MCPCallTool` (connectors) and `Command`
(secret backends) do the work. The SDK serves each request on a goroutine of
its own, so **every entry point may run concurrently with every other one**,
`Load` and `Unload` with calls in flight included. Nothing is persisted by a
plugin; what outlives a call is the memory of the process and the remote
system (a vault, a cloud account, a cluster, a file).

Two kinds of plugin:

- *Secret backends* (`onepassword`, `keeper`) resolve a reference to a value
  for the host. They hold a mutex over their fields and a channel of capacity
  one, `busy`, as a lock a waiter can give up on, because the vendor's SDK
  client must not be entered twice.
- *Connectors* (all others) offer operations. Each declares a mode (read,
  mutating, destructive); an operation that writes needs `acknowledge: true`,
  takes `dry_run`, and usually one request to a vendor API, one child process or
  one file operation carries it out. What makes them hard is the few operations
  that take several steps, state kept between calls, and the shared gate.

## 2. Components

| Component | State | Operations | What makes it correct |
|---|---|---|---|
| onepassword | token, problem, SDK client (cached), held values, `busy` | Init, Load, Unload, resolve | one SDK call at a time; a failed client is dropped; no stale value; deadlines honoured; every value scrubbed; clients belong to the loaded token |
| keeper | vault handle, problem, held values, `busy` | Init, Load, Unload, resolve | the same, without a client cache; no resolve reaches the vault of an earlier load |
| caddy | none; the Caddyfile and the running caddy outside | render, validate, apply, reload | an invalid file never goes live; a failed apply puts everything back; the answer is true |
| azure | backend per load, memoised subscription | six listings, Health | the subscription chosen is the one the caller or the configuration named; it refuses to guess |
| digitalocean | backend per load | firewalls, droplets, power, volumes, snapshots, keys, tags, projects, reserved IPs | only what was given changes; the answer and the telemetry are true; nothing runs without acknowledgment; a list says when it is cut |
| kubernetes | none; kubeconfig, helpers and cluster outside | pods, logs, workloads, nodes, metrics, types; scale, restart, cordon, delete pod; check_access | a write hits the object that was read; answers say when they are cut short; a call goes where check_access said |
| cloudflare | backend per load, scrubber of token and minted secrets | zones, records, upsert of an A record, R2 buckets, S3 keys for them | an upsert leaves one unproxied record; it does what its preview said; no minted key is lost sight of; no error says a secret |
| namecheap | backend per load, scrubber | domains, records, replacing a zone | a zone is what it was set to, hidden records included; the preview's diff is the change; the key, which is in every URL, stays unsaid |
| tailscale | OAuth token behind a mutex | keys, devices, tags, authorization | calls that meet exchange once; a listing that does not say truncated is whole; every call is answered |
| vercel | token, scrubber; profiles file, checkout and production outside | list_profiles, status, deploy | a deploy ships what it prepared and what was previewed; the URL named is the deployment's |
| forge | token; a site outside | servers, sites, deployment script, deploy, command | a script's diff is the change; a refused call did nothing |
| github, contextforge | backend per load | reads | - |
| sysmon, apt, ufw, fail2ban, journalctl, restic, rsync, tmux | none | readings, one command line each | - |

Components interact with the host only (never with one another) and each with
its remote system. The hazards that follow, with the line where each bites and
the property that watches it, are in `PROJECT.json` (`hazards`).

## 3. The models

Conventions. A step of a model is what the code does between two points where something
else can happen: one critical section, one channel operation, one request to the vendor
together with its answer, one call on the filesystem, one step of a child process.
Actions carry the name of the function they translate. A definition marked *mutant* is a
plausible bug in the definition after it; no specification uses one. *History* variables
only record, so that a property can speak of the past; no guard reads one. One of them,
`calm`, appears in many of the models: it is true while a behaviour has so far kept to a
discipline the code does not enforce (calls one at a time, reloads only between calls,
no child killed, nobody else at work). A property stated `calm => ...` or `[][calm' =>
...]` is what the code guarantees to a host that keeps to it; the behaviours that do not
are explored in the same run, against the properties that do not mention `calm`.

### onepassword: `OnePassword`, over `SecretBackend`

`onepassword/internal/opplugin/plugin.go`. A resolve is two processes: the *caller*
(`Command`, `resolve`, the receive, `hold`) and, once it owns `busy`, its *worker* (the
goroutine: `clientFor`, sign-in, `Resolve`, `dropClient`, the send, the deferred receive
from `busy`). A worker outlives a caller whose context is done and keeps the slot.
`Load`, `Unload` and `Init` are actions of the host that may come at any moment. A
client is named after the resolve that signed it in; the secret in the vault is a
version number that anyone may raise (`Rotate`).

`SecretBackend` is what the host relies on: a resolve fails, or returns a value
read while it alone held the SDK and after it was asked. The refinement maps
the slot to the one worker that is not off (`SlotOwner`), the caller's state to
its phase (`PhaseOf`), and the worker's answer to what was read.

### keeper: `Keeper`, over `SecretBackend`

`keeper/internal/keeperplugin/plugin.go` and `vault.go`. The same shape without a
client cache. What is different is modelled: `p.vault` is read once per resolve;
a configuration the SDK refuses leaves a nil manager inside a non-nil interface
(`RefusedVault`), calling it panics and ends the process (`up`).

`MCLive` puts the two backends and tailscale's token mutex beside one another for
the liveness run.

### caddy: `CaddyApply`, over `ConfigStore`

`caddy/internal/caddyplugin/apply.go`. The file at `config_path`, the
configuration the running caddy holds, the staging files, and for every call
its place in `apply` and its `caddy reload` child. The child reads the file when
it runs, posts it, and what it posted outlives it. `Faults` chooses what the
world does: crashes of the plugin, callers' deadlines (`Kill`), a disk that
refuses the restore, edits by hand. `ConfigStore` is the promise of
`caddy/README.md`: file and running configuration change together or not at
all, except for edits and for a restore that failed and was reported. While an
apply is undecided (`Undecided`) the abstract file is the one it read. The
refinement is claimed while `calm` holds: no overlapping call or edit, no killed
child, no crash.

What the previews say is computed, not enacted: `CaddyRender` is `parseRenderInput` and
`renderCaddyfile` (`render.go`) as operators on a declaration, with labels as numbers
and a Caddyfile as its sites and their handlers, both in the order of names (`Ordered`,
by counting who comes before); `TextDiff` is the two line diffs (`caddy`'s and `forge`'s
`diff.go`: the LCS table, the lines kept, removed and added, the hunks they fall into,
how those are joined and numbered). A hunk is its operations and the lines it starts at;
its counts are those of its operations. `ConfigTexts` makes one call of each over every
small input and compares with a reference definition: the hunks, applied where they say,
make the proposed text of the current one; no shorter list of changes would; every
declared name reaches its upstream and no other name reaches any; the file is the same
for every order of the routes.

### azure: `AzureSubscription`, over `AzureEstate`

`azure/internal/azplugin/backend.go` and `plugin.go`: `ResolveSubscription` with
its memo, `Load` that builds a backend only if there is none, `Unload`, Health
and the operations as callers, and an account whose grants change.

### digitalocean: `DigitalOcean`, over `Inventory`

`digitalocean/internal/digitaloceanplugin`. The lifecycle; the gate every write
goes through (`writeMode`, argument checks, preview, `ready`); the telemetry
attached to the answer; and every operation that writes a firewall, plus
`create_droplet`. `update_firewall` is a read and a full replace, so it is two
steps; `create_droplet` is a create and a look-up. A request may fail, or be
carried out and its answer be lost. `Inventory` is the promise: a write happens
at one moment, on exactly the fields it was given, and an ok is true. The
refinement is claimed while calls come one at a time (`calm`).

`OceanFleet` is the rest of the account: everything that is one request behind the same
gate, on things that have a place and a size; `assign_tag`, a read, perhaps a creation,
and a put; and the lists, one request a page under a cap while others create and delete
(`Walk`). A thing has a turn in the lists that show it, a page is the turns it spans,
and a new thing may be shown anywhere. Load and Unload are in `DigitalOcean` only.

Assumed: a firewall is changed through this plugin only (an edit in the
vendor's console is one more overlapping call); an id is not reused.

### kubernetes: `K8sWorkloads`

`kubernetes/internal/k8splugin`: the five writes (scale, restart, cordon,
uncordon, delete a pod) and `list_workloads`, against a cluster in the hands of
others (`Edit`). An object is its resource version and the one value an
operation touches: replicas, schedulable or not, running or terminating. A write reads its object,
returns at once if there is nothing to do (`NoOp`), and sends; a dry run sends
the same request with `dryRun=All`. Only the update of the scale subresource
carries the version that was read, so only it can answer a conflict (`Current`).
The replica count is narrowed to an int32 before it is checked (`Narrow`, with
`Half` for 2^31). `list_workloads` asks for three kinds one after the other
under one budget (`Page`, `Skip`, `Finish`), and the cluster changes in between.

A deletion makes its pod go at once or terminate, and a further one of a pod that
terminates brings it nearer its end, or is a success that changes nothing (`DeletePod`).

Abstracted: the restart stamp is a change, or, within the second of another one,
none; grace periods have no length; the warnings are left out; a connection
that cannot be made refuses the call (`NoClient`).

`K8sAccess` is what comes before: `auth.go`'s two readings of the kubeconfig (for
the namespace and for the connection), the identity and its helper or token file,
and `check_access`, which finds the same by separate code, while the operator
switches contexts, installs or removes helpers, and changes who may run them or read a
token file. The two do not look at the same: `check_access` asks whether a file or a
program at its own path is there, the connection reads the one and runs the other
(`FileStates`, `runnable`), and `RestConfig` refuses entries that are not `Sound`, which
`check_access` does not examine. `K8sReads` is the other reads
that page, cut, sort or join: one call, or a listing with its further pages, over a
cluster that changes between requests. An answer is the set of what it lists, with
whether it says there is more; order matters only for what it cuts off (`Foremost`).

### cloudflare: `CloudflarePlugin`, `CloudflareDNS`, `CloudflareR2`

`CloudflarePlugin` is the lifecycle, the write gate, the error codes and what a
request can come back with: refused, carried out, or carried out with its answer
lost. `CloudflareDNS` extends it with `upsert_a_record` (list zones, list records,
create or update) and the single record requests it meets; `CloudflareR2` with
buckets, minting an S3 key (which checks the bucket, makes a token, and revokes it
again if the answer is unusable), revoking one, and the scrubber that learns what was
minted.

### namecheap: `NamecheapZone`

A zone is a bag of records and an email type; `setHosts` replaces both, `getHosts`
leaves some records out. A dry run is two reads and a diff of bags. The scrubber is
modelled because the key is in the URL of each request and a network error quotes
the URL: a call carries its client across Unload and Load, the scrubber does not.

### tailscale: `TailscaleTailnet`

Every request needs the token; `authorize` holds the mutex across the exchange.
Keys are listed and read back one by one, up to a hundred, while others mint and
revoke; devices are tagged, authorized and deleted, with previews.

### vercel: `VercelDeploy`

A deploy reads a profile, makes a plan (preflight, build, link, deploy), looks at
git, and then previews or runs step by step, stopping at the first failure, killed
at the deadline included. The operator edits the profile and the tree meanwhile,
commits, and undoes what was edited, and two runs share one checkout. What `inspectGit`
says (`Inspected`) is a commit and one bit, or nothing if git fails. The history `shown`
holds the last preview and the tree it was of, whatever happens to the tree afterwards;
a run that plans what that preview showed (steps, profile, commit, bit) carries it as
`asShown`. The codes of refusals are left out. Output is the lines with a URL, read for the
deployment's; what the vendor's command prints of its token goes through the
scrubber.

### forge: `ForgeSite`

One request an operation, which may be lost on the way there or back, answered with
a status, or garbled (`Failures`); the code a caller gets for each; and the
deployment script, updated after a dry run that shows `TextDiff`'s hunks.

## 4. The runs

One run for each group of parts of one kind, one for liveness, and one for each
disagreement of section 6. Where a run covers several parts, a variable `scope`
chooses one at the start of a behaviour and the others stay as they are: the state
spaces add up, they do not multiply. Sizes are of distinct states, under the
symmetry of the cfg.

| Run | Parts | Checks | Bounds | States |
|---|---|---|---|---|
| `op_safety` | `OnePassword` | no failed client used again, clients of the loaded token, loads kept apart, refinement of `SecretBackend` | 2 resolves, 2 tokens, 2 loads, 2 versions of the secret | 908,198 |
| `keeper_safety` | `Keeper` | types, loads kept apart, refinement of `SecretBackend` | 2 resolves, 2 configurations of which one is refused, 2 loads, 2 versions | 681,428 |
| `live` | `OnePassword`, `Keeper`, `TailscaleTailnet` | every call returns and gives its slot back; a waiter honours its deadline | 2 calls, 1 load, 1 key | 55,898 |
| `configs_safety` | `CaddyApply`, `ConfigTexts`, `ForgeSite` | disk in order, truth of the answers, refinement of `ConfigStore`; diffs and renderings right; scripts change as shown, refused calls do nothing | 2 calls, 2 valid configurations, 1 invalid, every fault; at most 3 contents by hand; texts of up to 3 lines of 2 kinds, and 6 lines kept, dropped or replaced; declarations of up to 3 routes | 1,461,778 |
| `clouds_safety` | `DigitalOcean`, `OceanFleet`, `AzureSubscription` | truth of answers and telemetry, refinement of `Inventory`; lists and tags; the order of choice and where the memo comes from | 2 calls; 1 firewall of 2 fields; 3 volumes, an IP, a droplet, 1 tag, pages of 1 and at most 2; 2 subscriptions, 2 loads | 339,271 |
| `k8s_safety` | `K8sWorkloads`, `K8sAccess`, `K8sReads` | scales hit what they read, writes are as told, whole lists, the way to the cluster, reads | 2 calls, 2 deployments, 1 daemon set, 1 node, 1 pod, 1 edit by others; counts of 2 bits, listings of at most 2; 1 call with 2 contexts; 3 items, 2 events | 501,545 |
| `sites_safety` | `CloudflareDNS`, `CloudflareR2`, `VercelDeploy` | the upsert, previews, the gate and its codes, R2 keys, what is learned stays unsaid; deploys as planned, the URL and the scrubber | 2 calls, 2 records, 1 tailnet and 1 public address, 1 key, 2 regions; 2 trees, 2 profiles, 4 outputs | 471,487 |
| `names_safety` | `NamecheapZone`, `TailscaleTailnet` | zones as given, diffs, the key unsaid; one exchange for all, whole listings, device changes as shown | 2 calls; 2 kinds of record, 2 API keys; 2 auth keys of which 1 is read, 1 device, 1 tag | 340,502 |
| `op_stale_client` | `OnePassword` | *violated*: resolves go where `status` says | as `op_safety`, 1 version | - |
| `caddy_race` | `CaddyApply` | *violated*: a rollback puts back what the swap replaced | 2 calls, no fault | - |
| `azure_guess` | `AzureSubscription` | *violated*: it refuses to guess | 1 load | - |
| `vercel_stale` | `VercelDeploy` | *violated*: a changed checkout makes an approval stale | 1 call, 3 trees | - |

What each run shows:

- `op_safety`, `keeper_safety`: however resolves, deadlines, sign-ins, failures and
  reloads interleave, the SDK is entered once at a time and a value returned was
  read after it was asked for (`ImplementsBackend`), a failed client is never used
  again, and what one load handed out is not forgotten by its scrubber or reached
  by the next (`LoadsAreApart`). `ClientIsOfItsToken` is under `calm`.
- `configs_safety`: `DiskIsInOrder` and `AnswerIsTrue` hold with crashes, kills,
  edits and a failing disk, `IsTransaction` and part of `AnswerIsTrue` under `calm`;
  `TextsAreRight` over every pair of small texts and every small declaration;
  `SiteIsAsTold` with answers lost or garbled.
- `clouds_safety`: `ReportIsTrue` (answers, telemetry but of a preview asked for with
  text, and panics only under an Unload) for any interleaving; `IsInventory` one call at a time; `FleetIsAsTold`:
  an ok is a write carried out, and a list not marked truncated has everything there
  was when it began, unless something was deleted under it.
- `k8s_safety`: a scale never overwrites replicas it did not read; an answer that
  does not say it was cut was not; under a calm cluster an applied write changed
  its object, but for a restart within a second of another and a pod read as
  terminating; a call is stopped locally only if `check_access` would say so or by what
  `Overlooked` lists, and otherwise reaches the context, as the identity, that it named.
- `sites_safety`: with any request failing, carried out or not. `UpsertIsSafe`
  includes the retry of an upsert whose answer was lost. `KeysAreInOrder` names the
  only ways a minted key gets lost sight of. `GateHolds` is
  about zones and records as about buckets and keys: what stands before a write was
  acknowledged and is no dry run. `DeploysAsPlanned` holds for runs that no build of
  another run and no edit disturbs while they work; what was edited, committed or undone
  between a preview and its run is what the part about the preview is for, and that
  part is about clean checkouts.
- `names_safety`: `ListIsWhole` and `ExchangesOnlyWhenNeeded` for any overlap,
  `ZoneIsAsGiven` and `ChangesAreAsShown` one call at a time, `OnlyUnloadHarms`
  across reloads with a change of key.

**Why the bounds are enough.** Every hazard of these parts is between two
actors: two resolves, a resolve and a host, an apply and another one, an update
and an attach, a listing and a deletion. In the one-shot models two calls give every
overlap and every order of two; where calls are slots used again and again
(Cloudflare, namecheap, tailscale, vercel), also every sequence. Two tokens or
configurations tell "the loaded one" from "the other one"; two loads are one
reload; two versions of a secret tell fresh from stale; two API keys tell the
one in flight from the one loaded since. Two valid Caddyfiles and an invalid one give an
apply, a rollback and somebody else's file. Two fields of a firewall tell what was
given from what was not, and one item an empty list from a non-empty one. Two pages
of one and three volumes are a list that ends, one that is cut, and one that is
shifted. One edit in the cluster comes between a read and a write or between two
pages; two of the three kinds of workload (the third differs by name only) exceed
the budget or fit it; `Asked` has a count in range, one that wraps below zero and
one that wraps to zero. Two auth keys of which one is read are one more than a
listing reads. Two trees are what was previewed and what is there now, or what is committed and what
is not; the third of `vercel_stale` is another edit of a dirty one. A token file unreadable,
absent or readable, a program that may be run or not, are each of the ways
`check_access` and the connection differ. Texts of
six lines with one line of context have hunks that touch, that do not, and changes
at either end. The bounds are `MaxLoads`, `MaxVersion` and `MaxRev`
(guards of `Load`, `Rotate` and `Edit`, for counters the code does not have),
`MaxEvents`, `MaxItems` and the like of `K8sReads`, `MaxByHand` (how many contents
others put at `config_path`), `InTurn` (what a DigitalOcean account holds at first is
listed in one order), `Peopled` (a node or a pod that is missing is one others
removed), `InPod` (to a process in a pod a kubeconfig matters for its namespaces
only), `Published` (a ttl of one's own is at first on records an upsert could have
made), a single call in `Lookups` (two share nothing but what the operator changes),
and the sizes of the sets. One of the two profiles cannot be planned: which of two
plans a run follows is not what its properties are about. Ids, once used, are not used again.

**Deadlock.** `CHECK_DEADLOCK FALSE` is set where the system may stop: the
one-shot calls are used up, or the process died (a panic, a crash). In
`op_safety` and `op_stale_client` the host can always act, so the check is on; it
says nothing about a resolve, which is what `live` is for.

**Symmetry** is over calls, and over values that occur in no comparison (tokens,
subscriptions, items, records, keys, trees, configurations caddy accepts), in runs of
safety properties only.

**Fairness.** `OnePassword` and `Keeper` are fair only to the caller's own
goroutine: entering or leaving the `select` for the slot, taking a result or a
deadline, `hold`. Go schedules a runnable goroutine, so this is all the code owes
anybody, and `DeadlinesHonoured` holds under no more: the SDK may hang for ever.
`NothingHangs` adds that the worker runs on and that a waiter for the slot is not
passed over for ever. The first is justified by the HTTP transport's timeout
(`client.go:79-118`; `vault.go` likewise), the second by Go serving the senders
blocked on a channel in order. It is a premise of `EveryCommandReturns` and
`SlotIsFreed`, so that one run checks both sides. Tailscale's requests, the exchange
included, end by the 30 seconds of its HTTP client (weak fairness of `Step`); a call
that waits for the mutex gets it in the end (strong fairness of `Authorize`), as Go's
mutex hands itself over to a waiter that starves.

Every property of a passing run has a mutant (`PROJECT.json`, `mutants`): a
plausible bug in one definition that TLC finds by that property.

## 5. The proofs

`tlapm` proves every property that the passing runs check, but the two of `live`, for
every number of calls, tokens, subscriptions, firewalls, items, records, keys, objects
of a cluster, limits, texts and declarations. A theorem about a run that covers
several parts is about its `MCSpec` and states the run's property by name.

The only assumptions are on constants, and TLC evaluates each on a run: the "none"
values are not members of the sets they are added to, bounds are naturals,
`"droplet_ids"` is a field (`ConstantsAssumption` and its like in each module);
counts are of a finite set (`DNSAssumption`, `TailnetAssumption`); a context is a
number of lines (`DiffAssumption`); and what a run is given to work on has its type:
scripts and pairs of texts are sequences of lines, declarations have routes with names
and a port, profiles and outputs are Vercel's (`ScriptsAssumption`, `PairsAssumption`,
`DeclarationsAssumption`, `SitesAssumption`, `ZoneAssumption`).

Hardly a property is inductive alone. Each module names the strengthening it needs, one
definition an idea:

**OnePasswordProofs.** `TypeCorrect`, `SlotIsExclusive`, `FailedClientStaysOut`,
`ValuesAreFresh` from one invariant, `IInv`: the types, `SlotExclusive`, `Wiring`
(which states of a caller go with which states of its worker, and what is in its
channel), `Signed` (a client is a resolve that signed in; a failed one is neither
cached nor in use) and `Reads` (a value in flight is not older than its resolve).
None of the properties is inductive alone: that a value is fresh when it is
returned rests on the channel holding only its own worker's answer, and that on
the slot. `QuietHostIsSafe` adds `OneToken` under `calm`: the cached client,
every client in use and the loaded token agree. `PluginImplementsBackend` maps
every step to a step of `SecretBackend` or to a stutter.

**ConfigsProofs**, of `CaddyApply`. `TypeCorrect`; `NoInvalidFileGoesLive` from
`LiveInv` (what any call is about to put on disk came from a validate or from the file
itself: `Sources`); `StagingIsCleanedUp` from `StagingInv` (a staging file belongs to
the stage of the call that made it). `AppliedIsInPlace`, `RolledBackIsBack` and
`ApplyIsTransaction`, the refinement of `ConfigStore`, from `SerialInv`: under `calm`
there is one call in flight, and `Ledger` ties what it remembers to the file, the child
and the running configuration at each stage. `DiskStaysInOrder` and `AnswersHold` state
what the run checks.

**ConfigsProofs**, of the rest. `RefusedRanNothing` and `UpdateIsAsShown`: a
script is replaced as its preview showed, since the last preview shown is of the script
there is (`ShownIsTrue`). `PreviewsAreRight` is all that the run computes, for every
pair of texts and every declaration. For diffs it rests on `TextDiffProofs`. For a
rendered file: `Before` orders names totally (`BeforeIs`, `BeforeFollows`,
`BeforeOrAfter`), hence `Ordered`, which finds a place by counting who comes before, is
a bijection from places to names (`OrderedIs`), the handlers of a site are one for each
route declared there (`HandlersAre`), and each has its route's port (`DeclaredIsServed`).
As the places do not depend on the order of the declaration, neither does the file
(`OrderDoesNotMatter`).

**TextDiffProofs**. A diff is computed by recursive functions over the texts, and
nothing here does induction over data. Two lemmas stand in for it: a set of numbers that
is not empty has a least element (`LeastOf`, from the well-foundedness of `<` on the
naturals), so that a place at which a function is wrong can be taken with the function
right at all places its value comes from; and a recursive definition along a rank has a
function that satisfies it (`RecursionExists`, by iterating it). With these:

- `DiffIsExact`: of the operations of `lineDiff(a, b)`, those that are not added are
  `a` and those that are not removed are `b`; `DiffCounts`: their numbers add up.
- `UnifiedMakesTheProposed`, `WrittenMakesTheProposed` (Forge's and caddy's hunks): they
  stand in place, apart, and applied where they say make the proposed text. The hunks
  are a walk through the operations (`IsWalk`) that leaves out kept lines only
  (`Quiet`), and up to each of its steps the text patched so far is what the operations
  make of the new one (`TextAt`).
- `KeptAreMost`: however many lines of either text are chosen that are equal in their
  order, the diff keeps at least as many. The table has at each place the number of
  lines kept from there on (`KeptAre`), which is at least what any choice pairs from there
  on (`Best`): if the first lines are equal the choice may as well pair them, and
  otherwise it leaves out one of the two.

**CloudsProofs**, of Azure. `AzureTypes`, `ChoiceIsInOrder`, `MemoIsExplained` and with
them `SubscriptionsAreExplained`, from `AzureInv`: `Built` (a backend in use was
built), `ChosenInTurn` for each call, and `Explained` (the memo of a load was named by a
call, or was the only one listed).

**CloudsProofs**, of DigitalOcean's firewalls. `TypeCorrect` needs `Gated` (what
runs passed the gate: a detach without `droplet_ids` would not make a firewall);
`BackendIsThere` from `Ready`; `AnswersAreTrue` from `Told` (what the history knows at
each stage); `ReportsAreTrue` from `Reported`, which ties the telemetry to what was asked
and done (what changed is reported as a change, and a preview as a preview unless its
`dry_run` came as text, as the code then reports a change); `WritesArePatches`, the refinement of `Inventory`, from
`SerialInv`: under `calm` one call runs, and what `update_firewall` read is still what
is there.

**CloudsProofs**, of the fleet. `FleetsAreAsTold`: the write of an answer was carried
out (`Stated`), and a list that is not marked truncated has everything that was there
when it began, if nothing was deleted under it. What the list has not found comes after
the pages it has asked for (`Ahead`), because a creation, wherever it is shown, brings
nothing else's turn forward: only a deletion does. The order in which a run's account
starts (`InTurn`) is not used.

**K8sWorkloadsProofs.** All that `k8s_safety` checks of `K8sWorkloads`, from one `IInv`.
`ScalesHitWhatTheyRead` needs `Versions` (no object is ahead of the cluster's
revision), which makes an object in the version that was read the object that was
read (`ReadBefore`), deleted and replaced or not. `WholeListsAreWhole` needs what
holds between two pages: what was found and what is left of the budget add up to
no more than the limit (`Counted`), and unless the answer is already known to be
short, what was there all the while is found for the kinds passed (`Covered`).
`AppliedChanges` is under `calm` (`Alone`), and leaves out the deletion of a pod that was
read as terminating, which the code reports as applied too.

**K8sWorkloadsProofs**, of the way there and of the reads. `CallsGoWhereTheySay` from
`AccessInv`: while nobody moved anything under a call, what it was foretold is what
`check_access` would say now (`Foreseen`), and its connection is one its options make
(`Bound`); a call that was foretold ready and is stopped is then stopped by what
`check_access` does not look at, which the theorem names (`Overlooked`); its namespace and its context stay even when the operator switches, if the
call or the configuration named the context (`Named`, `Reached`). `ReadsAnswerTruly`
from `ReadsInv`: what the pages so far did not list is what the token stands for
(`Stands`), and what was read is all there was unless the API server said there was more
(`ReadSoFar`). That the busiest come first is a fact about cutting a total order at a
place (`TotalOrder`, `Foremost`), since usage and name together never tie.

**SitesProofs**, of Cloudflare. The gate (`TheGateHolds`) from `PluginInv`, shared by
both modules: a call without a backend is one that was unloaded under. The zone
changes only by a call that stands before a write (`SendersWrite`), and such a call has
an operation on the gate's list and passed it acknowledged and not dry
(`SendersWereTold`), through the reads and the plan of an upsert.
`R2KeysAreInOrder` and `LearnedIsUnsaid` from `R2Inv`: a call that has a key to clean up
or to revoke has one of the plugin's, if the key is alive (`R2Owned`), the bucket it
found is there while calm (`R2Found`), and the scrubber holds what the plugin learned.
`UpsertsAreSafe` and `UpsertsDoWhatWasShown` from `ZoneInv`: a plan publishes a tailnet
address unproxied (`TailnetOnly`), and under `calm` both a plan and a preview are what
would be planned now (`PlanStands`, `ShownStands`).

**SitesProofs**, of Vercel. `RunsDeployAsPlanned` from `Prepared` (a step that is done is
still done, unless another run or an edit disturbed it) and `AsShown` (the tree of a
preview that said clean is the commit it named, wherever the checkout has been since,
so a run that finds that commit and a clean checkout finds that tree); `OutputIsReadWell` from
`TokenHeld`, and from lemmas about the reading of output, for every number of lines and
URLs: the first deployment URL and the first line about production are found by
least numbers.

**NamesProofs**, of the tailnet. `OneExchanges` and `ListingsAreWhole` from `TailnetInv`:
the mutex is held by the one call that exchanges, and no token is live meanwhile
(`LockInv`); a listing has read what is behind it of what was there (`ListInv`); a
device is as the last preview of it says (`ShownInv`).

**NamesProofs**, of the zone. `ZonesAreAsGiven`, `UnloadsAloneHarm` and, with the
tailnet, `PreviewsAreTrue` from `ZoneInv`: the key in use is the scrubbed one, unless the
call was unloaded under (`ClientInv`, `CallsInv`), and a preview kept is of the zone as
it is (`ZoneShownInv`).

**KeeperProofs.** Along `OnePasswordProofs`, with a simpler `IInv` (there is no
client cache) and one more way for a worker to end, the panic of a refused vault:
`TypeCorrect`, `SlotIsExclusive`, `PluginImplementsBackend`. Here and there,
`LoadsStayApart` needs what was handed out since the last load to be known to the
scrubber (`Scrubbed`).

**Model-checked only**: liveness, which is out of this prover's reach
(`EveryCallReturns`, `DeadlinesHonoured`), and that the four claims of section 6 fail.
`RECURSIVE` operators are not used. Of the operators that are proved about, none is from
a library module that the prover could not expand: `Ordered`, `Rank` and `Foremost` count
instead of sorting.

## 6. Disagreements found

Each is a run that ends in a counterexample; `PROJECT.json` quotes both sides.

- `op_stale_client`: a sign-in in flight across a reload leaves a client of the
  old token behind (`onepassword/internal/opplugin/plugin.go:254`).
- `caddy_race`: two applies of one file; the rollback of one overwrites or
  removes what the other wrote (`caddy/internal/caddyplugin/apply.go:207`).
- `azure_guess`: a subscription one call named becomes the default of the calls
  that name none (`azure/internal/azplugin/backend.go:263`).
- `vercel_stale`: of a dirty checkout a preview says only that it is dirty, so another
  edit leaves the preview as it was (`vercel/internal/vercelplugin/deploy.go:214`),
  though `vercel/README.md:78-80` says a changed checkout makes the approval stale. A
  `git status` that fails reads as a clean checkout besides.

These are in the models and have no run of their own. The properties that the first four
would break name them as exceptions, and hold of everything else:

- `withOperationTelemetry` takes only a boolean `dry_run` for a dry run, the gate also
  takes text such as `"true"`, which is how the CLI sends it: such a preview is reported
  as a completed change, though telemetry.go:20 promises "a preview when it was a dry
  run" (`digitalocean/internal/digitaloceanplugin/telemetry.go:32`, `args.go:102`).
  Cloudflare, namecheap and tailscale do the same. Excepted in `TelemetryIsTrue`.
- A pod that terminates can be deleted again; the answer is applied and nothing changed
  (`kubernetes/internal/k8splugin/clientgo_writes.go:272`), though dto_writes.go:22 says
  "Applied is true only when the change was really made". Excepted in `AppliedIsNoNoOp`.
- `check_access` says ready, "that nothing local prevents the attempt" (dto.go:71-73), and
  every call is refused: a token file that is there and cannot be read
  (`kubernetes/internal/k8splugin/auth.go:272`), a token configured without a server, a
  helper at its own path that may not be run, an in-cluster token that cannot be read,
  an entry client-go rejects. Excepted in `CheckForetells` (`Overlooked`).
- A configuration the SDK refuses leaves a typed nil in `p.vault`: it is reported as
  loaded, and a resolve calls it (`keeper/internal/keeperplugin/plugin.go:120`,
  `RefusedVault`): the worker panics. Excepted in `ResolvesAgainstLoaded`.
- An attach or detach between the read and the replace of `update_firewall` is
  undone (`digitalocean/internal/digitaloceanplugin/ops_firewalls.go:217`): it
  ends `calm` in `clouds_safety`, and with it the refinement of `Inventory`.
- `scale_workload` narrows the count to 32 bits before it checks it: 2^32 scales to
  nothing (`kubernetes/internal/k8splugin/plugin.go:236`). `Asked` of
  `k8s_safety` has such a count.
- A pod is deleted by name and a node patched without a version: what was replaced
  in between is what goes (`clientgo_writes.go:266`, `:214`).
- A `caddy reload` child killed at the caller's deadline after it posted its
  configuration counts as a failed reload: the previous file is put back and
  `rolled_back` answered while caddy runs the new configuration
  (`apply.go:200`; `caddy/README.md:142` says a failed reload leaves the old one
  running). `Kill` is in `configs_safety`, and ends `calm`.
- A description's events are cut to 20 and the answer does not say so
  (`clientgo_reads.go`; `backend.go:45-50` says every list does), and they are matched by
  kind and name, not UID. A log of exactly `tail` lines is marked truncated.
- DigitalOcean's lists go by page number: a deletion under a walk moves an item to a
  page already read, and it is missing from a list that looks whole. `WholeIsWhole`
  excludes such walks. An `assign_tag` whose put fails leaves the tag it made, empty.
- Cloudflare: a minted key whose clean-up fails stays, and the clean-up's error is
  dropped while the text says it was revoked (`api_backend.go:373`); a Load forgets
  the secrets minted before it.
- Namecheap: a call in flight across an Unload and a Load of another key can say its
  old key in a network error (`plugin.go:125`); a diff shows a ttl left out as a
  removal and an addition.
- Tailscale: a key revoked while a listing reads the keys back fails the whole
  listing, as `invalid_args` (`api_backend.go:313`).
- Vercel: two runs share a checkout, and a build of one can be what the other deploys.

## 7. What is not modelled

- Wording, logging, schemas, the shape of results; the SDK's transport between
  host and plugin.
- Data races on the fields the connectors read without a lock (`p.backend`): a read
  sees the old or the new pointer, which is what the interleaving of steps gives.
- onepassword, keeper: which references are well formed; the scrubber's
  algorithm (only which values it knows).
- caddy: `validate` as an operation of its own (it changes nothing), output tails,
  and filesystem failures other than those of the restore and of staging.
- azure: what the six listings list.
- digitalocean: reads of one thing, `list_firewalls`, the `world_open` computation,
  the parser of rules (which accepts a port range whose low end is above its high
  end).
- kubernetes: an exec helper beside another credential of its user, and a token beside a
  token file; a kubeconfig whose context names a missing cluster, the `kubeconfig`
  argument of `check_access` and `list_contexts`, in-cluster mode beyond its default
  namespace, what the objects of a listing look like.
- cloudflare: zones, accounts and names other than one of each, records other than A. A
  Load makes the scrubber forget what was minted before it: `LearnedStaysUnsaid` is about
  what was learned since, and would not notice a Load that forgot more.
- namecheap: domains other than one.
- tailscale: the local operations (`status`, `up`, `down`, `serve`), one command each.
- vercel: digests, output tails, how the CLI is found, the codes of refusals. The part of
  `DeploysAsPlanned` about previews says nothing of previews and runs for which a git
  command failed, nor of one that an edit met while it was made.
- Every connector's Load, Unload and scrubber are modelled where they meet something:
  tailscale, forge and `OceanFleet` are loaded and stay so.
- github (its Load makes the scrubber anew but keeps the old backend, otherwise it
  reads), contextforge and sysmon only read; apt, ufw, fail2ban, journalctl, restic,
  rsync and tmux build one command line each; release and load-check tooling has no
  run-time state.

## 8. Plan

*Done*: the secret backends with their abstract specification; caddy with
`ConfigStore`, its renderings and diffs; azure; digitalocean with `Inventory`, its
fleet; kubernetes' writes, reads and access; cloudflare; namecheap; tailscale; vercel;
forge; the proof of every safety property of every passing run.

Next, in this order:

1. `NamecheapZone` and `ForgeSite` as refinements of `Inventory`, one field each: a
   replace of a zone or of a script is one write of what was given.
2. The promises of section 6 that the code breaks, proved for the behaviours that keep
   to what each needs (no sign-in in flight at a reload, one apply of a file at a time),
   so that it is known to be enough.
