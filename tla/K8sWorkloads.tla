---------------------------- MODULE K8sWorkloads ----------------------------
(***************************************************************************)
(* The kubernetes plugin's writes (scale, restart, cordon, uncordon, pod    *)
(* deletion) and its listing of workloads, against a cluster that others   *)
(* change: plugin.go, clientgo_writes.go and clientgo.go under              *)
(* kubernetes/internal/k8splugin.                                           *)
(*                                                                         *)
(* The plugin keeps no state between calls and Unload does nothing.  A step *)
(* is one request to the API server with its answer.  Every object has the *)
(* resource version of its last change and the one value an operation      *)
(* touches: a workload's replicas, whether a node is unschedulable (1) or   *)
(* not (0), whether a pod is running (1) or terminating (0).                *)
(***************************************************************************)
EXTENDS Integers, FiniteSets

CONSTANTS Calls, Deployments, StatefulSets, DaemonSets, Nodes, Pods,
          Asked,        \* replica counts callers ask for
          Half,         \* int32 is -Half .. Half-1
          Limits,       \* limits callers ask for
          DefaultLimit, MaxLimit,
          MaxRev,       \* bound: others change the cluster up to this revision
          Absent

Workloads == Deployments \cup StatefulSets \cup DaemonSets
Objects == Workloads \cup Nodes \cup Pods
Scopes == {"all", "deployments", "statefulsets", "daemonsets"}
OfKind(k) == CASE k = "deployments" -> Deployments
               [] k = "statefulsets" -> StatefulSets
               [] k = "daemonsets" -> DaemonSets
               [] k = "all" -> Workloads

Values(o) == IF o \in Workloads THEN 0..(Half - 1) ELSE {0, 1}
Object == [ver : Nat, val : Int]

Writes == {"scale_workload", "restart_workload", "cordon_node", "uncordon_node", "delete_pod"}
Modes == {"neither", "dry", "acked"}   \* no flag, dry_run, acknowledged
Request == [op : Writes \cup {"list_workloads"}, on : Objects \cup Scopes, n : Int, mode : Modes]

Targets(op) == CASE op \in {"scale_workload", "restart_workload"} -> Workloads
                 [] op \in {"cordon_node", "uncordon_node"} -> Nodes
                 [] op = "delete_pod" -> Pods
                 [] op = "list_workloads" -> Scopes
Numbers(op) == CASE op = "scale_workload" -> Asked
                 [] op = "list_workloads" -> Limits
                 [] op = "delete_pod" -> {-1, 0}   \* a grace period: negative, or not
                 [] OTHER -> {0}
Requests == UNION {[op : {op}, on : Targets(op), n : Numbers(op),
                    mode : IF op \in Writes THEN Modes ELSE {"neither"}] :
                      op \in Writes \cup {"list_workloads"}}

ASSUME ConstantsAssumption ==
  /\ Half \in Nat \ {0, 1} /\ Asked \subseteq Int /\ Limits \subseteq Int
  /\ DefaultLimit \in Nat \ {0} /\ MaxLimit \in Nat \ {0} /\ DefaultLimit <= MaxLimit
  /\ MaxRev \in Nat
  /\ Absent \notin Object
  /\ IsFiniteSet(Workloads)
  /\ Deployments \cap StatefulSets = {}
  /\ DaemonSets \cap (Deployments \cup StatefulSets) = {}
  /\ Workloads \cap (Nodes \cup Pods) = {} /\ Nodes \cap Pods = {} /\ Objects \cap Scopes = {}

VARIABLES
  obj,     \* the cluster
  rev,     \* its revision
  stage,   \* [Calls -> where the call is]
  req,     \* [Calls -> its request]
  seen,    \* [Calls -> the object a write read, or Absent]
  list,    \* [Calls -> a listing so far]
  out,     \* [Calls -> how it was answered]
  did,     \* history: calls whose write the API server carried out
  lost,    \* history: those whose answer did not arrive
  since,   \* history: [Calls -> the workloads that were there throughout its listing]
  calm     \* history: so far nobody changed the cluster or called while a call ran

history == <<did, lost, since>>
locals == <<req, seen, list>>
vars == <<obj, rev, stage, locals, out, history, calm>>

Kinds == {"deployments", "statefulsets", "daemonsets"}
Stages == {"idle", "read", "send", "finish", "returned"} \cup Kinds
Outs == {"none", "refused", "error", "unchanged", "preview", "applied", "whole", "truncated"}
List == [found : SUBSET Workloads, left : Int, more : BOOLEAN]

TypeOK == /\ obj \in [Objects -> Object \cup {Absent}]
          /\ \A o \in Objects : obj[o] # Absent => obj[o].val \in Values(o)
          /\ rev \in Nat
          /\ stage \in [Calls -> Stages]
          /\ req \in [Calls -> Request]
          /\ seen \in [Calls -> Object \cup {Absent}]
          /\ list \in [Calls -> List]
          /\ out \in [Calls -> Outs]
          /\ did \subseteq Calls /\ lost \subseteq Calls
          /\ since \in [Calls -> SUBSET Workloads]
          /\ calm \in BOOLEAN

NoRequest == [op |-> "list_workloads", on |-> "all", n |-> 0, mode |-> "neither"]
NoList == [found |-> {}, left |-> 0, more |-> FALSE]

Init == /\ obj \in [Objects -> {[ver |-> 0, val |-> 1], Absent}]
        /\ rev = 0
        /\ stage = [c \in Calls |-> "idle"]
        /\ req = [c \in Calls |-> NoRequest]
        /\ seen = [c \in Calls |-> Absent]
        /\ list = [c \in Calls |-> NoList]
        /\ out = [c \in Calls |-> "none"]
        /\ did = {} /\ lost = {} /\ since = [c \in Calls |-> {}]
        /\ calm = TRUE

Running == {c \in Calls : stage[c] \notin {"idle", "returned"}}
There(S) == {o \in S : obj[o] # Absent}

-----------------------------------------------------------------------------
(* The cluster, in the hands of others: controllers, operators, kubectl.   *)

\* A pod is created running, and what terminates does not run again.
Passes(o, v) == o \in Pods => IF obj[o] = Absent THEN v = 1 ELSE v <= obj[o].val

Edit ==
  /\ rev < MaxRev /\ rev' = rev + 1
  /\ \E o \in Objects :
       \/ \E v \in Values(o) : Passes(o, v) /\ obj' = [obj EXCEPT ![o] = [ver |-> rev', val |-> v]]
       \/ obj[o] # Absent /\ obj' = [obj EXCEPT ![o] = Absent]
  /\ since' = [c \in Calls |-> {o \in since[c] : obj'[o] # Absent}]
  /\ UNCHANGED <<stage, locals, out, did, lost>>

-----------------------------------------------------------------------------
(* callTool: arguments, writeMode, the connection.                         *)

\* int32(replicas)
Narrow(n) == ((n + Half) % (2 * Half)) - Half

AcceptedNegative(r) ==             \* mutant: no check of a negative count
  /\ r.op \in Writes => r.mode # "neither"
  /\ r.op = "scale_workload" => r.on \notin DaemonSets
  /\ r.op = "delete_pod" => r.n >= 0

Accepted(r) ==
  /\ r.op \in Writes => r.mode # "neither"
  /\ r.op = "scale_workload" => r.on \notin DaemonSets /\ Narrow(r.n) >= 0
  /\ r.op = "delete_pod" => r.n >= 0

Answers(c, o) == /\ stage' = [stage EXCEPT ![c] = "returned"]
                 /\ out' = [out EXCEPT ![c] = o]

Goto(c, s) == stage' = [stage EXCEPT ![c] = s] /\ UNCHANGED out

\* The call returns, and its locals go.
Return(c, o) == /\ Answers(c, o)
                /\ req' = [req EXCEPT ![c] = NoRequest]
                /\ seen' = [seen EXCEPT ![c] = Absent]
                /\ list' = [list EXCEPT ![c] = NoList]

Refuse(c, r) ==
  /\ stage[c] = "idle" /\ ~Accepted(r)
  /\ Answers(c, "refused")
  /\ UNCHANGED <<obj, rev, locals, history>>

\* clientset: no usable credential, or a kubeconfig that cannot be read.
NoClient(c, r) ==
  /\ stage[c] = "idle" /\ Accepted(r)
  /\ Answers(c, "refused")
  /\ UNCHANGED <<obj, rev, locals, history>>

boundLimit(n) == IF n <= 0 THEN DefaultLimit ELSE IF n > MaxLimit THEN MaxLimit ELSE n

Begin(c, r) ==
  /\ stage[c] = "idle" /\ Accepted(r)
  /\ req' = [req EXCEPT ![c] = r]
  /\ \/ /\ r.op \in Writes
        /\ Goto(c, "read") /\ UNCHANGED <<list, since>>
     \/ /\ r.op = "list_workloads"
        /\ Goto(c, "deployments")
        /\ list' = [list EXCEPT ![c].left = boundLimit(r.n)]
        /\ since' = [since EXCEPT ![c] = There(OfKind(r.on))]
  /\ UNCHANGED <<obj, rev, seen, did, lost>>

-----------------------------------------------------------------------------
(* The writes: read, recognise a no-op, send.                              *)

\* A request that fails, whatever it was for.
Fails(c) ==
  /\ c \in Running /\ stage[c] # "finish"
  /\ Return(c, "error")
  /\ UNCHANGED <<obj, rev, history>>

NoOpNever(r, o) == o = Absent      \* mutant: nothing is recognised as a no-op

NoOp(r, o) == \/ r.op = "scale_workload" /\ o.val = Narrow(r.n)
              \/ r.op = "cordon_node" /\ o.val = 1
              \/ r.op = "uncordon_node" /\ o.val = 0

Read(c) ==
  /\ stage[c] = "read" /\ obj[req[c].on] # Absent
  /\ LET o == obj[req[c].on] IN
     IF NoOp(req[c], o)
     THEN Return(c, "unchanged")
     ELSE /\ seen' = [seen EXCEPT ![c] = o]
          /\ Goto(c, "send") /\ UNCHANGED <<req, list>>
  /\ UNCHANGED <<obj, rev, history>>

CurrentIfThere(c) ==               \* mutant: the update carries no resource version
  stage[c] = "send" /\ obj[req[c].on] # Absent

\* The API server finds the object a request is for; an update of the scale
\* subresource carries the version that was read, a patch or a deletion does not.
Current(c) ==
  /\ stage[c] = "send" /\ obj[req[c].on] # Absent
  /\ req[c].op = "scale_workload" => obj[req[c].on].ver = seen[c].ver

PersistentAlways(c) == c \in Calls   \* mutant: dryRun=All is not sent

\* Without dryRun=All, what is sent is persisted.
Persistent(c) == req[c].mode = "acked"

Preview(c) ==
  /\ Current(c) /\ ~Persistent(c)
  /\ Return(c, "preview")
  /\ UNCHANGED <<obj, rev, history>>

\* The object of the call becomes o; an object that stays as it was keeps its version.
Becomes(c, o) ==
  /\ obj' = [obj EXCEPT ![req[c].on] = o]
  /\ rev' = IF o = obj[req[c].on] THEN rev ELSE rev + 1
  /\ did' = did \cup {c}
  /\ \/ Return(c, "applied") /\ UNCHANGED lost
     \/ Return(c, "error") /\ lost' = lost \cup {c}
  /\ UNCHANGED since

\* A change of one field, under a new version if it is one.
Set(o, val) == IF o.val = val THEN o ELSE [ver |-> rev + 1, val |-> val]

Scale(c) ==
  /\ req[c].op = "scale_workload" /\ Current(c) /\ Persistent(c)
  /\ LET o == obj[req[c].on] IN Becomes(c, Set(o, Narrow(req[c].n)))

\* The stamp has seconds: a second restart within one changes nothing.
Restart(c) ==
  /\ req[c].op = "restart_workload" /\ Current(c) /\ Persistent(c)
  /\ LET o == obj[req[c].on] IN Becomes(c, o) \/ Becomes(c, [o EXCEPT !.ver = rev + 1])

SetSchedulable(c) ==
  /\ req[c].op \in {"cordon_node", "uncordon_node"} /\ Current(c) /\ Persistent(c)
  /\ LET o == obj[req[c].on] IN
     Becomes(c, Set(o, IF req[c].op = "cordon_node" THEN 1 ELSE 0))

DeletePodTwice(c) ==               \* mutant: a pod that runs on is reported deleted
  /\ req[c].op = "delete_pod" /\ Current(c) /\ Persistent(c)
  /\ Becomes(c, obj[req[c].on])

\* The pod is gone at once, without a grace period or if nothing of it runs; or
\* it starts to terminate, or comes nearer its end; or, terminating already, it
\* stays as it was, and that too is a success.
DeletePod(c) ==
  /\ req[c].op = "delete_pod" /\ Current(c) /\ Persistent(c)
  /\ LET o == obj[req[c].on] IN
     \/ Becomes(c, Absent)
     \/ Becomes(c, [ver |-> rev + 1, val |-> 0])
     \/ o.val = 0 /\ Becomes(c, o)

-----------------------------------------------------------------------------
(* Workloads: one budget over three listings.                              *)

After(k) == CASE k = "deployments" -> "statefulsets"
              [] k = "statefulsets" -> "daemonsets"
              [] k = "daemonsets" -> "finish"

Wanted(c, k) == list[c].left > 0 /\ req[c].on \in {"all", k}

Page(c) ==
  /\ stage[c] \in Kinds /\ Wanted(c, stage[c])
  /\ LET here == There(OfKind(stage[c])) IN
     \E page \in SUBSET here :
       /\ Cardinality(page) <= list[c].left
       /\ list' = [list EXCEPT ![c] = [found |-> @.found \cup page,
                                       left |-> @.left - Cardinality(page),
                                       more |-> @.more \/ page # here]]
  /\ Goto(c, After(stage[c]))
  /\ UNCHANGED <<obj, rev, req, seen, history>>

Skip(c) ==
  /\ stage[c] \in Kinds /\ ~Wanted(c, stage[c])
  /\ Goto(c, After(stage[c]))
  /\ UNCHANGED <<obj, rev, locals, history>>

TruncatedByToken(l) == l.more      \* mutant: a spent budget does not count

Truncated(l) == l.more \/ l.left <= 0

Finish(c) ==
  /\ stage[c] = "finish"
  /\ Return(c, IF Truncated(list[c]) THEN "truncated" ELSE "whole")
  /\ UNCHANGED <<obj, rev, history>>

-----------------------------------------------------------------------------
Start(c) == \E r \in Requests : Refuse(c, r) \/ NoClient(c, r) \/ Begin(c, r)

Step(c) == \/ Fails(c) \/ Read(c) \/ Preview(c) \/ Scale(c) \/ Restart(c)
           \/ SetSchedulable(c) \/ DeletePod(c) \/ Page(c) \/ Skip(c) \/ Finish(c)

Next == \/ Edit /\ calm' = (calm /\ Running = {})
        \/ \E c \in Calls : \/ Start(c) /\ calm' = (calm /\ Running = {})
                            \/ Step(c) /\ UNCHANGED calm

Spec == Init /\ [][Next]_vars

-----------------------------------------------------------------------------
\* A scale reports the replicas it read as "before" and decides by them that it
\* is no no-op; whatever others do in between, what the API server changes is
\* the object that was read, in the version that was read (Scale).
ScaleHitsWhatItRead ==
  [][\A c \in Calls : c \in did' \ did /\ req[c].op = "scale_workload" =>
       obj[req[c].on] = seen[c]]_vars

\* "Applied is true only when the change was really made" (dto_writes.go), and
\* a call that answers anything else changed nothing, unless an answer was lost.
AnswerIsTrue ==
  \A c \in Calls : /\ out[c] = "applied" => c \in did
                   /\ out[c] \notin {"none", "applied"} => c \notin did \ lost

\* "neither is a no-op: cordoning a node that is already cordoned sends nothing"
\* (dto_writes.go): with nobody else at work, what is reported as applied changed
\* the object; but for a restart within the second of the last one, and for the
\* deletion of a pod the call read as terminating, of which its answer warns: the
\* code answers applied there too, against that sentence.
AppliedIsNoNoOp ==
  [][calm' => \A c \in Calls : out[c] # out'[c] /\ out'[c] = "applied" =>
       \/ obj' # obj
       \/ req[c].op = "restart_workload"
       \/ req[c].op = "delete_pod" /\ seen[c].val = 0]_vars

\* "no unacknowledged write" (writeMode), and "nothing is persisted" by a dry run
\* (README): a call changes the object it names, when it was acknowledged and was
\* no dry run, and nothing else.
OnlyAcknowledgedChanges ==
  [][stage' # stage =>
       \A o \in Objects : obj'[o] # obj[o] =>
         \E c \in Calls : /\ stage'[c] # stage[c]
                          /\ req[c].on = o /\ req[c].mode = "acked"]_vars

\* "Silent truncation is worse still" (backend.go): a listing that is not said to
\* be truncated has every workload that was there all the while, however the
\* cluster changed between its three pages; and none exceeds the limit.
WholeListIsWhole ==
  [][\A c \in Calls : stage[c] = "finish" /\ stage'[c] = "returned" =>
       /\ out'[c] = "whole" => since[c] \subseteq list[c].found
       /\ Cardinality(list[c].found) <= MaxLimit]_vars

\* What a write says of itself is true (writeMode, dto_writes.go): it changed what
\* it names, if it was acknowledged, and whether it did is what it answers.
WritesAreAsTold == OnlyAcknowledgedChanges /\ []AnswerIsTrue /\ AppliedIsNoNoOp
=============================================================================
