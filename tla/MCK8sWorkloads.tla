--------------------------- MODULE MCK8sWorkloads ---------------------------
(***************************************************************************)
(* The kubernetes plugin checked: its writes and its listing of workloads,   *)
(* the way a call finds its cluster, or its other reads, one of the three in *)
(* a behaviour.                                                              *)
(***************************************************************************)
EXTENDS K8sWorkloads, TLC

CONSTANTS Lookups,   \* calls that look for their cluster
          Contexts, Namespaces, Places, Files, Configs,
          ReadLimits, MaxItems, MaxEvents, MaxCPU, MaxLines, MaxGroup, DescribeLimit

VARIABLES scope,
          config, pod, file, installed, runnable, tokenFile, pc, acReq, ns, conn, acOut, foretold, still,
          items, events, rdPc, rdReq, got, token, pages, rdOut

Access == INSTANCE K8sAccess WITH None <- Absent, Calls <- Lookups, req <- acReq, out <- acOut
Reads == INSTANCE K8sReads WITH Limits <- ReadLimits, pc <- rdPc, req <- rdReq, out <- rdOut

ASSUME AccessAssumption ==
  /\ Absent # "default" /\ Absent \notin Access!File
  /\ Configs \subseteq Access!Config /\ Files \subseteq Access!File \cup {Absent}

ASSUME ReadsAssumption ==
  /\ {MaxItems, MaxEvents, MaxCPU, MaxLines, MaxGroup, DescribeLimit} \subseteq Nat
  /\ ReadLimits \subseteq Int

accessVars == <<config, pod, file, installed, runnable, tokenFile, pc, acReq, ns, conn, acOut, foretold, still>>
readVars == <<items, events, rdPc, rdReq, got, token, pages, rdOut>>

\* Kubeconfigs of up to two contexts, the second without a namespace.
U(has, command, always) == [has |-> has, command |-> command, always |-> always]
Bare(has) == U(has, "empty", FALSE)
Entry(user, namespace, complete) == [user |-> user, namespace |-> namespace, complete |-> complete]
F(current, prod, dev) == [current |-> current, contexts |-> [k \in Contexts |-> IF k = "prod" THEN prod ELSE dev]]
Two(prod, dev) == F("dev", Entry(prod, "apps", TRUE), Entry(dev, Absent, TRUE))
Certified(complete) == Entry(Bare({"client-certificate"}), "apps", complete)
MCFiles == {Absent, F("prod", Certified(TRUE), Absent), F(Absent, Certified(TRUE), Certified(FALSE)),
            Two(Bare({"token-file"}), U({"exec"}, "bare", FALSE)),
            Two(U({"exec"}, "path", TRUE), U({"exec"}, "path", FALSE)),
            Two(Bare({}), Bare({"basic", "token"})), Two(Bare({"auth-provider"}), Bare({"exec"}))}

G(context, server, given, namespace, extra) ==
  [context |-> context, server |-> server, token |-> given, namespace |-> namespace, extra |-> extra]
MCConfigs == {G(Absent, FALSE, FALSE, Absent, FALSE), G("dev", FALSE, FALSE, "ops", TRUE),
              G("dev", TRUE, TRUE, Absent, FALSE), G(Absent, FALSE, TRUE, Absent, FALSE)}

NoWorkloads == /\ obj = [o \in Objects |-> Absent] /\ rev = 0 /\ stage = [c \in Calls |-> "idle"]
               /\ req = [c \in Calls |-> NoRequest] /\ seen = [c \in Calls |-> Absent]
               /\ list = [c \in Calls |-> NoList] /\ out = [c \in Calls |-> "none"]
               /\ did = {} /\ lost = {} /\ since = [c \in Calls |-> {}] /\ calm = TRUE
NoAccess == /\ config = G(Absent, FALSE, FALSE, Absent, FALSE) /\ pod = "absent"
            /\ file = Absent /\ installed = {} /\ runnable = FALSE /\ tokenFile = "absent"
NoReads == items = {} /\ events = [s \in 1..MaxEvents |-> "none"]

\* A node or a pod that is not there is one that others removed; and to a process in
\* a pod a kubeconfig matters for its namespaces only.
Peopled == \A o \in Nodes \cup Pods : obj[o] # Absent
InPod == pod # "absent" => file \in {Absent, F("prod", Certified(TRUE), Absent)}

MCInit == \/ /\ scope = "workloads" /\ Init /\ Peopled
             /\ NoAccess /\ Access!InitCalls /\ NoReads /\ Reads!InitCall
          \/ scope = "access" /\ NoWorkloads /\ Access!Init /\ InPod /\ NoReads /\ Reads!InitCall
          \/ scope = "reads" /\ NoWorkloads /\ NoAccess /\ Access!InitCalls /\ Reads!Init

MCNext == \/ scope = "workloads" /\ Next /\ UNCHANGED <<scope, accessVars, readVars>>
          \/ scope = "access" /\ Access!Next /\ UNCHANGED <<scope, vars, readVars>>
          \/ scope = "reads" /\ Reads!Next /\ UNCHANGED <<scope, vars, accessVars>>

MCSpec == MCInit /\ [][MCNext]_<<scope, vars, accessVars, readVars>>

\* The types of whichever runs.
TypesOK == /\ TypeOK
           /\ scope = "access" => Access!TypeOK
           /\ scope = "reads" => Reads!TypeOK

\* What is checked of the other two, stated in their modules.
GoesWhereItSays == Access!GoesWhereItSays
ReadsAreTrue == Reads!ReadsAreTrue

\* Calls are alike, and so are deployments.
Alike == Permutations(Calls) \cup Permutations(Deployments)
=============================================================================
