----------------------------- MODULE K8sAccess -----------------------------
(***************************************************************************)
(* How a call of the kubernetes plugin finds its cluster, its identity and  *)
(* its namespace, and what check_access says beforehand: auth.go, plugin.go *)
(* and clientgo.go under kubernetes/internal/k8splugin.                     *)
(*                                                                         *)
(* Nothing is kept between calls.  A namespaced call reads the kubeconfig   *)
(* twice, for its namespace and for its connection, and the identity it     *)
(* found is used when its request is sent; the operator may switch context, *)
(* install or remove a helper and change who may run it or read a token     *)
(* file in between.                                                         *)
(***************************************************************************)
EXTENDS Naturals, FiniteSets

CONSTANTS Calls, Contexts, Namespaces, None,
          Places,     \* where a helper's program may be, among AllPlaces
          Files,      \* kubeconfigs, None for one that cannot be read
          Configs     \* what the host supplies in Init

\* The credentials of a kubeconfig user, in the order of their precedence.
Credentials == <<"exec", "auth-provider", "token", "token-file", "client-certificate", "basic">>
Modes == {Credentials[i] : i \in DOMAIN Credentials} \cup {"host-secret", "in-cluster", "anonymous", "unknown"}
User == {u \in [has : SUBSET {Credentials[i] : i \in DOMAIN Credentials},
                command : {"bare", "path", "empty"},      \* of its exec helper
                always : BOOLEAN] :                       \* interactiveMode Always
           "exec" \in u.has => {"token", "token-file", "basic"} \cap u.has = {}}
\* Complete: its cluster has a server, and its user what client-go wants of an
\* exec helper or a client certificate besides (a version, a key).
Entry == [user : User, namespace : Namespaces \cup {None}, complete : BOOLEAN]
File == [current : Contexts \cup {None}, contexts : [Contexts -> Entry \cup {None}]]
Config == [context : Contexts \cup {None}, server : BOOLEAN, token : BOOLEAN,
           namespace : Namespaces \cup {None}, extra : BOOLEAN]

\* Where a helper's program may be: on the PATH the plugin inherits, in
\* credential_path, in the variable's directories, in a fallback directory, or
\* at the path its command is.
AllPlaces == {"PATH", "credential_path", "variable", "fallback", "absolute"}

Operations == {"get_health", "list_nodes", "list_pods"}
Requests == {r \in [op : Operations, context : Contexts \cup {None}, namespace : Namespaces \cup {None}] :
               r.op # "list_pods" => r.namespace = None}

VARIABLES
  config,     \* what Init was given
  pod,        \* whether the process runs in a pod, and its account's token
  file,       \* the kubeconfig
  installed,  \* where the helper's program is
  runnable,   \* the plugin may execute the program, where it is not on the PATH
  tokenFile,  \* the token file
  pc,         \* [Calls -> where the call is]
  req,        \* [Calls -> its request]
  ns,         \* [Calls -> the namespace it goes to]
  conn,       \* [Calls -> its connection]
  out,        \* the answer given in this step
  foretold,   \* history: [Calls -> what check_access would have said as it arrived]
  still       \* history: calls since whose arrival the operator changed nothing

machine == <<file, installed, runnable, tokenFile>>
FileStates == {"absent", "unreadable", "readable"}
vars == <<config, pod, machine, pc, req, ns, conn, out, foretold, still>>

NoConn == [mode |-> "unknown", context |-> None, helper |-> "none", always |-> FALSE]
NoCheck == [ready |-> FALSE, mode |-> "unknown", context |-> None]
NoRequest == [op |-> "get_health", context |-> None, namespace |-> None]

Conn == [mode : Modes, context : Contexts \cup {None}, helper : Places \cup {"none"}, always : BOOLEAN]
Outs == {"none", "ok", "credential_missing", "unavailable", "invalid_args", "uncoded", "unreachable"}

\* A namespaced call always has a namespace, as none is client-go's way to say
\* every one (plugin.go, namespace), and everything has its type.
TypeOK == /\ config \in Config /\ pod \in FileStates
          /\ file \in File \cup {None} /\ installed \subseteq Places
          /\ runnable \in BOOLEAN /\ tokenFile \in FileStates
          /\ pc \in [Calls -> {"idle", "connect", "request"}]
          /\ req \in [Calls -> Requests]
          /\ ns \in [Calls -> Namespaces \cup {None, "default"}]
          /\ \A c \in Calls : ns[c] # None <=> req[c].op = "list_pods"
          /\ conn \in [Calls -> Conn]
          /\ out \in Outs
          /\ foretold \in [Calls -> [ready : BOOLEAN, mode : Modes, context : Contexts \cup {None}]]
          /\ still \subseteq Calls

InitCalls == /\ pc = [c \in Calls |-> "idle"] /\ req = [c \in Calls |-> NoRequest]
             /\ ns = [c \in Calls |-> None] /\ conn = [c \in Calls |-> NoConn]
             /\ out = "none" /\ foretold = [c \in Calls |-> NoCheck] /\ still = {}

Init == /\ config \in Configs /\ pod \in FileStates
        /\ file \in Files /\ installed \in SUBSET Places
        /\ runnable \in BOOLEAN /\ tokenFile \in FileStates
        /\ InitCalls

-----------------------------------------------------------------------------
(* What a call is asked to act on.                                         *)

\* A call's context before the configured one.
clusterOptions(context) == [config EXCEPT !.context = IF context # None THEN context ELSE config.context]

HostSecret(o) == o.token /\ o.server

\* The name of the context that is used, and its entry.
ContextName(o) == IF o.context # None THEN o.context ELSE file.current
HasEntry(o) == ContextName(o) # None /\ file.contexts[ContextName(o)] # None
EntryOf(o) == file.contexts[ContextName(o)]

NamespaceOfCurrent(o) ==           \* mutant: that of the current context
  IF HostSecret(o) \/ file = None \/ ~HasEntry([o EXCEPT !.context = None]) THEN None
  ELSE file.contexts[file.current].namespace

ContextNamespace(o) ==
  IF HostSecret(o) \/ file = None \/ ~HasEntry(o) THEN None ELSE EntryOf(o).namespace

NamespaceOrEvery(r, o) ==          \* mutant: no default, and none is all of them
  CASE r.namespace # None -> r.namespace [] config.namespace # None -> config.namespace
    [] OTHER -> ContextNamespace(o)

\* The first that is set of the argument, the configuration, the context.
namespace(r, o) ==
  LET given == <<r.namespace, config.namespace, ContextNamespace(o), "default">>
  IN given[CHOOSE i \in 1..4 : given[i] # None /\ \A j \in 1..i - 1 : given[j] = None]

ClassifyAuthMode(user) ==
  IF user.has = {} THEN "anonymous"
  ELSE Credentials[CHOOSE i \in DOMAIN Credentials :
         Credentials[i] \in user.has /\ \A j \in 1..i - 1 : Credentials[j] \notin user.has]

\* Where the helper is found: {} if nowhere, else the first place.
ResolveCredentialCommand(user, o) ==
  LET searched == <<"PATH", "credential_path", "variable", "fallback">>
      found == {i \in DOMAIN searched : /\ searched[i] \in installed
                                        /\ searched[i] = "credential_path" => o.extra}
  IN CASE user.command = "empty" -> {}
       [] user.command = "path" -> {"absolute"} \cap installed
       [] OTHER -> {searched[i] : i \in {i \in found : \A j \in found : i <= j}}

-----------------------------------------------------------------------------
(* check_access and the connection it is about.                            *)

\* Preflight of a context that is there: of a token file it asks whether there is
\* one, of a helper at its own path the same.
ReadyIfFound(user, o) ==           \* mutant: a helper that wants a terminal counts as ready
  CASE ClassifyAuthMode(user) = "exec" -> ResolveCredentialCommand(user, o) # {}
    [] ClassifyAuthMode(user) = "token-file" -> tokenFile # "absent"
    [] OTHER -> ClassifyAuthMode(user) # "anonymous"

ReadyIfNamed(user, o) ==           \* mutant: nobody looks whether the token file is there
  CASE ClassifyAuthMode(user) = "exec" -> ResolveCredentialCommand(user, o) # {} /\ ~user.always
    [] OTHER -> ClassifyAuthMode(user) # "anonymous"

Ready(user, o) ==
  CASE ClassifyAuthMode(user) = "exec" -> ResolveCredentialCommand(user, o) # {} /\ ~user.always
    [] ClassifyAuthMode(user) = "token-file" -> tokenFile # "absent"
    [] OTHER -> ClassifyAuthMode(user) # "anonymous"

\* In a pod: its service account's token is there.
InCluster == pod # "absent"

Check(ready, mode, context) == [ready |-> ready, mode |-> mode, context |-> context]

Preflight(o) ==
  CASE HostSecret(o) -> Check(TRUE, "host-secret", None)
    [] ~HostSecret(o) /\ InCluster -> Check(TRUE, "in-cluster", None)
    [] ~HostSecret(o) /\ ~InCluster /\ file = None -> NoCheck
    [] OTHER -> IF HasEntry(o)
                THEN Check(Ready(EntryOf(o).user, o), ClassifyAuthMode(EntryOf(o).user), ContextName(o))
                ELSE Check(FALSE, "unknown", ContextName(o))

Connection(mode) == [NoConn EXCEPT !.mode = mode]

\* What client-go makes no connection of, as it is written: two ways to sign in,
\* or one that it has no more, or not all of it; and a token file it cannot read.
Sound(entry) ==
  /\ entry.complete /\ "auth-provider" \notin entry.user.has
  /\ "basic" \in entry.user.has => {"token", "token-file"} \cap entry.user.has = {}

Usable(entry) ==
  Sound(entry) /\ (ClassifyAuthMode(entry.user) = "token-file" => tokenFile = "readable")

\* The connections RestConfig makes: one, or none if it refuses.
RestConfig(o) ==
  CASE HostSecret(o) -> {Connection("host-secret")}
    [] o.token /\ ~o.server -> {}
    [] ~o.token /\ InCluster -> IF pod = "readable" THEN {Connection("in-cluster")} ELSE {}
    [] OTHER ->
         IF file = None \/ ~HasEntry(o) \/ ~Usable(EntryOf(o)) THEN {}
         ELSE LET user == EntryOf(o).user
                  mode == ClassifyAuthMode(user)
              IN {[mode |-> mode, context |-> ContextName(o), helper |-> h, always |-> user.always] :
                    h \in IF mode = "exec" THEN ResolveCredentialCommand(user, o) ELSE {"none"}}

\* Without a server, or a helper, the refusal has a code.
RefusalCode(o) ==
  IF \/ o.token
     \/ /\ ~InCluster /\ file # None /\ HasEntry(o)
        /\ ClassifyAuthMode(EntryOf(o).user) = "exec"
        /\ ResolveCredentialCommand(EntryOf(o).user, o) = {}
  THEN "credential_missing" ELSE "uncoded"

-----------------------------------------------------------------------------
(* A call.                                                                 *)

\* Its options, and its namespace if it has one.
Arrive(c) ==
  /\ pc[c] = "idle"
  /\ \E r \in Requests :
       /\ req' = [req EXCEPT ![c] = r]
       /\ ns' = [ns EXCEPT ![c] = IF r.op = "list_pods" THEN namespace(r, clusterOptions(r.context)) ELSE None]
       /\ foretold' = [foretold EXCEPT ![c] = Preflight(clusterOptions(r.context))]
  /\ pc' = [pc EXCEPT ![c] = "connect"] /\ still' = still \cup {c}
  /\ out' = "none" /\ UNCHANGED <<config, pod, machine, conn>>

\* get_health answers that the cluster is unreachable where others fail.
Answers(c, o) ==
  /\ out' = IF req[c].op = "get_health" /\ o # "ok" THEN "unreachable" ELSE o
  /\ pc' = [pc EXCEPT ![c] = "idle"] /\ req' = [req EXCEPT ![c] = NoRequest]
  /\ ns' = [ns EXCEPT ![c] = None] /\ conn' = [conn EXCEPT ![c] = NoConn]
  /\ foretold' = [foretold EXCEPT ![c] = NoCheck] /\ still' = still \ {c}
  /\ UNCHANGED <<config, pod, machine>>

Connect(c) ==
  /\ pc[c] = "connect"
  /\ LET o == clusterOptions(req[c].context)
     IN \/ /\ \E k \in RestConfig(o) : conn' = [conn EXCEPT ![c] = k]
           /\ pc' = [pc EXCEPT ![c] = "request"] /\ out' = "none"
           /\ UNCHANGED <<config, pod, machine, req, ns, foretold, still>>
        \/ RestConfig(o) = {} /\ Answers(c, RefusalCode(o))

\* client-go runs no helper that wants a terminal, and needs the program, and to be
\* let run it, when it sends.
Sends(c) == conn[c].mode = "exec" => /\ conn[c].helper \in installed /\ ~conn[c].always
                                     /\ conn[c].helper # "PATH" => runnable

\* errorCode of what the API server, or the way to it, answers.
errorCode == [unauthorized |-> "credential_missing", forbidden |-> "uncoded",
              notfound |-> "invalid_args", timeout |-> "unavailable",
              unreachable |-> "unavailable", helper |-> "credential_missing"]

Request(c) ==
  /\ pc[c] = "request" /\ Sends(c)
  /\ Answers(c, "ok") \/ \E e \in DOMAIN errorCode \ {"helper"} : Answers(c, errorCode[e])

\* Nothing was sent.
NotSent(c) == pc[c] = "request" /\ ~Sends(c) /\ Answers(c, errorCode.helper)

-----------------------------------------------------------------------------
(* The operator, while a call runs.                                        *)

Operator == /\ \E c \in Calls : pc[c] # "idle"
            /\ out' = "none" /\ still' = {}
            /\ UNCHANGED <<config, pod, pc, req, ns, conn, foretold>>

SwitchContext == /\ file # None /\ \E k \in Contexts : file.contexts[k] # None /\ file' = [file EXCEPT !.current = k]
                 /\ Operator /\ UNCHANGED <<installed, runnable, tokenFile>>
MoveHelper == /\ \E p \in Places : installed' = (installed \ {p}) \cup ({p} \ installed)
              /\ Operator /\ UNCHANGED <<file, runnable, tokenFile>>
AllowHelper == runnable' = ~runnable /\ Operator /\ UNCHANGED <<file, installed, tokenFile>>
TokenFile == /\ \E f \in FileStates \ {tokenFile} : tokenFile' = f
             /\ Operator /\ UNCHANGED <<file, installed, runnable>>

Next == \/ \E c \in Calls : Arrive(c) \/ Connect(c) \/ Request(c) \/ NotSent(c)
        \/ SwitchContext \/ MoveHelper \/ AllowHelper \/ TokenFile

Spec == Init /\ [][Next]_vars

-----------------------------------------------------------------------------
(* Properties.                                                             *)

NamespaceIn(entry) == IF entry.namespace = None THEN "default" ELSE entry.namespace
Ends(c) == pc[c] # "idle" /\ pc'[c] = "idle"
Sent(c) == Ends(c) /\ pc[c] = "request" /\ Sends(c)

\* What stops a call on this machine and check_access does not look at: a token
\* without a server, a token that is there and cannot be read, an entry client-go
\* makes no connection of, a helper that is there and may not be run.
Overlooked(o) ==
  \/ o.token /\ ~o.server
  \/ ~o.token /\ pod = "unreadable"
  \/ /\ ~o.token /\ ~InCluster /\ file # None /\ HasEntry(o)
     /\ \/ ~Sound(EntryOf(o))
        \/ ClassifyAuthMode(EntryOf(o).user) = "token-file" /\ tokenFile = "unreadable"
        \/ /\ ClassifyAuthMode(EntryOf(o).user) = "exec" /\ ~runnable
           /\ ResolveCredentialCommand(EntryOf(o).user, o) \ {"PATH"} # {}

\* "Preflight answers what would happen if we tried" (auth.go): a call under which
\* the operator changes nothing is stopped on this machine only if check_access
\* would have said that it is not ready, or by what it overlooks; and otherwise it
\* goes out as the identity and to the context it named, never when it was said
\* not to be ready, but for a context without a credential.
CheckForetells ==
  [][\A c \in still : Ends(c) =>
       IF Sent(c)
       THEN /\ foretold[c].ready \/ conn[c].mode = "anonymous"
            /\ foretold[c].mode = conn[c].mode /\ foretold[c].context = conn[c].context
       ELSE ~foretold[c].ready \/ Overlooked(clusterOptions(req[c].context))]_vars

\* "A same-named workload in default is the one that would have been scaled"
\* (auth.go): a call given no namespace goes to the one of the context it is sent
\* to, if it names the context, or nobody switches it between the two readings.
NamespaceIsTheContexts ==
  [][\A c \in Calls :
       /\ Sent(c) /\ req[c].op = "list_pods" /\ req[c].namespace = None /\ config.namespace = None
       /\ conn[c].context # None
       /\ c \in still \/ clusterOptions(req[c].context).context # None
       => ns[c] = NamespaceIn(file.contexts[conn[c].context])]_vars

\* A call goes where check_access and its arguments say: as the identity foretold,
\* or not at all, and to the namespace of the context it reaches.
GoesWhereItSays == CheckForetells /\ NamespaceIsTheContexts
=============================================================================
