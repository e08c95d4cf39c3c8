------------------------------ MODULE K8sReads ------------------------------
(***************************************************************************)
(* The reads of the kubernetes plugin that page, cut, sort or join what the *)
(* API server answers: clientgo.go, clientgo_reads.go and                  *)
(* clientgo_metrics.go under kubernetes/internal/k8splugin.  A step is one  *)
(* request with its answer.  Calls share nothing: a behaviour is one call,  *)
(* or a listing with the calls for its further pages, and the cluster       *)
(* changes between their requests.                                          *)
(*                                                                         *)
(* A pod, service, node, ... is a number; an event is its place in the      *)
(* order of LastSeen; a group of the API a number, the unnamed one 0, and   *)
(* so are its types, in the order of their names.  An answer is the set of  *)
(* what it lists: orders matter for what they cut off.                      *)
(***************************************************************************)
EXTENDS Integers, FiniteSets

CONSTANTS MaxItems, MaxEvents, MaxCPU, MaxLines, MaxGroup,  \* bounds of the cluster
          Limits,                                           \* limits callers ask for
          DefaultLimit, MaxLimit,
          DescribeLimit                                     \* pods, and events, of a description

Items == 1..MaxItems
Stamps == 1..MaxEvents
Groups == 0..MaxGroup
TypesOf(g) == {<<g, k>> : k \in 1..g + 1}

Paged == {"list_pods", "list_events"}   \* list_pods as the other listings
Core == MaxGroup + 1                    \* the alias "core"
AllGroups == MaxGroup + 2               \* no group given
Requests ==
  [op : Paged, limit : Limits, next : BOOLEAN]
  \cup [op : {"top_nodes", "top_pods", "get_logs"}, limit : Limits]
  \cup [op : {"list_api_resources"}, limit : Limits, group : Groups \cup {Core, AllGroups}]
  \cup [op : {"describe_workload", "malformed"}]

VARIABLES
  items,     \* what there is to list, and the pods of the workload
  events,    \* [Stamps -> whose event it is: the workload's, another's, or none]
  pc, req,
  got,       \* what a call has read so far, and whether there was more
  token,     \* what a continue token stands for: the rest of a listing
  pages,     \* history: what the pages up to it listed, and what there was to list
  out        \* the answer of this step, with all there was as it was read

vars == <<items, events, pc, req, got, token, pages, out>>

None == [op |-> "none"]
Nothing == [read |-> {}, more |-> FALSE]
NoToken == [rest |-> {}, op |-> "none"]
NoPages == [listed |-> {}, all |-> {}]
Silent == [kind |-> "silent"]
Failed(code) == [kind |-> "failed", code |-> code]
Unavailable == [kind |-> "unavailable"]
Answer(list, more, all) == [kind |-> "answer", list |-> list, more |-> more, all |-> all]

\* No list is longer than a tool result can carry, whatever limit was asked for
\* (backend.go, boundLimit), and everything has its type.
TypeOK == /\ items \subseteq Items /\ events \in [Stamps -> {"own", "other", "none"}]
          /\ pc \in {"idle", "send", "usage", "pods", "events"}
          /\ req \in Requests \cup {None}
          /\ pc = "events" => got.read \subseteq Items /\ Cardinality(got.read) <= DescribeLimit
          /\ pc = "usage" => got.read \subseteq Items \X (0..MaxCPU)
          /\ pc \notin {"events", "usage"} => got = Nothing
          /\ out.kind \in {"answer", "types", "usage"} => Cardinality(out.list) <= MaxLimit
          /\ token.rest \subseteq pages.all /\ pages.listed \subseteq pages.all /\ pages.all \subseteq Items \cup Stamps

InitCall == /\ pc = "idle" /\ req = None /\ got = Nothing
            /\ token = NoToken /\ pages = NoPages /\ out = Silent

Init == items \in SUBSET Items /\ events \in [Stamps -> {"own", "other", "none"}] /\ InitCall

-----------------------------------------------------------------------------
(* What an answer is made of.                                              *)

BoundUnclamped(requested) ==       \* mutant: as many as are asked for
  IF requested <= 0 THEN DefaultLimit ELSE requested

boundLimit(requested) ==
  CASE requested <= 0 -> DefaultLimit
    [] requested > MaxLimit -> MaxLimit
    [] OTHER -> requested

\* What the server may put on a page of so many.
PagesOf(S, limit) ==
  {P \in SUBSET S : Cardinality(P) = IF Cardinality(S) < limit THEN Cardinality(S) ELSE limit}

\* Of as many elements as S has, those that come first: order is a set of pairs of
\* an element and one that it comes before or is.
Foremost(S, order, n) == {x \in S : Cardinality({y \in S : <<y, x>> \in order}) <= n}

\* Highest first, and otherwise as they came.
ByCPU(S) == {p \in S \X S : p[1][2] > p[2][2] \/ (p[1][2] = p[2][2] /\ p[1][1] <= p[2][1])}
ByName(S) == {p \in S \X S : p[1][1] < p[2][1] \/ (p[1][1] = p[2][1] /\ p[1][2] <= p[2][2])}
Newest(S) == {p \in S \X S : p[1] >= p[2]}

Seen == {s \in Stamps : events[s] # "none"}
Own == {s \in Stamps : events[s] = "own"}

-----------------------------------------------------------------------------
(* A call.                                                                 *)

Begin == /\ pc = "idle"
         /\ \E r \in Requests :
              /\ IF r.op \in Paged /\ r.next THEN token.op = r.op ELSE token = NoToken /\ out = Silent
              /\ IF r.op = "malformed"
                 THEN out' = Failed("uncoded") /\ UNCHANGED <<pc, req>>
                 ELSE out' = Silent /\ pc' = "send" /\ req' = r
         /\ UNCHANGED <<items, events, got, token, pages>>

Returns(answer) == /\ out' = answer /\ pc' = "idle" /\ req' = None /\ got' = Nothing
                   /\ UNCHANGED <<items, events>>

\* A request fails; of top's, with no code.
Codes == {"credential_missing", "invalid_args", "unavailable", "uncoded"}
Fails == /\ pc \in {"send", "pods", "events"}
         /\ \E code \in Codes : /\ req.op \in {"top_nodes", "top_pods"} => code = "uncoded"
                                /\ Returns(Failed(code))
         /\ UNCHANGED <<token, pages>>

Send(ops) == pc = "send" /\ req.op \in ops

\* A page, an event list by its time.  A token is for what was there at the first
\* page, whatever has changed since.
List ==
  /\ Send(Paged)
  /\ LET now == IF req.op = "list_events" THEN Seen ELSE items
         left == IF req.next THEN token.rest ELSE now
         before == IF req.next THEN pages ELSE [listed |-> {}, all |-> now]
     IN \E page \in PagesOf(left, boundLimit(req.limit)) :
          /\ token' = IF page = left THEN NoToken ELSE [rest |-> left \ page, op |-> req.op]
          /\ pages' = IF page = left THEN NoPages ELSE [listed |-> before.listed \cup page, all |-> before.all]
          /\ Returns(Answer(page, page # left, before.all \ before.listed))

MoreThanTail(n, tail) == n > tail \* mutant: what was cut to the tail is not marked
AtTail(n, tail) == n >= tail
Tail(n, tail) == (IF n > tail THEN n - tail + 1 ELSE 1)..n

\* The server sends the last lines, and the scan stops at as many.
GetLogs ==
  /\ Send({"get_logs"})
  /\ \E n \in 0..MaxLines :
       LET sent == Tail(n, boundLimit(req.limit))
       IN Returns(Answer(sent, AtTail(Cardinality(sent), boundLimit(req.limit)), 1..n))
  /\ UNCHANGED <<token, pages>>

\* Types of the groups that answered, cut; the others are named.
ListAPIResources ==
  /\ Send({"list_api_resources"})
  /\ \E failed \in SUBSET Groups :
       LET asked == CASE req.group = Core -> {0} [] req.group = AllGroups -> Groups [] OTHER -> {req.group}
           found == UNION {TypesOf(g) : g \in asked \ failed}
           n == boundLimit(req.limit)
       IN Returns([kind |-> "types", list |-> Foremost(found, ByName(found), n), more |-> Cardinality(found) > n,
                   failed |-> failed, all |-> UNION {TypesOf(g) : g \in asked}])
  /\ UNCHANGED <<token, pages>>

-----------------------------------------------------------------------------
(* top, over a page as large as any answer, and what it is a percentage of. *)

FetchAsked(limit) == boundLimit(limit)    \* mutant: a page of the caller's limit
Fetch(limit) == MaxLimit

\* A metrics server may pay no heed to the limit.
ReadMetrics ==
  /\ Send({"top_nodes", "top_pods"})
  /\ \/ Returns(Unavailable)
     \/ /\ \E cpu \in [items -> 0..MaxCPU], page \in {items} \cup PagesOf(items, Fetch(req.limit)) :
             got' = [read |-> {<<i, cpu[i]>> : i \in page}, more |-> page # items,
                     all |-> {<<i, cpu[i]>> : i \in items}]
        /\ pc' = "usage" /\ out' = Silent /\ UNCHANGED <<items, events, req>>
  /\ UNCHANGED <<token, pages>>

\* Failing to read the nodes costs their percentages only.
Top ==
  /\ pc = "usage"
  /\ \E sized \in IF req.op = "top_pods" THEN {{}} ELSE {{}, items} :
       LET n == boundLimit(req.limit)
           top == Foremost(got.read, ByCPU(got.read), n)
       IN Returns([kind |-> "usage", list |-> top, more |-> got.more \/ Cardinality(got.read) > n,
                   all |-> got.all, percent |-> {u \in top : u[1] \in sized}])
  /\ UNCHANGED <<token, pages>>

-----------------------------------------------------------------------------
(* describe_workload: the workload, its pods, its events.                   *)

GetWorkload == /\ Send({"describe_workload"})
               /\ pc' = "pods" /\ out' = Silent
               /\ UNCHANGED <<items, events, req, got, token, pages>>

ListPods == /\ pc = "pods"
            /\ \E page \in PagesOf(items, DescribeLimit) :
                 got' = [read |-> page, more |-> page # items, all |-> items]
            /\ pc' = "events" /\ out' = Silent
            /\ UNCHANGED <<items, events, req, token, pages>>

AllOf(sent) == sent                \* mutant: the server's selection is taken as it is
OwnOf(sent) == sent \cap Own

\* The server may send the events of others too.
ListEvents ==
  /\ pc = "events"
  /\ \E sent \in {S \in SUBSET Seen : Own \subseteq S} :
       Returns([kind |-> "description", list |-> got.read, more |-> got.more, all |-> got.all,
                events |-> Foremost(OwnOf(sent), Newest(OwnOf(sent)), DescribeLimit)])
  /\ UNCHANGED <<token, pages>>

\* Others change the cluster while a call runs or a listing is not at its end.
Change == /\ pc # "idle" \/ token # NoToken
          /\ \/ \E i \in Items : items' = (items \ {i}) \cup ({i} \ items) /\ UNCHANGED events
             \/ \E s \in Stamps, e \in {"own", "other", "none"} :
                  events' = [events EXCEPT ![s] = e] /\ UNCHANGED items
          /\ out' = Silent /\ UNCHANGED <<pc, req, got, token, pages>>

Next == \/ Begin \/ Fails \/ List \/ GetLogs \/ ListAPIResources
        \/ ReadMetrics \/ Top \/ GetWorkload \/ ListPods \/ ListEvents \/ Change

Spec == Init /\ [][Next]_vars

-----------------------------------------------------------------------------
(* Properties.                                                             *)

\* "Silent truncation is worse still" (backend.go): an answer that does not say
\* it was cut has all there was when it was read - with the pages before it, all
\* there was at the first - or names the groups whose types are missing.
NotTruncatedIsWhole ==
  /\ out.kind \in {"answer", "usage", "description"} /\ ~out.more => out.list = out.all
  /\ out.kind = "types" /\ ~out.more =>
       out.list = {t \in out.all : t[1] \notin out.failed}

\* "That ordering is only honest over the whole set" (clientgo_metrics.go): of as
\* many as an answer may have at most, none left out uses more than one that is
\* listed, however few were asked for.
TopIsTheTop ==
  out.kind = "usage" /\ Cardinality(out.all) <= MaxLimit =>
    \A u \in out.list, v \in out.all \ out.list : u[2] >= v[2]

\* "An event about another object attributed to this one would be a wrong answer"
\* (clientgo_reads.go): a description ends with the workload's own events, the
\* latest of them, whatever the server sent.
EventsAreTheWorkloads ==
  out.kind = "description" => out.events = Foremost(Own, Newest(Own), DescribeLimit)

\* An answer is what it says it is: whole or cut, the top, the workload's own.
ReadsAreTrue == NotTruncatedIsWhole /\ TopIsTheTop /\ EventsAreTheWorkloads
=============================================================================
