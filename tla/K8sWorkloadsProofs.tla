------------------------- MODULE K8sWorkloadsProofs -------------------------
(***************************************************************************)
(* What MCK8sWorkloads checks of the writes, of the way to the cluster and  *)
(* of the reads, for every set of calls and objects, every width of a       *)
(* replica count, every limit and every kubeconfig.                         *)
(*                                                                         *)
(* Of K8sWorkloads: that a scale hits what it read needs the versions: none  *)
(* is ahead of the cluster's revision (Versions), so an object in the        *)
(* version that was read is the object that was read (ReadBefore).  That a  *)
(* whole listing is whole needs what holds between its pages (Counted,      *)
(* Covered).  Of K8sAccess: what a call has chosen is still what            *)
(* check_access would choose, as far as the operator left things alone      *)
(* (AccessInv).  Of K8sReads: what was read so far is all there was unless  *)
(* more was announced (ReadsInv).                                           *)
(***************************************************************************)
EXTENDS MCK8sWorkloads, FiniteSetTheorems, TLAPS

Versions == \A o \in Objects : obj[o] # Absent => obj[o].ver <= rev

Posed(c) ==
  /\ stage[c] \in {"read", "send"} =>
       req[c].op \in Writes /\ req[c].on \in Targets(req[c].op) /\ Accepted(req[c])
  /\ stage[c] \in Kinds \cup {"finish"} => req[c].op = "list_workloads" /\ req[c].on \in Scopes

ReadBefore(c) ==
  stage[c] = "send" =>
    /\ seen[c] \in Object /\ seen[c].ver <= rev
    /\ LET o == obj[req[c].on] IN o # Absent /\ o.ver = seen[c].ver => o = seen[c]

Told(c) ==
  /\ stage[c] # "returned" => out[c] = "none" /\ c \notin did
  /\ out[c] = "applied" => c \in did
  /\ out[c] \notin {"none", "applied"} => c \notin did \ lost

Counted(c) ==
  /\ stage[c] = "idle" => list[c].found = {}
  /\ stage[c] \in Kinds \cup {"finish"} =>
       list[c].left >= 0 /\ Cardinality(list[c].found) + list[c].left <= MaxLimit

Passed(s) == CASE s = "deployments" -> {}
               [] s = "statefulsets" -> Deployments
               [] s = "daemonsets" -> Deployments \cup StatefulSets
               [] s = "finish" -> Workloads

Covered(c) ==
  stage[c] \in Kinds \cup {"finish"} =>
    /\ since[c] \subseteq There(OfKind(req[c].on))
    /\ ~Truncated(list[c]) => since[c] \cap Passed(stage[c]) \subseteq list[c].found

Alone ==
  calm => /\ \A c, d \in Running : c = d
          /\ \A c \in Calls : stage[c] = "send" =>
               obj[req[c].on] = seen[c] /\ ~NoOp(req[c], seen[c])

IInv == /\ TypeOK /\ Versions
        /\ \A c \in Calls : Posed(c) /\ ReadBefore(c) /\ Told(c) /\ Counted(c) /\ Covered(c)
        /\ Alone

-----------------------------------------------------------------------------
(* What the operators return.                                              *)

LEMMA NarrowIsInt == ASSUME NEW n \in Int PROVE Narrow(n) \in -Half..(Half - 1)
  BY ConstantsAssumption DEF Narrow

LEMMA RequestsAreTyped ==
  ASSUME NEW r \in Requests
  PROVE  /\ r \in Request /\ r.on \in Targets(r.op)
         /\ r.op \in Writes => r.on \in Objects
         /\ r.op = "list_workloads" => r.on \in Scopes
<1>1. PICK op \in Writes \cup {"list_workloads"} :
        r \in [op : {op}, on : Targets(op), n : Numbers(op),
               mode : IF op \in Writes THEN Modes ELSE {"neither"}]
  BY DEF Requests
<1>2. r.op = op /\ r.on \in Targets(op) /\ r.n \in Numbers(op) /\ r.mode \in Modes
  BY <1>1 DEF Modes
<1>3. Numbers(op) \subseteq Int
  BY ConstantsAssumption DEF Numbers, Writes
<1>4. op \in Writes => Targets(op) \subseteq Objects
  BY DEF Targets, Writes, Objects
<1>5. op = "list_workloads" => Targets(op) = Scopes
  BY DEF Targets
<1>6. r = [op |-> r.op, on |-> r.on, n |-> r.n, mode |-> r.mode]
  BY <1>1
<1> QED BY <1>2, <1>3, <1>4, <1>5, <1>6 DEF Request

LEMMA LimitIsBounded == ASSUME NEW n \in Int PROVE boundLimit(n) \in 1..MaxLimit
  BY ConstantsAssumption DEF boundLimit

LEMMA PageFits ==
  ASSUME NEW S \in SUBSET Workloads, NEW T \in SUBSET Workloads
  PROVE  /\ Cardinality(S) \in Nat /\ Cardinality(S \cup T) \in Nat
         /\ Cardinality(S \cup T) <= Cardinality(S) + Cardinality(T)
<1>1. IsFiniteSet(S) /\ IsFiniteSet(T) /\ IsFiniteSet(S \cup T) /\ IsFiniteSet(S \cap T)
  BY ConstantsAssumption, FS_Subset
<1>2. /\ Cardinality(S) \in Nat /\ Cardinality(T) \in Nat
      /\ Cardinality(S \cup T) \in Nat /\ Cardinality(S \cap T) \in Nat
  BY <1>1, FS_CardinalityType
<1>3. Cardinality(S \cup T) = Cardinality(S) + Cardinality(T) - Cardinality(S \cap T)
  BY <1>1, FS_Union
<1> QED BY <1>2, <1>3

LEMMA KindsAreWorkloads ==
  ASSUME NEW k \in Scopes
  PROVE  There(OfKind(k)) \subseteq Workloads
  BY DEF Scopes, OfKind, There, Workloads

-----------------------------------------------------------------------------
(* Initial states.                                                         *)

LEMMA InitIInv == Init => IInv
<1> SUFFICES ASSUME Init PROVE IInv
  OBVIOUS
<1>1. NoRequest \in Request /\ NoList \in List /\ [ver |-> 0, val |-> 1] \in Object
  BY DEF NoRequest, Request, Scopes, Modes, NoList, List, Object
<1>2. TypeOK
  <2>1. obj \in [Objects -> Object \cup {Absent}]
    BY <1>1 DEF Init
  <2>2. \A o \in Objects : obj[o] # Absent => obj[o].val \in Values(o)
    <3>1. \A o \in Objects : 1 \in Values(o)
      BY ConstantsAssumption DEF Values
    <3> QED BY <3>1 DEF Init
  <2>3. /\ rev \in Nat /\ stage \in [Calls -> Stages] /\ calm \in BOOLEAN
        /\ out \in [Calls -> Outs] /\ did \subseteq Calls /\ lost \subseteq Calls
        /\ since \in [Calls -> SUBSET Workloads]
    BY DEF Init, Stages, Outs
  <2>4. /\ req \in [Calls -> Request] /\ list \in [Calls -> List]
        /\ seen \in [Calls -> Object \cup {Absent}]
    BY <1>1 DEF Init
  <2> QED BY <2>1, <2>2, <2>3, <2>4 DEF TypeOK
<1>3. Versions
  BY DEF Init, Versions
<1>4. ASSUME NEW c \in Calls
      PROVE  Posed(c) /\ ReadBefore(c) /\ Told(c) /\ Counted(c) /\ Covered(c)
  BY DEF Init, NoList, Posed, ReadBefore, Told, Counted, Covered, Kinds
<1>5. Alone
  BY DEF Init, Alone, Running
<1> QED BY <1>2, <1>3, <1>4, <1>5 DEF IInv

-----------------------------------------------------------------------------
(* The cluster under a step.                                               *)

\* What a step may do to the cluster: an object stays, goes, or gets a version
\* nobody has seen.
Moves == /\ obj' \in [Objects -> Object \cup {Absent}]
         /\ rev' \in Nat /\ rev' >= rev
         /\ \A o \in Objects :
              \/ obj'[o] = obj[o]
              \/ obj'[o] = Absent
              \/ /\ obj'[o] # Absent /\ obj'[o].val \in Values(o)
                 /\ obj'[o].ver = rev' /\ rev' > rev

LEMMA EditMoves == ASSUME TypeOK, Edit PROVE Moves
<1>1. PICK o \in Objects :
        \/ \E v \in Values(o) : obj' = [obj EXCEPT ![o] = [ver |-> rev', val |-> v]]
        \/ obj[o] # Absent /\ obj' = [obj EXCEPT ![o] = Absent]
  BY DEF Edit
<1>2. rev' = rev + 1 /\ rev' \in Nat
  BY DEF Edit, TypeOK
<1>3. ASSUME NEW v \in Values(o), obj' = [obj EXCEPT ![o] = [ver |-> rev', val |-> v]]
      PROVE  Moves
  <2>1. [ver |-> rev', val |-> v] \in Object /\ [ver |-> rev', val |-> v] # Absent
    BY <1>2, ConstantsAssumption DEF Object, Values
  <2> QED BY <1>2, <1>3, <2>1 DEF Moves, TypeOK
<1>4. CASE obj' = [obj EXCEPT ![o] = Absent]
  BY <1>2, <1>4 DEF Moves, TypeOK
<1> QED BY <1>1, <1>3, <1>4

\* A write's effect on its object is one of these.
LEMMA BecomesMoves ==
  ASSUME TypeOK, NEW c \in Calls, req[c].on \in Objects, NEW o, Becomes(c, o),
         \/ o = Absent /\ obj[req[c].on] # Absent
         \/ o = obj[req[c].on]
         \/ /\ o \in Object /\ o.ver = rev + 1 /\ o.val \in Values(req[c].on)
            /\ obj[req[c].on] # Absent /\ obj[req[c].on].ver <= rev
  PROVE  Moves
<1>1. obj' = [obj EXCEPT ![req[c].on] = o] /\ rev \in Nat /\ obj \in [Objects -> Object \cup {Absent}]
  BY DEF Becomes, TypeOK
<1>2. CASE o = obj[req[c].on]
  BY <1>1, <1>2 DEF Becomes, Moves
<1>3. CASE o # obj[req[c].on] /\ o = Absent
  BY <1>1, <1>3 DEF Becomes, Moves
<1>4. CASE o # obj[req[c].on] /\ o # Absent
  BY <1>1, <1>4, ConstantsAssumption DEF Becomes, Moves
<1> QED BY <1>2, <1>3, <1>4

LEMMA SetMoves ==
  ASSUME TypeOK, Versions, NEW c \in Calls, req[c].on \in Objects, obj[req[c].on] # Absent,
         NEW v \in Values(req[c].on), Becomes(c, Set(obj[req[c].on], v))
  PROVE  Moves
<1> DEFINE old == obj[req[c].on]
           new == [ver |-> rev + 1, val |-> v]
<1>1. old.ver <= rev /\ rev \in Nat
  BY DEF Versions, TypeOK
<1>2. v \in Int
  BY ConstantsAssumption DEF Values
<1>3. new \in Object /\ new.ver = rev + 1 /\ new.val = v
  BY <1>1, <1>2 DEF Object
<1>4. Set(old, v) = old \/ Set(old, v) = new
  BY DEF Set
<1> QED
  <2>1. CASE Set(old, v) = old
    BY <2>1, BecomesMoves
  <2>2. CASE Set(old, v) = new
    <3> HIDE DEF new
    <3> QED BY <1>1, <1>3, <2>2, BecomesMoves
  <2> QED BY <1>4, <2>1, <2>2

Write(c) == Scale(c) \/ Restart(c) \/ SetSchedulable(c) \/ DeletePod(c)

LEMMA WriteMoves ==
  ASSUME TypeOK, Versions, NEW c \in Calls, Posed(c), Write(c)
  PROVE  Moves /\ req[c].on \in Objects
<1>1. stage[c] = "send" /\ obj[req[c].on] # Absent
  BY DEF Write, Scale, Restart, SetSchedulable, DeletePod, Current
<1>2. req[c].op \in Writes /\ req[c].on \in Targets(req[c].op) /\ Accepted(req[c])
  BY <1>1 DEF Posed
<1>3. req[c].on \in Objects
  BY <1>2 DEF Writes, Targets, Objects
<1>4. CASE Scale(c)
  <2>1. req[c].op = "scale_workload" /\ req[c].on \in Workloads
    BY <1>2, <1>4 DEF Scale, Targets
  <2>2. req[c].n \in Int
    BY DEF TypeOK, Request
  <2>3. Narrow(req[c].n) \in Values(req[c].on)
    BY <1>2, <2>1, <2>2, NarrowIsInt, ConstantsAssumption DEF Accepted, Values
  <2> QED BY <1>1, <1>3, <1>4, <2>3, SetMoves DEF Scale
<1>5. CASE Restart(c)
  <2> DEFINE o == obj[req[c].on]
             n == [o EXCEPT !.ver = rev + 1]
  <2>1. o \in Object /\ o.val \in Values(req[c].on) /\ rev \in Nat /\ o.ver <= rev
    BY <1>1, <1>3 DEF TypeOK, Versions
  <2>2. n \in Object /\ n.ver = rev + 1 /\ n.val = o.val
    BY <2>1 DEF Object
  <2>3. CASE Becomes(c, o)
    BY <1>3, <2>3, BecomesMoves
  <2>4. CASE Becomes(c, n)
    <3> HIDE DEF n
    <3> QED BY <1>1, <1>3, <2>1, <2>2, <2>4, BecomesMoves
  <2> QED BY <1>5, <2>3, <2>4 DEF Restart
<1>6. CASE SetSchedulable(c)
  <2>1. req[c].op \in {"cordon_node", "uncordon_node"} /\ req[c].on \in Nodes
    BY <1>2, <1>6 DEF SetSchedulable, Targets
  <2>2. 0 \in Values(req[c].on) /\ 1 \in Values(req[c].on)
    BY ConstantsAssumption DEF Values
  <2>3. CASE req[c].op = "cordon_node"
    BY <1>1, <1>3, <1>6, <2>2, <2>3, SetMoves DEF SetSchedulable
  <2>4. CASE req[c].op # "cordon_node"
    BY <1>1, <1>3, <1>6, <2>2, <2>4, SetMoves DEF SetSchedulable
  <2> QED BY <2>3, <2>4
<1>7. CASE DeletePod(c)
  <2> DEFINE old == obj[req[c].on]
             dying == [ver |-> rev + 1, val |-> 0]
  <2>1. old.ver <= rev /\ rev \in Nat /\ 0 \in Values(req[c].on)
    BY <1>1, <1>3, ConstantsAssumption DEF TypeOK, Versions, Values
  <2>2. dying \in Object /\ dying.ver = rev + 1 /\ dying.val = 0
    BY <2>1 DEF Object
  <2>3. CASE Becomes(c, Absent) \/ Becomes(c, old)
    BY <1>1, <1>3, <2>3, BecomesMoves
  <2>4. CASE Becomes(c, dying)
    <3> HIDE DEF dying
    <3> QED BY <1>1, <1>3, <2>1, <2>2, <2>4, BecomesMoves
  <2> QED BY <1>7, <2>3, <2>4 DEF DeletePod
<1> QED BY <1>3, <1>4, <1>5, <1>6, <1>7 DEF Write

LEMMA OthersLeaveTheCluster ==
  ASSUME TypeOK, NEW c \in Calls,
         \/ Start(c) \/ Fails(c) \/ Read(c) \/ Preview(c) \/ Page(c) \/ Skip(c) \/ Finish(c)
  PROVE  UNCHANGED <<obj, rev>>
  BY DEF Start, Refuse, NoClient, Begin, Fails, Read, Preview, Page, Skip, Finish

LEMMA NextMoves ==
  ASSUME TypeOK, Versions, \A c \in Calls : Posed(c), [Next]_vars
  PROVE  Moves
<1>1. UNCHANGED <<obj, rev>> => Moves
  BY DEF Moves, TypeOK
<1>2. CASE UNCHANGED vars
  BY <1>1, <1>2 DEF vars
<1>3. CASE Edit
  BY <1>3, EditMoves
<1>4. ASSUME NEW c \in Calls, Start(c) \/ Step(c) PROVE Moves
  BY <1>1, <1>4, WriteMoves, OthersLeaveTheCluster DEF Step, Write
<1> QED BY <1>2, <1>3, <1>4 DEF Next

-----------------------------------------------------------------------------
(* Types.                                                                  *)

LEMMA ReturnIsTyped ==
  ASSUME TypeOK, NEW c \in Calls, NEW o \in Outs, Return(c, o)
  PROVE  /\ stage' \in [Calls -> Stages] /\ out' \in [Calls -> Outs]
         /\ req' \in [Calls -> Request] /\ seen' \in [Calls -> Object \cup {Absent}]
         /\ list' \in [Calls -> List]
<1>1. NoRequest \in Request /\ NoList \in List
  BY DEF NoRequest, Request, Scopes, Modes, NoList, List
<1> QED BY <1>1 DEF Return, Answers, TypeOK, Stages

LEMMA TypeStep ==
  ASSUME TypeOK, Versions, \A c \in Calls : Posed(c), [Next]_vars
  PROVE  TypeOK'
<1> USE DEF TypeOK
<1>1. obj' \in [Objects -> Object \cup {Absent}] /\ rev' \in Nat
  BY NextMoves DEF Moves
<1>2. \A o \in Objects : obj'[o] # Absent => obj'[o].val \in Values(o)
  BY NextMoves DEF Moves
<1>3. calm' \in BOOLEAN
  BY DEF Next, vars
<1> DEFINE Rest == /\ stage' \in [Calls -> Stages]
                   /\ req' \in [Calls -> Request]
                   /\ seen' \in [Calls -> Object \cup {Absent}]
                   /\ list' \in [Calls -> List]
                   /\ out' \in [Calls -> Outs]
                   /\ did' \subseteq Calls /\ lost' \subseteq Calls
                   /\ since' \in [Calls -> SUBSET Workloads]
<1>4. CASE UNCHANGED vars
  BY <1>4 DEF vars, locals, history
<1>5. ASSUME Edit PROVE Rest
  <2>1. since' \in [Calls -> SUBSET Workloads]
    BY <1>5 DEF Edit
  <2> QED BY <1>5, <2>1 DEF Edit, locals
<1>6. ASSUME NEW c \in Calls, Start(c) PROVE Rest
  <2>1. PICK r \in Requests : Refuse(c, r) \/ NoClient(c, r) \/ Begin(c, r)
    BY <1>6 DEF Start
  <2>2. CASE Refuse(c, r) \/ NoClient(c, r)
    BY <2>2 DEF Refuse, NoClient, Answers, locals, history, Stages, Outs
  <2>3. CASE Begin(c, r)
    <3>1. r \in Request /\ (r.op = "list_workloads" => r.on \in Scopes)
      BY RequestsAreTyped
    <3>2. r.op = "list_workloads" => There(OfKind(r.on)) \subseteq Workloads
      BY <3>1, KindsAreWorkloads
    <3>3. boundLimit(r.n) \in Int
      BY <3>1, LimitIsBounded DEF Request
    <3>4. [list[c] EXCEPT !.left = boundLimit(r.n)] \in List
      BY <3>3 DEF List
    <3>5. CASE r.op \in Writes
      BY <2>3, <3>1, <3>5 DEF Begin, Goto, Stages, Writes
    <3>6. CASE r.op = "list_workloads"
      <4>1. /\ list' \in [Calls -> List] /\ since' \in [Calls -> SUBSET Workloads]
        BY <2>3, <3>2, <3>4, <3>6 DEF Begin, Writes
      <4> QED BY <2>3, <3>1, <3>6, <4>1 DEF Begin, Goto, Stages, Kinds, Writes
    <3> QED BY <2>3, <3>5, <3>6 DEF Begin
  <2> QED BY <2>1, <2>2, <2>3
<1>7. ASSUME NEW c \in Calls, Step(c) PROVE Rest
  <2>1. CASE Fails(c)
    BY <2>1, ReturnIsTyped DEF Fails, history, Outs
  <2>2. CASE Read(c)
    <3>1. CASE Return(c, "unchanged")
      BY <2>2, <3>1, ReturnIsTyped DEF Read, history, Outs
    <3>2. CASE stage[c] = "read" /\ ~Return(c, "unchanged") /\ req[c].on \in Objects
      BY <2>2, <3>2 DEF Read, Goto, history, Stages
    <3>3. stage[c] = "read" /\ req[c].on \in Objects
      BY <2>2 DEF Read, Posed, Writes, Targets, Objects
    <3> QED BY <3>1, <3>2, <3>3
  <2>3. CASE Preview(c)
    BY <2>3, ReturnIsTyped DEF Preview, history, Outs
  <2>4. CASE Write(c)
    <3>1. PICK o : Becomes(c, o)
      BY <2>4 DEF Write, Scale, Restart, SetSchedulable, DeletePod
    <3> QED BY <3>1, ReturnIsTyped DEF Becomes, Outs
  <2>5. CASE Page(c)
    <3>1. PICK page \in SUBSET There(OfKind(stage[c])) :
            list' = [list EXCEPT ![c] = [found |-> @.found \cup page,
                                         left |-> @.left - Cardinality(page),
                                         more |-> @.more \/ page # There(OfKind(stage[c]))]]
      BY <2>5 DEF Page
    <3>2. page \in SUBSET Workloads /\ Cardinality(page) \in Nat
      BY <2>5, KindsAreWorkloads, PageFits DEF Page, Kinds, Scopes
    <3>3. list[c] \in List
      OBVIOUS
    <3>4. [found |-> list[c].found \cup page,
           left |-> list[c].left - Cardinality(page),
           more |-> list[c].more \/ page # There(OfKind(stage[c]))] \in List
      BY <3>2, <3>3 DEF List
    <3> QED BY <2>5, <3>1, <3>4 DEF Page, Goto, After, Kinds, Stages, history
  <2>6. CASE Skip(c)
    BY <2>6 DEF Skip, Goto, After, Kinds, Stages, locals, history
  <2>7. CASE Finish(c)
    BY <2>7, ReturnIsTyped DEF Finish, history, Outs
  <2> QED BY <1>7, <2>1, <2>2, <2>3, <2>4, <2>5, <2>6, <2>7 DEF Step, Write
<1> QED BY <1>1, <1>2, <1>3, <1>4, <1>5, <1>6, <1>7 DEF Next

-----------------------------------------------------------------------------
(* The inductive step.  A step of a call leaves the others as they are, and *)
(* is one of these.                                                         *)

LEMMA StepKinds ==
  ASSUME TypeOK, NEW c \in Calls, Start(c) \/ Step(c)
  PROVE  \/ Start(c) /\ stage'[c] = "returned" /\ out'[c] = "refused" /\ UNCHANGED <<locals, history>>
         \/ \E r \in Requests : Begin(c, r)
         \/ /\ stage[c] \in {"read", "send", "finish"} \cup Kinds /\ UNCHANGED history
            /\ \E o \in {"error", "unchanged", "preview", "whole", "truncated"} : Return(c, o)
         \/ stage[c] = "read" /\ Read(c) /\ Goto(c, "send")
         \/ Write(c)
         \/ stage[c] \in Kinds /\ Page(c)
         \/ stage[c] \in Kinds /\ Skip(c)
<1>1. CASE Start(c)
  <2>1. PICK r \in Requests : Refuse(c, r) \/ NoClient(c, r) \/ Begin(c, r)
    BY <1>1 DEF Start
  <2> QED BY <1>1, <2>1 DEF Refuse, NoClient, Answers, TypeOK
<1>2. CASE Fails(c)
  BY <1>2 DEF Fails, Running, TypeOK, Stages
<1>3. CASE Read(c)
  BY <1>3 DEF Read
<1>4. CASE Preview(c)
  BY <1>4 DEF Preview, Current
<1>5. CASE Page(c) \/ Skip(c)
  BY <1>5 DEF Page, Skip
<1>6. CASE Finish(c)
  BY <1>6 DEF Finish
<1> QED BY <1>1, <1>2, <1>3, <1>4, <1>5, <1>6 DEF Step, Write

LEMMA WriteReturns ==
  ASSUME TypeOK, NEW c \in Calls, Write(c)
  PROVE  /\ stage[c] = "send" /\ Current(c) /\ Persistent(c)
         /\ did' = did \cup {c} /\ UNCHANGED since
         /\ \/ Return(c, "applied") /\ UNCHANGED lost
            \/ Return(c, "error") /\ lost' = lost \cup {c}
  BY DEF Write, Scale, Restart, SetSchedulable, DeletePod, Becomes, Current

LEMMA OthersStay ==
  ASSUME TypeOK, NEW c \in Calls, Start(c) \/ Step(c), NEW d \in Calls, d # c
  PROVE  /\ stage'[d] = stage[d] /\ req'[d] = req[d] /\ seen'[d] = seen[d]
         /\ list'[d] = list[d] /\ out'[d] = out[d] /\ since'[d] = since[d]
         /\ (d \in did' <=> d \in did) /\ (d \in lost' <=> d \in lost)
<1> USE DEF TypeOK
<1>1. CASE UNCHANGED <<locals, history>> /\ Start(c)
  BY <1>1 DEF Start, Refuse, NoClient, Begin, Answers, Goto, locals, history
<1>2. CASE \E r \in Requests : Begin(c, r)
  BY <1>2 DEF Begin, Goto
<1>3. CASE UNCHANGED history /\ \E o \in {"error", "unchanged", "preview", "whole", "truncated"} : Return(c, o)
  BY <1>3 DEF Return, Answers, history
<1>4. CASE Read(c) /\ Goto(c, "send")
  BY <1>4 DEF Read, Goto, Return, Answers, history
<1>5. CASE Write(c)
  BY <1>5, WriteReturns DEF Return, Answers
<1>6. CASE Page(c) \/ Skip(c)
  BY <1>6 DEF Page, Skip, Goto, locals, history
<1> QED BY StepKinds, <1>1, <1>2, <1>3, <1>4, <1>5, <1>6

LEMMA VersionsStep ==
  ASSUME TypeOK, Versions, \A c \in Calls : Posed(c), [Next]_vars
  PROVE  Versions'
<1> SUFFICES ASSUME NEW o \in Objects, obj'[o] # Absent PROVE obj'[o].ver <= rev'
  BY DEF Versions
<1>1. Moves
  BY NextMoves
<1>2. rev \in Nat /\ rev' \in Nat /\ rev <= rev'
  BY <1>1 DEF Moves, TypeOK
<1>3. CASE obj'[o] = obj[o]
  <2>1. obj[o] \in Object /\ obj[o].ver <= rev
    BY <1>3 DEF TypeOK, Versions
  <2> QED BY <1>2, <1>3, <2>1 DEF Object
<1> QED BY <1>1, <1>2, <1>3 DEF Moves

LEMMA EditLeavesCalls ==
  ASSUME TypeOK, Edit \/ UNCHANGED vars
  PROVE  /\ UNCHANGED <<stage, req, seen, list, out, did, lost>>
         /\ \A c \in Calls : since'[c] = {o \in since[c] : obj'[o] # Absent} \/ UNCHANGED <<since, obj>>
  BY DEF Edit, vars, locals, history, TypeOK

LEMMA PosedStep ==
  ASSUME TypeOK, \A c \in Calls : Posed(c), [Next]_vars, NEW d \in Calls
  PROVE  Posed(d)'
<1> USE DEF Posed, Accepted
<1>1. CASE Edit \/ UNCHANGED vars
  BY <1>1, EditLeavesCalls
<1>2. ASSUME NEW c \in Calls, Start(c) \/ Step(c) PROVE Posed(d)'
  <2>1. CASE d # c
    BY <1>2, <2>1, OthersStay
  <2>2. CASE d = c
    <3>1. CASE stage'[c] = "returned"
      BY <2>2, <3>1 DEF Kinds
    <3>2. ASSUME NEW r \in Requests, Begin(c, r) PROVE Posed(c)'
      BY <3>2, RequestsAreTyped DEF Begin, Goto, Kinds, Writes, TypeOK
    <3>3. CASE stage[c] = "read" /\ Read(c) /\ Goto(c, "send")
      <4>1. req'[c] = req[c] /\ stage'[c] = "send"
        BY <3>3 DEF Read, Return, Answers, Goto, TypeOK
      <4> QED BY <2>2, <3>3, <4>1 DEF Kinds
    <3>4. CASE stage[c] \in Kinds /\ (Page(c) \/ Skip(c))
      <4>1. req'[c] = req[c] /\ stage'[c] \in Kinds \cup {"finish"}
        BY <3>4 DEF Page, Skip, Goto, After, Kinds, locals, TypeOK
      <4> QED BY <2>2, <3>4, <4>1 DEF Kinds
    <3>5. ASSUME NEW o, Return(c, o) PROVE stage'[c] = "returned"
      BY <3>5 DEF Return, Answers, TypeOK
    <3> QED BY <1>2, <2>2, <3>1, <3>2, <3>3, <3>4, <3>5, StepKinds, WriteReturns
  <2> QED BY <2>1, <2>2
<1> QED BY <1>1, <1>2 DEF Next

LEMMA ReadBeforeStep ==
  ASSUME TypeOK, Versions, \A c \in Calls : Posed(c) /\ ReadBefore(c), [Next]_vars, NEW d \in Calls
  PROVE  ReadBefore(d)'
<1>1. Moves
  BY NextMoves
<1>2. CASE stage'[d] = stage[d] /\ req'[d] = req[d] /\ seen'[d] = seen[d]
  <2> SUFFICES ASSUME stage[d] = "send"
               PROVE  /\ seen[d] \in Object /\ seen[d].ver <= rev'
                      /\ LET o == obj'[req[d].on] IN
                         o # Absent /\ o.ver = seen[d].ver => o = seen[d]
    BY <1>2 DEF ReadBefore
  <2>1. seen[d] \in Object /\ seen[d].ver <= rev /\ req[d].on \in Objects
    BY DEF ReadBefore, Posed, Writes, Targets, Objects
  <2>2. seen[d].ver \in Nat /\ rev \in Nat /\ rev' \in Nat /\ rev <= rev'
    BY <1>1, <2>1 DEF Object, Moves, TypeOK
  <2> QED BY <1>1, <2>1, <2>2 DEF Moves, ReadBefore
<1>3. CASE stage'[d] # "send"
  BY <1>3 DEF ReadBefore
<1>4. CASE stage[d] = "read" /\ Read(d) /\ Goto(d, "send")
  <2>1. /\ req'[d] = req[d] /\ seen'[d] = obj[req[d].on] /\ obj[req[d].on] # Absent
        /\ UNCHANGED <<obj, rev>>
    BY <1>4 DEF Read, Return, Answers, Goto, TypeOK
  <2>2. req[d].on \in Objects
    BY <1>4 DEF Posed, Writes, Targets, Objects
  <2> QED BY <2>1, <2>2 DEF ReadBefore, Versions, TypeOK
<1>5. ASSUME NEW c \in Calls, Start(c) \/ Step(c), d = c PROVE ReadBefore(d)'
  <2>1. ASSUME NEW r \in Requests, Begin(c, r) PROVE stage'[d] # "send"
    BY <1>5, <2>1 DEF Begin, Goto, TypeOK
  <2>2. ASSUME NEW o, Return(c, o) PROVE stage'[d] # "send"
    BY <1>5, <2>2 DEF Return, Answers, TypeOK
  <2>3. CASE Page(c) \/ Skip(c)
    BY <1>5, <2>3, <1>3 DEF Page, Skip, Goto, After, Kinds, TypeOK
  <2> QED BY <1>3, <1>4, <1>5, <2>1, <2>2, <2>3, StepKinds, WriteReturns
<1> QED BY <1>2, <1>5, EditLeavesCalls, OthersStay DEF Next

LEMMA ReturnEnds ==
  ASSUME TypeOK, NEW c \in Calls, NEW o, Return(c, o)
  PROVE  stage'[c] = "returned" /\ out'[c] = o
  BY DEF Return, Answers, TypeOK

LEMMA BeginStarts ==
  ASSUME TypeOK, NEW c \in Calls, NEW r \in Requests, Begin(c, r)
  PROVE  /\ stage[c] = "idle" /\ UNCHANGED <<obj, rev, seen, out, did, lost>>
         /\ req'[c] = r
         /\ \/ stage'[c] = "read" /\ r.op \in Writes /\ UNCHANGED <<list, since>>
            \/ /\ stage'[c] = "deployments" /\ r.op = "list_workloads"
               /\ list'[c].left = boundLimit(r.n) /\ list'[c].found = list[c].found
               /\ since'[c] = There(OfKind(r.on))
<1>1. stage[c] = "idle" /\ UNCHANGED <<obj, rev, seen, out, did, lost>> /\ req'[c] = r
  BY DEF Begin, Goto, TypeOK
<1>2. CASE r.op \in Writes /\ Goto(c, "read") /\ UNCHANGED <<list, since>>
  BY <1>1, <1>2 DEF Goto, TypeOK
<1>3. CASE /\ r.op = "list_workloads" /\ Goto(c, "deployments")
           /\ list' = [list EXCEPT ![c].left = boundLimit(r.n)]
           /\ since' = [since EXCEPT ![c] = There(OfKind(r.on))]
  <2>1. list'[c] = [list[c] EXCEPT !.left = boundLimit(r.n)] /\ list[c] \in List
    BY <1>3 DEF TypeOK
  <2> QED BY <1>1, <1>3, <2>1 DEF Goto, List, TypeOK
<1> QED BY <1>2, <1>3 DEF Begin

LEMMA ToldStep ==
  ASSUME TypeOK, \A c \in Calls : Told(c), [Next]_vars, NEW d \in Calls
  PROVE  Told(d)'
<1> USE DEF Told
<1>1. CASE Edit \/ UNCHANGED vars
  BY <1>1, EditLeavesCalls
<1>2. ASSUME NEW c \in Calls, Start(c) \/ Step(c) PROVE Told(d)'
  <2>1. CASE d # c
    BY <1>2, <2>1, OthersStay
  <2>2. CASE Start(c) /\ stage'[c] = "returned" /\ out'[c] = "refused" /\ UNCHANGED <<locals, history>>
    <3>1. stage[c] = "idle"
      BY <2>2 DEF Start, Refuse, NoClient, Begin
    <3> QED BY <2>1, <2>2, <3>1 DEF history
  <2>3. ASSUME NEW r \in Requests, Begin(c, r) PROVE Told(d)'
    BY <2>1, <2>3, BeginStarts
  <2>4. ASSUME stage[c] \in {"read", "send", "finish"} \cup Kinds, UNCHANGED history,
               NEW o \in {"error", "unchanged", "preview", "whole", "truncated"}, Return(c, o)
        PROVE  Told(d)'
    BY <2>1, <2>4, ReturnEnds DEF history, Kinds
  <2>5. CASE stage[c] = "read" /\ Read(c) /\ Goto(c, "send")
    BY <2>1, <2>5 DEF Read, Goto, history
  <2>6. CASE Write(c)
    <3>1. did' = did \cup {c} /\ stage'[c] = "returned"
      BY <2>6, WriteReturns, ReturnEnds
    <3>2. out'[c] = "applied" \/ (c \in lost' /\ out'[c] = "error")
      BY <2>6, WriteReturns, ReturnEnds
    <3> QED BY <2>1, <3>1, <3>2
  <2>7. CASE stage[c] \in Kinds /\ (Page(c) \/ Skip(c))
    <3>1. UNCHANGED <<out, did, lost>> /\ stage[c] # "returned"
      BY <2>7 DEF Page, Skip, Goto, history, Kinds
    <3> QED BY <2>1, <2>7, <3>1
  <2> QED BY <1>2, <2>2, <2>3, <2>4, <2>5, <2>6, <2>7, StepKinds
<1> QED BY <1>1, <1>2 DEF Next

-----------------------------------------------------------------------------
(* The listing.                                                            *)

LEMMA PageAdds ==
  ASSUME TypeOK, NEW c \in Calls, Page(c)
  PROVE  \E page \in SUBSET There(OfKind(stage[c])) :
           /\ Cardinality(page) <= list[c].left /\ page \in SUBSET Workloads
           /\ list'[c].found = list[c].found \cup page
           /\ list'[c].left = list[c].left - Cardinality(page)
           /\ list'[c].more = (list[c].more \/ page # There(OfKind(stage[c])))
<1>1. PICK page \in SUBSET There(OfKind(stage[c])) :
        /\ Cardinality(page) <= list[c].left
        /\ list' = [list EXCEPT ![c] = [found |-> @.found \cup page,
                                        left |-> @.left - Cardinality(page),
                                        more |-> @.more \/ page # There(OfKind(stage[c]))]]
  BY DEF Page
<1>2. page \in SUBSET Workloads
  BY KindsAreWorkloads DEF Page, Kinds, Scopes
<1>3. list'[c] = [found |-> list[c].found \cup page,
                  left |-> list[c].left - Cardinality(page),
                  more |-> list[c].more \/ page # There(OfKind(stage[c]))]
  BY <1>1 DEF TypeOK
<1>4. WITNESS page \in SUBSET There(OfKind(stage[c]))
<1> QED BY <1>1, <1>2, <1>3

LEMMA CountedStep ==
  ASSUME TypeOK, \A c \in Calls : Counted(c), [Next]_vars, NEW d \in Calls
  PROVE  Counted(d)'
<1> USE DEF Counted
<1>1. CASE Edit \/ UNCHANGED vars
  BY <1>1, EditLeavesCalls
<1>2. ASSUME NEW c \in Calls, Start(c) \/ Step(c) PROVE Counted(d)'
  <2>1. CASE d # c
    BY <1>2, <2>1, OthersStay
  <2>2. CASE stage'[c] \in {"returned", "read", "send"}
    BY <2>1, <2>2 DEF Kinds
  <2>3. ASSUME NEW r \in Requests, Begin(c, r) PROVE Counted(d)'
    <3>1. r.n \in Int
      BY RequestsAreTyped DEF Request
    <3>2. CASE stage'[c] = "deployments"
      <4>1. list'[c].left \in 1..MaxLimit /\ list'[c].found = {}
        BY <2>3, <3>1, <3>2, BeginStarts, LimitIsBounded DEF Writes
      <4> QED BY <2>1, <3>2, <4>1, FS_EmptySet, ConstantsAssumption
    <3> QED BY <2>2, <2>3, <3>2, BeginStarts
  <2>4. CASE stage[c] \in Kinds /\ Page(c)
    <3>1. PICK page \in SUBSET Workloads :
            /\ Cardinality(page) <= list[c].left
            /\ list'[c].found = list[c].found \cup page
            /\ list'[c].left = list[c].left - Cardinality(page)
      BY <2>4, PageAdds
    <3>2. list[c].found \in SUBSET Workloads /\ list[c].left \in Int
      BY DEF TypeOK, List
    <3>3. Cardinality(page) \in Nat /\ Cardinality(list[c].found) \in Nat
      BY <3>2, PageFits
    <3>4. /\ Cardinality(list[c].found \cup page) \in Nat
          /\ Cardinality(list[c].found \cup page) <= Cardinality(list[c].found) + Cardinality(page)
      BY <3>2, PageFits
    <3>5. list[c].left >= 0 /\ Cardinality(list[c].found) + list[c].left <= MaxLimit
      BY <2>4
    <3>6. /\ list'[c].left >= 0
          /\ Cardinality(list'[c].found) + list'[c].left <= MaxLimit
      BY <3>1, <3>2, <3>3, <3>4, <3>5, ConstantsAssumption
    <3>7. stage'[c] # "idle"
      BY <2>4 DEF Page, Goto, After, Kinds, TypeOK
    <3> QED BY <2>1, <3>6, <3>7
  <2>5. CASE stage[c] \in Kinds /\ Skip(c)
    <3>1. list'[c] = list[c] /\ stage'[c] # "idle"
      BY <2>5 DEF Skip, Goto, After, Kinds, locals, TypeOK
    <3> QED BY <2>1, <2>5, <3>1
  <2>6. Write(c) \/ (\E o : Return(c, o)) => stage'[c] = "returned"
    BY WriteReturns, ReturnEnds
  <2>7. Read(c) /\ Goto(c, "send") => stage'[c] = "send"
    BY DEF Goto, TypeOK
  <2> QED BY <1>2, <2>2, <2>3, <2>4, <2>5, <2>6, <2>7, StepKinds
<1> QED BY <1>1, <1>2 DEF Next

LEMMA WorkloadsStay ==
  ASSUME TypeOK, NEW c \in Calls, Posed(c), Start(c) \/ Step(c), NEW w \in Workloads, obj[w] # Absent
  PROVE  obj'[w] # Absent
<1>1. Workloads \subseteq Objects
  BY DEF Objects
<1>2. CASE Start(c) \/ Fails(c) \/ Read(c) \/ Preview(c) \/ Page(c) \/ Skip(c) \/ Finish(c)
  BY <1>2, OthersLeaveTheCluster
<1>3. CASE DeletePod(c)
  <2>1. req[c].on \in Pods
    BY <1>3 DEF DeletePod, Current, Posed, Targets
  <2>2. PICK o : Becomes(c, o)
    BY <1>3 DEF DeletePod
  <2> QED BY <1>1, <2>1, <2>2, ConstantsAssumption DEF Becomes, TypeOK
<1>4. ASSUME NEW o, o # Absent, Becomes(c, o) PROVE obj'[w] # Absent
  BY <1>1, <1>4 DEF Becomes, TypeOK
<1>5. CASE Scale(c) \/ Restart(c) \/ SetSchedulable(c)
  <2> DEFINE old == obj[req[c].on]
  <2>1. old # Absent /\ req[c].on \in Objects /\ old \in Object /\ rev \in Nat
    BY <1>5 DEF Scale, Restart, SetSchedulable, Current, Posed, Writes, Targets, Objects, TypeOK
  <2>2. ASSUME NEW v \in Int PROVE Set(old, v) # Absent
    <3>1. [ver |-> rev + 1, val |-> v] \in Object
      BY <2>1, <2>2 DEF Object
    <3> QED BY <2>1, <3>1, ConstantsAssumption DEF Set
  <2>3. [old EXCEPT !.ver = rev + 1] # Absent
    <3>1. [old EXCEPT !.ver = rev + 1] \in Object
      BY <2>1 DEF Object
    <3> QED BY <3>1, ConstantsAssumption
  <2>4. Narrow(req[c].n) \in Int
    <3>1. req[c].n \in Int
      BY DEF TypeOK, Request
    <3> QED BY <3>1, NarrowIsInt, ConstantsAssumption
  <2>5. CASE Scale(c)
    BY <1>4, <2>2, <2>4, <2>5 DEF Scale
  <2>6. CASE Restart(c)
    <3> HIDE DEF old
    <3>1. Becomes(c, old) \/ Becomes(c, [old EXCEPT !.ver = rev + 1])
      BY <2>6 DEF Restart, old
    <3> QED BY <1>4, <2>1, <2>3, <3>1
  <2>7. CASE SetSchedulable(c)
    <3>1. (IF req[c].op = "cordon_node" THEN 1 ELSE 0) \in Int
      OBVIOUS
    <3> QED BY <1>4, <2>2, <2>7, <3>1 DEF SetSchedulable
  <2> QED BY <1>5, <2>5, <2>6, <2>7
<1> QED BY <1>2, <1>3, <1>5 DEF Step

\* A page that is everything there is of its kind has what was there all the while.
LEMMA PageCovers ==
  ASSUME TypeOK, NEW c \in Calls, Posed(c), Covered(c), Page(c), ~Truncated(list'[c])
  PROVE  since[c] \cap Passed(stage'[c]) \subseteq list'[c].found
<1>1. PICK page \in SUBSET There(OfKind(stage[c])) :
        /\ list'[c].found = list[c].found \cup page
        /\ list'[c].left = list[c].left - Cardinality(page)
        /\ list'[c].more = (list[c].more \/ page # There(OfKind(stage[c])))
        /\ page \in SUBSET Workloads
  BY PageAdds
<1>2. stage[c] \in Kinds /\ stage'[c] = After(stage[c])
  BY DEF Page, Goto, TypeOK
<1>3. Cardinality(page) \in Nat /\ list[c].left \in Int
  BY <1>1, PageFits DEF TypeOK, List
<1>4. page = There(OfKind(stage[c])) /\ ~Truncated(list[c])
  <2>1. ~list'[c].more /\ ~(list'[c].left <= 0)
    BY Zenon DEF Truncated
  <2>2. ~list[c].more /\ page = There(OfKind(stage[c]))
    BY <1>1, <2>1, Zenon
  <2>3. ~(list[c].left <= 0)
    BY <1>1, <1>3, <2>1
  <2> QED BY <2>2, <2>3, Zenon DEF Truncated
<1>5. since[c] \cap Passed(stage[c]) \subseteq list[c].found
  BY <1>2, <1>4 DEF Covered
<1>6. since[c] \cap OfKind(stage[c]) \subseteq page
  BY <1>2, <1>4 DEF Covered, There
<1>7. Passed(stage'[c]) = Passed(stage[c]) \cup OfKind(stage[c])
  BY <1>2 DEF Passed, After, OfKind, Kinds, Workloads
<1> QED BY <1>1, <1>5, <1>6, <1>7

\* A kind is skipped when the budget is spent or when it was not asked for.
LEMMA SkipCovers ==
  ASSUME TypeOK, NEW c \in Calls, Posed(c), Covered(c), Skip(c), ~Truncated(list[c])
  PROVE  since[c] \cap Passed(stage'[c]) \subseteq list[c].found
<1>1. stage[c] \in Kinds /\ stage'[c] = After(stage[c]) /\ ~Wanted(c, stage[c])
  BY DEF Skip, Goto, TypeOK
<1>2. since[c] \subseteq There(OfKind(req[c].on)) /\ req[c].on \in Scopes
  BY <1>1 DEF Covered, Posed
<1>3. req[c].on \notin {"all", stage[c]}
  <2>1. list[c].left \in Int
    BY DEF TypeOK, List
  <2> QED BY <1>1, <2>1 DEF Wanted, Truncated
<1>4. since[c] \cap OfKind(stage[c]) = {}
  <2>1. ASSUME NEW j \in Kinds, NEW k \in Kinds, j # k PROVE OfKind(j) \cap OfKind(k) = {}
    BY <2>1, ConstantsAssumption DEF OfKind, Kinds
  <2>2. req[c].on \in Kinds
    BY <1>2, <1>3 DEF Kinds, Scopes
  <2>3. OfKind(req[c].on) \cap OfKind(stage[c]) = {}
    BY <1>1, <1>3, <2>1, <2>2
  <2> QED BY <1>2, <2>3 DEF There
<1>5. Passed(stage'[c]) = Passed(stage[c]) \cup OfKind(stage[c])
  BY <1>1 DEF Passed, After, OfKind, Kinds, Workloads
<1>6. since[c] \cap Passed(stage[c]) \subseteq list[c].found
  BY <1>1 DEF Covered
<1> QED BY <1>4, <1>5, <1>6

LEMMA CoveredStep ==
  ASSUME TypeOK, \A c \in Calls : Posed(c) /\ Covered(c), [Next]_vars, NEW d \in Calls
  PROVE  Covered(d)'
<1>1. CASE Edit \/ UNCHANGED vars
  <2>1. CASE UNCHANGED <<since, obj>>
    BY <1>1, <2>1, EditLeavesCalls DEF Covered, There
  <2>2. CASE since'[d] = {o \in since[d] : obj'[o] # Absent}
    BY <1>1, <2>2, EditLeavesCalls DEF Covered, There
  <2> QED BY <1>1, <2>1, <2>2, EditLeavesCalls
<1>2. ASSUME NEW c \in Calls, Start(c) \/ Step(c) PROVE Covered(d)'
  <2>1. ASSUME NEW k \in Scopes PROVE There(OfKind(k)) \subseteq There(OfKind(k))'
    BY <1>2, <2>1, WorkloadsStay, KindsAreWorkloads DEF There, OfKind
  <2>2. CASE d # c
    <3> SUFFICES ASSUME stage[d] \in Kinds \cup {"finish"}
                 PROVE  /\ since[d] \subseteq There(OfKind(req[d].on))'
                        /\ ~Truncated(list[d]) => since[d] \cap Passed(stage[d]) \subseteq list[d].found
      BY <1>2, <2>2, OthersStay DEF Covered, There, Truncated, Passed, OfKind
    <3>1. req'[d] = req[d] /\ req[d].on \in Scopes
      BY <1>2, <2>2, OthersStay DEF Posed
    <3> QED BY <2>1, <3>1 DEF Covered
  <2>3. CASE stage'[c] \in {"returned", "read", "send"}
    BY <2>2, <2>3 DEF Covered, Kinds
  <2>4. ASSUME NEW r \in Requests, Begin(c, r), stage'[c] = "deployments" PROVE Covered(d)'
    <3>1. since'[c] = There(OfKind(r.on)) /\ req'[c] = r /\ obj' = obj
      BY <2>4, BeginStarts
    <3> QED BY <2>2, <2>4, <3>1 DEF Covered, There, Passed
  <2>5. CASE stage[c] \in Kinds /\ (Page(c) \/ Skip(c))
    <3>1. /\ stage'[c] \in Kinds \cup {"finish"} /\ UNCHANGED <<obj, since>> /\ req'[c] = req[c]
      BY <2>5 DEF Page, Skip, Goto, After, Kinds, history, locals, TypeOK
    <3>2. since[c] \subseteq There(OfKind(req[c].on))
      BY <2>5 DEF Covered
    <3>3. ~Truncated(list'[c]) => since[c] \cap Passed(stage'[c]) \subseteq list'[c].found
      <4>1. CASE Page(c)
        BY <4>1, PageCovers
      <4>2. CASE Skip(c)
        BY <4>2, SkipCovers DEF Skip, locals
      <4> QED BY <2>5, <4>1, <4>2
    <3> QED BY <2>2, <3>1, <3>2, <3>3 DEF Covered, There, Truncated, Passed
  <2>6. Write(c) \/ (\E o : Return(c, o)) => stage'[c] = "returned"
    BY WriteReturns, ReturnEnds
  <2>7. Read(c) /\ Goto(c, "send") => stage'[c] = "send"
    BY DEF Goto, TypeOK
  <2> QED BY <1>2, <2>3, <2>4, <2>5, <2>6, <2>7, StepKinds, BeginStarts
<1> QED BY <1>1, <1>2 DEF Next

-----------------------------------------------------------------------------
(* A call that has the cluster for itself.                                 *)

LEMMA RunningStays ==
  ASSUME TypeOK, NEW c \in Calls, Start(c) \/ Step(c)
  PROVE  Running' \subseteq Running \cup {c}
  BY OthersStay DEF Running

LEMMA StepIsOfARunning ==
  ASSUME NEW c \in Calls, Step(c)
  PROVE  c \in Running
  BY DEF Step, Fails, Read, Preview, Scale, Restart, SetSchedulable, DeletePod, Current,
         Page, Skip, Finish, Running, Kinds

LEMMA AloneStep ==
  ASSUME TypeOK, Alone, [Next]_vars
  PROVE  Alone'
<1> SUFFICES ASSUME calm'
             PROVE  /\ \A c, d \in Running' : c = d
                    /\ \A c \in Calls : stage'[c] = "send" =>
                         obj'[req'[c].on] = seen'[c] /\ ~NoOp(req'[c], seen'[c])
  BY DEF Alone, NoOp, Narrow
<1>1. CASE UNCHANGED vars
  BY <1>1 DEF vars, locals, Alone, Running
<1>2. CASE Edit /\ calm' = (calm /\ Running = {})
  <2>1. Running = {} /\ stage' = stage
    BY <1>2 DEF Edit
  <2> QED BY <2>1 DEF Running
<1>3. ASSUME NEW c \in Calls, Start(c), calm' = (calm /\ Running = {})
      PROVE  Running' \subseteq {c} /\ \A d \in Running' : stage'[d] # "send"
  <2>1. Running' \subseteq {c}
    BY <1>3, RunningStays
  <2>2. stage'[c] # "send"
    BY <1>3 DEF Start, Refuse, NoClient, Begin, Answers, Goto, TypeOK
  <2> QED BY <2>1, <2>2
<1>4. ASSUME NEW c \in Calls, Step(c), UNCHANGED calm
      PROVE  /\ Running' \subseteq {c}
             /\ stage'[c] = "send" => obj'[req'[c].on] = seen'[c] /\ ~NoOp(req'[c], seen'[c])
  <2>1. calm
    BY <1>4
  <2>2. Running \subseteq {c}
    BY <1>4, <2>1, StepIsOfARunning DEF Alone
  <2>3. ASSUME NEW o, Return(c, o) PROVE stage'[c] # "send"
    BY <2>3, ReturnEnds
  <2>4. CASE stage[c] = "read" /\ Read(c) /\ Goto(c, "send")
    <3>1. ~Return(c, "unchanged")
      BY <2>4 DEF Return, Answers, Goto, TypeOK
    <3>2. ~NoOp(req[c], obj[req[c].on]) /\ seen' = [seen EXCEPT ![c] = obj[req[c].on]]
          /\ UNCHANGED <<req, obj>>
      BY <2>4, <3>1 DEF Read
    <3> QED BY <1>4, <2>2, <3>2, RunningStays DEF TypeOK
  <2>5. CASE ~Goto(c, "send")
    <3>1. Page(c) \/ Skip(c) => stage'[c] # "send"
      BY DEF Page, Skip, Goto, After, Kinds, TypeOK
    <3>2. Step(c) => stage[c] # "idle"
      BY DEF Step, Fails, Read, Preview, Scale, Restart, SetSchedulable, DeletePod, Current,
             Page, Skip, Finish, Running, Kinds
    <3>3. ~Start(c)
      BY <1>4, <3>2 DEF Start, Refuse, NoClient, Begin
    <3>4. \A r \in Requests : ~Begin(c, r)
      BY <1>4, <3>2 DEF Begin
    <3>5. stage'[c] # "send"
      BY <1>4, <2>3, <2>5, <3>1, <3>3, <3>4, StepKinds, WriteReturns
    <3> QED BY <1>4, <2>2, <3>5, RunningStays
  <2>6. Goto(c, "send") => stage[c] = "read" /\ Read(c)
    <3>1. Goto(c, "send") => stage'[c] = "send"
      BY DEF Goto, TypeOK
    <3>2. Page(c) \/ Skip(c) => stage'[c] # "send"
      BY DEF Page, Skip, Goto, After, Kinds, TypeOK
    <3>3. stage[c] # "idle"
      BY <1>4, StepIsOfARunning DEF Running
    <3> QED BY <1>4, <2>3, <3>1, <3>2, <3>3, StepKinds, WriteReturns DEF Start, Refuse, NoClient, Begin
  <2> QED BY <2>4, <2>5, <2>6
<1>5. Running' \subseteq Calls /\ \A c \in Calls : stage'[c] = "send" => c \in Running'
  BY DEF Running
<1> QED BY <1>1, <1>2, <1>3, <1>4, <1>5 DEF Next

LEMMA IInvStep == IInv /\ [Next]_vars => IInv'
<1> SUFFICES ASSUME IInv, [Next]_vars PROVE IInv'
  OBVIOUS
<1>1. TypeOK' /\ Versions' /\ Alone'
  BY TypeStep, VersionsStep, AloneStep DEF IInv
<1>2. ASSUME NEW c \in Calls
      PROVE  (Posed(c) /\ ReadBefore(c) /\ Told(c) /\ Counted(c) /\ Covered(c))'
  BY PosedStep, ReadBeforeStep, ToldStep, CountedStep, CoveredStep DEF IInv
<1> QED BY <1>1, <1>2 DEF IInv

LEMMA Inductive == Spec => []IInv
<1>1. Init => IInv
  BY InitIInv
<1>2. IInv /\ [Next]_vars => IInv'
  BY IInvStep
<1> QED BY <1>1, <1>2, PTL DEF Spec

-----------------------------------------------------------------------------
\* Every state of the plugin and the cluster is well formed: a write leaves a
\* workload a count that is none below zero, a node a flag.
THEOREM TypeCorrect == Spec => []TypeOK
<1>1. IInv => TypeOK
  BY DEF IInv
<1> QED BY <1>1, Inductive, PTL

\* A call that answers applied was carried out; one that answers anything else
\* changed nothing, unless an answer was lost.
THEOREM AnswersAreTrue == Spec => []AnswerIsTrue
<1>1. IInv => AnswerIsTrue
  BY DEF IInv, Told, AnswerIsTrue
<1> QED BY <1>1, Inductive, PTL

\* A scale the API server carries out changes the very object whose replicas
\* were read and reported, whatever others did in between (clientgo_writes.go).
THEOREM ScalesHitWhatTheyRead == Spec => ScaleHitsWhatItRead
<1>1. ASSUME IInv, Next, NEW c \in Calls, c \in did' \ did, req[c].op = "scale_workload"
      PROVE  obj[req[c].on] = seen[c]
  <2>1. PICK e \in Calls : Start(e) \/ Step(e)
    BY <1>1 DEF Next, Edit
  <2>2. e = c
    BY <1>1, <2>1, OthersStay DEF IInv
  <2>3. Write(c)
    <3>1. Write(c) \/ UNCHANGED did
      <4>1. \A r \in Requests : Begin(c, r) => UNCHANGED did
        BY DEF Begin
      <4>2. Read(c) \/ Page(c) \/ Skip(c) => UNCHANGED did
        BY DEF Read, Page, Skip, history
      <4>3. UNCHANGED history => UNCHANGED did
        BY DEF history
      <4> QED BY <1>1, <2>1, <2>2, <4>1, <4>2, <4>3, StepKinds DEF IInv
    <3> QED BY <1>1, <3>1
  <2>4. stage[c] = "send" /\ Current(c)
    BY <1>1, <2>3, WriteReturns DEF IInv
  <2> QED BY <1>1, <2>4 DEF Current, IInv, ReadBefore
<1>2. IInv /\ [Next]_vars =>
        [\A c \in Calls : c \in did' \ did /\ req[c].op = "scale_workload" =>
           obj[req[c].on] = seen[c]]_vars
  BY <1>1
<1> QED BY <1>2, Inductive, PTL DEF Spec, ScaleHitsWhatItRead

\* With nobody else at work a write reported as applied did change its object,
\* but for a restart in the second of another one, and for the deletion of a pod
\* that terminates already.
THEOREM AppliedChanges == Spec => AppliedIsNoNoOp
<1>1. ASSUME IInv, Next, calm', NEW c \in Calls, out[c] # out'[c], out'[c] = "applied"
      PROVE  \/ obj' # obj
             \/ req[c].op = "restart_workload"
             \/ req[c].op = "delete_pod" /\ seen[c].val = 0
  <2> USE DEF IInv
  <2>1. PICK e \in Calls : Start(e) \/ (Step(e) /\ UNCHANGED calm)
    <3>1. ~Edit
      BY <1>1 DEF Edit
    <3> QED BY <1>1, <3>1 DEF Next
  <2>2. e = c
    BY <1>1, <2>1, OthersStay
  <2>3. Write(c)
    <3>1. \A r \in Requests : Begin(c, r) => UNCHANGED out
      BY DEF Begin, Goto
    <3>2. Goto(c, "send") \/ Page(c) \/ Skip(c) => UNCHANGED out
      BY DEF Goto, Page, Skip
    <3>3. ASSUME NEW o \in {"error", "unchanged", "preview", "whole", "truncated"}, Return(c, o)
          PROVE  FALSE
      BY <1>1, <3>3, ReturnEnds
    <3> QED BY <1>1, <2>1, <2>2, <3>1, <3>2, <3>3, StepKinds
  <2>4. /\ stage[c] = "send" /\ Current(c) /\ obj[req[c].on] # Absent
        /\ req[c].op \in Writes /\ req[c].on \in Objects
    BY <1>1, <2>3, WriteReturns, WriteMoves DEF Current, Posed
  <2>5. obj[req[c].on] = seen[c] /\ ~NoOp(req[c], seen[c])
    <3>1. ~Start(c)
      BY <2>4 DEF Start, Refuse, NoClient, Begin
    <3> QED BY <1>1, <2>1, <2>2, <2>4, <3>1 DEF Alone
  <2> DEFINE old == obj[req[c].on]
  <2>6. old \in Object /\ rev \in Nat /\ old.ver <= rev
    BY <1>1, <2>4 DEF TypeOK, Versions
  <2>7. ASSUME NEW v, v # old.val, Becomes(c, Set(old, v)) PROVE obj' # obj
    <3>1. Set(old, v) # old
      BY <2>7 DEF Set
    <3> QED BY <1>1, <2>4, <2>7, <3>1 DEF Becomes, TypeOK
  <2>8. CASE Scale(c)
    BY <2>4, <2>5, <2>7, <2>8 DEF Scale, NoOp
  <2>9. CASE SetSchedulable(c)
    <3>1. (IF req[c].op = "cordon_node" THEN 1 ELSE 0) # old.val
      BY <2>4, <2>5, <2>6, <2>9 DEF SetSchedulable, NoOp, Posed, Targets, TypeOK, Values
    <3> QED BY <2>7, <2>9, <3>1 DEF SetSchedulable
  <2>10. CASE DeletePod(c)
    <3>1. [ver |-> rev + 1, val |-> 0] # old
      BY <2>6
    <3>2. ASSUME NEW o, o # old, Becomes(c, o) PROVE obj' # obj
      BY <1>1, <2>4, <3>2 DEF Becomes, TypeOK
    <3>3. CASE Becomes(c, Absent)
      BY <2>4, <3>2, <3>3
    <3>4. CASE Becomes(c, [ver |-> rev + 1, val |-> 0])
      BY <3>1, <3>2, <3>4
    <3>5. CASE old.val = 0
      BY <2>5, <2>10, <3>5 DEF DeletePod
    <3> QED BY <2>10, <3>3, <3>4, <3>5 DEF DeletePod
  <2> QED BY <2>3, <2>8, <2>9, <2>10 DEF Write, Restart
<1>2. IInv /\ [Next]_vars =>
        [calm' => \A c \in Calls : out[c] # out'[c] /\ out'[c] = "applied" =>
           \/ obj' # obj
           \/ req[c].op = "restart_workload"
           \/ req[c].op = "delete_pod" /\ seen[c].val = 0]_vars
  BY <1>1
<1> QED BY <1>2, Inductive, PTL DEF Spec, AppliedIsNoNoOp

\* What a call changes is the object it names, and only when it was acknowledged
\* and was no dry run: nothing is persisted by a preview.
THEOREM OnlyAcknowledgedWrites == Spec => OnlyAcknowledgedChanges
<1>1. ASSUME IInv, Next, stage' # stage, NEW o \in Objects, obj'[o] # obj[o]
      PROVE  \E c \in Calls : stage'[c] # stage[c] /\ req[c].on = o /\ req[c].mode = "acked"
  <2> USE DEF IInv
  <2>1. PICK c \in Calls : Start(c) \/ Step(c)
    BY <1>1 DEF Next, Edit
  <2>2. Write(c)
    BY <1>1, <2>1, OthersLeaveTheCluster DEF Step, Write
  <2>3. stage[c] = "send" /\ stage'[c] = "returned" /\ Persistent(c)
    BY <1>1, <2>2, WriteReturns, ReturnEnds
  <2>4. req[c].on = o
    <3>1. PICK n : obj' = [obj EXCEPT ![req[c].on] = n]
      BY <2>2 DEF Write, Scale, Restart, SetSchedulable, DeletePod, Becomes
    <3> QED BY <1>1, <3>1 DEF TypeOK
  <2> QED BY <2>3, <2>4 DEF Persistent
<1>2. IInv /\ [Next]_vars =>
        [stage' # stage =>
           \A o \in Objects : obj'[o] # obj[o] =>
             \E c \in Calls : /\ stage'[c] # stage[c]
                              /\ req[c].on = o /\ req[c].mode = "acked"]_vars
  BY <1>1
<1> QED BY <1>2, Inductive, PTL DEF Spec, OnlyAcknowledgedChanges

\* A listing that is not said to be truncated has every workload that was there
\* all the while, and no listing exceeds the limit.
THEOREM WholeListsAreWhole == Spec => WholeListIsWhole
<1>1. ASSUME IInv, Next, NEW c \in Calls, stage[c] = "finish", stage'[c] = "returned"
      PROVE  /\ out'[c] = "whole" => since[c] \subseteq list[c].found
             /\ Cardinality(list[c].found) <= MaxLimit
  <2> USE DEF IInv
  <2>1. Cardinality(list[c].found) <= MaxLimit
    <3>1. /\ list[c].left >= 0 /\ list[c].left \in Int
          /\ Cardinality(list[c].found) + list[c].left <= MaxLimit
      BY <1>1 DEF Counted, TypeOK, List
    <3>2. Cardinality(list[c].found) \in Nat
      BY <1>1, PageFits DEF TypeOK, List
    <3> QED BY <3>1, <3>2, ConstantsAssumption
  <2>2. ASSUME out'[c] = "whole" PROVE since[c] \subseteq list[c].found
    <3>1. PICK e \in Calls : Start(e) \/ Step(e)
      BY <1>1 DEF Next, Edit
    <3>2. e = c
      BY <1>1, <3>1, OthersStay
    <3>3. Finish(c)
      BY <1>1, <3>1, <3>2 DEF Start, Refuse, NoClient, Begin, Step, Fails, Read, Preview, Scale,
           Restart, SetSchedulable, DeletePod, Current, Page, Skip, Kinds
    <3>4. ~Truncated(list[c])
      BY <1>1, <2>2, <3>3, ReturnEnds DEF Finish
    <3>5. since[c] \subseteq There(OfKind(req[c].on)) /\ req[c].on \in Scopes
      BY <1>1 DEF Covered, Posed
    <3>6. since[c] \cap Workloads \subseteq list[c].found
      BY <1>1, <3>4 DEF Covered, Passed
    <3> QED BY <3>5, <3>6, KindsAreWorkloads
  <2> QED BY <2>1, <2>2
<1>2. IInv /\ [Next]_vars =>
        [\A c \in Calls : stage[c] = "finish" /\ stage'[c] = "returned" =>
           /\ out'[c] = "whole" => since[c] \subseteq list[c].found
           /\ Cardinality(list[c].found) <= MaxLimit]_vars
  BY <1>1
<1> QED BY <1>2, Inductive, PTL DEF Spec, WholeListIsWhole

-----------------------------------------------------------------------------
(* A write changes only what it names, when acknowledged; it says so if and
   only if it did; and what it says it applied was no no-op, a repeated restart
   and the deletion of a terminating pod apart. *)
THEOREM WritesAreTrue == Spec => WritesAreAsTold
BY OnlyAcknowledgedWrites, AnswersAreTrue, AppliedChanges DEF WritesAreAsTold

-----------------------------------------------------------------------------
(* How a call finds its way (K8sAccess), for any number of calls.  While the
   operator changes nothing, what check_access foretold is what it would say
   now (Foreseen), and a connection is one RestConfig would make now (Bound).
   What a context is named does not change: a call that names its own keeps its
   namespace and its entry even while the operator switches (Named, Reached). *)

Opts(c) == Access!clusterOptions(acReq[c].context)
Steady(c) == c \in still \/ Opts(c).context # Absent

Foreseen(c) == pc[c] # "idle" /\ c \in still => foretold[c] = Access!Preflight(Opts(c))
Bound(c) == pc[c] = "request" /\ c \in still => conn[c] \in Access!RestConfig(Opts(c))
Named(c) == pc[c] # "idle" /\ acReq[c].op = "list_pods" /\ Steady(c) =>
              ns[c] = Access!namespace(acReq[c], Opts(c))
Reached(c) == pc[c] = "request" /\ conn[c].context # Absent /\ Steady(c) =>
                /\ ~Access!HostSecret(Opts(c)) /\ file # Absent /\ Access!HasEntry(Opts(c))
                /\ conn[c].context = Access!ContextName(Opts(c))

AccessInv == /\ Access!TypeOK
             /\ \A c \in Lookups : Foreseen(c) /\ Bound(c) /\ Named(c) /\ Reached(c)

LEMMA OptionsAreConfig ==
  ASSUME config \in Access!Config, NEW k \in Contexts \cup {Absent}
  PROVE  /\ Access!clusterOptions(k) \in Access!Config
         /\ Access!clusterOptions(k).token = config.token
         /\ Access!clusterOptions(k).server = config.server
  BY DEF Access!clusterOptions, Access!Config

\* The namespace of a call is what is set first of its argument, the
\* configuration and the context, and never none.
LEMMA NamespaceIsTheFirst ==
  ASSUME NEW r, NEW o
  PROVE  /\ Access!namespace(r, o) =
              IF r.namespace # Absent THEN r.namespace
              ELSE IF config.namespace # Absent THEN config.namespace
              ELSE IF Access!ContextNamespace(o) # Absent THEN Access!ContextNamespace(o)
              ELSE "default"
         /\ Access!namespace(r, o) # Absent
<1> DEFINE given == <<r.namespace, config.namespace, Access!ContextNamespace(o), "default">>
           First(i) == i \in 1..4 /\ given[i] # Absent /\ \A j \in 1..i - 1 : given[j] = Absent
<1>1. Access!namespace(r, o) = given[CHOOSE i \in 1..4 : given[i] # Absent /\ \A j \in 1..i - 1 : given[j] = Absent]
  BY DEF Access!namespace
<1>2. given[1] = r.namespace /\ given[2] = config.namespace
      /\ given[3] = Access!ContextNamespace(o) /\ given[4] = "default"
  OBVIOUS
<1>3. \A i, k \in 1..4 : First(i) /\ First(k) => i = k
  <2> SUFFICES ASSUME NEW i \in 1..4, NEW k \in 1..4, First(i), First(k), i < k PROVE FALSE
    OBVIOUS
  <2>1. i \in 1..k - 1
    OBVIOUS
  <2> QED BY <2>1
<1>4. ASSUME NEW i \in 1..4, First(i)
      PROVE  Access!namespace(r, o) = given[i] /\ given[i] # Absent
  <2> HIDE DEF given
  <2>1. (CHOOSE j \in 1..4 : given[j] # Absent /\ \A k \in 1..j - 1 : given[k] = Absent) = i
    BY <1>3, <1>4
  <2> QED BY <1>1, <1>4, <2>1
<1>5. CASE r.namespace # Absent
  BY <1>2, <1>4, <1>5
<1>6. CASE r.namespace = Absent /\ config.namespace # Absent
  <2>1. First(2)
    BY <1>2, <1>6
  <2> QED BY <1>2, <1>4, <1>6, <2>1
<1>7. CASE r.namespace = Absent /\ config.namespace = Absent /\ Access!ContextNamespace(o) # Absent
  <2>1. First(3)
    <3> HIDE DEF given
    <3>1. \A j \in 1..3 - 1 : j = 1 \/ j = 2
      OBVIOUS
    <3> QED BY <1>2, <1>7, <3>1
  <2> QED BY <1>2, <1>4, <1>7, <2>1
<1>8. CASE r.namespace = Absent /\ config.namespace = Absent /\ Access!ContextNamespace(o) = Absent
  <2>1. First(4)
    <3> HIDE DEF given
    <3>1. \A j \in 1..4 - 1 : j = 1 \/ j = 2 \/ j = 3
      OBVIOUS
    <3> QED BY <1>2, <1>8, <3>1, AccessAssumption
  <2> QED BY <1>2, <1>4, <1>8, <2>1
<1> QED BY <1>5, <1>6, <1>7, <1>8

\* A user's credential is one of those it has, or that it has none.
LEMMA ModesAreModes ==
  ASSUME NEW user \in Access!User
  PROVE  Access!ClassifyAuthMode(user) \in Access!Modes
<1> DEFINE C == Access!Credentials
<1>1. CASE user.has = {}
  BY <1>1 DEF Access!ClassifyAuthMode, Access!Modes
<1>2. CASE user.has # {}
  <2>1. DOMAIN C = 1..6
    BY DEF Access!Credentials
  <2>2. user.has \subseteq {C[i] : i \in DOMAIN C}
    BY DEF Access!User
  <2>3. \E i \in DOMAIN C : C[i] \in user.has /\ \A j \in 1..i - 1 : C[j] \notin user.has
    <3> DEFINE I == {i \in 1..6 : C[i] \in user.has}
    <3>1. PICK i \in I : \A j \in I : i <= j
      <4> HIDE DEF C
      <4>1. \E i \in 1..6 : i \in I
        BY <1>2, <2>1, <2>2
      <4> HIDE DEF I
      <4>2. CASE 1 \in I
        <5>1. \A j \in I : 1 <= j
          BY DEF I
        <5> QED BY <4>2, <5>1
      <4>3. CASE 1 \notin I /\ 2 \in I
        <5>1. \A j \in I : 2 <= j
          BY <4>3 DEF I
        <5> QED BY <4>3, <5>1
      <4>4. CASE 1 \notin I /\ 2 \notin I /\ 3 \in I
        <5>1. \A j \in I : 3 <= j
          BY <4>4 DEF I
        <5> QED BY <4>4, <5>1
      <4>5. CASE 1 \notin I /\ 2 \notin I /\ 3 \notin I /\ 4 \in I
        <5>1. \A j \in I : 4 <= j
          BY <4>5 DEF I
        <5> QED BY <4>5, <5>1
      <4>6. CASE 1 \notin I /\ 2 \notin I /\ 3 \notin I /\ 4 \notin I /\ 5 \in I
        <5>1. \A j \in I : 5 <= j
          BY <4>6 DEF I
        <5> QED BY <4>6, <5>1
      <4>7. CASE 1 \notin I /\ 2 \notin I /\ 3 \notin I /\ 4 \notin I /\ 5 \notin I
        <5>1. \A j \in I : j = 6
          BY <4>7 DEF I
        <5> QED BY <4>1, <5>1
      <4> QED BY <4>2, <4>3, <4>4, <4>5, <4>6, <4>7
    <3> HIDE DEF C
    <3>2. \A j \in 1..i - 1 : j \in 1..6 /\ ~(i <= j)
      OBVIOUS
    <3> QED BY <2>1, <3>1, <3>2
  <2> HIDE DEF C
  <2>4. PICK k \in DOMAIN C : Access!ClassifyAuthMode(user) = C[k]
    <3> DEFINE k == CHOOSE i \in DOMAIN C : C[i] \in user.has /\ \A j \in 1..i - 1 : C[j] \notin user.has
    <3>1. k \in DOMAIN C
      BY <2>3
    <3>2. Access!ClassifyAuthMode(user) = C[k]
      BY <1>2 DEF Access!ClassifyAuthMode, C
    <3> QED BY <3>1, <3>2
  <2> QED BY <2>4 DEF Access!Modes, C
<1> QED BY <1>1, <1>2

LEMMA HelpersAreInstalled ==
  ASSUME installed \subseteq Places, NEW user \in Access!User, NEW o
  PROVE  Access!ResolveCredentialCommand(user, o) \subseteq installed
<1> DEFINE searched == <<"PATH", "credential_path", "variable", "fallback">>
           found == {i \in DOMAIN searched : /\ searched[i] \in installed
                                             /\ searched[i] = "credential_path" => o.extra}
           first == {searched[i] : i \in {i \in found : \A j \in found : i <= j}}
<1>1. Access!ResolveCredentialCommand(user, o) =
        CASE user.command = "empty" -> {}
          [] user.command = "path" -> {"absolute"} \cap installed
          [] OTHER -> first
  BY DEF Access!ResolveCredentialCommand
<1>2. first \subseteq installed
  OBVIOUS
<1> HIDE DEF first
<1> QED BY <1>1, <1>2

\* What is found of a context that is there.
LEMMA EntriesAreTyped ==
  ASSUME Access!TypeOK, file # Absent, NEW o \in Access!Config, Access!HasEntry(o)
  PROVE  Access!ContextName(o) \in Contexts /\ Access!EntryOf(o) \in Access!Entry
  BY DEF Access!TypeOK, Access!Config, Access!File, Access!HasEntry, Access!ContextName, Access!EntryOf

LEMMA NamespacesAreTyped ==
  ASSUME Access!TypeOK, NEW r \in Access!Requests, NEW o \in Access!Config
  PROVE  Access!namespace(r, o) \in Namespaces \cup {"default"}
<1>1. r.namespace \in Namespaces \cup {Absent} /\ config.namespace \in Namespaces \cup {Absent}
  BY DEF Access!Requests, Access!TypeOK, Access!Config
<1>2. Access!ContextNamespace(o) \in Namespaces \cup {Absent}
  BY EntriesAreTyped DEF Access!ContextNamespace, Access!Entry
<1> QED BY <1>1, <1>2, NamespaceIsTheFirst

LEMMA PreflightIsTyped ==
  ASSUME Access!TypeOK, NEW o \in Access!Config
  PROVE  Access!Preflight(o) \in [ready : BOOLEAN, mode : Access!Modes, context : Contexts \cup {Absent}]
<1> DEFINE P == Access!Preflight(o)
<1> USE DEF Access!Preflight, Access!Check, Access!NoCheck
<1>1. {"host-secret", "in-cluster", "unknown"} \subseteq Access!Modes
  BY DEF Access!Modes
<1>2. CASE Access!HostSecret(o)
  BY <1>1, <1>2
<1>3. CASE ~Access!HostSecret(o) /\ Access!InCluster
  BY <1>1, <1>3
<1>4. CASE ~Access!HostSecret(o) /\ ~Access!InCluster /\ file = Absent
  BY <1>1, <1>4
<1>5. CASE ~Access!HostSecret(o) /\ ~Access!InCluster /\ file # Absent /\ ~Access!HasEntry(o)
  <2>1. Access!ContextName(o) \in Contexts \cup {Absent}
    BY <1>5 DEF Access!ContextName, Access!TypeOK, Access!Config, Access!File
  <2> QED BY <1>1, <1>5, <2>1
<1>6. CASE ~Access!HostSecret(o) /\ ~Access!InCluster /\ file # Absent /\ Access!HasEntry(o)
  <2> DEFINE user == Access!EntryOf(o).user
  <2>1. Access!ContextName(o) \in Contexts /\ user \in Access!User
    BY <1>6, EntriesAreTyped DEF Access!Entry
  <2> HIDE DEF user
  <2>2. Access!ClassifyAuthMode(user) \in Access!Modes
    BY <2>1, ModesAreModes
  <2>3. Access!Ready(user, o) \in BOOLEAN
    <3>1. user.always \in BOOLEAN
      BY <2>1 DEF Access!User
    <3>2. \/ Access!Ready(user, o) = (Access!ResolveCredentialCommand(user, o) # {} /\ ~user.always)
          \/ Access!Ready(user, o) = (tokenFile # "absent")
          \/ Access!Ready(user, o) = (Access!ClassifyAuthMode(user) # "anonymous")
      BY DEF Access!Ready
    <3> QED BY <3>1, <3>2
  <2>4. P = [ready |-> Access!Ready(user, o), mode |-> Access!ClassifyAuthMode(user),
             context |-> Access!ContextName(o)]
    BY <1>6 DEF user
  <2> QED BY <2>1, <2>2, <2>3, <2>4
<1> QED BY <1>2, <1>3, <1>4, <1>5, <1>6

\* The connection to a context that is there, as RestConfig makes it.
LEMMA ConnectionsToContexts ==
  ASSUME Access!TypeOK, NEW o \in Access!Config, ~Access!HostSecret(o), ~(o.token /\ ~o.server),
         ~(~o.token /\ Access!InCluster), file # Absent, Access!HasEntry(o), Access!Usable(Access!EntryOf(o))
  PROVE  LET user == Access!EntryOf(o).user
             mode == Access!ClassifyAuthMode(user)
         IN Access!RestConfig(o) =
              {[mode |-> mode, context |-> Access!ContextName(o), helper |-> h, always |-> user.always] :
                 h \in IF mode = "exec" THEN Access!ResolveCredentialCommand(user, o) ELSE {"none"}}
  BY DEF Access!RestConfig, Access!HostSecret

\* A connection is typed; one to a context has that context's name, and an entry.
LEMMA ConnectionsAreTyped ==
  ASSUME Access!TypeOK, NEW o \in Access!Config, NEW k \in Access!RestConfig(o)
  PROVE  /\ k \in Access!Conn
         /\ k.context # Absent => /\ ~Access!HostSecret(o) /\ file # Absent /\ Access!HasEntry(o)
                                  /\ k.context = Access!ContextName(o)
<1>1. {"host-secret", "in-cluster", "unknown"} \subseteq Access!Modes
  BY DEF Access!Modes
<1> USE DEF Access!Connection, Access!NoConn, Access!Conn
<1>2. CASE Access!HostSecret(o)
  <2>1. k = Access!Connection("host-secret")
    BY <1>2 DEF Access!RestConfig, Access!HostSecret
  <2> QED BY <1>1, <2>1
<1>3. CASE ~Access!HostSecret(o) /\ ~(o.token /\ ~o.server) /\ ~o.token /\ Access!InCluster
  <2>1. k = Access!Connection("in-cluster")
    BY <1>3 DEF Access!RestConfig, Access!HostSecret
  <2> QED BY <1>1, <2>1
<1>4. CASE ~Access!HostSecret(o) /\ ~(o.token /\ ~o.server) /\ ~(~o.token /\ Access!InCluster)
  <2>1. file # Absent /\ Access!HasEntry(o) /\ Access!Usable(Access!EntryOf(o))
    BY <1>4 DEF Access!RestConfig, Access!HostSecret
  <2> DEFINE user == Access!EntryOf(o).user
             mode == Access!ClassifyAuthMode(user)
             helpers == IF mode = "exec" THEN Access!ResolveCredentialCommand(user, o) ELSE {"none"}
  <2>2. Access!ContextName(o) \in Contexts /\ user \in Access!User
    BY <2>1, EntriesAreTyped DEF Access!Entry
  <2>3. mode \in Access!Modes
    BY <2>2, ModesAreModes
  <2>4. helpers \subseteq Places \cup {"none"}
    BY <2>2, HelpersAreInstalled DEF Access!TypeOK
  <2>5. PICK h \in helpers : k = [mode |-> mode, context |-> Access!ContextName(o), helper |-> h,
                                  always |-> user.always]
    BY <1>4, <2>1, ConnectionsToContexts
  <2>6. user.always \in BOOLEAN
    BY <2>2 DEF Access!User
  <2> HIDE DEF user, mode, helpers
  <2> QED BY <1>4, <2>1, <2>2, <2>3, <2>4, <2>5, <2>6
<1>5. CASE ~Access!HostSecret(o) /\ o.token /\ ~o.server
  BY <1>5 DEF Access!RestConfig, Access!HostSecret
<1> QED BY <1>2, <1>3, <1>4, <1>5

\* Where the machine is as it was, so is what is found on it.
LEMMA MachineDecides ==
  ASSUME UNCHANGED <<config, pod, Access!machine>>, NEW o, NEW r, NEW k
  PROVE  /\ Access!clusterOptions(k)' = Access!clusterOptions(k)
         /\ Access!Preflight(o)' = Access!Preflight(o)
         /\ Access!RestConfig(o)' = Access!RestConfig(o)
         /\ Access!namespace(r, o)' = Access!namespace(r, o)
         /\ Access!HasEntry(o)' = Access!HasEntry(o) /\ Access!ContextName(o)' = Access!ContextName(o)
         /\ Access!HostSecret(o)' = Access!HostSecret(o)
<1> USE DEF Access!machine, Access!clusterOptions, Access!InCluster
<1>1. Access!HasEntry(o)' = Access!HasEntry(o)
  BY DEF Access!HasEntry, Access!ContextName
<1>2. Access!Preflight(o)' = Access!Preflight(o)
  BY DEF Access!Preflight, Access!HasEntry, Access!ContextName, Access!HostSecret, Access!EntryOf,
         Access!Check, Access!NoCheck, Access!Ready, Access!ResolveCredentialCommand
<1>3. Access!RestConfig(o)' = Access!RestConfig(o)
  BY DEF Access!RestConfig, Access!HasEntry, Access!ContextName, Access!HostSecret, Access!EntryOf,
         Access!ResolveCredentialCommand, Access!Connection, Access!Usable, Access!Sound
<1>4. Access!namespace(r, o)' = Access!namespace(r, o)
  BY DEF Access!namespace, Access!ContextNamespace, Access!HasEntry, Access!ContextName,
         Access!HostSecret, Access!EntryOf
<1>5. Access!HostSecret(o)' = Access!HostSecret(o) /\ Access!ContextName(o)' = Access!ContextName(o)
  BY DEF Access!HostSecret, Access!ContextName
<1> QED BY <1>1, <1>2, <1>3, <1>4, <1>5

\* A call that a step leaves where it is, on a machine left as it is, keeps
\* what is known of it.
LEMMA OthersKeepTheirWay ==
  ASSUME UNCHANGED <<config, pod, Access!machine>>, NEW c \in Lookups,
         UNCHANGED <<pc[c], acReq[c], ns[c], conn[c], foretold[c]>>, c \in still' => c \in still,
         Foreseen(c), Bound(c), Named(c), Reached(c)
  PROVE  Foreseen(c)' /\ Bound(c)' /\ Named(c)' /\ Reached(c)'
<1>1. PICK o : o = Opts(c)
  OBVIOUS
<1>2. Opts(c)' = o
  BY <1>1 DEF Opts, Access!clusterOptions
<1>3. Foreseen(c)'
  BY <1>1, <1>2, MachineDecides DEF Foreseen
<1>4. Bound(c)'
  BY <1>1, <1>2, MachineDecides DEF Bound
<1>5. Named(c)'
  BY <1>1, <1>2, MachineDecides DEF Named, Steady
<1>6. Reached(c)'
  BY <1>1, <1>2, MachineDecides DEF Reached, Steady, Access!machine
<1> QED BY <1>3, <1>4, <1>5, <1>6

LEMMA AccessArrive ==
  ASSUME AccessInv, NEW c \in Lookups, Access!Arrive(c) PROVE AccessInv'
<1> USE DEF AccessInv
<1>1. PICK r \in Access!Requests :
        /\ acReq' = [acReq EXCEPT ![c] = r]
        /\ ns' = [ns EXCEPT ![c] = IF r.op = "list_pods" THEN Access!namespace(r, Access!clusterOptions(r.context))
                                   ELSE Absent]
        /\ foretold' = [foretold EXCEPT ![c] = Access!Preflight(Access!clusterOptions(r.context))]
  BY DEF Access!Arrive
<1>2. /\ pc' = [pc EXCEPT ![c] = "connect"] /\ still' = still \cup {c} /\ acOut' = "none"
      /\ UNCHANGED <<config, pod, Access!machine>> /\ conn' = conn
  BY DEF Access!Arrive
<1>3. PICK o : o = Access!clusterOptions(r.context)
  OBVIOUS
<1>4. o \in Access!Config
  BY <1>3, OptionsAreConfig DEF Access!TypeOK, Access!Requests
<1>5. /\ Access!Preflight(o) \in [ready : BOOLEAN, mode : Access!Modes, context : Contexts \cup {Absent}]
      /\ Access!namespace(r, o) \in Namespaces \cup {"default"} /\ Access!namespace(r, o) # Absent
  BY <1>4, PreflightIsTyped, NamespacesAreTyped, NamespaceIsTheFirst
<1>6. Access!TypeOK'
  BY <1>1, <1>2, <1>3, <1>5, Zenon DEF Access!TypeOK, Access!machine, Access!Outs
<1>7. ASSUME NEW d \in Lookups PROVE Foreseen(d)' /\ Bound(d)' /\ Named(d)' /\ Reached(d)'
  <2>1. CASE d # c
    <3>1. UNCHANGED <<pc[d], acReq[d], ns[d], conn[d], foretold[d]>> /\ (d \in still' => d \in still)
      BY <1>1, <1>2, <2>1 DEF Access!TypeOK
    <3> QED BY <1>2, <3>1, OthersKeepTheirWay
  <2>2. CASE d = c
    <3>1. /\ acReq'[c] = r /\ pc'[c] = "connect" /\ foretold'[c] = Access!Preflight(o)
          /\ r.op = "list_pods" => ns'[c] = Access!namespace(r, o)
      BY <1>1, <1>2, <1>3 DEF Access!TypeOK
    <3>2. Opts(c)' = o
      BY <1>2, <1>3, <3>1 DEF Opts, Access!clusterOptions
    <3>3. Access!Preflight(o)' = Access!Preflight(o) /\ Access!namespace(r, o)' = Access!namespace(r, o)
      BY <1>2, MachineDecides
    <3> QED BY <2>2, <3>1, <3>2, <3>3 DEF Foreseen, Bound, Named, Reached
  <2> QED BY <2>1, <2>2
<1> QED BY <1>6, <1>7

LEMMA AccessAnswers ==
  ASSUME AccessInv, NEW c \in Lookups, NEW o \in Access!Outs, Access!Answers(c, o) PROVE AccessInv'
<1> USE DEF AccessInv
<1>1. /\ pc' = [pc EXCEPT ![c] = "idle"] /\ acReq' = [acReq EXCEPT ![c] = Access!NoRequest]
      /\ ns' = [ns EXCEPT ![c] = Absent] /\ conn' = [conn EXCEPT ![c] = Access!NoConn]
      /\ foretold' = [foretold EXCEPT ![c] = Access!NoCheck] /\ still' = still \ {c}
      /\ UNCHANGED <<config, pod, Access!machine>> /\ acOut' \in {o, "unreachable"}
  BY DEF Access!Answers
<1>2. Access!TypeOK'
  <2>1. Access!NoRequest \in Access!Requests /\ Access!NoRequest.op # "list_pods"
    BY DEF Access!NoRequest, Access!Requests, Access!Operations
  <2>2. /\ Access!NoConn \in Access!Conn
        /\ Access!NoCheck \in [ready : BOOLEAN, mode : Access!Modes, context : Contexts \cup {Absent}]
    BY DEF Access!NoConn, Access!Conn, Access!NoCheck, Access!Modes
  <2>3. acOut' \in Access!Outs
    BY <1>1 DEF Access!Outs
  <2> QED BY <1>1, <2>1, <2>2, <2>3, Zenon DEF Access!TypeOK, Access!machine
<1>3. ASSUME NEW d \in Lookups PROVE Foreseen(d)' /\ Bound(d)' /\ Named(d)' /\ Reached(d)'
  <2>1. CASE d # c
    <3>1. UNCHANGED <<pc[d], acReq[d], ns[d], conn[d], foretold[d]>> /\ (d \in still' => d \in still)
      BY <1>1, <2>1 DEF Access!TypeOK
    <3> QED BY <1>1, <3>1, OthersKeepTheirWay
  <2>2. CASE d = c
    BY <1>1, <2>2 DEF Foreseen, Bound, Named, Reached, Access!TypeOK
  <2> QED BY <2>1, <2>2
<1> QED BY <1>2, <1>3

LEMMA AccessConnect ==
  ASSUME AccessInv, NEW c \in Lookups, Access!Connect(c) PROVE AccessInv'
<1> USE DEF AccessInv
<1>1. PICK o : o = Opts(c)
  OBVIOUS
<1>2. o \in Access!Config /\ o = Access!clusterOptions(acReq[c].context)
  BY <1>1, OptionsAreConfig DEF Opts, Access!TypeOK, Access!Requests
<1>3. CASE Access!Answers(c, Access!RefusalCode(o))
  <2>1. Access!RefusalCode(o) \in Access!Outs
    BY DEF Access!RefusalCode, Access!Outs
  <2> QED BY <1>3, <2>1, AccessAnswers
<1>4. CASE /\ \E k \in Access!RestConfig(o) : conn' = [conn EXCEPT ![c] = k]
           /\ pc[c] = "connect"
           /\ pc' = [pc EXCEPT ![c] = "request"] /\ acOut' = "none"
           /\ UNCHANGED <<config, pod, Access!machine, acReq, ns, foretold, still>>
  <2>1. PICK k \in Access!RestConfig(o) : conn' = [conn EXCEPT ![c] = k]
    BY <1>4
  <2>2. /\ k \in Access!Conn
        /\ k.context # Absent => /\ ~Access!HostSecret(o) /\ file # Absent /\ Access!HasEntry(o)
                                 /\ k.context = Access!ContextName(o)
    BY <1>2, <2>1, ConnectionsAreTyped
  <2>3. Access!TypeOK'
    BY <1>4, <2>1, <2>2, Zenon DEF Access!TypeOK, Access!machine, Access!Outs
  <2>4. ASSUME NEW d \in Lookups PROVE Foreseen(d)' /\ Bound(d)' /\ Named(d)' /\ Reached(d)'
    <3>1. CASE d # c
      <4>1. UNCHANGED <<pc[d], acReq[d], ns[d], conn[d], foretold[d]>> /\ (d \in still' => d \in still)
        BY <1>4, <2>1, <3>1 DEF Access!TypeOK
      <4> QED BY <1>4, <4>1, OthersKeepTheirWay
    <3>2. CASE d = c
      <4>1. Opts(c)' = o /\ conn'[c] = k
        BY <1>2, <1>4, <2>1 DEF Opts, Access!clusterOptions, Access!TypeOK
      <4>2. /\ UNCHANGED <<acReq[c], foretold[c], ns[c], still, file, config>> /\ pc[c] = "connect"
        BY <1>4 DEF Access!machine
      <4>3. UNCHANGED <<config, pod, Access!machine>>
        BY <1>4
      <4>4. Foreseen(c)'
        BY <1>1, <4>1, <4>2, <4>3, MachineDecides DEF Foreseen
      <4>5. Bound(c)'
        BY <2>1, <4>1, <4>2, <4>3, MachineDecides DEF Bound
      <4>6. Named(c)'
        BY <1>1, <4>1, <4>2, <4>3, MachineDecides DEF Named, Steady
      <4>7. Reached(c)'
        BY <2>2, <4>1, <4>2, <4>3, MachineDecides DEF Reached
      <4> QED BY <3>2, <4>4, <4>5, <4>6, <4>7
    <3> QED BY <3>1, <3>2
  <2> QED BY <2>3, <2>4
<1> QED BY <1>2, <1>3, <1>4 DEF Access!Connect

LEMMA AccessSends ==
  ASSUME AccessInv, NEW c \in Lookups, Access!Request(c) \/ Access!NotSent(c) PROVE AccessInv'
<1>1. \A e \in DOMAIN Access!errorCode : Access!errorCode[e] \in Access!Outs
  BY DEF Access!errorCode, Access!Outs
<1>2. "helper" \in DOMAIN Access!errorCode /\ "ok" \in Access!Outs
  BY DEF Access!errorCode, Access!Outs
<1>3. \E o \in Access!Outs : Access!Answers(c, o)
  BY <1>1, <1>2, Zenon DEF Access!Request, Access!NotSent
<1> QED BY <1>3, AccessAnswers

\* What the operator does leaves no call steady but those that name their context,
\* and to those it changes nothing.
LEMMA AccessOperator ==
  ASSUME AccessInv, Access!SwitchContext \/ Access!MoveHelper \/ Access!AllowHelper \/ Access!TokenFile PROVE AccessInv'
<1> USE DEF AccessInv
<1>1. /\ UNCHANGED <<config, pod, pc, acReq, ns, conn, foretold>> /\ still' = {} /\ acOut' = "none"
  BY DEF Access!SwitchContext, Access!MoveHelper, Access!AllowHelper, Access!TokenFile, Access!Operator
<1>2. \/ file' = file
      \/ file # Absent /\ \E k \in Contexts : file' = [file EXCEPT !.current = k]
  BY DEF Access!SwitchContext, Access!MoveHelper, Access!AllowHelper, Access!TokenFile
<1>3. installed' \subseteq Places /\ runnable' \in BOOLEAN /\ tokenFile' \in Access!FileStates
  BY DEF Access!SwitchContext, Access!MoveHelper, Access!AllowHelper, Access!TokenFile, Access!TypeOK
<1>4. /\ file' \in Access!File \cup {Absent} /\ (file # Absent => file' # Absent)
      /\ file # Absent => file'.contexts = file.contexts
      /\ file = Absent => file' = Absent
  <2>1. CASE file' = file
    BY <2>1 DEF Access!TypeOK
  <2>2. CASE file # Absent /\ \E k \in Contexts : file' = [file EXCEPT !.current = k]
    <3>1. PICK k \in Contexts : file' = [file EXCEPT !.current = k]
      BY <2>2
    <3>2. file \in Access!File
      BY <2>2 DEF Access!TypeOK
    <3>3. file'.contexts = file.contexts /\ file' \in Access!File
      BY <3>1, <3>2 DEF Access!File
    <3>4. file' # Absent
      BY <3>3, AccessAssumption
    <3> QED BY <2>2, <3>3, <3>4
  <2> QED BY <1>2, <2>1, <2>2
<1>5. Access!TypeOK'
  BY <1>1, <1>3, <1>4, Zenon DEF Access!TypeOK, Access!Outs
<1>6. ASSUME NEW d \in Lookups PROVE Foreseen(d)' /\ Bound(d)' /\ Named(d)' /\ Reached(d)'
  <2>1. PICK o : o = Opts(d)
    OBVIOUS
  <2>2. Opts(d)' = o /\ o = Access!clusterOptions(acReq[d].context)
    BY <1>1, <2>1 DEF Opts, Access!clusterOptions
  <2>3. Foreseen(d)' /\ Bound(d)'
    BY <1>1 DEF Foreseen, Bound
  <2>4. ASSUME Steady(d)'
        PROVE  /\ Steady(d) /\ Access!namespace(acReq[d], o)' = Access!namespace(acReq[d], o)
               /\ Access!HostSecret(o)' = Access!HostSecret(o)
               /\ file # Absent => /\ Access!HasEntry(o)' = Access!HasEntry(o)
                                   /\ Access!ContextName(o)' = Access!ContextName(o)
    <3>1. o.context # Absent
      BY <1>1, <2>2, <2>4 DEF Steady
    <3>2. Access!ContextName(o)' = Access!ContextName(o) /\ Access!HostSecret(o)' = Access!HostSecret(o)
      BY <3>1 DEF Access!ContextName, Access!HostSecret
    <3>3. file # Absent => Access!HasEntry(o)' = Access!HasEntry(o)
      BY <1>4, <3>1 DEF Access!HasEntry, Access!ContextName
    <3>4. Access!ContextNamespace(o)' = Access!ContextNamespace(o)
      BY <1>4, <3>1, <3>2, <3>3 DEF Access!ContextNamespace, Access!EntryOf, Access!ContextName
    <3>5. PICK r : r = acReq[d]
      OBVIOUS
    <3>6. Access!namespace(r, o)' = Access!namespace(r, o)
      BY <1>1, <3>4 DEF Access!namespace
    <3>7. Steady(d)
      BY <2>1, <3>1 DEF Steady
    <3> QED BY <1>1, <3>2, <3>3, <3>5, <3>6, <3>7
  <2>5. Named(d)'
    <3>1. SUFFICES ASSUME Steady(d)', pc[d] # "idle", acReq[d].op = "list_pods"
                   PROVE  ns[d] = Access!namespace(acReq[d], o)'
      BY <1>1, <2>2 DEF Named
    <3>2. ns[d] = Access!namespace(acReq[d], o)
      BY <2>1, <2>4, <3>1 DEF Named
    <3> QED BY <2>4, <3>1, <3>2
  <2>6. Reached(d)'
    <3>1. SUFFICES ASSUME Steady(d)', pc[d] = "request", conn[d].context # Absent
                   PROVE  /\ ~Access!HostSecret(o)' /\ file' # Absent /\ Access!HasEntry(o)'
                          /\ conn[d].context = Access!ContextName(o)'
      BY <1>1, <2>2 DEF Reached
    <3>2. /\ ~Access!HostSecret(o) /\ file # Absent /\ Access!HasEntry(o)
          /\ conn[d].context = Access!ContextName(o)
      BY <2>1, <2>4, <3>1 DEF Reached
    <3> QED BY <1>4, <2>4, <3>1, <3>2
  <2> QED BY <2>3, <2>5, <2>6
<1> QED BY <1>5, <1>6

LEMMA AccessStep == ASSUME AccessInv, [Access!Next]_(Access!vars) PROVE AccessInv'
<1>1. CASE Access!Next
  BY <1>1, AccessArrive, AccessConnect, AccessSends, AccessOperator DEF Access!Next
<1>2. CASE UNCHANGED Access!vars
  <2>1. /\ UNCHANGED <<config, pod, file, installed, runnable, tokenFile>>
        /\ UNCHANGED <<pc, acReq, ns, conn, acOut, foretold, still>>
    BY <1>2 DEF Access!vars, Access!machine
  <2>2. Access!TypeOK'
    BY <2>1 DEF AccessInv, Access!TypeOK
  <2>3. ASSUME NEW d \in Lookups PROVE Foreseen(d)' /\ Bound(d)' /\ Named(d)' /\ Reached(d)'
    BY <2>1, OthersKeepTheirWay DEF AccessInv, Access!machine
  <2> QED BY <2>2, <2>3 DEF AccessInv
<1> QED BY <1>1, <1>2

LEMMA AccessBegins == ASSUME Access!Init PROVE AccessInv
<1>1. Access!TypeOK
  <2>1. Access!NoRequest \in Access!Requests /\ Access!NoRequest.op # "list_pods"
    BY DEF Access!NoRequest, Access!Requests, Access!Operations
  <2>2. /\ Access!NoConn \in Access!Conn
        /\ Access!NoCheck \in [ready : BOOLEAN, mode : Access!Modes, context : Contexts \cup {Absent}]
    BY DEF Access!NoConn, Access!Conn, Access!NoCheck, Access!Modes
  <2> QED BY <2>1, <2>2, AccessAssumption, Zenon DEF Access!Init, Access!InitCalls, Access!TypeOK, Access!Outs
<1>2. ASSUME NEW d \in Lookups PROVE Foreseen(d) /\ Bound(d) /\ Named(d) /\ Reached(d)
  BY DEF Access!Init, Access!InitCalls, Foreseen, Bound, Named, Reached
<1> QED BY <1>1, <1>2 DEF AccessInv

\* A call under which nothing was changed is stopped only where check_access said
\* it would be, or by what it overlooks; and it goes where it said.
LEMMA ReadyWhenConnected ==
  ASSUME AccessInv, NEW o \in Access!Config
  PROVE  /\ Access!RestConfig(o) = {} => ~Access!Preflight(o).ready \/ Access!Overlooked(o)
         /\ \A k \in Access!RestConfig(o) :
              IF k.mode = "exec" => /\ k.helper \in installed /\ ~k.always
                                    /\ k.helper # "PATH" => runnable
              THEN /\ Access!Preflight(o).ready \/ k.mode = "anonymous"
                   /\ Access!Preflight(o).mode = k.mode /\ Access!Preflight(o).context = k.context
              ELSE ~Access!Preflight(o).ready \/ Access!Overlooked(o)
<1> USE DEF AccessInv
<1> DEFINE P == Access!Preflight(o)
           R == Access!RestConfig(o)
           goes(k) == k.mode = "exec" => /\ k.helper \in installed /\ ~k.always
                                         /\ k.helper # "PATH" => runnable
           over == Access!Overlooked(o)
<1>0. o.token \in BOOLEAN /\ o.server \in BOOLEAN
  BY DEF Access!Config
<1> HIDE DEF P, R, over
<1> SUFFICES /\ R = {} => ~P.ready \/ over
             /\ \A k \in R : IF goes(k)
                             THEN /\ P.ready \/ k.mode = "anonymous"
                                  /\ P.mode = k.mode /\ P.context = k.context
                             ELSE ~P.ready \/ over
  BY DEF P, R, over
<1> HIDE DEF goes
<1>1. CASE Access!HostSecret(o)
  <2>1. P = Access!Check(TRUE, "host-secret", Absent)
    BY <1>1 DEF P, Access!Preflight
  <2>2. R = {Access!Connection("host-secret")}
    BY <1>1 DEF R, Access!RestConfig, Access!HostSecret
  <2>3. R # {} /\ \A k \in R : k.mode = "host-secret" /\ k.context = Absent
    BY <2>2 DEF Access!Connection, Access!NoConn
  <2>4. P.ready /\ P.mode = "host-secret" /\ P.context = Absent
    BY <2>1 DEF Access!Check
  <2> QED BY <2>3, <2>4 DEF goes
<1>2. CASE o.token /\ ~o.server
  <2>1. R = {}
    BY <1>2 DEF R, Access!RestConfig, Access!HostSecret
  <2>2. over
    BY <1>2 DEF over, Access!Overlooked
  <2> QED BY <2>1, <2>2
<1>3. CASE ~o.token /\ Access!InCluster
  <2>1. P = Access!Check(TRUE, "in-cluster", Absent)
    BY <1>3 DEF P, Access!Preflight, Access!HostSecret
  <2>2. R = IF pod = "readable" THEN {Access!Connection("in-cluster")} ELSE {}
    BY <1>3 DEF R, Access!RestConfig, Access!HostSecret
  <2>3. \A k \in R : k.mode = "in-cluster" /\ k.context = Absent
    BY <2>2 DEF Access!Connection, Access!NoConn
  <2>4. P.ready /\ P.mode = "in-cluster" /\ P.context = Absent
    BY <2>1 DEF Access!Check
  <2>5. R = {} => over
    <3>1. pod \in {"absent", "unreadable", "readable"} /\ pod # "absent"
      BY <1>3 DEF Access!TypeOK, Access!FileStates, Access!InCluster
    <3> QED BY <1>3, <2>2, <3>1 DEF over, Access!Overlooked
  <2> QED BY <2>3, <2>4, <2>5 DEF goes
<1>4. CASE ~o.token /\ ~Access!InCluster /\ (file = Absent \/ ~Access!HasEntry(o))
  <2>1. ~P.ready
    BY <1>4 DEF P, Access!Preflight, Access!HostSecret, Access!Check, Access!NoCheck
  <2>2. R = {}
    BY <1>4 DEF R, Access!RestConfig, Access!HostSecret
  <2> QED BY <2>1, <2>2
<1>5. CASE ~o.token /\ ~Access!InCluster /\ file # Absent /\ Access!HasEntry(o)
  <2> DEFINE entry == Access!EntryOf(o)
             user == entry.user
             mode == Access!ClassifyAuthMode(user)
             found == Access!ResolveCredentialCommand(user, o)
  <2>1. user \in Access!User /\ user.always \in BOOLEAN
    BY <1>5, EntriesAreTyped DEF Access!Entry, Access!User
  <2>2. found \subseteq installed
    BY <2>1, HelpersAreInstalled DEF Access!TypeOK
  <2>3. P = Access!Check(Access!Ready(user, o), mode, Access!ContextName(o))
    BY <1>5 DEF P, Access!Preflight, Access!HostSecret
  <2>4. /\ P.mode = mode /\ P.context = Access!ContextName(o)
        /\ P.ready = CASE mode = "exec" -> found # {} /\ ~user.always
                       [] mode = "token-file" -> tokenFile # "absent"
                       [] OTHER -> mode # "anonymous"
    BY <2>3 DEF Access!Check, Access!Ready
  <2>5. /\ mode = "exec" => P.ready = (found # {} /\ ~user.always)
        /\ mode = "token-file" => P.ready = (tokenFile # "absent")
        /\ mode \notin {"exec", "token-file"} => P.ready = (mode # "anonymous")
    BY <2>4
  <2>6. over = \/ ~Access!Sound(entry)
               \/ mode = "token-file" /\ tokenFile = "unreadable"
               \/ mode = "exec" /\ ~runnable /\ found \ {"PATH"} # {}
    BY <1>5 DEF over, Access!Overlooked, Access!InCluster
  <2>7. tokenFile \in {"absent", "unreadable", "readable"} /\ runnable \in BOOLEAN
    BY DEF Access!TypeOK, Access!FileStates
  <2>8. Access!Usable(entry) = (Access!Sound(entry) /\ (mode = "token-file" => tokenFile = "readable"))
    BY DEF Access!Usable
  <2>9. CASE ~Access!Usable(entry)
    <3>1. R = {}
      BY <1>5, <2>9 DEF R, Access!RestConfig, Access!HostSecret
    <3>2. ~P.ready \/ over
      <4> HIDE DEF entry, user, mode, found
      <4> QED BY <2>5, <2>6, <2>7, <2>8, <2>9
    <3> QED BY <3>1, <3>2
  <2>10. CASE Access!Usable(entry)
    <3> DEFINE helpers == IF mode = "exec" THEN found ELSE {"none"}
    <3>1. R = {[mode |-> mode, context |-> Access!ContextName(o), helper |-> h, always |-> user.always] :
                 h \in helpers}
      BY <1>5, <2>10, ConnectionsToContexts DEF R, Access!HostSecret
    <3> HIDE DEF entry, user, mode, found
    <3>2. R = {} => mode = "exec" /\ found = {}
      BY <3>1
    <3>3. ASSUME NEW k \in R
          PROVE  /\ k.mode = mode /\ k.context = Access!ContextName(o) /\ k.always = user.always
                 /\ mode = "exec" => k.helper \in found
      BY <3>1
    <3>4. R = {} => ~P.ready
      BY <2>5, <3>2
    <3>5. ASSUME NEW k \in R, goes(k)
          PROVE  /\ P.ready \/ k.mode = "anonymous"
                 /\ P.mode = k.mode /\ P.context = k.context
      <4>1. CASE mode = "exec"
        BY <2>4, <2>5, <3>3, <3>5, <4>1 DEF goes
      <4>2. CASE mode = "token-file"
        BY <2>4, <2>5, <2>7, <2>8, <2>10, <3>3, <4>2
      <4>3. CASE mode \notin {"exec", "token-file"}
        BY <2>4, <2>5, <3>3, <4>3
      <4> QED BY <4>1, <4>2, <4>3
    <3>6. ASSUME NEW k \in R, ~goes(k) PROVE ~P.ready \/ over
      <4>1. /\ mode = "exec" /\ k.helper \in found
            /\ ~(k.helper \in installed /\ ~user.always /\ (k.helper # "PATH" => runnable))
        BY <3>3, <3>6 DEF goes
      <4>2. CASE user.always
        BY <2>1, <2>5, <4>1, <4>2
      <4>3. CASE ~user.always
        <5>1. k.helper # "PATH" /\ ~runnable
          BY <2>2, <4>1, <4>3
        <5> QED BY <2>6, <4>1, <5>1
      <4> QED BY <2>1, <4>2, <4>3
    <3> QED BY <3>4, <3>5, <3>6
  <2> QED BY <2>9, <2>10
<1> QED BY <1>0, <1>1, <1>2, <1>3, <1>4, <1>5 DEF Access!HostSecret

\* A call ends by an answer to it: refused when it would connect, or sent, or not.
LEMMA HowCallsEnd ==
  ASSUME AccessInv, NEW c \in Lookups, Access!Next, Access!Ends(c)
  PROVE  \/ pc[c] = "connect" /\ Access!RestConfig(Opts(c)) = {}
         \/ pc[c] = "request"
<1> USE DEF AccessInv
<1>1. pc[c] # "idle" /\ pc'[c] = "idle" /\ pc[c] \in {"idle", "connect", "request"}
  BY DEF Access!Ends, Access!TypeOK
<1>2. SUFFICES ASSUME pc[c] = "connect" PROVE Access!RestConfig(Opts(c)) = {}
  BY <1>1
<1>3. PICK d \in Lookups : Access!Arrive(d) \/ Access!Connect(d) \/ Access!Request(d) \/ Access!NotSent(d)
  BY <1>1 DEF Access!Next, Access!SwitchContext, Access!MoveHelper, Access!AllowHelper, Access!TokenFile, Access!Operator
<1>4. d = c /\ Access!Connect(c)
  <2>1. \A o : Access!Answers(d, o) => pc' = [pc EXCEPT ![d] = "idle"]
    BY DEF Access!Answers
  <2>2. CASE Access!Arrive(d)
    BY <1>1, <2>2 DEF Access!Arrive, Access!TypeOK
  <2>3. CASE Access!Connect(d)
    <3>1. pc[d] = "connect" /\ \E s \in {"request", "idle"} : pc' = [pc EXCEPT ![d] = s]
      BY <2>1, <2>3, Zenon DEF Access!Connect
    <3> QED BY <1>1, <2>3, <3>1 DEF Access!TypeOK
  <2>4. CASE Access!Request(d) \/ Access!NotSent(d)
    <3>1. pc[d] = "request" /\ pc' = [pc EXCEPT ![d] = "idle"]
      BY <2>1, <2>4, Zenon DEF Access!Request, Access!NotSent
    <3> QED BY <1>1, <1>2, <3>1 DEF Access!TypeOK
  <2> QED BY <1>3, <2>2, <2>3, <2>4
<1>5. Access!RestConfig(Opts(c)) = {} \/ pc' = [pc EXCEPT ![c] = "request"]
  BY <1>4, Zenon DEF Access!Connect, Opts
<1> QED BY <1>1, <1>5 DEF Access!TypeOK

LEMMA StepForetold ==
  ASSUME AccessInv, Access!Next, NEW c \in still, Access!Ends(c)
  PROVE  IF Access!Sent(c)
         THEN /\ foretold[c].ready \/ conn[c].mode = "anonymous"
              /\ foretold[c].mode = conn[c].mode /\ foretold[c].context = conn[c].context
         ELSE ~foretold[c].ready \/ Access!Overlooked(Opts(c))
<1>1. PICK o : o = Opts(c)
  OBVIOUS
<1>2. c \in Lookups /\ o \in Access!Config
  BY <1>1, OptionsAreConfig DEF Opts, AccessInv, Access!TypeOK, Access!Requests
<1>3. foretold[c] = Access!Preflight(o)
  BY <1>1, <1>2 DEF AccessInv, Foreseen, Access!Ends
<1>4. CASE pc[c] = "connect" /\ Access!RestConfig(o) = {}
  BY <1>1, <1>2, <1>3, <1>4, ReadyWhenConnected DEF Access!Sent
<1>5. CASE pc[c] = "request"
  <2>1. conn[c] \in Access!RestConfig(o)
    BY <1>1, <1>2, <1>5 DEF AccessInv, Bound
  <2>2. IF conn[c].mode = "exec" => /\ conn[c].helper \in installed /\ ~conn[c].always
                                    /\ conn[c].helper # "PATH" => runnable
        THEN /\ foretold[c].ready \/ conn[c].mode = "anonymous"
             /\ foretold[c].mode = conn[c].mode /\ foretold[c].context = conn[c].context
        ELSE ~foretold[c].ready \/ Access!Overlooked(o)
    BY <1>2, <1>3, <2>1, ReadyWhenConnected
  <2> QED BY <1>1, <1>5, <2>2 DEF Access!Sent, Access!Sends
<1> QED BY <1>1, <1>2, <1>4, <1>5, HowCallsEnd

LEMMA StepToItsNamespace ==
  ASSUME AccessInv, NEW c \in Lookups, Access!Sent(c), acReq[c].op = "list_pods",
         acReq[c].namespace = Absent, config.namespace = Absent, conn[c].context # Absent,
         c \in still \/ Access!clusterOptions(acReq[c].context).context # Absent
  PROVE  ns[c] = IF file.contexts[conn[c].context].namespace = Absent THEN "default"
                 ELSE file.contexts[conn[c].context].namespace
<1>1. PICK o : o = Opts(c)
  OBVIOUS
<1>2. pc[c] = "request" /\ Steady(c)
  BY DEF Access!Sent, Steady, Opts
<1>3. /\ ~Access!HostSecret(o) /\ file # Absent /\ Access!HasEntry(o)
      /\ conn[c].context = Access!ContextName(o)
  BY <1>1, <1>2 DEF AccessInv, Reached
<1>4. Access!ContextNamespace(o) = file.contexts[conn[c].context].namespace
  BY <1>3 DEF Access!ContextNamespace, Access!EntryOf
<1>5. ns[c] = Access!namespace(acReq[c], o)
  BY <1>1, <1>2 DEF AccessInv, Named
<1> QED BY <1>4, <1>5, NamespaceIsTheFirst

-----------------------------------------------------------------------------
(* What the reads answer (K8sReads), for every size of the cluster and every
   limit.  What is cut is cut by an order: an element is listed if no more come
   before it than are asked for, which are as many, and the first ones. *)

LEMMA ReadsCount == ASSUME NEW S PROVE Reads!Cardinality(S) = Cardinality(S)
  BY DEF Reads!Cardinality, Cardinality

Before(S, order, x) == {y \in S : <<y, x>> \in order}

TotalOrder(S, order) ==
  /\ \A x, y \in S : <<x, y>> \in order \/ <<y, x>> \in order
  /\ \A x, y \in S : <<x, y>> \in order /\ <<y, x>> \in order => x = y
  /\ \A x, y, z \in S : <<x, y>> \in order /\ <<y, z>> \in order => <<x, z>> \in order

LEMMA ForemostCounts ==
  ASSUME NEW S, NEW order, NEW n
  PROVE  Reads!Foremost(S, order, n) = {x \in S : Cardinality(Before(S, order, x)) <= n}
  BY ReadsCount DEF Reads!Foremost, Before

LEMMA ForemostAreThoseBefore ==
  ASSUME NEW S, IsFiniteSet(S), NEW order, TotalOrder(S, order), NEW n \in Nat
  PROVE  LET first == Reads!Foremost(S, order, n)
         IN  /\ first \subseteq S /\ IsFiniteSet(first) /\ Cardinality(first) <= n
             /\ Cardinality(S) <= n => first = S
             /\ \A x \in first, y \in S : <<y, x>> \in order => y \in first
<1> DEFINE first == Reads!Foremost(S, order, n)
           rank(x) == Cardinality(Before(S, order, x))
<1>1. first = {x \in S : rank(x) <= n}
  BY ForemostCounts
<1>2. ASSUME NEW x \in S
      PROVE  /\ Before(S, order, x) \subseteq S /\ IsFiniteSet(Before(S, order, x))
             /\ x \in Before(S, order, x) /\ rank(x) \in Nat /\ rank(x) >= 1 /\ rank(x) <= Cardinality(S)
  <2>1. Before(S, order, x) \subseteq S /\ x \in Before(S, order, x)
    BY DEF Before, TotalOrder
  <2>2. IsFiniteSet(Before(S, order, x)) /\ rank(x) <= Cardinality(S)
    BY <2>1, FS_Subset
  <2>3. rank(x) \in Nat /\ rank(x) # 0
    BY <2>1, <2>2, FS_CardinalityType, FS_EmptySet
  <2> QED BY <2>1, <2>2, <2>3
<1>3. ASSUME NEW x \in S, NEW y \in S, <<y, x>> \in order
      PROVE  Before(S, order, y) \subseteq Before(S, order, x) /\ rank(y) <= rank(x)
  <2>1. Before(S, order, y) \subseteq Before(S, order, x)
    BY <1>3 DEF Before, TotalOrder
  <2> QED BY <1>2, <2>1, FS_Subset
<1>4. ASSUME NEW x \in S, NEW y \in S, rank(x) = rank(y) PROVE x = y
  <2>1. ASSUME NEW u \in S, NEW v \in S, rank(u) = rank(v), <<u, v>> \in order PROVE u = v
    <3>1. Before(S, order, u) = Before(S, order, v)
      BY <1>2, <1>3, <2>1, FS_Subset
    <3> QED BY <1>2, <2>1, <3>1 DEF Before, TotalOrder
  <2> QED BY <1>4, <2>1 DEF TotalOrder
<1>5. first \subseteq S /\ IsFiniteSet(first)
  BY <1>1, FS_Subset
<1>6. Cardinality(first) <= n
  <2>1. IsFiniteSet(1..n) /\ Cardinality(1..n) = n
    BY FS_Interval
  <2>2. SUFFICES ASSUME Cardinality(1..n) < Cardinality(first) PROVE FALSE
    BY <1>5, <2>1, FS_CardinalityType
  <2> DEFINE f == [x \in first |-> rank(x)]
  <2>3. f \in [first -> 1..n]
    BY <1>1, <1>2
  <2>4. PICK x, y \in first : x # y /\ f[x] = f[y]
    <3> HIDE DEF f, first
    <3> QED BY <1>5, <2>1, <2>2, <2>3, FS_PigeonHole
  <2> QED BY <1>4, <1>5, <2>4
<1>7. Cardinality(S) <= n => first = S
  <2>1. Cardinality(S) \in Nat
    BY FS_CardinalityType
  <2> QED BY <1>1, <1>2, <2>1
<1>8. \A x \in first, y \in S : <<y, x>> \in order => y \in first
  <2> SUFFICES ASSUME NEW x \in first, NEW y \in S, <<y, x>> \in order PROVE y \in first
    OBVIOUS
  <2>1. x \in S /\ rank(x) <= n
    BY <1>1
  <2>2. rank(y) <= rank(x) /\ rank(x) \in Nat /\ rank(y) \in Nat
    BY <1>2, <1>3, <2>1
  <2>3. rank(y) <= n
    BY <2>1, <2>2
  <2> QED BY <1>1, <2>3
<1> QED BY <1>5, <1>6, <1>7, <1>8

LEMMA UsageIsOrdered == ASSUME NEW S \in SUBSET (Int \X Int) PROVE TotalOrder(S, Reads!ByCPU(S))
<1>1. \A x \in S : x[1] \in Int /\ x[2] \in Int /\ x = <<x[1], x[2]>>
  OBVIOUS
<1>2. \A x, y \in S : <<x, y>> \in Reads!ByCPU(S) <=> x[2] > y[2] \/ (x[2] = y[2] /\ x[1] <= y[1])
  BY DEF Reads!ByCPU
<1>3. ASSUME NEW x \in S, NEW y \in S PROVE <<x, y>> \in Reads!ByCPU(S) \/ <<y, x>> \in Reads!ByCPU(S)
  <2>1. x[1] \in Int /\ x[2] \in Int /\ y[1] \in Int /\ y[2] \in Int
    BY <1>1
  <2> QED BY <1>2, <2>1
<1>4. \A x, y \in S : <<x, y>> \in Reads!ByCPU(S) /\ <<y, x>> \in Reads!ByCPU(S) => x = y
  BY <1>1, <1>2
<1>5. \A x, y, z \in S : <<x, y>> \in Reads!ByCPU(S) /\ <<y, z>> \in Reads!ByCPU(S) => <<x, z>> \in Reads!ByCPU(S)
  BY <1>1, <1>2
<1> QED BY <1>3, <1>4, <1>5 DEF TotalOrder

LEMMA TypesAreOrdered == ASSUME NEW S \in SUBSET (Int \X Int) PROVE TotalOrder(S, Reads!ByName(S))
<1>1. \A x \in S : x[1] \in Int /\ x[2] \in Int /\ x = <<x[1], x[2]>>
  OBVIOUS
<1>2. \A x, y \in S : <<x, y>> \in Reads!ByName(S) <=> x[1] < y[1] \/ (x[1] = y[1] /\ x[2] <= y[2])
  BY DEF Reads!ByName
<1>3. ASSUME NEW x \in S, NEW y \in S PROVE <<x, y>> \in Reads!ByName(S) \/ <<y, x>> \in Reads!ByName(S)
  <2>1. x[1] \in Int /\ x[2] \in Int /\ y[1] \in Int /\ y[2] \in Int
    BY <1>1
  <2> QED BY <1>2, <2>1
<1>4. \A x, y \in S : <<x, y>> \in Reads!ByName(S) /\ <<y, x>> \in Reads!ByName(S) => x = y
  BY <1>1, <1>2
<1>5. \A x, y, z \in S : <<x, y>> \in Reads!ByName(S) /\ <<y, z>> \in Reads!ByName(S) => <<x, z>> \in Reads!ByName(S)
  BY <1>1, <1>2
<1> QED BY <1>3, <1>4, <1>5 DEF TotalOrder

\* A page has no more than its limit, and all there is if that is no more.
LEMMA PagesFit ==
  ASSUME NEW S, IsFiniteSet(S), NEW limit \in Nat, NEW P \in Reads!PagesOf(S, limit)
  PROVE  /\ P \subseteq S /\ IsFiniteSet(P) /\ Cardinality(P) <= limit
         /\ Cardinality(S) <= limit => P = S
<1>1. P \subseteq S /\ Cardinality(P) = IF Cardinality(S) < limit THEN Cardinality(S) ELSE limit
  BY ReadsCount DEF Reads!PagesOf
<1>2. IsFiniteSet(P) /\ Cardinality(S) \in Nat /\ (Cardinality(S) = Cardinality(P) => S = P)
  BY <1>1, FS_Subset, FS_CardinalityType
<1> QED BY <1>1, <1>2

LEMMA LimitsAreBound ==
  ASSUME NEW n \in Int PROVE Reads!boundLimit(n) \in Nat \ {0} /\ Reads!boundLimit(n) <= MaxLimit
<1>1. CASE n <= 0
  BY <1>1, ConstantsAssumption DEF Reads!boundLimit
<1>2. CASE n > MaxLimit
  BY <1>2, ConstantsAssumption DEF Reads!boundLimit
<1>3. CASE ~(n <= 0) /\ ~(n > MaxLimit)
  BY <1>3, ConstantsAssumption DEF Reads!boundLimit
<1> QED BY <1>1, <1>2, <1>3

\* What a token stands for is what the pages did not list; what top and describe
\* have read is all there was, if that fits what they ask for.
Stands == token.rest = pages.all \ pages.listed
ReadSoFar ==
  /\ rdPc = "usage" => /\ rdReq.op \in {"top_nodes", "top_pods"} /\ got.all \subseteq Int \X Int
                       /\ ~got.more => got.read = got.all
                       /\ Cardinality(got.all) <= MaxLimit => got.read = got.all
  /\ rdPc = "events" => (~got.more => got.read = got.all)

ReadsInv == Reads!TypeOK /\ Stands /\ ReadSoFar /\ Reads!ReadsAreTrue

\* An answer that is what it says.
Honest(a) ==
  /\ a.kind \in {"answer", "types", "usage"} => Cardinality(a.list) <= MaxLimit
  /\ a.kind \in {"answer", "usage", "description"} /\ ~a.more => a.list = a.all
  /\ a.kind = "types" /\ ~a.more => a.list = {t \in a.all : t[1] \notin a.failed}
  /\ a.kind = "usage" /\ Cardinality(a.all) <= MaxLimit =>
       \A u \in a.list, v \in a.all \ a.list : u[2] >= v[2]
  /\ a.kind = "description" =>
       a.events = Reads!Foremost(Reads!Own, Reads!Newest(Reads!Own), DescribeLimit)

LEMMA ReadsReturn ==
  ASSUME ReadsInv, NEW a, Reads!Returns(a), Honest(a),
         token'.rest = pages'.all \ pages'.listed, pages'.listed \subseteq pages'.all,
         pages'.all \subseteq Reads!Items \cup Reads!Stamps
  PROVE  ReadsInv'
<1>1. /\ rdOut' = a /\ rdPc' = "idle" /\ rdReq' = Reads!None /\ got' = Reads!Nothing
      /\ items' = items /\ events' = events
  BY DEF Reads!Returns
<1>2. Reads!TypeOK'
  BY <1>1, ReadsCount DEF ReadsInv, Reads!TypeOK, Honest
<1>3. Stands' /\ ReadSoFar'
  BY <1>1 DEF Stands, ReadSoFar
<1>4. Reads!NotTruncatedIsWhole' /\ Reads!TopIsTheTop'
  BY <1>1, ReadsCount DEF Honest, Reads!NotTruncatedIsWhole, Reads!TopIsTheTop
<1>5. Reads!EventsAreTheWorkloads'
  <2>1. Reads!Own' = Reads!Own
    BY <1>1 DEF Reads!Own
  <2>2. Reads!Foremost(Reads!Own, Reads!Newest(Reads!Own), DescribeLimit)' =
          Reads!Foremost(Reads!Own, Reads!Newest(Reads!Own), DescribeLimit)
    BY <2>1
  <2> QED BY <1>1, <2>2 DEF Honest, Reads!EventsAreTheWorkloads
<1> QED BY <1>2, <1>3, <1>4, <1>5 DEF ReadsInv, Reads!ReadsAreTrue

\* A step that answers nothing yet.
LEMMA SilentIsTrue == ASSUME rdOut' = Reads!Silent \/ \E e : rdOut' = Reads!Failed(e)
                      PROVE  Reads!ReadsAreTrue' /\ rdOut'.kind \notin {"answer", "types", "usage"}
<1>1. rdOut'.kind \in {"silent", "failed"}
  BY DEF Reads!Silent, Reads!Failed
<1> QED BY <1>1 DEF Reads!ReadsAreTrue, Reads!NotTruncatedIsWhole, Reads!TopIsTheTop, Reads!EventsAreTheWorkloads

LEMMA HonestAnswers ==
  ASSUME NEW shown, NEW more \in BOOLEAN, NEW whole, Cardinality(shown) <= MaxLimit,
         ~more => shown = whole
  PROVE  Honest(Reads!Answer(shown, more, whole))
<1>1. PICK a : a = Reads!Answer(shown, more, whole)
  OBVIOUS
<1>2. a.kind = "answer" /\ a.list = shown /\ a.more = more /\ a.all = whole
  BY <1>1 DEF Reads!Answer
<1>3. Honest(a)
  BY <1>2 DEF Honest
<1> QED BY <1>1, <1>3

LEMMA ReadsSizes ==
  /\ MaxItems \in Nat /\ MaxEvents \in Nat /\ MaxCPU \in Nat /\ MaxLines \in Nat
  /\ MaxGroup \in Nat /\ DescribeLimit \in Nat
  /\ IsFiniteSet(Reads!Items) /\ IsFiniteSet(Reads!Stamps)
  /\ Reads!Items \subseteq Int /\ Reads!Stamps \subseteq Int
  /\ IsFiniteSet(Reads!Items \X (0..MaxCPU)) /\ Reads!Items \X (0..MaxCPU) \subseteq Int \X Int
<1>1. /\ MaxItems \in Nat /\ MaxEvents \in Nat /\ MaxCPU \in Nat /\ MaxLines \in Nat
      /\ MaxGroup \in Nat /\ DescribeLimit \in Nat
  BY ReadsAssumption
<1>2. /\ IsFiniteSet(Reads!Items) /\ IsFiniteSet(Reads!Stamps) /\ IsFiniteSet(0..MaxCPU)
      /\ Reads!Items \subseteq Int /\ Reads!Stamps \subseteq Int
  BY <1>1, FS_Interval DEF Reads!Items, Reads!Stamps
<1>3. IsFiniteSet(Reads!Items \X (0..MaxCPU))
  BY <1>2, FS_Product
<1>4. Reads!Items \X (0..MaxCPU) \subseteq Int \X Int
  <2>1. 0..MaxCPU \subseteq Int
    BY <1>1
  <2>2. ASSUME NEW p \in Reads!Items \X (0..MaxCPU) PROVE p \in Int \X Int
    BY <1>2, <2>1
  <2> QED BY <2>2
<1> QED BY <1>1, <1>2, <1>3, <1>4

LEMMA RequestsHaveLimits ==
  ASSUME NEW r \in Reads!Requests \cup {Reads!None},
         r.op \in {"list_pods", "list_events", "top_nodes", "top_pods", "get_logs", "list_api_resources"}
  PROVE  /\ r.limit \in Int
         /\ r.op = "list_api_resources" => r.group \in Reads!Groups \cup {Reads!Core, Reads!AllGroups}
<1> DEFINE groups == Reads!Groups \cup {Reads!Core, Reads!AllGroups}
<1>0. ReadLimits \subseteq Int
  BY ReadsAssumption
<1>1. CASE r \in [op : Reads!Paged, limit : ReadLimits, next : BOOLEAN]
  <2>1. r.op # "list_api_resources"
    BY <1>1 DEF Reads!Paged
  <2> QED BY <1>0, <1>1, <2>1
<1>2. CASE r \in [op : {"top_nodes", "top_pods", "get_logs"}, limit : ReadLimits]
  BY <1>0, <1>2
<1>3. CASE r \in [op : {"list_api_resources"}, limit : ReadLimits, group : groups]
  BY <1>0, <1>3
<1>4. CASE r \in [op : {"describe_workload", "malformed"}] \cup {Reads!None}
  BY <1>4 DEF Reads!None
<1> QED BY <1>1, <1>2, <1>3, <1>4 DEF Reads!Requests

LEMMA ReadsBegin == ASSUME ReadsInv, Reads!Begin PROVE ReadsInv'
<1>1. PICK r \in Reads!Requests :
        IF r.op = "malformed" THEN rdOut' = Reads!Failed("uncoded") /\ UNCHANGED <<rdPc, rdReq>>
        ELSE rdOut' = Reads!Silent /\ rdPc' = "send" /\ rdReq' = r
  BY DEF Reads!Begin
<1>2. UNCHANGED <<items, events, got, token, pages>> /\ rdPc = "idle"
  BY DEF Reads!Begin
<1>3. Reads!ReadsAreTrue' /\ rdOut'.kind \notin {"answer", "types", "usage"}
  BY <1>1, SilentIsTrue
<1>4. rdPc' \in {"idle", "send"} /\ rdReq' \in Reads!Requests \cup {Reads!None}
  BY <1>1, <1>2 DEF ReadsInv, Reads!TypeOK
<1>5. Reads!TypeOK'
  BY <1>2, <1>3, <1>4 DEF ReadsInv, Reads!TypeOK
<1>6. Stands' /\ ReadSoFar'
  BY <1>2, <1>4 DEF ReadsInv, Stands, ReadSoFar
<1> QED BY <1>3, <1>5, <1>6 DEF ReadsInv

LEMMA ReadsFail == ASSUME ReadsInv, Reads!Fails PROVE ReadsInv'
<1>1. PICK code : Reads!Returns(Reads!Failed(code))
  BY DEF Reads!Fails
<1>2. Honest(Reads!Failed(code))
  BY DEF Honest, Reads!Failed
<1>3. UNCHANGED <<token, pages>>
  BY DEF Reads!Fails
<1> QED BY <1>1, <1>2, <1>3, ReadsReturn DEF ReadsInv, Stands, Reads!TypeOK

LEMMA ReadsList == ASSUME ReadsInv, Reads!List PROVE ReadsInv'
<1> DEFINE now0 == IF rdReq.op = "list_events" THEN Reads!Seen ELSE items
           left0 == IF rdReq.next THEN token.rest ELSE now0
           before0 == IF rdReq.next THEN pages ELSE [listed |-> {}, all |-> now0]
<1>1. PICK page \in Reads!PagesOf(left0, Reads!boundLimit(rdReq.limit)) :
        /\ token' = IF page = left0 THEN Reads!NoToken ELSE [rest |-> left0 \ page, op |-> rdReq.op]
        /\ pages' = IF page = left0 THEN Reads!NoPages ELSE [listed |-> before0.listed \cup page, all |-> before0.all]
        /\ Reads!Returns(Reads!Answer(page, page # left0, before0.all \ before0.listed))
  BY DEF Reads!List
<1>2. rdReq.limit \in Int
  <2>1. rdReq.op \in Reads!Paged /\ rdReq \in Reads!Requests \cup {Reads!None}
    BY DEF Reads!List, Reads!Send, ReadsInv, Reads!TypeOK
  <2> QED BY <2>1, RequestsHaveLimits DEF Reads!Paged
<1>3. PICK n : n = Reads!boundLimit(rdReq.limit)
  OBVIOUS
<1>4. n \in Nat /\ n <= MaxLimit
  BY <1>2, <1>3, LimitsAreBound
<1>5. /\ before0.listed \subseteq before0.all /\ before0.all \subseteq Reads!Items \cup Reads!Stamps
      /\ left0 = before0.all \ before0.listed
  <2>1. now0 \subseteq Reads!Items \cup Reads!Stamps
    BY DEF Reads!Seen, ReadsInv, Reads!TypeOK
  <2> HIDE DEF now0
  <2> QED BY <2>1 DEF ReadsInv, Reads!TypeOK, Stands
<1>6. PICK left : left = left0
  OBVIOUS
<1>7. PICK before : before = before0
  OBVIOUS
<1>8. IsFiniteSet(left)
  <2>1. IsFiniteSet(Reads!Items \cup Reads!Stamps)
    BY ReadsSizes, FS_Union
  <2> QED BY <1>5, <1>6, <2>1, FS_Subset
<1>9. /\ page \in Reads!PagesOf(left, n)
      /\ Reads!Returns(Reads!Answer(page, page # left, left))
      /\ page = left => token' = Reads!NoToken /\ pages' = Reads!NoPages
      /\ page # left => /\ token' = [rest |-> left \ page, op |-> rdReq.op]
                        /\ pages' = [listed |-> before.listed \cup page, all |-> before.all]
      /\ before.listed \subseteq before.all /\ before.all \subseteq Reads!Items \cup Reads!Stamps
      /\ left = before.all \ before.listed
  <2> HIDE DEF left0, before0
  <2> QED BY <1>1, <1>3, <1>5, <1>6, <1>7
<1>10. page \subseteq left /\ Cardinality(page) <= n /\ Cardinality(page) \in Nat
  BY <1>4, <1>8, <1>9, PagesFit, FS_CardinalityType
<1>11. Honest(Reads!Answer(page, page # left, left))
  <2>1. PICK more \in BOOLEAN : more = (page # left)
    OBVIOUS
  <2>2. Cardinality(page) <= MaxLimit
    BY <1>4, <1>10, ConstantsAssumption
  <2>3. Honest(Reads!Answer(page, more, left))
    BY <2>1, <2>2, HonestAnswers
  <2> QED BY <2>1, <2>3
<1>12. /\ token'.rest = pages'.all \ pages'.listed /\ pages'.listed \subseteq pages'.all
       /\ pages'.all \subseteq Reads!Items \cup Reads!Stamps
  <2>1. CASE page = left
    BY <1>9, <2>1 DEF Reads!NoToken, Reads!NoPages
  <2>2. CASE page # left
    <3>1. pages'.all = before.all /\ pages'.listed = before.listed \cup page /\ token'.rest = left \ page
      BY <1>9, <2>2
    <3> QED BY <1>9, <1>10, <3>1
  <2> QED BY <2>1, <2>2
<1> QED BY <1>9, <1>11, <1>12, ReadsReturn

LEMMA ReadsGetLogs == ASSUME ReadsInv, Reads!GetLogs PROVE ReadsInv'
<1>1. rdReq.limit \in Int
  <2>1. rdReq.op = "get_logs" /\ rdReq \in Reads!Requests \cup {Reads!None}
    BY DEF Reads!GetLogs, Reads!Send, ReadsInv, Reads!TypeOK
  <2> QED BY <2>1, RequestsHaveLimits
<1>2. PICK tail \in Nat \ {0} : tail = Reads!boundLimit(rdReq.limit) /\ tail <= MaxLimit
  BY <1>1, LimitsAreBound
<1>3. PICK n \in 0..MaxLines :
        Reads!Returns(Reads!Answer(Reads!Tail(n, tail),
                                   Reads!AtTail(Reads!Cardinality(Reads!Tail(n, tail)), tail), 1..n))
  BY <1>2 DEF Reads!GetLogs
<1>4. n \in Nat
  BY ReadsSizes
<1>5. Cardinality(Reads!Tail(n, tail)) = IF n > tail THEN tail ELSE n
  <2>1. CASE n > tail
    <3>1. n - tail + 1 \in Int /\ n - tail + 1 <= n
      BY <1>4, <2>1
    <3>2. Cardinality((n - tail + 1)..n) = n - (n - tail + 1) + 1
      BY <1>4, <3>1, FS_Interval
    <3>3. Reads!Tail(n, tail) = (n - tail + 1)..n
      BY <2>1 DEF Reads!Tail
    <3> QED BY <1>4, <2>1, <3>2, <3>3
  <2>2. CASE ~(n > tail)
    <3>1. Cardinality(1..n) = n
      BY <1>4, FS_Interval
    <3>2. Reads!Tail(n, tail) = 1..n
      BY <2>2 DEF Reads!Tail
    <3> QED BY <2>2, <3>1, <3>2
  <2> QED BY <2>1, <2>2
<1>6. PICK more \in BOOLEAN : more = Reads!AtTail(Reads!Cardinality(Reads!Tail(n, tail)), tail)
  <2>1. Reads!AtTail(Reads!Cardinality(Reads!Tail(n, tail)), tail) \in BOOLEAN
    BY DEF Reads!AtTail
  <2> QED BY <2>1
<1>7. ~more => Reads!Tail(n, tail) = 1..n
  <2>1. ~more => ~(Cardinality(Reads!Tail(n, tail)) >= tail)
    BY <1>6, ReadsCount DEF Reads!AtTail
  <2>2. ~more => ~(n > tail)
    BY <1>2, <1>5, <2>1
  <2> QED BY <2>2 DEF Reads!Tail
<1>8. Cardinality(Reads!Tail(n, tail)) <= MaxLimit
  BY <1>2, <1>4, <1>5, ConstantsAssumption
<1>9. Honest(Reads!Answer(Reads!Tail(n, tail), more, 1..n))
  BY <1>7, <1>8, HonestAnswers
<1>10. Reads!Returns(Reads!Answer(Reads!Tail(n, tail), more, 1..n)) /\ UNCHANGED <<token, pages>>
  BY <1>3, <1>6 DEF Reads!GetLogs
<1> QED BY <1>9, <1>10, ReadsReturn DEF ReadsInv, Stands, Reads!TypeOK

\* The types of the groups that answered are finitely many pairs.
LEMMA TypesAreFinite ==
  ASSUME NEW asked \in SUBSET Reads!Groups
  PROVE  LET found == UNION {Reads!TypesOf(g) : g \in asked}
         IN  found \subseteq Int \X Int /\ IsFiniteSet(found) /\ \A t \in found : t[1] \in asked
<1> DEFINE found == UNION {Reads!TypesOf(g) : g \in asked}
<1>1. MaxGroup \in Nat /\ asked \subseteq 0..MaxGroup
  BY ReadsSizes DEF Reads!Groups
<1>2. ASSUME NEW t \in found
      PROVE  t \in (0..MaxGroup) \X (1..(MaxGroup + 1)) /\ t[1] \in asked
  <2>1. PICK g \in asked : t \in Reads!TypesOf(g)
    OBVIOUS
  <2>2. PICK k \in 1..(g + 1) : t = <<g, k>>
    BY <2>1 DEF Reads!TypesOf
  <2> QED BY <1>1, <2>1, <2>2
<1>3. IsFiniteSet(0..MaxGroup) /\ IsFiniteSet(1..(MaxGroup + 1))
  BY <1>1, FS_Interval
<1>4. IsFiniteSet((0..MaxGroup) \X (1..(MaxGroup + 1)))
  BY <1>3, FS_Product
<1> HIDE DEF found
<1>5. IsFiniteSet(found)
  BY <1>2, <1>4, FS_Subset
<1>6. found \subseteq Int \X Int
  BY <1>2
<1> QED BY <1>2, <1>5, <1>6 DEF found

LEMMA ReadsListTypes == ASSUME ReadsInv, Reads!ListAPIResources PROVE ReadsInv'
<1>1. rdReq.limit \in Int /\ rdReq.group \in Reads!Groups \cup {Reads!Core, Reads!AllGroups}
  <2>1. rdReq.op = "list_api_resources" /\ rdReq \in Reads!Requests \cup {Reads!None}
    BY DEF Reads!ListAPIResources, Reads!Send, ReadsInv, Reads!TypeOK
  <2> QED BY <2>1, RequestsHaveLimits
<1>2. PICK n \in Nat : n = Reads!boundLimit(rdReq.limit) /\ n <= MaxLimit
  BY <1>1, LimitsAreBound
<1> DEFINE asked0 == CASE rdReq.group = Reads!Core -> {0} [] rdReq.group = Reads!AllGroups -> Reads!Groups
                       [] OTHER -> {rdReq.group}
<1>3. asked0 \subseteq Reads!Groups
  <2>1. Reads!Core # Reads!AllGroups /\ 0 \in Reads!Groups
    BY ReadsSizes DEF Reads!Core, Reads!AllGroups, Reads!Groups
  <2> QED BY <1>1, <2>1
<1>4. PICK asked \in SUBSET Reads!Groups : asked = asked0
  BY <1>3
<1>5. PICK failed \in SUBSET Reads!Groups :
        LET found == UNION {Reads!TypesOf(g) : g \in asked \ failed}
        IN  Reads!Returns([kind |-> "types", list |-> Reads!Foremost(found, Reads!ByName(found), n),
                           more |-> Reads!Cardinality(found) > n, failed |-> failed,
                           all |-> UNION {Reads!TypesOf(g) : g \in asked}])
  <2>1. asked0 = asked
    BY <1>4
  <2> QED BY <1>2, <2>1 DEF Reads!ListAPIResources
<1> HIDE DEF asked0
<1> DEFINE found == UNION {Reads!TypesOf(g) : g \in asked \ failed}
           all == UNION {Reads!TypesOf(g) : g \in asked}
           shown == Reads!Foremost(found, Reads!ByName(found), n)
<1>6. found \subseteq Int \X Int /\ IsFiniteSet(found) /\ \A t \in found : t[1] \in asked \ failed
  BY TypesAreFinite
<1>7. \A t \in all : t[1] \in asked
  BY TypesAreFinite
<1>8. found = {t \in all : t[1] \notin failed}
  <2>1. ASSUME NEW t \in all, t[1] \notin failed PROVE t \in found
    <3>1. PICK g \in asked : t \in Reads!TypesOf(g)
      OBVIOUS
    <3>2. t[1] = g
      BY <3>1 DEF Reads!TypesOf
    <3> QED BY <2>1, <3>1, <3>2
  <2>2. found \subseteq all
    OBVIOUS
  <2> HIDE DEF found, all
  <2> QED BY <1>6, <2>1, <2>2
<1>9. Reads!Returns([kind |-> "types", list |-> shown, more |-> Reads!Cardinality(found) > n,
                     failed |-> failed, all |-> all])
  BY <1>5
<1> HIDE DEF found, all
<1>10. TotalOrder(found, Reads!ByName(found))
  BY <1>6, TypesAreOrdered
<1>11. Cardinality(shown) <= n /\ IsFiniteSet(shown) /\ (Cardinality(found) <= n => shown = found)
  BY <1>6, <1>10, ForemostAreThoseBefore
<1> HIDE DEF shown
<1>12. PICK a : a = [kind |-> "types", list |-> shown, more |-> Reads!Cardinality(found) > n,
                     failed |-> failed, all |-> all]
  OBVIOUS
<1>13. a.kind = "types" /\ a.list = shown /\ a.failed = failed /\ a.all = all
       /\ (~a.more <=> ~(Cardinality(found) > n))
  BY <1>12, ReadsCount
<1>14. Cardinality(shown) <= MaxLimit /\ (~a.more => shown = found)
  <2>1. Cardinality(shown) \in Nat /\ Cardinality(found) \in Nat
    BY <1>6, <1>11, FS_CardinalityType
  <2> QED BY <1>2, <1>11, <1>13, <2>1, ConstantsAssumption
<1>15. Honest(a)
  BY <1>8, <1>13, <1>14 DEF Honest
<1>16. Reads!Returns(a) /\ UNCHANGED <<token, pages>>
  BY <1>9, <1>12 DEF Reads!ListAPIResources
<1> QED BY <1>15, <1>16, ReadsReturn DEF ReadsInv, Stands, Reads!TypeOK

\* What top reads is the page and what each on it uses; that fits an answer and is
\* all there is, if all there is fits one.
LEMMA ReadsMetrics == ASSUME ReadsInv, Reads!ReadMetrics PROVE ReadsInv'
<1>0. /\ rdPc = "send" /\ rdReq.op \in {"top_nodes", "top_pods"} /\ rdReq \in Reads!Requests \cup {Reads!None}
      /\ UNCHANGED <<token, pages>>
  BY DEF Reads!ReadMetrics, Reads!Send, ReadsInv, Reads!TypeOK
<1>1. CASE Reads!Returns(Reads!Unavailable)
  <2>1. Honest(Reads!Unavailable)
    BY DEF Honest, Reads!Unavailable
  <2> QED BY <1>0, <1>1, <2>1, ReadsReturn DEF ReadsInv, Stands, Reads!TypeOK
<1>2. CASE /\ \E cpu \in [items -> 0..MaxCPU], page \in {items} \cup Reads!PagesOf(items, Reads!Fetch(rdReq.limit)) :
                got' = [read |-> {<<i, cpu[i]>> : i \in page}, more |-> page # items,
                        all |-> {<<i, cpu[i]>> : i \in items}]
           /\ rdPc' = "usage" /\ rdOut' = Reads!Silent /\ UNCHANGED <<items, events, rdReq>>
  <2>1. PICK cpu \in [items -> 0..MaxCPU], page \in {items} \cup Reads!PagesOf(items, MaxLimit) :
          got' = [read |-> {<<i, cpu[i]>> : i \in page}, more |-> page # items,
                  all |-> {<<i, cpu[i]>> : i \in items}]
    BY <1>2 DEF Reads!Fetch
  <2> DEFINE used == {<<i, cpu[i]>> : i \in items}
             read == {<<i, cpu[i]>> : i \in page}
  <2>2. items \subseteq Reads!Items /\ items \subseteq Int /\ IsFiniteSet(items)
    <3>1. items \subseteq Reads!Items
      BY DEF ReadsInv, Reads!TypeOK
    <3>2. IsFiniteSet(items)
      BY <3>1, ReadsSizes, FS_Subset
    <3> QED BY <3>1, <3>2, ReadsSizes
  <2>3. MaxLimit \in Nat /\ MaxCPU \in Nat
    BY ConstantsAssumption, ReadsSizes
  <2>4. page \subseteq items /\ (Cardinality(items) <= MaxLimit => page = items)
    BY <2>1, <2>2, <2>3, PagesFit
  <2>5. used \subseteq Int \X Int /\ read \subseteq Reads!Items \X (0..MaxCPU)
    BY <2>1, <2>2, <2>3, <2>4
  <2>6. Cardinality(used) <= MaxLimit => Cardinality(items) <= MaxLimit
    <3>1. used \subseteq Reads!Items \X (0..MaxCPU) /\ IsFiniteSet(Reads!Items \X (0..MaxCPU))
      BY <2>1, <2>2, <2>3, ReadsSizes
    <3>2. IsFiniteSet(used)
      <4> HIDE DEF used
      <4> QED BY <3>1, FS_Subset
    <3>3. Cardinality(used) \in Nat /\ Cardinality(items) \in Nat
      <4> HIDE DEF used
      <4> QED BY <2>2, <3>2, FS_CardinalityType
    <3>4. ~(Cardinality(used) < Cardinality(items))
      <4> SUFFICES ASSUME Cardinality(used) < Cardinality(items) PROVE FALSE
        OBVIOUS
      <4> DEFINE f == [i \in items |-> <<i, cpu[i]>>]
      <4>1. f \in [items -> used]
        OBVIOUS
      <4>2. PICK i, j \in items : i # j /\ f[i] = f[j]
        <5> HIDE DEF f, used
        <5> QED BY <2>2, <3>2, <4>1, FS_PigeonHole
      <4> QED BY <4>2
    <3> HIDE DEF used
    <3> QED BY <2>3, <3>3, <3>4
  <2>7. /\ got'.read = read /\ got'.all = used /\ (got'.more <=> page # items)
        /\ page = items => read = used
    BY <2>1
  <2>8. ReadSoFar'
    <3> HIDE DEF used, read
    <3> QED BY <1>0, <1>2, <2>4, <2>5, <2>6, <2>7 DEF ReadSoFar
  <2>9. Reads!ReadsAreTrue' /\ rdOut'.kind \notin {"answer", "types", "usage"}
    BY <1>2, SilentIsTrue
  <2>10. Reads!TypeOK'
    <3> HIDE DEF used, read
    <3> QED BY <1>0, <1>2, <2>5, <2>7, <2>9 DEF ReadsInv, Reads!TypeOK
  <2> QED BY <1>0, <2>8, <2>9, <2>10 DEF ReadsInv, Stands
<1> QED BY <1>1, <1>2 DEF Reads!ReadMetrics

LEMMA ReadsTop == ASSUME ReadsInv, Reads!Top PROVE ReadsInv'
<1>1. rdPc = "usage" /\ UNCHANGED <<token, pages>>
  BY DEF Reads!Top
<1>2. /\ rdReq.op \in {"top_nodes", "top_pods"} /\ rdReq \in Reads!Requests \cup {Reads!None}
      /\ got.all \subseteq Int \X Int
      /\ ~got.more => got.read = got.all
      /\ Cardinality(got.all) <= MaxLimit => got.read = got.all
      /\ got.read \subseteq Reads!Items \X (0..MaxCPU)
  BY <1>1 DEF ReadsInv, ReadSoFar, Reads!TypeOK
<1>3. rdReq.limit \in Int
  BY <1>2, RequestsHaveLimits
<1>4. PICK n \in Nat : n = Reads!boundLimit(rdReq.limit) /\ n <= MaxLimit
  BY <1>3, LimitsAreBound
<1>5. PICK S : S = got.read
  OBVIOUS
<1>6. PICK sized :
        Reads!Returns([kind |-> "usage", list |-> Reads!Foremost(S, Reads!ByCPU(S), n),
                       more |-> got.more \/ Reads!Cardinality(S) > n, all |-> got.all,
                       percent |-> {u \in Reads!Foremost(S, Reads!ByCPU(S), n) : u[1] \in sized}])
  BY <1>4, <1>5 DEF Reads!Top
<1>7. S \subseteq Int \X Int /\ IsFiniteSet(S) /\ Cardinality(S) \in Nat
  <2>1. S \subseteq Reads!Items \X (0..MaxCPU)
    BY <1>2, <1>5
  <2>2. IsFiniteSet(S)
    BY <2>1, ReadsSizes, FS_Subset
  <2>3. S \subseteq Int \X Int
    BY <2>1, ReadsSizes, Zenon
  <2> QED BY <2>2, <2>3, FS_CardinalityType
<1>8. TotalOrder(S, Reads!ByCPU(S))
  BY <1>7, UsageIsOrdered
<1> DEFINE top == Reads!Foremost(S, Reads!ByCPU(S), n)
<1>9. /\ top \subseteq S /\ IsFiniteSet(top) /\ Cardinality(top) <= n
      /\ Cardinality(S) <= n => top = S
      /\ \A x \in top, y \in S : <<y, x>> \in Reads!ByCPU(S) => y \in top
  BY <1>7, <1>8, ForemostAreThoseBefore
<1>10. \A u \in top, v \in S \ top : u[2] >= v[2]
  <2> SUFFICES ASSUME NEW u \in top, NEW v \in S \ top, ~(u[2] >= v[2]) PROVE FALSE
    OBVIOUS
  <2>1. u \in S /\ u[2] \in Int /\ v[2] \in Int
    BY <1>7, <1>9
  <2>2. <<v, u>> \in Reads!ByCPU(S)
    BY <2>1 DEF Reads!ByCPU
  <2> QED BY <1>9, <2>2
<1> HIDE DEF top
<1>11. PICK a :
         a = [kind |-> "usage", list |-> top, more |-> got.more \/ Reads!Cardinality(S) > n,
              all |-> got.all, percent |-> {u \in top : u[1] \in sized}]
  OBVIOUS
<1>12. a.kind = "usage" /\ a.list = top /\ a.all = got.all
       /\ (~a.more => ~got.more /\ ~(Cardinality(S) > n))
  BY <1>11, ReadsCount
<1>13. Cardinality(top) <= MaxLimit /\ (~a.more => top = got.all)
  <2>1. Cardinality(top) \in Nat
    BY <1>9, FS_CardinalityType
  <2> QED BY <1>2, <1>4, <1>5, <1>7, <1>9, <1>12, <2>1, ConstantsAssumption
<1>14. Cardinality(a.all) <= MaxLimit => \A u \in a.list, v \in a.all \ a.list : u[2] >= v[2]
  BY <1>2, <1>5, <1>10, <1>12
<1>15. Honest(a)
  BY <1>12, <1>13, <1>14 DEF Honest
<1>16. Reads!Returns(a)
  BY <1>6, <1>11 DEF top
<1> QED BY <1>1, <1>15, <1>16, ReadsReturn DEF ReadsInv, Stands, Reads!TypeOK

LEMMA ReadsDescribe ==
  ASSUME ReadsInv, Reads!GetWorkload \/ Reads!ListPods \/ Reads!ListEvents PROVE ReadsInv'
<1>1. CASE Reads!GetWorkload
  <2>1. /\ rdPc = "send" /\ rdPc' = "pods" /\ rdOut' = Reads!Silent
        /\ UNCHANGED <<items, events, rdReq, got, token, pages>>
    BY <1>1 DEF Reads!GetWorkload, Reads!Send
  <2>2. Reads!ReadsAreTrue' /\ rdOut'.kind \notin {"answer", "types", "usage"}
    BY <2>1, SilentIsTrue
  <2> QED BY <2>1, <2>2 DEF ReadsInv, Reads!TypeOK, Stands, ReadSoFar
<1>2. CASE Reads!ListPods
  <2>1. PICK page \in Reads!PagesOf(items, DescribeLimit) :
          got' = [read |-> page, more |-> page # items, all |-> items]
    BY <1>2 DEF Reads!ListPods
  <2>2. rdPc' = "events" /\ rdOut' = Reads!Silent /\ UNCHANGED <<items, events, rdReq, token, pages>>
    BY <1>2 DEF Reads!ListPods
  <2>3. items \subseteq Reads!Items /\ IsFiniteSet(items)
    <3>1. items \subseteq Reads!Items
      BY DEF ReadsInv, Reads!TypeOK
    <3> QED BY <3>1, ReadsSizes, FS_Subset
  <2>4. page \subseteq items /\ Cardinality(page) <= DescribeLimit
    BY <2>3, ReadsSizes, PagesFit
  <2>5. got'.read = page /\ got'.all = items /\ (got'.more <=> page # items)
    BY <2>1
  <2>6. Reads!ReadsAreTrue' /\ rdOut'.kind \notin {"answer", "types", "usage"}
    BY <2>2, SilentIsTrue
  <2>7. Reads!TypeOK'
    BY <2>2, <2>3, <2>4, <2>5, <2>6, ReadsCount DEF ReadsInv, Reads!TypeOK
  <2> QED BY <2>2, <2>5, <2>6, <2>7 DEF ReadsInv, Stands, ReadSoFar
<1>3. CASE Reads!ListEvents
  <2>1. PICK sent \in SUBSET Reads!Seen :
          /\ Reads!Own \subseteq sent
          /\ Reads!Returns([kind |-> "description", list |-> got.read, more |-> got.more, all |-> got.all,
               events |-> Reads!Foremost(Reads!OwnOf(sent), Reads!Newest(Reads!OwnOf(sent)), DescribeLimit)])
    BY <1>3 DEF Reads!ListEvents
  <2>2. Reads!OwnOf(sent) = Reads!Own
    BY <2>1 DEF Reads!OwnOf
  <2>3. PICK a :
          a = [kind |-> "description", list |-> got.read, more |-> got.more, all |-> got.all,
               events |-> Reads!Foremost(Reads!Own, Reads!Newest(Reads!Own), DescribeLimit)]
    OBVIOUS
  <2>4. Reads!Returns(a)
    BY <2>1, <2>2, <2>3
  <2>5. /\ a.kind = "description" /\ a.list = got.read /\ a.more = got.more /\ a.all = got.all
        /\ a.events = Reads!Foremost(Reads!Own, Reads!Newest(Reads!Own), DescribeLimit)
    BY <2>3
  <2>6. ~got.more => got.read = got.all
    BY <1>3 DEF Reads!ListEvents, ReadsInv, ReadSoFar
  <2>7. Honest(a)
    BY <2>5, <2>6 DEF Honest
  <2>8. UNCHANGED <<token, pages>>
    BY <1>3 DEF Reads!ListEvents
  <2> QED BY <2>4, <2>7, <2>8, ReadsReturn DEF ReadsInv, Stands, Reads!TypeOK
<1> QED BY <1>1, <1>2, <1>3

LEMMA ReadsChange == ASSUME ReadsInv, Reads!Change PROVE ReadsInv'
<1>1. rdOut' = Reads!Silent /\ UNCHANGED <<rdPc, rdReq, got, token, pages>>
  BY DEF Reads!Change
<1>2. items' \subseteq Reads!Items
  BY DEF Reads!Change, ReadsInv, Reads!TypeOK
<1>3. events' \in [Reads!Stamps -> {"own", "other", "none"}]
  BY DEF Reads!Change, ReadsInv, Reads!TypeOK
<1>4. Reads!ReadsAreTrue' /\ rdOut'.kind \notin {"answer", "types", "usage"}
  BY <1>1, SilentIsTrue
<1>5. Reads!TypeOK'
  BY <1>1, <1>2, <1>3, <1>4 DEF ReadsInv, Reads!TypeOK
<1> QED BY <1>1, <1>4, <1>5 DEF ReadsInv, Stands, ReadSoFar

LEMMA ReadsStep == ASSUME ReadsInv, [Reads!Next]_(Reads!vars) PROVE ReadsInv'
<1>1. CASE Reads!Next
  BY <1>1, ReadsBegin, ReadsFail, ReadsList, ReadsGetLogs, ReadsListTypes, ReadsMetrics, ReadsTop,
     ReadsDescribe, ReadsChange DEF Reads!Next
<1>2. CASE UNCHANGED Reads!vars
  <2>1. UNCHANGED <<items, events, rdPc, rdReq, got, token, pages, rdOut>>
    BY <1>2 DEF Reads!vars
  <2>2. Reads!TypeOK' /\ Stands' /\ ReadSoFar'
    BY <2>1 DEF ReadsInv, Reads!TypeOK, Stands, ReadSoFar
  <2>3. Reads!NotTruncatedIsWhole' /\ Reads!TopIsTheTop'
    BY <2>1 DEF ReadsInv, Reads!ReadsAreTrue, Reads!NotTruncatedIsWhole, Reads!TopIsTheTop
  <2>4. Reads!Own' = Reads!Own
    BY <2>1 DEF Reads!Own
  <2>5. Reads!EventsAreTheWorkloads'
    BY <2>1, <2>4 DEF ReadsInv, Reads!ReadsAreTrue, Reads!EventsAreTheWorkloads
  <2> QED BY <2>2, <2>3, <2>5 DEF ReadsInv, Reads!ReadsAreTrue
<1> QED BY <1>1, <1>2

LEMMA ReadsStart ==
  ASSUME items \subseteq Reads!Items, events \in [Reads!Stamps -> {"own", "other", "none"}], Reads!InitCall
  PROVE  ReadsInv
<1>1. /\ rdPc = "idle" /\ rdReq = Reads!None /\ got = Reads!Nothing /\ token = Reads!NoToken
      /\ pages = Reads!NoPages /\ rdOut = Reads!Silent
  BY DEF Reads!InitCall
<1>2. rdOut.kind = "silent"
  BY <1>1 DEF Reads!Silent
<1>3. token.rest = {} /\ pages.listed = {} /\ pages.all = {}
  BY <1>1 DEF Reads!NoToken, Reads!NoPages
<1>4. Reads!TypeOK
  BY <1>1, <1>2, <1>3 DEF Reads!TypeOK
<1> QED BY <1>1, <1>2, <1>3, <1>4 DEF ReadsInv, Stands, ReadSoFar, Reads!ReadsAreTrue,
      Reads!NotTruncatedIsWhole, Reads!TopIsTheTop, Reads!EventsAreTheWorkloads

-----------------------------------------------------------------------------
(* The three together: a behaviour is of one of them, and the others stay as
   they began. *)

MCvars == <<scope, vars, accessVars, readVars>>
MCInv == (scope = "access" => AccessInv) /\ ReadsInv

LEMMA MCBegins == ASSUME MCInit PROVE Init /\ MCInv
<1>1. Init
  BY DEF MCInit, NoWorkloads, Init
<1>2. scope = "access" => AccessInv
  BY AccessBegins DEF MCInit
<1>3. ReadsInv
  <2>1. items \subseteq Reads!Items /\ events \in [Reads!Stamps -> {"own", "other", "none"}] /\ Reads!InitCall
    BY DEF MCInit, NoReads, Reads!Init, Reads!Stamps
  <2> QED BY <2>1, ReadsStart
<1> QED BY <1>1, <1>2, <1>3 DEF MCInv

LEMMA MCSteps ==
  ASSUME [MCNext]_MCvars
  PROVE  /\ [Next]_vars
         /\ scope = "access" => [Access!Next]_(Access!vars)
         /\ scope # "access" => UNCHANGED Access!vars
         /\ [Reads!Next]_(Reads!vars)
         /\ UNCHANGED scope
<1>1. UNCHANGED accessVars => UNCHANGED Access!vars
  BY DEF accessVars, Access!vars, Access!machine
<1>2. UNCHANGED readVars => UNCHANGED Reads!vars
  BY DEF readVars, Reads!vars
<1>3. CASE UNCHANGED MCvars
  BY <1>1, <1>2, <1>3 DEF MCvars
<1>4. CASE scope = "workloads" /\ Next /\ UNCHANGED <<scope, accessVars, readVars>>
  BY <1>1, <1>2, <1>4
<1>5. CASE scope = "access" /\ Access!Next /\ UNCHANGED <<scope, vars, readVars>>
  BY <1>2, <1>5
<1>6. CASE scope = "reads" /\ Reads!Next /\ UNCHANGED <<scope, vars, accessVars>>
  BY <1>1, <1>6
<1> QED BY <1>3, <1>4, <1>5, <1>6 DEF MCNext

LEMMA MCInductive == MCSpec => Spec /\ []MCInv
<1>1. MCInit => Init /\ MCInv
  BY MCBegins
<1>2. [MCNext]_MCvars => [Next]_vars
  BY MCSteps
<1>3. MCInv /\ [MCNext]_MCvars => MCInv'
  BY MCSteps, AccessStep, ReadsStep DEF MCInv
<1> QED BY <1>1, <1>2, <1>3, PTL DEF MCSpec, Spec, MCvars

-----------------------------------------------------------------------------
\* Whatever runs keeps its types: of the way a call finds, that a namespaced call
\* always has a namespace (plugin.go, namespace); of the reads, that no list is
\* longer than a tool result can carry (backend.go, boundLimit).
THEOREM TypesAreKept == MCSpec => []TypesOK
<1>1. MCInv /\ TypeOK => TypesOK
  BY DEF MCInv, AccessInv, ReadsInv, TypesOK
<1> QED BY <1>1, MCInductive, TypeCorrect, PTL

\* An answer that does not say it was cut is whole, with the pages before it;
\* top is the top of all there was, if that fits an answer; a description ends
\* with the workload's own last events (clientgo.go, clientgo_reads.go,
\* clientgo_metrics.go).
THEOREM ReadsAnswerTruly == MCSpec => []ReadsAreTrue
<1>1. MCInv => ReadsAreTrue
  BY DEF MCInv, ReadsInv, ReadsAreTrue
<1> QED BY <1>1, MCInductive, PTL

\* A call under which the operator changes nothing is stopped on this machine only
\* if check_access would have said that it is not ready, or by one of the four
\* things it does not look at (Overlooked); it goes as the identity foretold; and a
\* namespaced call goes to the namespace of the context it reaches (auth.go,
\* Preflight, RestConfig).
THEOREM CallsGoWhereTheySay == MCSpec => GoesWhereItSays
<1>1. ASSUME MCInv, [MCNext]_MCvars
      PROVE  [\A c \in still : Access!Ends(c) =>
                IF Access!Sent(c)
                THEN /\ foretold[c].ready \/ conn[c].mode = "anonymous"
                     /\ foretold[c].mode = conn[c].mode /\ foretold[c].context = conn[c].context
                ELSE ~foretold[c].ready \/ Access!Overlooked(Access!clusterOptions(acReq[c].context))]_(Access!vars)
  <2>1. CASE UNCHANGED Access!vars
    BY <2>1
  <2>2. CASE AccessInv /\ Access!Next
    BY <2>2, StepForetold DEF Opts
  <2> QED BY <1>1, <2>1, <2>2, MCSteps DEF MCInv
<1>2. ASSUME MCInv, [MCNext]_MCvars
      PROVE  [\A c \in Lookups :
                /\ Access!Sent(c) /\ acReq[c].op = "list_pods" /\ acReq[c].namespace = Absent /\ config.namespace = Absent
                /\ conn[c].context # Absent
                /\ c \in still \/ Access!clusterOptions(acReq[c].context).context # Absent
                => ns[c] = Access!NamespaceIn(file.contexts[conn[c].context])]_(Access!vars)
  <2>1. CASE UNCHANGED Access!vars
    BY <2>1
  <2>2. CASE AccessInv /\ Access!Next
    BY <2>2, StepToItsNamespace DEF Access!NamespaceIn
  <2> QED BY <1>2, <2>1, <2>2, MCSteps DEF MCInv
<1>3. MCSpec => Access!CheckForetells
  BY <1>1, MCInductive, PTL DEF MCSpec, MCvars, Access!CheckForetells
<1>4. MCSpec => Access!NamespaceIsTheContexts
  BY <1>2, MCInductive, PTL DEF MCSpec, MCvars, Access!NamespaceIsTheContexts
<1> QED BY <1>3, <1>4 DEF GoesWhereItSays, Access!GoesWhereItSays
=============================================================================
