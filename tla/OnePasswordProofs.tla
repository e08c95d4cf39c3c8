------------------------- MODULE OnePasswordProofs -------------------------
(***************************************************************************)
(* Proofs about OnePassword for every set of resolves and tokens, every    *)
(* number of loads and rotations.                                          *)
(*                                                                         *)
(* The inductive invariant has one part per idea:                          *)
(*   SlotExclusive  one worker, and the slot is full exactly while it runs *)
(*   Wiring         where caller and worker of one resolve can be together *)
(*   Signed         a client in use or in p.client has been stored by the  *)
(*                  worker it is named after, and p.client has failed only *)
(*                  while the worker that saw it fail is about to drop it  *)
(*   Reads          what a worker has to say was read since it was asked   *)
(***************************************************************************)
EXTENDS OnePassword, TLAPS

Wiring ==
  \A c \in Calls :
    /\ caller[c] \in {"idle", "acquire"} => worker[c] = "off" /\ got[c] = Nothing /\ ~sent[c]
    /\ worker[c] \in {"clientFor", "signIn", "store", "resolve"} => got[c] = Nothing /\ ~sent[c]
    /\ worker[c] \in {"drop", "send"} => ~sent[c]
    /\ caller[c] = "hold" => worker[c] \in {"release", "off"} /\ got[c].kind = "value"
    /\ sent[c] => worker[c] \in {"release", "off"}
    /\ outcome[c] # "none" <=> caller[c] = "returned"
    /\ outcome[c] = "value" => worker[c] \in {"release", "off"} /\ got[c].kind = "value"

\* The worker of d has stored its client, so no step of it can do so again.
HasStored(d) == caller[d] \notin {"idle", "acquire"} /\ worker[d] \notin {"clientFor", "signIn", "store"}

Signed ==
  /\ client # NoCall => HasStored(client)
  /\ \A d \in failed : HasStored(d)
  /\ \A c \in Calls :
       /\ worker[c] = "store" => using[c] = c
       /\ worker[c] \in {"resolve", "drop"} => using[c] \in Calls /\ HasStored(using[c])
       /\ worker[c] = "resolve" => using[c] \notin failed
  /\ client \in failed => \E c \in Calls : worker[c] = "drop" /\ using[c] = client

Reads ==
  /\ stored >= 1
  /\ \A c \in Calls :
       /\ asked[c] <= stored
       /\ IF got[c].kind = "value"
          THEN got[c].version >= 1 /\ got[c].version \in asked[c]..stored
          ELSE got[c].version = 0

IInv == TypeOK /\ SlotExclusive /\ Wiring /\ Signed /\ Reads

LEMMA AnswerTyped ==
  ASSUME NEW k \in Kinds, NEW n \in Nat
  PROVE  /\ [kind |-> k, version |-> n] \in Answers
         /\ [kind |-> k, version |-> n].kind = k
         /\ [kind |-> k, version |-> n].version = n
  BY DEF Answers

(* At the start every part of the invariant holds. *)
LEMMA InitIInv == Init => IInv
<1> SUFFICES ASSUME Init PROVE IInv
  OBVIOUS
<1>1. Nothing \in Answers /\ Nothing.kind = "none" /\ Nothing.version = 0
  BY AnswerTyped DEF Nothing, Kinds
<1>2. PluginTypeOK
  BY ConstantsAssumption DEF Init, PluginTypeOK, Configs, Problems
<1>3. CallTypeOK
  BY DEF Init, CallTypeOK, CallerStates, Outcomes
<1>4. WorkTypeOK
  BY <1>1 DEF Init, WorkTypeOK, WorkerStates
<1>5. SlotExclusive
  BY DEF Init, SlotExclusive, OneWorker, SlotInUse
<1>6. Wiring
  BY <1>1 DEF Init, Wiring
<1>7. Signed
  BY ConstantsAssumption DEF Init, Signed
<1>8. Reads
  BY <1>1 DEF Init, Reads
<1> QED BY <1>2, <1>3, <1>4, <1>5, <1>6, <1>7, <1>8 DEF IInv, TypeOK

-----------------------------------------------------------------------------
(* Type correctness is inductive together with the rest of the invariant. *)

LEMMA HostTypes == TypeOK /\ (HostStep \/ Rotate) => TypeOK'
<1> SUFFICES ASSUME TypeOK, HostStep \/ Rotate PROVE TypeOK'
  OBVIOUS
<1>1. PluginTypeOK'
  <2>1. CASE Load
    <3>1. config \notin Tokens => config \in {"missing", "malformed"}
      BY DEF TypeOK, PluginTypeOK, Configs
    <3> QED BY <2>1, <3>1 DEF TypeOK, PluginTypeOK, Load, NoteQuiet, Quiet, Problems
  <2>2. CASE Configure
    BY <2>2 DEF TypeOK, PluginTypeOK, Configure
  <2>3. CASE Unload
    BY <2>3 DEF TypeOK, PluginTypeOK, Unload, NoteQuiet, Quiet
  <2>4. CASE Rotate
    BY <2>4 DEF TypeOK, PluginTypeOK, Rotate, pluginVars
  <2> QED BY <2>1, <2>2, <2>3, <2>4 DEF HostStep
<1>2. UNCHANGED <<callVars, workVars>>
  BY DEF HostStep, Configure, Load, Unload, Rotate
<1> QED BY <1>1, <1>2 DEF TypeOK, CallTypeOK, WorkTypeOK, callVars, workVars

LEMMA CallerTypes ==
  ASSUME TypeOK, NEW c \in Calls, CallerStep(c) \/ CtxDone(c)
  PROVE  TypeOK'
<1>1. CallTypeOK'
  <2> USE DEF TypeOK, CallTypeOK, CallerStates, Outcomes, Return, PluginTypeOK
  <2>1. CASE Command(c)
    BY <2>1 DEF Command
  <2>2. CASE Acquire(c)
    BY <2>2 DEF Acquire, Begin
  <2>3. CASE Abandon(c) \/ TimeOut(c)
    BY <2>3 DEF Abandon, TimeOut
  <2>4. CASE Receive(c)
    BY <2>4 DEF Receive
  <2>5. CASE Hold(c)
    BY <2>5 DEF Hold
  <2>6. CASE CtxDone(c)
    BY <2>6 DEF CtxDone
  <2> QED BY <2>1, <2>2, <2>3, <2>4, <2>5, <2>6 DEF CallerStep
<1>2. PluginTypeOK'
  <2> USE DEF TypeOK, PluginTypeOK, pluginVars
  <2>1. CASE Hold(c)
    <3>1. got[c].version \in Nat
      BY DEF WorkTypeOK, Answers
    <3> QED BY <2>1, <3>1 DEF Hold
  <2>2. CASE Acquire(c)
    BY <2>2 DEF Acquire, Begin
  <2>3. CASE Command(c) \/ Abandon(c) \/ Receive(c) \/ TimeOut(c) \/ CtxDone(c)
    BY <2>3 DEF Command, Abandon, Receive, TimeOut, CtxDone
  <2> QED BY <2>1, <2>2, <2>3 DEF CallerStep
<1>3. WorkTypeOK'
  <2> USE DEF TypeOK, WorkTypeOK, workVars, WorkerStates
  <2>1. CASE Acquire(c)
    BY <2>1 DEF Acquire, Begin
  <2>2. CASE Receive(c)
    BY <2>2 DEF Receive
  <2>3. CASE Command(c) \/ Abandon(c) \/ TimeOut(c) \/ Hold(c) \/ CtxDone(c)
    BY <2>3 DEF Command, Abandon, TimeOut, Hold, CtxDone
  <2> QED BY <2>1, <2>2, <2>3 DEF CallerStep
<1> QED BY <1>1, <1>2, <1>3 DEF TypeOK

LEMMA WorkerTypes ==
  ASSUME TypeOK, Signed, NEW c \in Calls, WorkerStep(c)
  PROVE  TypeOK'
<1>1. UNCHANGED callVars
  BY DEF WorkerStep, ClientFor, SignIn, Store, Resolve, DropClient, Send, Release
<1>2. PluginTypeOK'
  <2> USE DEF TypeOK, PluginTypeOK, WorkTypeOK, pluginVars
  <2>1. CASE Store(c)
    BY <2>1 DEF Store
  <2>2. CASE DropClient(c)
    BY <2>2 DEF DropClient
  <2>3. CASE Release(c)
    BY <2>3 DEF Release
  <2>4. CASE ClientFor(c) \/ SignIn(c) \/ Resolve(c) \/ Send(c)
    BY <2>4 DEF ClientFor, SignIn, Resolve, Send
  <2> QED BY <2>1, <2>2, <2>3, <2>4 DEF WorkerStep
<1>3. WorkTypeOK'
  <2>1. \A k \in Kinds, n \in Nat : [kind |-> k, version |-> n] \in Answers
    BY AnswerTyped
  <2> USE DEF TypeOK, PluginTypeOK, WorkTypeOK, WorkerStates
  <2>2. CASE ClientFor(c)
    BY <2>2 DEF ClientFor
  <2>3. CASE SignIn(c)
    BY <2>1, <2>3 DEF SignIn, Kinds
  <2>4. CASE Store(c)
    BY <2>4 DEF Store
  <2>5. CASE Resolve(c)
    <3>1. using[c] \in Calls
      BY <2>5 DEF Signed, Resolve
    <3> QED BY <2>1, <2>5, <3>1 DEF Resolve, Kinds
  <2>6. CASE DropClient(c)
    BY <2>6 DEF DropClient
  <2>7. CASE Send(c)
    BY <2>7 DEF Send
  <2>8. CASE Release(c)
    BY <2>8 DEF Release
  <2> QED BY <2>2, <2>3, <2>4, <2>5, <2>6, <2>7, <2>8 DEF WorkerStep
<1> QED BY <1>1, <1>2, <1>3 DEF TypeOK, CallTypeOK, callVars

-----------------------------------------------------------------------------
(* The slot is exclusive. *)

LEMMA SlotSteps ==
  ASSUME TypeOK, SlotExclusive, NEW c \in Calls,
         CallerStep(c) \/ WorkerStep(c) \/ CtxDone(c)
  PROVE  SlotExclusive'
<1> USE DEF TypeOK, WorkTypeOK, SlotExclusive, OneWorker, SlotInUse
<1>1. CASE Acquire(c)
  BY <1>1 DEF Acquire, Begin
<1>2. CASE Release(c)
  BY <1>2 DEF Release
<1>3. CASE Receive(c)
  BY <1>3 DEF Receive
<1>4. CASE Command(c) \/ Abandon(c) \/ TimeOut(c) \/ Hold(c) \/ CtxDone(c)
  BY <1>4 DEF Command, Abandon, TimeOut, Hold, CtxDone, workVars
<1>5. CASE ClientFor(c) \/ SignIn(c) \/ Store(c) \/ Resolve(c) \/ DropClient(c) \/ Send(c)
  <2>1. /\ busy' = busy
        /\ worker[c] # "off"
        /\ \E w \in WorkerStates \ {"off"} : worker' = [worker EXCEPT ![c] = w]
    BY <1>5 DEF ClientFor, SignIn, Store, Resolve, DropClient, Send, WorkerStates
  <2> QED BY <2>1
<1> QED BY <1>1, <1>2, <1>3, <1>4, <1>5 DEF CallerStep, WorkerStep

-----------------------------------------------------------------------------
(* Where caller and worker can be together. *)

LEMMA WiringCaller ==
  ASSUME TypeOK, Wiring, NEW c \in Calls, CallerStep(c) \/ CtxDone(c)
  PROVE  Wiring'
<1> USE DEF TypeOK, CallTypeOK, WorkTypeOK, Wiring, Return
<1>1. CASE Command(c)
  BY <1>1 DEF Command, workVars
<1>2. CASE Acquire(c)
  BY <1>2 DEF Acquire, Begin
<1>3. CASE Abandon(c)
  BY <1>3 DEF Abandon, workVars
<1>4. CASE Receive(c)
  BY <1>4 DEF Receive
<1>5. CASE TimeOut(c)
  BY <1>5 DEF TimeOut, workVars
<1>6. CASE Hold(c)
  BY <1>6 DEF Hold, workVars
<1>7. CASE CtxDone(c)
  BY <1>7 DEF CtxDone, workVars
<1> QED BY <1>1, <1>2, <1>3, <1>4, <1>5, <1>6, <1>7 DEF CallerStep

LEMMA WiringWorker ==
  ASSUME TypeOK, Wiring, NEW c \in Calls, WorkerStep(c)
  PROVE  Wiring'
<1> USE DEF TypeOK, CallTypeOK, WorkTypeOK, Wiring, callVars
<1>1. CASE ClientFor(c)
  BY <1>1 DEF ClientFor
<1>2. CASE SignIn(c)
  BY <1>2 DEF SignIn
<1>3. CASE Store(c)
  BY <1>3 DEF Store
<1>4. CASE Resolve(c)
  BY <1>4 DEF Resolve
<1>5. CASE DropClient(c)
  BY <1>5 DEF DropClient
<1>6. CASE Send(c)
  BY <1>6 DEF Send
<1>7. CASE Release(c)
  BY <1>7 DEF Release
<1> QED BY <1>1, <1>2, <1>3, <1>4, <1>5, <1>6, <1>7 DEF WorkerStep

-----------------------------------------------------------------------------
(* Clients. *)

LEMMA SignedCaller ==
  ASSUME TypeOK, Wiring, Signed, NEW c \in Calls, CallerStep(c) \/ CtxDone(c)
  PROVE  Signed'
<1>1. /\ client' = client /\ failed' = failed /\ using' = using
      /\ \A d \in Calls : HasStored(d) => HasStored(d)'
      /\ \A d \in Calls : worker'[d] # worker[d] => worker[d] = "off" /\ worker'[d] = "clientFor"
  <2> USE DEF TypeOK, CallTypeOK, WorkTypeOK, Wiring, HasStored, Return, workVars, pluginVars
  <2>1. CASE Command(c)
    BY <2>1 DEF Command
  <2>2. CASE Acquire(c)
    BY <2>2 DEF Acquire, Begin
  <2>3. CASE Abandon(c) \/ TimeOut(c)
    BY <2>3 DEF Abandon, TimeOut
  <2>4. CASE Receive(c)
    BY <2>4 DEF Receive
  <2>5. CASE Hold(c) \/ CtxDone(c)
    BY <2>5 DEF Hold, CtxDone
  <2> QED BY <2>1, <2>2, <2>3, <2>4, <2>5 DEF CallerStep
<1> QED BY <1>1 DEF Signed, TypeOK, PluginTypeOK, WorkTypeOK

LEMMA SignedWorker ==
  ASSUME TypeOK, SlotExclusive, Wiring, Signed, NEW c \in Calls, WorkerStep(c)
  PROVE  Signed'
<1> USE DEF TypeOK, PluginTypeOK, WorkTypeOK
<1>1. caller' = caller
  BY DEF WorkerStep, ClientFor, SignIn, Store, Resolve, DropClient, Send, Release, callVars
<1>2. \A d \in Calls : d # c => worker[d] = "off"
  <2>1. worker[c] # "off"
    BY DEF WorkerStep, ClientFor, SignIn, Store, Resolve, DropClient, Send, Release
  <2> QED BY <2>1 DEF SlotExclusive, OneWorker
<1>3. caller[c] \notin {"idle", "acquire"}
  BY DEF Wiring, WorkerStep, ClientFor, SignIn, Store, Resolve, DropClient, Send, Release
<1>4. CASE ClientFor(c)
  BY <1>1, <1>2, <1>4, ConstantsAssumption DEF ClientFor, Signed, HasStored, pluginVars
<1>5. CASE SignIn(c)
  BY <1>1, <1>2, <1>5 DEF SignIn, Signed, HasStored, pluginVars
<1>6. CASE Store(c)
  BY <1>1, <1>2, <1>3, <1>6 DEF Store, Signed, HasStored
<1>7. CASE Resolve(c)
  BY <1>1, <1>2, <1>7 DEF Resolve, Signed, HasStored, pluginVars
<1>8. CASE DropClient(c)
  BY <1>1, <1>2, <1>8, ConstantsAssumption DEF DropClient, Signed, HasStored
<1>9. CASE Send(c) \/ Release(c)
  BY <1>1, <1>2, <1>9 DEF Send, Release, Signed, HasStored, pluginVars
<1> QED BY <1>4, <1>5, <1>6, <1>7, <1>8, <1>9 DEF WorkerStep

-----------------------------------------------------------------------------
(* What workers read. *)

LEMMA ReadsCaller ==
  ASSUME TypeOK, Wiring, Reads, NEW c \in Calls, CallerStep(c) \/ CtxDone(c)
  PROVE  Reads'
<1> USE DEF TypeOK, CallTypeOK, PluginTypeOK, WorkTypeOK, Answers, Reads
<1>1. CASE Command(c)
  BY <1>1, AnswerTyped DEF Command, workVars, Wiring, Nothing, Kinds
<1>2. CASE Acquire(c)
  BY <1>2 DEF Acquire, Begin
<1>3. CASE Abandon(c) \/ TimeOut(c) \/ Hold(c) \/ CtxDone(c)
  BY <1>3 DEF Abandon, TimeOut, Hold, CtxDone, workVars
<1>4. CASE Receive(c)
  BY <1>4 DEF Receive
<1> QED BY <1>1, <1>2, <1>3, <1>4 DEF CallerStep

LEMMA ReadsWorker ==
  ASSUME TypeOK, Reads, NEW c \in Calls, WorkerStep(c)
  PROVE  Reads'
<1> USE DEF TypeOK, CallTypeOK, PluginTypeOK, WorkTypeOK, Reads
<1>1. asked' = asked /\ stored' = stored
  BY DEF WorkerStep, ClientFor, SignIn, Store, Resolve, DropClient, Send, Release, callVars
<1>2. CASE ClientFor(c) \/ Store(c) \/ DropClient(c) \/ Send(c) \/ Release(c)
  <2>1. got' = got
    BY <1>2 DEF ClientFor, Store, DropClient, Send, Release
  <2> QED BY <1>1, <2>1
<1>3. CASE SignIn(c)
  BY <1>1, <1>3 DEF SignIn
<1>4. CASE Resolve(c)
  BY <1>1, <1>4 DEF Resolve
<1> QED BY <1>2, <1>3, <1>4 DEF WorkerStep

-----------------------------------------------------------------------------

LEMMA HostIInv ==
  ASSUME IInv, HostStep \/ Rotate
  PROVE  IInv'
<1> USE DEF IInv
<1>1. TypeOK'
  BY HostTypes
<1>2. UNCHANGED <<callVars, workVars, busy>>
  BY DEF HostStep, Configure, Load, Unload, Rotate
<1>3. SlotExclusive' /\ Wiring'
  BY <1>2 DEF SlotExclusive, OneWorker, SlotInUse, Wiring, callVars, workVars
<1>4. Signed'
  <2>1. client' \in {client, NoCall}
    BY DEF HostStep, Configure, Load, Unload, Rotate, pluginVars
  <2>2. NoCall \notin failed
    BY ConstantsAssumption DEF TypeOK, WorkTypeOK
  <2> QED BY <1>2, <2>1, <2>2 DEF Signed, HasStored, callVars, workVars
<1>5. Reads'
  <2>1. stored' \in {stored, stored + 1}
    BY DEF HostStep, Configure, Load, Unload, Rotate
  <2> QED BY <1>2, <2>1 DEF Reads, TypeOK, PluginTypeOK, CallTypeOK, WorkTypeOK, Answers, callVars, workVars
<1> QED BY <1>1, <1>3, <1>4, <1>5

LEMMA StepIInv == IInv /\ [Next]_vars => IInv'
<1> SUFFICES ASSUME IInv, [Next]_vars PROVE IInv'
  OBVIOUS
<1>1. CASE HostStep \/ Rotate
  BY <1>1, HostIInv
<1>2. ASSUME NEW c \in Calls, CallerStep(c) \/ CtxDone(c) PROVE IInv'
  BY <1>2, CallerTypes, SlotSteps, WiringCaller, SignedCaller, ReadsCaller DEF IInv
<1>3. ASSUME NEW c \in Calls, WorkerStep(c) PROVE IInv'
  BY <1>3, WorkerTypes, SlotSteps, WiringWorker, SignedWorker, ReadsWorker DEF IInv
<1>4. CASE UNCHANGED vars
  BY <1>4 DEF vars, pluginVars, callVars, workVars, IInv, TypeOK, PluginTypeOK, CallTypeOK, WorkTypeOK,
     SlotExclusive, OneWorker, SlotInUse, Wiring, Signed, HasStored, Reads
<1> QED BY <1>1, <1>2, <1>3, <1>4 DEF Next

LEMMA Invariance == Spec => []IInv
<1> QED BY InitIInv, StepIInv, PTL DEF Spec

(* Every variable keeps its type, in every behaviour of the plugin.  It is  *)
(* not inductive alone: only the rest of the invariant says that a resolve  *)
(* that fails had a client.                                                 *)
THEOREM TypeCorrect == Spec => []TypeOK
<1>1. IInv => TypeOK
  BY DEF IInv
<1> QED BY Invariance, <1>1, PTL

(* The SDK is never entered twice at once, and the busy slot is full        *)
(* exactly while a worker runs, whichever callers gave up.                  *)
THEOREM SlotIsExclusive == Spec => []SlotExclusive
<1>1. IInv => SlotExclusive
  BY DEF IInv
<1> QED BY Invariance, <1>1, PTL

(* No resolve is sent through a client an earlier resolve failed through,   *)
(* even when the host loads and unloads while workers run.                  *)
THEOREM FailedClientStaysOut == Spec => []FailedClientNotReused
<1>1. IInv => FailedClientNotReused
  BY DEF IInv, Signed, FailedClientNotReused
<1> QED BY Invariance, <1>1, PTL

(* What a resolve returns was read from the vault after it was asked.       *)
THEOREM ValuesAreFresh == Spec => []ValueIsFresh
<1>1. IInv => ValueIsFresh
  BY DEF IInv, Wiring, Reads, ValueIsFresh
<1> QED BY Invariance, <1>1, PTL

-----------------------------------------------------------------------------
(* A host that loads and unloads only while nothing runs. *)

InFlight(c) == caller[c] \in {"acquire", "await", "hold"} \/ worker[c] # "off"

\* The loaded token is the token of everything in flight, of the client kept
\* and of every client in use.
OneToken ==
  /\ client # NoCall => snap[client] = token /\ token # NoToken
  /\ \A c \in Calls :
       /\ InFlight(c) => snap[c] = token /\ token # NoToken
       /\ worker[c] \in {"store", "resolve", "drop"} => snap[using[c]] = token

LEMMA OneTokenStep ==
  ASSUME IInv, calm => OneToken, [Next]_vars
  PROVE  calm' => OneToken'
<1> USE DEF IInv, TypeOK, PluginTypeOK, CallTypeOK, WorkTypeOK
<1> SUFFICES ASSUME calm' PROVE OneToken'
  OBVIOUS
<1>5. calm /\ OneToken
  BY DEF Next, HostStep, Configure, Load, Unload, NoteQuiet, Rotate, CallerStep, Command, Acquire, Begin,
         Abandon, Receive, TimeOut, Hold, WorkerStep, ClientFor, SignIn, Store, Resolve, DropClient, Send,
         Release, CtxDone, vars, pluginVars
<1> USE <1>5
<1>0. CASE Configure
  BY <1>0 DEF Configure, OneToken, InFlight, callVars, workVars
<1>1. CASE Load \/ Unload
  <2>1. \A c \in Calls : ~InFlight(c)
    <3>1. Quiet
      BY <1>1 DEF Load, Unload, NoteQuiet
    <3> QED BY <3>1 DEF Quiet, InFlight, CallerStates
  <2>2. UNCHANGED <<callVars, workVars>> /\ client' = NoCall
    BY <1>1 DEF Load, Unload
  <2> QED BY <2>1, <2>2 DEF OneToken, InFlight, callVars, workVars
<1>2. ASSUME NEW c \in Calls, CallerStep(c) \/ CtxDone(c) PROVE OneToken'
  <2>1. CASE Command(c)
    <3>1. client # c /\ worker[c] = "off" /\ \A d \in Calls : worker[d] \in {"store", "resolve", "drop"} => using[d] # c
      BY <2>1, ConstantsAssumption DEF Command, Signed, Wiring, HasStored
    <3>2. /\ UNCHANGED <<client, token, worker, using>>
          /\ \A d \in Calls : d # c => caller'[d] = caller[d] /\ snap'[d] = snap[d]
          /\ caller'[c] = "acquire" => snap'[c] = token /\ token # NoToken
          /\ caller'[c] \notin {"await", "hold"}
      BY <2>1 DEF Command, Return, pluginVars, workVars
    <3> QED BY <3>1, <3>2 DEF OneToken, InFlight, Signed
  <2>2. CASE Acquire(c)
    <3>1. caller[c] = "acquire" /\ snap[c] = token /\ token # NoToken
      BY <2>2 DEF Acquire, Begin, OneToken, InFlight
    <3>2. /\ UNCHANGED <<client, token, snap, using>>
          /\ \A d \in Calls : d # c => caller'[d] = caller[d] /\ worker'[d] = worker[d]
          /\ worker'[c] = "clientFor"
      BY <2>2 DEF Acquire, Begin, pluginVars
    <3> QED BY <3>1, <3>2 DEF OneToken, InFlight
  <2>3. CASE ~Command(c) /\ ~Acquire(c)
    <3>1. UNCHANGED <<client, token, snap, worker, using>>
      BY <1>2, <2>3 DEF CallerStep, Abandon, Receive, TimeOut, Hold, CtxDone, pluginVars, workVars
    <3>2. \A d \in Calls : InFlight(d)' => InFlight(d)
      BY <1>2, <2>3 DEF CallerStep, Abandon, Receive, TimeOut, Hold, CtxDone, Return, InFlight, workVars
    <3> QED BY <3>1, <3>2 DEF OneToken
  <2> QED BY <2>1, <2>2, <2>3
<1>3. ASSUME NEW c \in Calls, WorkerStep(c) PROVE OneToken'
  <2>1. UNCHANGED <<token, snap, caller>> /\ worker[c] # "off" /\ snap[c] = token /\ token # NoToken
    BY <1>3 DEF WorkerStep, ClientFor, SignIn, Store, Resolve, DropClient, Send, Release,
                pluginVars, callVars, OneToken, InFlight
  <2>2. \A d \in Calls : InFlight(d)' => InFlight(d)
    BY <1>3, <2>1 DEF WorkerStep, ClientFor, SignIn, Store, Resolve, DropClient, Send, Release, InFlight
  <2>3. client' # NoCall => snap[client'] = token
    BY <1>3 DEF WorkerStep, ClientFor, SignIn, Store, Resolve, DropClient, Send, Release, pluginVars, OneToken
  <2>4. \A d \in Calls : worker'[d] \in {"store", "resolve", "drop"} => snap[using'[d]] = token
    BY <1>3, <2>1 DEF WorkerStep, ClientFor, SignIn, Store, Resolve, DropClient, Send, Release, OneToken
  <2> QED BY <2>1, <2>2, <2>3, <2>4 DEF OneToken
<1>4. CASE Rotate \/ UNCHANGED vars
  BY <1>4 DEF Rotate, vars, pluginVars, callVars, workVars, OneToken, InFlight
<1> QED BY <1>0, <1>1, <1>2, <1>3, <1>4 DEF Next, HostStep

(* A host that loads and unloads only while nothing runs never has a        *)
(* resolve sent through a client of another token than the one it read.     *)
THEOREM QuietHostIsSafe == Spec => []ClientIsOfItsToken
<1>1. Init => (calm => OneToken)
  BY DEF Init, OneToken, InFlight
<1>2. IInv /\ (calm => OneToken) /\ [Next]_vars => (calm => OneToken)'
  BY OneTokenStep
<1>3. IInv /\ (calm => OneToken) => ClientIsOfItsToken
  BY DEF OneToken, InFlight, ClientIsOfItsToken
<1> QED BY Invariance, <1>1, <1>2, <1>3, PTL DEF Spec

-----------------------------------------------------------------------------
(* The scrubber.  A value is held before its resolve returns, and only a    *)
(* load, which no value returned so far belongs to, forgets.                *)

Scrubbed == (\A c \in Calls : heldIn[c] <= loads) /\ HeldForTheLoad

LEMMA ScrubbedStep ==
  ASSUME IInv, Scrubbed, [Next]_vars
  PROVE  Scrubbed'
<1> USE DEF IInv, TypeOK, PluginTypeOK, CallTypeOK, WorkTypeOK, Scrubbed, HeldForTheLoad
<1>1. CASE Load
  <2>1. loads' = loads + 1 /\ UNCHANGED <<outcome, heldIn, got>>
    BY <1>1 DEF Load, callVars, workVars
  <2> QED BY <2>1
<1>2. CASE Configure \/ Unload \/ Rotate \/ UNCHANGED vars
  BY <1>2 DEF Configure, Unload, Rotate, vars, pluginVars, callVars, workVars
<1>3. ASSUME NEW c \in Calls, Hold(c) PROVE Scrubbed'
  BY <1>3 DEF Hold, Return, workVars
<1>4. ASSUME NEW c \in Calls, CallerStep(c) \/ CtxDone(c), ~Hold(c) PROVE Scrubbed'
  <2>1. /\ UNCHANGED <<heldIn, loads, held, got>>
        /\ \A d \in Calls : outcome'[d] = "value" => outcome[d] = "value"
    BY <1>4 DEF CallerStep, Command, Acquire, Begin, Abandon, Receive, TimeOut, CtxDone, Return,
                workVars, pluginVars
  <2> QED BY <2>1
<1>5. ASSUME NEW c \in Calls, WorkerStep(c) PROVE Scrubbed'
  <2>1. /\ UNCHANGED <<heldIn, loads, held, outcome>>
        /\ \A d \in Calls : got'[d] # got[d] => worker[d] \in {"signIn", "resolve"}
    BY <1>5 DEF WorkerStep, ClientFor, SignIn, Store, Resolve, DropClient, Send, Release,
                pluginVars, callVars
  <2>2. \A d \in Calls : outcome[d] = "value" => got'[d] = got[d]
    BY <2>1 DEF Wiring
  <2> QED BY <2>1, <2>2
<1> QED BY <1>1, <1>2, <1>3, <1>4, <1>5 DEF Next, HostStep

(* What a load handed out is known to its scrubber, however resolves        *)
(* overlap; and of a load that is over, with nothing running under the      *)
(* unload, no client is left.                                               *)
THEOREM LoadsStayApart == Spec => []LoadsAreApart
<1>1. Init => Scrubbed /\ (calm => OneToken)
  BY DEF Init, Scrubbed, HeldForTheLoad, OneToken, InFlight
<1>2. IInv /\ Scrubbed /\ (calm => OneToken) /\ [Next]_vars => Scrubbed' /\ (calm => OneToken)'
  BY ScrubbedStep, OneTokenStep
<1>3. IInv /\ Scrubbed /\ (calm => OneToken) => LoadsAreApart
  BY DEF Scrubbed, OneToken, LoadsAreApart, UnloadedIsSignedOut, Configured
<1> QED BY Invariance, <1>1, <1>2, <1>3, PTL DEF Spec

-----------------------------------------------------------------------------
(* The plugin implements the abstract secret backend. *)

Owner(w) == IF \E c \in Calls : w[c] # "off" THEN CHOOSE c \in Calls : w[c] # "off" ELSE NoCall

LEMMA OwnerIs ==
  ASSUME NEW w, NEW c \in Calls, w[c] # "off",
         \A x, y \in Calls : w[x] # "off" /\ w[y] # "off" => x = y
  PROVE  Owner(w) = c
<1>1. w[CHOOSE x \in Calls : w[x] # "off"] # "off" /\ (CHOOSE x \in Calls : w[x] # "off") \in Calls
  OBVIOUS
<1> QED BY <1>1 DEF Owner

LEMMA OwnerNone ==
  ASSUME NEW w, \A x \in Calls : w[x] = "off"
  PROVE  Owner(w) = NoCall
  BY DEF Owner

LEMMA SlotOwnerIs == SlotOwner = Owner(worker) /\ SlotOwner' = Owner(worker')
  BY DEF SlotOwner, Owner

\* What the abstract variables depend on.
LEMMA AbstractUnchanged ==
  ASSUME UNCHANGED <<stored, asked, caller, outcome, got>>, SlotOwner' = SlotOwner
  PROVE  UNCHANGED Backend!vars
  BY DEF Backend!vars, PhaseOf, ReadBy, ValueOf

LEMMA CallerRefines ==
  ASSUME IInv, IInv', NEW c \in Calls, CallerStep(c) \/ CtxDone(c)
  PROVE  Backend!Next \/ UNCHANGED Backend!vars
<1> USE DEF IInv, TypeOK, PluginTypeOK, CallTypeOK, WorkTypeOK
<1>1. \A d \in Calls : outcome[d] # "none" <=> caller[d] = "returned"
  BY DEF Wiring
<1>2. CASE Command(c)
  <2>1. /\ SlotOwner' = SlotOwner /\ got' = got /\ stored' = stored
        /\ asked' = [asked EXCEPT ![c] = stored]
        /\ caller[c] = "idle" /\ caller' \in [Calls -> CallerStates]
        /\ \A d \in Calls : d # c => caller'[d] = caller[d] /\ outcome'[d] = outcome[d]
        /\ outcome[c] # "value" /\ outcome'[c] # "value"
        /\ caller'[c] = "acquire" \/ caller'[c] = "returned"
    BY <1>1, <1>2, SlotOwnerIs DEF Command, Return, workVars
  <2>2. [d \in Calls |-> ReadBy(d)]' = [d \in Calls |-> ReadBy(d)]
    BY <2>1 DEF ReadBy
  <2>3. [d \in Calls |-> ValueOf(d)]' = [d \in Calls |-> ValueOf(d)]
    BY <2>1 DEF ValueOf
  <2>4. [d \in Calls |-> PhaseOf(d)]' = [[d \in Calls |-> PhaseOf(d)] EXCEPT
             ![c] = IF caller'[c] = "returned" THEN "failed" ELSE "pending"]
    BY <2>1 DEF PhaseOf
  <2>5. PhaseOf(c) = "idle"
    BY <2>1 DEF PhaseOf
  <2>6. Backend!Ask(c, caller'[c] = "returned")
    BY <2>1, <2>2, <2>3, <2>4, <2>5 DEF Backend!Ask
  <2>7. (caller'[c] = "returned") \in BOOLEAN
    OBVIOUS
  <2> QED BY <2>6, <2>7 DEF Backend!Next
<1>3. CASE Acquire(c)
  <2>1. /\ UNCHANGED <<stored, asked, got, outcome>>
        /\ caller[c] = "acquire" /\ caller' = [caller EXCEPT ![c] = "await"]
        /\ worker' = [worker EXCEPT ![c] = "clientFor"]
        /\ \A d \in Calls : worker[d] = "off"
    BY <1>3 DEF Acquire, Begin, SlotExclusive, SlotInUse
  <2>2. SlotOwner = NoCall /\ SlotOwner' = c
    <3>1. worker'[c] # "off" /\ \A x, y \in Calls : worker'[x] # "off" /\ worker'[y] # "off" => x = y
      BY <2>1
    <3> QED BY <2>1, <3>1, OwnerIs, OwnerNone, SlotOwnerIs
  <2>3. /\ UNCHANGED <<[d \in Calls |-> ReadBy(d)], [d \in Calls |-> ValueOf(d)]>>
        /\ [d \in Calls |-> PhaseOf(d)]' = [d \in Calls |-> PhaseOf(d)]
        /\ PhaseOf(c) = "pending"
    BY <1>1, <2>1 DEF ReadBy, ValueOf, PhaseOf
  <2>4. Backend!Take(c)
    BY <2>1, <2>2, <2>3 DEF Backend!Take
  <2> QED BY <2>4 DEF Backend!Next
<1>4. CASE Abandon(c) \/ TimeOut(c) \/ (Receive(c) /\ outcome'[c] # "none")
  <2>1. /\ UNCHANGED <<stored, asked, got, worker>>
        /\ caller[c] \in {"acquire", "await"}
        /\ caller' = [caller EXCEPT ![c] = "returned"]
        /\ \E r \in {"abandoned", "timeout", "failed"} : outcome' = [outcome EXCEPT ![c] = r]
    BY <1>1, <1>4 DEF Abandon, TimeOut, Receive, Return, workVars
  <2>2. SlotOwner' = SlotOwner
    BY <2>1, SlotOwnerIs
  <2>3. /\ [d \in Calls |-> ReadBy(d)]' = [d \in Calls |-> ReadBy(d)]
        /\ [d \in Calls |-> ValueOf(d)]' = [d \in Calls |-> ValueOf(d)]
    BY <1>1, <2>1 DEF ReadBy, ValueOf
  <2>4. /\ [d \in Calls |-> PhaseOf(d)]' = [[d \in Calls |-> PhaseOf(d)] EXCEPT ![c] = "failed"]
        /\ PhaseOf(c) = "pending"
    BY <1>1, <2>1 DEF PhaseOf
  <2>5. Backend!Fail(c)
    BY <2>1, <2>2, <2>3, <2>4 DEF Backend!Fail
  <2> QED BY <2>5 DEF Backend!Next
<1>5. CASE Receive(c) /\ outcome'[c] = "none"
  <2>1. /\ UNCHANGED <<stored, asked, got, outcome, worker>>
        /\ caller[c] = "await" /\ caller' = [caller EXCEPT ![c] = "hold"]
    BY <1>5 DEF Receive, Return
  <2>2. SlotOwner' = SlotOwner
    BY <2>1, SlotOwnerIs
  <2>3. [d \in Calls |-> PhaseOf(d)]' = [d \in Calls |-> PhaseOf(d)]
    BY <2>1 DEF PhaseOf
  <2> QED BY <2>1, <2>2, <2>3 DEF Backend!vars, ReadBy, ValueOf
<1>6. CASE Hold(c)
  <2>1. /\ UNCHANGED <<stored, asked, got, worker>>
        /\ caller[c] = "hold" /\ got[c].kind = "value" /\ got[c].version # 0
        /\ caller' = [caller EXCEPT ![c] = "returned"]
        /\ outcome' = [outcome EXCEPT ![c] = "value"]
    BY <1>6 DEF Hold, Return, workVars, Wiring, Reads, Answers
  <2>2. SlotOwner' = SlotOwner
    BY <2>1, SlotOwnerIs
  <2>3. [d \in Calls |-> ReadBy(d)]' = [d \in Calls |-> ReadBy(d)] /\ ReadBy(c) # 0
    BY <2>1 DEF ReadBy
  <2>4. [d \in Calls |-> ValueOf(d)]' = [[d \in Calls |-> ValueOf(d)] EXCEPT ![c] = ReadBy(c)]
    BY <2>1 DEF ReadBy, ValueOf
  <2>5. /\ [d \in Calls |-> PhaseOf(d)]' = [[d \in Calls |-> PhaseOf(d)] EXCEPT ![c] = "served"]
        /\ PhaseOf(c) = "pending"
    BY <1>1, <2>1 DEF PhaseOf
  <2>6. Backend!Serve(c)
    BY <2>1, <2>2, <2>3, <2>4, <2>5 DEF Backend!Serve
  <2> QED BY <2>6 DEF Backend!Next
<1>7. CASE CtxDone(c)
  <2>1. UNCHANGED <<stored, asked, caller, outcome, got>> /\ SlotOwner' = SlotOwner
    BY <1>7, SlotOwnerIs DEF CtxDone, workVars
  <2> QED BY <2>1, AbstractUnchanged
<1> QED BY <1>2, <1>3, <1>4, <1>5, <1>6, <1>7 DEF CallerStep

LEMMA WorkerRefines ==
  ASSUME IInv, IInv', NEW c \in Calls, WorkerStep(c)
  PROVE  Backend!Next \/ UNCHANGED Backend!vars
<1> USE DEF IInv, TypeOK, PluginTypeOK, CallTypeOK, WorkTypeOK
<1>1. /\ UNCHANGED <<stored, asked, caller, outcome>>
      /\ worker[c] # "off"
      /\ \A x, y \in Calls : worker[x] # "off" /\ worker[y] # "off" => x = y
      /\ \A x, y \in Calls : worker'[x] # "off" /\ worker'[y] # "off" => x = y
  BY DEF WorkerStep, ClientFor, SignIn, Store, Resolve, DropClient, Send, Release, callVars,
         SlotExclusive, OneWorker
<1>2. SlotOwner = c
  BY <1>1, OwnerIs, SlotOwnerIs
<1>3. worker'[c] # "off" => SlotOwner' = c
  BY <1>1, OwnerIs, SlotOwnerIs
<1>4. [d \in Calls |-> PhaseOf(d)]' = [d \in Calls |-> PhaseOf(d)]
  BY <1>1 DEF PhaseOf
<1>5. CASE ClientFor(c) \/ Store(c) \/ DropClient(c) \/ Send(c)
  <2>1. got' = got /\ worker'[c] # "off"
    BY <1>5 DEF ClientFor, Store, DropClient, Send
  <2> QED BY <1>1, <1>2, <1>3, <2>1, AbstractUnchanged
<1>6. CASE SignIn(c) \/ (Resolve(c) /\ got'[c].kind # "value")
  <2>1. worker'[c] # "off" /\ \A d \in Calls : d # c => got'[d] = got[d]
    BY <1>6 DEF SignIn, Resolve
  <2>2. got[c].version = 0 /\ got'[c].version = 0
    BY <1>6 DEF SignIn, Resolve, Wiring, Nothing, Reads
  <2>3. /\ [d \in Calls |-> ReadBy(d)]' = [d \in Calls |-> ReadBy(d)]
        /\ [d \in Calls |-> ValueOf(d)]' = [d \in Calls |-> ValueOf(d)]
    BY <1>1, <2>1, <2>2 DEF ReadBy, ValueOf
  <2> QED BY <1>1, <1>2, <1>3, <1>4, <2>1, <2>3 DEF Backend!vars
<1>7. CASE Resolve(c) /\ got'[c].kind = "value"
  <2>1. /\ worker[c] = "resolve" /\ worker'[c] # "off"
        /\ got' = [got EXCEPT ![c] = [kind |-> "value", version |-> stored]]
    BY <1>7 DEF Resolve
  <2>2. outcome[c] # "value"
    BY <2>1 DEF Wiring
  <2>3. [d \in Calls |-> ReadBy(d)]' = [[d \in Calls |-> ReadBy(d)] EXCEPT ![c] = stored]
    BY <2>1 DEF ReadBy
  <2>4. [d \in Calls |-> ValueOf(d)]' = [d \in Calls |-> ValueOf(d)]
    BY <1>1, <2>1, <2>2 DEF ValueOf
  <2>5. Backend!Read(c)
    BY <1>1, <1>2, <1>3, <1>4, <2>1, <2>3, <2>4 DEF Backend!Read
  <2> QED BY <2>5 DEF Backend!Next
<1>8. CASE Release(c)
  <2>1. /\ got' = got
        /\ \A d \in Calls : worker'[d] = "off"
    BY <1>1, <1>8 DEF Release
  <2>2. SlotOwner' = NoCall
    BY <2>1, OwnerNone, SlotOwnerIs
  <2>3. /\ [d \in Calls |-> ReadBy(d)]' = [d \in Calls |-> ReadBy(d)]
        /\ [d \in Calls |-> ValueOf(d)]' = [d \in Calls |-> ValueOf(d)]
    BY <1>1, <2>1 DEF ReadBy, ValueOf
  <2>4. Backend!Free
    BY <1>1, <1>2, <1>4, <2>2, <2>3, ConstantsAssumption DEF Backend!Free
  <2> QED BY <2>4 DEF Backend!Next
<1> QED BY <1>5, <1>6, <1>7, <1>8 DEF WorkerStep

(* The plugin implements SecretBackend: every resolve is answered at most   *)
(* once, with a failure or with a value its own SDK call read while it held *)
(* the slot alone.                                                          *)
THEOREM PluginImplementsBackend == Spec => ImplementsBackend
<1>1. Init => Backend!Init
  <2> SUFFICES ASSUME Init PROVE Backend!Init
    OBVIOUS
  <2>1. SlotOwner = NoCall
    BY OwnerNone, SlotOwnerIs DEF Init
  <2>2. \A c \in Calls : PhaseOf(c) = "idle" /\ ReadBy(c) = 0 /\ ValueOf(c) = 0
    BY DEF Init, PhaseOf, ReadBy, ValueOf, Nothing
  <2> QED BY <2>1, <2>2 DEF Init, Backend!Init
<1>2. IInv /\ IInv' /\ [Next]_vars => [Backend!Next]_(Backend!vars)
  <2> SUFFICES ASSUME IInv, IInv', [Next]_vars PROVE Backend!Next \/ UNCHANGED Backend!vars
    OBVIOUS
  <2>1. CASE HostStep
    <3>1. UNCHANGED <<stored, asked, caller, outcome, got>> /\ SlotOwner' = SlotOwner
      BY <2>1, SlotOwnerIs DEF HostStep, Configure, Load, Unload, callVars, workVars
    <3> QED BY <3>1, AbstractUnchanged
  <2>2. CASE Rotate
    <3>1. stored' = stored + 1 /\ UNCHANGED <<asked, caller, outcome, got>> /\ SlotOwner' = SlotOwner
      BY <2>2, SlotOwnerIs DEF Rotate, callVars, workVars
    <3>2. Backend!Rotate
      BY <3>1 DEF Backend!Rotate, PhaseOf, ReadBy, ValueOf
    <3> QED BY <3>2 DEF Backend!Next
  <2>3. CASE UNCHANGED vars
    <3>1. UNCHANGED <<stored, asked, caller, outcome, got>> /\ SlotOwner' = SlotOwner
      BY <2>3, SlotOwnerIs DEF vars, callVars, workVars
    <3> QED BY <3>1, AbstractUnchanged
  <2> QED BY <2>1, <2>2, <2>3, CallerRefines, WorkerRefines DEF Next
<1> QED BY <1>1, <1>2, Invariance, PTL DEF Spec, ImplementsBackend, Backend!Spec

=============================================================================
