---------------------------- MODULE KeeperProofs ----------------------------
(***************************************************************************)
(* Proofs about Keeper for every set of resolves and configurations, every *)
(* number of loads and rotations.                                          *)
(*                                                                         *)
(* The inductive invariant has one part per idea:                          *)
(*   SlotExclusive  one worker, and the slot is full exactly while it runs *)
(*   Wiring         where caller and worker of one resolve can be together *)
(*   Reads          what a worker has to say was read since it was asked   *)
(*   Anchored       a usable handle is the vault of the load it is from    *)
(*   Scrubbed       what was handed out under this load is held            *)
(***************************************************************************)
EXTENDS Keeper, TLAPS

Answers == [kind : Kinds, version : Nat]

Wiring ==
  \A c \in Calls :
    /\ caller[c] \in {"idle", "acquire"} => worker[c] = "off" /\ got[c] = Nothing /\ ~sent[c]
    /\ worker[c] = "ask" => got[c] = Nothing /\ ~sent[c]
    /\ worker[c] = "send" => ~sent[c]
    /\ caller[c] = "hold" => worker[c] \in {"release", "off"} /\ got[c].kind = "one"
    /\ sent[c] => worker[c] \in {"release", "off"}
    /\ outcome[c] # "none" <=> caller[c] = "returned"
    /\ outcome[c] = "value" => worker[c] \in {"release", "off"} /\ got[c].kind = "one"

Reads ==
  /\ stored >= 1
  /\ \A c \in Calls :
       /\ asked[c] <= stored
       /\ IF got[c].kind \in {"one", "many"}
          THEN got[c].version >= 1 /\ got[c].version \in asked[c]..stored
          ELSE got[c].version = 0

Anchored ==
  /\ vault \in Bound => vault = loaded
  /\ \A c \in Calls :
       /\ askedIn[c] <= loads
       /\ caller[c] = "idle" => snap[c] = NoVault
       /\ caller[c] = "acquire" \/ worker[c] # "off" => snap[c] # NoVault
       /\ snap[c] \in Bound /\ askedIn[c] = loads => snap[c] = loaded

Scrubbed == (\A c \in Calls : heldIn[c] <= loads) /\ HeldForTheLoad

IInv == TypeOK /\ SlotExclusive /\ Wiring /\ Reads /\ Anchored /\ Scrubbed

LEMMA AnswerTyped ==
  ASSUME NEW k \in Kinds, NEW n \in Nat
  PROVE  /\ [kind |-> k, version |-> n] \in Answers
         /\ [kind |-> k, version |-> n].kind = k
         /\ [kind |-> k, version |-> n].version = n
  BY DEF Answers

(* At the start every part of the invariant holds. *)
LEMMA InitIInv == Init => IInv
<1> SUFFICES ASSUME Init PROVE IInv
  OBVIOUS
<1>1. Nothing \in Answers /\ Nothing.kind = "none" /\ Nothing.version = 0
  BY AnswerTyped DEF Nothing, Kinds
<1>2. TypeOK
  BY <1>1 DEF Init, TypeOK, Configs, Unusable, Handles, Problems, CallerStates, WorkerStates,
              Outcomes, Answers
<1>3. SlotExclusive /\ Wiring
  BY <1>1 DEF Init, SlotExclusive, OneWorker, SlotInUse, Wiring
<1>4. Reads /\ Scrubbed
  BY <1>1 DEF Init, Reads, Scrubbed, HeldForTheLoad
<1>5. Anchored
  BY ConstantsAssumption DEF Init, Anchored
<1> QED BY <1>2, <1>3, <1>4, <1>5 DEF IInv

-----------------------------------------------------------------------------
(* The host loads and unloads; somebody rotates the secret.                 *)

LEMMA LoadTypes ==
  ASSUME TypeOK, Load
  PROVE  /\ TypeOK'
         /\ vault' \in Bound => vault' = loaded'
<1> USE DEF TypeOK, Load, callVars, workVars
<1>1. CASE config \in Unusable
  <2>1. vault' = NoVault /\ problem' = config
    BY <1>1, ConstantsAssumption
  <2> QED BY <1>1, <2>1, ConstantsAssumption DEF Problems, Handles
<1>2. CASE config \in Bound
  <2>1. vault' = config /\ problem' = "none"
    BY <1>2, ConstantsAssumption DEF NewVault
  <2> QED BY <1>2, <2>1 DEF Problems, Handles
<1>3. CASE config \in Refused
  <2>1. vault' = RefusedVault /\ problem' = "refused"
    BY <1>3, ConstantsAssumption DEF NewVault
  <2> QED BY <1>3, <2>1, ConstantsAssumption DEF Problems, Handles
<1> QED BY <1>1, <1>2, <1>3 DEF Configs

LEMMA HostIInv == IInv /\ (HostStep \/ Rotate) => IInv'
<1> SUFFICES ASSUME IInv, HostStep \/ Rotate PROVE IInv'
  OBVIOUS
<1> USE DEF IInv
<1>1. CASE Load
  <2>1. loads' = loads + 1 /\ UNCHANGED <<callVars, workVars, busy, stored>>
    BY <1>1 DEF Load
  <2>2. TypeOK' /\ (vault' \in Bound => vault' = loaded')
    BY <1>1, LoadTypes
  <2>3. SlotExclusive' /\ Wiring' /\ Reads'
    BY <2>1 DEF SlotExclusive, OneWorker, SlotInUse, Wiring, Reads, callVars, workVars
  <2>4. Anchored' /\ Scrubbed'
    BY <2>1, <2>2 DEF Anchored, Scrubbed, HeldForTheLoad, TypeOK, callVars, workVars
  <2> QED BY <2>2, <2>3, <2>4
<1>2. CASE Configure \/ Unload \/ Rotate
  <2>1. /\ UNCHANGED <<callVars, workVars, busy, up, held, loads, loaded, problem>>
        /\ config' \in Configs /\ vault' \in {vault, NoVault}
        /\ stored' \in {stored, stored + 1}
    BY <1>2 DEF Configure, Unload, Rotate, loadVars, TypeOK
  <2>2. TypeOK'
    BY <2>1 DEF TypeOK, Handles, callVars, workVars
  <2>3. SlotExclusive' /\ Wiring' /\ Scrubbed'
    BY <2>1 DEF SlotExclusive, OneWorker, SlotInUse, Wiring, Scrubbed, HeldForTheLoad, callVars, workVars
  <2>4. Reads'
    BY <2>1 DEF Reads, TypeOK, Answers, callVars, workVars
  <2>5. Anchored'
    BY <2>1, ConstantsAssumption DEF Anchored, callVars, workVars
  <2> QED BY <2>2, <2>3, <2>4, <2>5
<1> QED BY <1>1, <1>2 DEF HostStep

-----------------------------------------------------------------------------
(* Callers and workers, part by part. *)

LEMMA CallerTypes ==
  ASSUME TypeOK, NEW c \in Calls, CallerStep(c) \/ CtxDone(c)
  PROVE  TypeOK'
<1> USE DEF TypeOK, CallerStates, WorkerStates, Outcomes, Return, loadVars, workVars, Answers
<1>1. CASE Command(c)
  <2>1. caller' \in [Calls -> CallerStates] /\ outcome' \in [Calls -> Outcomes] /\ snap' \in [Calls -> Handles]
    <3>1. \/ \E r \in {"invalid_args", "credential_missing"} :
               Return(c, r) /\ snap' = snap
          \/ /\ snap' = [snap EXCEPT ![c] = vault]
             /\ caller' = [caller EXCEPT ![c] = "acquire"] /\ outcome' = outcome
      BY <1>1 DEF Command
    <3>2. ASSUME NEW r \in {"invalid_args", "credential_missing"}, Return(c, r), snap' = snap
          PROVE  caller' \in [Calls -> CallerStates] /\ outcome' \in [Calls -> Outcomes]
      BY <3>2
    <3>3. CASE /\ snap' = [snap EXCEPT ![c] = vault]
               /\ caller' = [caller EXCEPT ![c] = "acquire"] /\ outcome' = outcome
      BY <3>3
    <3> QED BY <3>1, <3>2, <3>3
  <2>2. /\ asked' \in [Calls -> Nat] /\ askedIn' \in [Calls -> Nat]
        /\ UNCHANGED <<loadVars, held, workVars, done, heldIn, busy, up, stored>>
    BY <1>1 DEF Command
  <2> QED BY <2>1, <2>2
<1>2. CASE Acquire(c)
  BY <1>2 DEF Acquire, Begin
<1>3. CASE Abandon(c) \/ TimeOut(c)
  BY <1>3 DEF Abandon, TimeOut
<1>4. CASE Receive(c)
  BY <1>4 DEF Receive
<1>5. CASE Hold(c)
  <2>1. got[c].version \in Nat
    OBVIOUS
  <2> QED BY <1>5, <2>1 DEF Hold
<1>6. CASE CtxDone(c)
  BY <1>6 DEF CtxDone
<1> QED BY <1>1, <1>2, <1>3, <1>4, <1>5, <1>6 DEF CallerStep

LEMMA WorkerTypes ==
  ASSUME TypeOK, NEW c \in Calls, WorkerStep(c)
  PROVE  TypeOK'
<1> USE DEF TypeOK, WorkerStates, loadVars, callVars
<1>1. CASE Ask(c)
  <2>1. got' = got \/ \E k \in Kinds, n \in Nat : got' = [got EXCEPT ![c] = [kind |-> k, version |-> n]]
    BY <1>1 DEF Ask, Kinds
  <2>2. got' \in [Calls -> [kind : Kinds, version : Nat]]
    BY <2>1, AnswerTyped DEF Answers
  <2>3. worker' \in [Calls -> WorkerStates] /\ up' \in BOOLEAN
    BY <1>1 DEF Ask
  <2> QED BY <1>1, <2>2, <2>3 DEF Ask
<1>2. CASE Send(c) \/ Release(c)
  BY <1>2 DEF Send, Release
<1> QED BY <1>1, <1>2 DEF WorkerStep

LEMMA SlotSteps ==
  ASSUME TypeOK, SlotExclusive, NEW c \in Calls,
         CallerStep(c) \/ WorkerStep(c) \/ CtxDone(c)
  PROVE  SlotExclusive'
<1> USE DEF TypeOK, SlotExclusive, OneWorker, SlotInUse
<1>1. CASE Acquire(c)
  BY <1>1 DEF Acquire, Begin
<1>2. CASE Release(c)
  BY <1>2 DEF Release
<1>3. CASE Receive(c)
  BY <1>3 DEF Receive
<1>4. CASE Command(c) \/ Abandon(c) \/ TimeOut(c) \/ Hold(c) \/ CtxDone(c)
  BY <1>4 DEF Command, Abandon, TimeOut, Hold, CtxDone, workVars
<1>5. CASE Ask(c) \/ Send(c)
  <2>1. /\ busy' = busy
        /\ worker[c] # "off"
        /\ \E w \in WorkerStates \ {"off"} : worker' = [worker EXCEPT ![c] = w]
    BY <1>5 DEF Ask, Send, WorkerStates
  <2> QED BY <2>1
<1> QED BY <1>1, <1>2, <1>3, <1>4, <1>5 DEF CallerStep, WorkerStep

LEMMA WiringCaller ==
  ASSUME TypeOK, Wiring, NEW c \in Calls, CallerStep(c) \/ CtxDone(c)
  PROVE  Wiring'
<1> USE DEF TypeOK, Wiring, Return
<1>1. CASE Command(c)
  BY <1>1 DEF Command, workVars
<1>2. CASE Acquire(c)
  BY <1>2 DEF Acquire, Begin
<1>3. CASE Abandon(c)
  BY <1>3 DEF Abandon, workVars
<1>4. CASE Receive(c)
  BY <1>4 DEF Receive
<1>5. CASE TimeOut(c)
  BY <1>5 DEF TimeOut, workVars
<1>6. CASE Hold(c)
  BY <1>6 DEF Hold, workVars
<1>7. CASE CtxDone(c)
  BY <1>7 DEF CtxDone, workVars
<1> QED BY <1>1, <1>2, <1>3, <1>4, <1>5, <1>6, <1>7 DEF CallerStep

LEMMA WiringWorker ==
  ASSUME TypeOK, Wiring, NEW c \in Calls, WorkerStep(c)
  PROVE  Wiring'
<1> USE DEF TypeOK, Wiring, callVars
<1>1. CASE Ask(c)
  <2>1. /\ UNCHANGED <<caller, outcome, sent>> /\ worker[c] = "ask"
        /\ \A d \in Calls \ {c} : got'[d] = got[d] /\ worker'[d] = worker[d]
        /\ \/ worker'[c] = "send"
           \/ worker'[c] = "ask" /\ got'[c] = got[c]
    BY <1>1 DEF Ask
  <2> QED BY <2>1
<1>2. CASE Send(c)
  BY <1>2 DEF Send
<1>3. CASE Release(c)
  BY <1>3 DEF Release
<1> QED BY <1>1, <1>2, <1>3 DEF WorkerStep

LEMMA ReadsCaller ==
  ASSUME TypeOK, Wiring, Reads, NEW c \in Calls, CallerStep(c) \/ CtxDone(c)
  PROVE  Reads'
<1> USE DEF TypeOK, Reads
<1>1. CASE Command(c)
  BY <1>1, AnswerTyped DEF Command, workVars, Wiring, Nothing, Kinds
<1>2. CASE Acquire(c)
  BY <1>2 DEF Acquire, Begin
<1>3. CASE Abandon(c) \/ TimeOut(c) \/ Hold(c) \/ CtxDone(c)
  BY <1>3 DEF Abandon, TimeOut, Hold, CtxDone, workVars
<1>4. CASE Receive(c)
  BY <1>4 DEF Receive
<1> QED BY <1>1, <1>2, <1>3, <1>4 DEF CallerStep

LEMMA ReadsWorker ==
  ASSUME TypeOK, Reads, NEW c \in Calls, WorkerStep(c)
  PROVE  Reads'
<1> USE DEF TypeOK, Reads, callVars
<1>1. CASE Ask(c)
  <2>1. /\ UNCHANGED <<asked, stored>>
        /\ \/ \E k \in {"one", "many"} : got' = [got EXCEPT ![c] = [kind |-> k, version |-> stored]]
           \/ \E k \in {"empty", "error"} : got' = [got EXCEPT ![c] = [kind |-> k, version |-> 0]]
           \/ got' = got
    BY <1>1 DEF Ask
  <2>2. CASE \E k \in {"one", "many"} : got' = [got EXCEPT ![c] = [kind |-> k, version |-> stored]]
    BY <2>1, <2>2
  <2>3. CASE \E k \in {"empty", "error"} : got' = [got EXCEPT ![c] = [kind |-> k, version |-> 0]]
    BY <2>1, <2>3
  <2> QED BY <2>1, <2>2, <2>3
<1>2. CASE Send(c) \/ Release(c)
  BY <1>2 DEF Send, Release
<1> QED BY <1>1, <1>2 DEF WorkerStep

LEMMA AnchoredSteps ==
  ASSUME TypeOK, Anchored, NEW c \in Calls, CallerStep(c) \/ WorkerStep(c) \/ CtxDone(c)
  PROVE  Anchored'
<1> USE DEF TypeOK, Anchored, loadVars
<1>1. CASE Command(c)
  <2>1. /\ UNCHANGED <<vault, loads, loaded, worker>> /\ caller[c] = "idle"
        /\ askedIn' = [askedIn EXCEPT ![c] = loads]
        /\ \A d \in Calls \ {c} : caller'[d] = caller[d] /\ snap'[d] = snap[d]
        /\ \/ caller'[c] = "returned" /\ snap'[c] = NoVault
           \/ caller'[c] = "acquire" /\ snap'[c] = vault /\ vault # NoVault
    BY <1>1 DEF Command, Return, workVars
  <2> QED BY <2>1, ConstantsAssumption
<1>2. CASE Acquire(c)
  BY <1>2 DEF Acquire, Begin
<1>3. CASE Abandon(c) \/ Receive(c) \/ TimeOut(c) \/ Hold(c) \/ CtxDone(c)
  <2>1. /\ UNCHANGED <<vault, loads, loaded, askedIn, snap, worker>>
        /\ \A d \in Calls : caller'[d] \in {"idle", "acquire"} => caller'[d] = caller[d]
    BY <1>3 DEF Abandon, Receive, TimeOut, Hold, CtxDone, Return, workVars
  <2> QED BY <2>1
<1>4. CASE WorkerStep(c)
  <2>1. /\ UNCHANGED <<vault, loads, loaded, askedIn, snap, caller>>
        /\ \A d \in Calls : worker'[d] # "off" => worker[d] # "off"
    BY <1>4 DEF WorkerStep, Ask, Send, Release, callVars
  <2> QED BY <2>1
<1> QED BY <1>1, <1>2, <1>3, <1>4 DEF CallerStep

LEMMA ScrubbedSteps ==
  ASSUME TypeOK, Wiring, Scrubbed, NEW c \in Calls, CallerStep(c) \/ WorkerStep(c) \/ CtxDone(c)
  PROVE  Scrubbed'
<1> USE DEF TypeOK, Scrubbed, HeldForTheLoad
<1>1. CASE Hold(c)
  BY <1>1 DEF Hold, Return, workVars, loadVars
<1>2. CASE ~Hold(c) /\ (CallerStep(c) \/ CtxDone(c))
  <2>1. /\ UNCHANGED <<heldIn, loads, held, got>>
        /\ \A d \in Calls : outcome'[d] = "value" => outcome[d] = "value"
    BY <1>2 DEF CallerStep, Command, Acquire, Begin, Abandon, Receive, TimeOut, CtxDone, Return,
                workVars, loadVars
  <2> QED BY <2>1
<1>3. CASE WorkerStep(c)
  <2>1. /\ UNCHANGED <<heldIn, loads, held, outcome>>
        /\ \A d \in Calls : got'[d] # got[d] => worker[d] = "ask"
    BY <1>3 DEF WorkerStep, Ask, Send, Release, loadVars, callVars
  <2>2. \A d \in Calls : outcome[d] = "value" => got'[d] = got[d]
    BY <2>1 DEF Wiring
  <2> QED BY <2>1, <2>2
<1> QED BY <1>1, <1>2, <1>3

-----------------------------------------------------------------------------
LEMMA StepIInv == IInv /\ [Next]_vars => IInv'
<1> SUFFICES ASSUME IInv, [Next]_vars PROVE IInv'
  OBVIOUS
<1>1. CASE HostStep \/ Rotate
  BY <1>1, HostIInv
<1>2. ASSUME NEW c \in Calls, CallerStep(c) \/ CtxDone(c) PROVE IInv'
  BY <1>2, CallerTypes, SlotSteps, WiringCaller, ReadsCaller, AnchoredSteps, ScrubbedSteps DEF IInv
<1>3. ASSUME NEW c \in Calls, WorkerStep(c) PROVE IInv'
  BY <1>3, WorkerTypes, SlotSteps, WiringWorker, ReadsWorker, AnchoredSteps, ScrubbedSteps DEF IInv
<1>4. CASE UNCHANGED vars
  BY <1>4 DEF vars, loadVars, callVars, workVars, IInv, TypeOK, SlotExclusive, OneWorker, SlotInUse,
              Wiring, Reads, Anchored, Scrubbed, HeldForTheLoad
<1> QED BY <1>1, <1>2, <1>3, <1>4 DEF Next

LEMMA Invariance == Spec => []IInv
<1> QED BY InitIInv, StepIInv, PTL DEF Spec

(* Every variable keeps its type. *)
THEOREM TypeCorrect == Spec => []TypeOK
<1>1. IInv => TypeOK
  BY DEF IInv
<1> QED BY Invariance, <1>1, PTL

(* At most one worker talks to the SDK, and the slot is full exactly while   *)
(* it does, whichever callers give up.                                      *)
THEOREM SlotIsExclusive == Spec => []SlotExclusive
<1>1. IInv => SlotExclusive
  BY DEF IInv
<1> QED BY Invariance, <1>1, PTL

(* What a load handed out is known to its scrubber, and a resolve asked     *)
(* under it does not go to the vault of an earlier one.                     *)
THEOREM LoadsStayApart == Spec => []LoadsAreApart
<1>1. IInv => HeldForTheLoad
  BY DEF IInv, Scrubbed
<1>2. IInv => ResolvesAgainstLoaded
  BY DEF IInv, TypeOK, Anchored, Handles, ResolvesAgainstLoaded
<1> QED BY Invariance, <1>1, <1>2, PTL DEF LoadsAreApart

-----------------------------------------------------------------------------
(* The plugin implements the abstract secret backend. *)

Owner(w) == IF \E c \in Calls : w[c] # "off" THEN CHOOSE c \in Calls : w[c] # "off" ELSE NoCall

LEMMA OwnerIs ==
  ASSUME NEW w, NEW c \in Calls, w[c] # "off",
         \A x, y \in Calls : w[x] # "off" /\ w[y] # "off" => x = y
  PROVE  Owner(w) = c
<1>1. w[CHOOSE x \in Calls : w[x] # "off"] # "off" /\ (CHOOSE x \in Calls : w[x] # "off") \in Calls
  OBVIOUS
<1> QED BY <1>1 DEF Owner

LEMMA OwnerNone ==
  ASSUME NEW w, \A x \in Calls : w[x] = "off"
  PROVE  Owner(w) = NoCall
  BY DEF Owner

LEMMA SlotOwnerIs == SlotOwner = Owner(worker) /\ SlotOwner' = Owner(worker')
  BY DEF SlotOwner, Owner

\* What the abstract variables depend on.
LEMMA AbstractUnchanged ==
  ASSUME UNCHANGED <<stored, asked, caller, outcome, got>>, SlotOwner' = SlotOwner
  PROVE  UNCHANGED Backend!vars
  BY DEF Backend!vars, PhaseOf, ReadBy, ValueOf

LEMMA CallerRefines ==
  ASSUME IInv, IInv', NEW c \in Calls, CallerStep(c) \/ CtxDone(c)
  PROVE  Backend!Next \/ UNCHANGED Backend!vars
<1> USE DEF IInv, TypeOK
<1>1. \A d \in Calls : outcome[d] # "none" <=> caller[d] = "returned"
  BY DEF Wiring
<1>2. CASE Command(c)
  <2>1. /\ SlotOwner' = SlotOwner /\ got' = got /\ stored' = stored
        /\ asked' = [asked EXCEPT ![c] = stored]
        /\ caller[c] = "idle" /\ caller' \in [Calls -> CallerStates]
        /\ \A d \in Calls : d # c => caller'[d] = caller[d] /\ outcome'[d] = outcome[d]
        /\ outcome[c] # "value" /\ outcome'[c] # "value"
        /\ caller'[c] = "acquire" \/ caller'[c] = "returned"
    BY <1>1, <1>2, SlotOwnerIs DEF Command, Return, workVars
  <2>2. [d \in Calls |-> ReadBy(d)]' = [d \in Calls |-> ReadBy(d)]
    BY <2>1 DEF ReadBy
  <2>3. [d \in Calls |-> ValueOf(d)]' = [d \in Calls |-> ValueOf(d)]
    BY <2>1 DEF ValueOf
  <2>4. [d \in Calls |-> PhaseOf(d)]' = [[d \in Calls |-> PhaseOf(d)] EXCEPT
             ![c] = IF caller'[c] = "returned" THEN "failed" ELSE "pending"]
    BY <2>1 DEF PhaseOf
  <2>5. PhaseOf(c) = "idle"
    BY <2>1 DEF PhaseOf
  <2>6. Backend!Ask(c, caller'[c] = "returned")
    BY <2>1, <2>2, <2>3, <2>4, <2>5 DEF Backend!Ask
  <2>7. (caller'[c] = "returned") \in BOOLEAN
    OBVIOUS
  <2> QED BY <2>6, <2>7 DEF Backend!Next
<1>3. CASE Acquire(c)
  <2>1. /\ UNCHANGED <<stored, asked, got, outcome>>
        /\ caller[c] = "acquire" /\ caller' = [caller EXCEPT ![c] = "await"]
        /\ worker' = [worker EXCEPT ![c] = "ask"]
        /\ \A d \in Calls : worker[d] = "off"
    BY <1>3 DEF Acquire, Begin, SlotExclusive, SlotInUse
  <2>2. SlotOwner = NoCall /\ SlotOwner' = c
    <3>1. worker'[c] # "off" /\ \A x, y \in Calls : worker'[x] # "off" /\ worker'[y] # "off" => x = y
      BY <2>1
    <3> QED BY <2>1, <3>1, OwnerIs, OwnerNone, SlotOwnerIs
  <2>3. /\ UNCHANGED <<[d \in Calls |-> ReadBy(d)], [d \in Calls |-> ValueOf(d)]>>
        /\ [d \in Calls |-> PhaseOf(d)]' = [d \in Calls |-> PhaseOf(d)]
        /\ PhaseOf(c) = "pending"
    BY <1>1, <2>1 DEF ReadBy, ValueOf, PhaseOf
  <2>4. Backend!Take(c)
    BY <2>1, <2>2, <2>3 DEF Backend!Take
  <2> QED BY <2>4 DEF Backend!Next
<1>4. CASE Abandon(c) \/ TimeOut(c) \/ (Receive(c) /\ outcome'[c] # "none")
  <2>1. /\ UNCHANGED <<stored, asked, got, worker>>
        /\ caller[c] \in {"acquire", "await"}
        /\ caller' = [caller EXCEPT ![c] = "returned"]
        /\ \E r \in {"abandoned", "timeout", "failed"} : outcome' = [outcome EXCEPT ![c] = r]
    BY <1>1, <1>4 DEF Abandon, TimeOut, Receive, Return, workVars
  <2>2. SlotOwner' = SlotOwner
    BY <2>1, SlotOwnerIs
  <2>3. /\ [d \in Calls |-> ReadBy(d)]' = [d \in Calls |-> ReadBy(d)]
        /\ [d \in Calls |-> ValueOf(d)]' = [d \in Calls |-> ValueOf(d)]
    BY <1>1, <2>1 DEF ReadBy, ValueOf
  <2>4. /\ [d \in Calls |-> PhaseOf(d)]' = [[d \in Calls |-> PhaseOf(d)] EXCEPT ![c] = "failed"]
        /\ PhaseOf(c) = "pending"
    <3>1. /\ caller'[c] = "returned" /\ outcome'[c] # "value" /\ outcome[c] # "value"
          /\ \A d \in Calls \ {c} : caller'[d] = caller[d] /\ outcome'[d] = outcome[d]
      BY <1>1, <2>1
    <3> QED BY <2>1, <3>1 DEF PhaseOf
  <2>5. Backend!Fail(c)
    BY <2>1, <2>2, <2>3, <2>4 DEF Backend!Fail
  <2> QED BY <2>5 DEF Backend!Next
<1>5. CASE Receive(c) /\ outcome'[c] = "none"
  <2>1. /\ UNCHANGED <<stored, asked, got, outcome, worker>>
        /\ caller[c] = "await" /\ caller' = [caller EXCEPT ![c] = "hold"]
    BY <1>5 DEF Receive, Return
  <2>2. SlotOwner' = SlotOwner
    BY <2>1, SlotOwnerIs
  <2>3. [d \in Calls |-> PhaseOf(d)]' = [d \in Calls |-> PhaseOf(d)]
    BY <2>1 DEF PhaseOf
  <2> QED BY <2>1, <2>2, <2>3 DEF Backend!vars, ReadBy, ValueOf
<1>6. CASE Hold(c)
  <2>1. /\ UNCHANGED <<stored, asked, got, worker>>
        /\ caller[c] = "hold" /\ got[c].kind = "one" /\ got[c].version # 0
        /\ caller' = [caller EXCEPT ![c] = "returned"]
        /\ outcome' = [outcome EXCEPT ![c] = "value"]
    BY <1>6 DEF Hold, Return, workVars, Wiring, Reads
  <2>2. SlotOwner' = SlotOwner
    BY <2>1, SlotOwnerIs
  <2>3. [d \in Calls |-> ReadBy(d)]' = [d \in Calls |-> ReadBy(d)] /\ ReadBy(c) # 0
    BY <2>1 DEF ReadBy
  <2>4. [d \in Calls |-> ValueOf(d)]' = [[d \in Calls |-> ValueOf(d)] EXCEPT ![c] = ReadBy(c)]
    BY <2>1 DEF ReadBy, ValueOf
  <2>5. /\ [d \in Calls |-> PhaseOf(d)]' = [[d \in Calls |-> PhaseOf(d)] EXCEPT ![c] = "served"]
        /\ PhaseOf(c) = "pending"
    BY <1>1, <2>1 DEF PhaseOf
  <2>6. Backend!Serve(c)
    BY <2>1, <2>2, <2>3, <2>4, <2>5 DEF Backend!Serve
  <2> QED BY <2>6 DEF Backend!Next
<1>7. CASE CtxDone(c)
  <2>1. UNCHANGED <<stored, asked, caller, outcome, got>> /\ SlotOwner' = SlotOwner
    BY <1>7, SlotOwnerIs DEF CtxDone, workVars
  <2> QED BY <2>1, AbstractUnchanged
<1> QED BY <1>2, <1>3, <1>4, <1>5, <1>6, <1>7 DEF CallerStep

LEMMA WorkerRefines ==
  ASSUME IInv, IInv', NEW c \in Calls, WorkerStep(c)
  PROVE  Backend!Next \/ UNCHANGED Backend!vars
<1> USE DEF IInv, TypeOK
<1>1. /\ UNCHANGED <<stored, asked, caller, outcome>>
      /\ worker[c] # "off"
      /\ \A x, y \in Calls : worker[x] # "off" /\ worker[y] # "off" => x = y
      /\ \A x, y \in Calls : worker'[x] # "off" /\ worker'[y] # "off" => x = y
  BY DEF WorkerStep, Ask, Send, Release, callVars, SlotExclusive, OneWorker
<1>2. SlotOwner = c
  BY <1>1, OwnerIs, SlotOwnerIs
<1>3. worker'[c] # "off" => SlotOwner' = c
  BY <1>1, OwnerIs, SlotOwnerIs
<1>4. [d \in Calls |-> PhaseOf(d)]' = [d \in Calls |-> PhaseOf(d)]
  BY <1>1 DEF PhaseOf
<1>5. CASE Send(c)
  <2>1. got' = got /\ worker'[c] # "off"
    BY <1>5 DEF Send
  <2> QED BY <1>1, <1>2, <1>3, <2>1, AbstractUnchanged
<1>6. CASE Ask(c)
  <2>1. /\ worker[c] = "ask" /\ worker'[c] # "off"
        /\ \/ \E k \in {"one", "many"} : got' = [got EXCEPT ![c] = [kind |-> k, version |-> stored]]
           \/ \E k \in {"empty", "error"} : got' = [got EXCEPT ![c] = [kind |-> k, version |-> 0]]
           \/ got' = got
    BY <1>6 DEF Ask
  <2>2. got[c].version = 0 /\ outcome[c] # "value"
    BY <2>1 DEF Wiring, Nothing, Reads
  <2>3. [d \in Calls |-> ValueOf(d)]' = [d \in Calls |-> ValueOf(d)]
    <3>1. \A d \in Calls : outcome[d] = "value" => got'[d] = got[d]
      BY <2>1, <2>2
    <3> QED BY <1>1, <3>1 DEF ValueOf
  <2>4. CASE \E k \in {"one", "many"} : got' = [got EXCEPT ![c] = [kind |-> k, version |-> stored]]
    <3>0. got'[c].version = stored /\ \A d \in Calls \ {c} : got'[d] = got[d]
      BY <2>4
    <3>1. [d \in Calls |-> ReadBy(d)]' = [[d \in Calls |-> ReadBy(d)] EXCEPT ![c] = stored]
      BY <3>0 DEF ReadBy
    <3>2. Backend!Read(c)
      BY <1>1, <1>2, <1>3, <1>4, <2>1, <2>3, <3>1 DEF Backend!Read
    <3> QED BY <3>2 DEF Backend!Next
  <2>5. CASE got' = got \/ \E k \in {"empty", "error"} : got' = [got EXCEPT ![c] = [kind |-> k, version |-> 0]]
    <3>1. got'[c].version = 0 /\ \A d \in Calls \ {c} : got'[d] = got[d]
      BY <2>2, <2>5
    <3>2. [d \in Calls |-> ReadBy(d)]' = [d \in Calls |-> ReadBy(d)]
      BY <2>2, <3>1 DEF ReadBy
    <3> QED BY <1>1, <1>2, <1>3, <1>4, <2>1, <2>3, <3>2 DEF Backend!vars
  <2> QED BY <2>1, <2>4, <2>5
<1>7. CASE Release(c)
  <2>1. /\ got' = got
        /\ \A d \in Calls : worker'[d] = "off"
    BY <1>1, <1>7 DEF Release
  <2>2. SlotOwner' = NoCall
    BY <2>1, OwnerNone, SlotOwnerIs
  <2>3. /\ [d \in Calls |-> ReadBy(d)]' = [d \in Calls |-> ReadBy(d)]
        /\ [d \in Calls |-> ValueOf(d)]' = [d \in Calls |-> ValueOf(d)]
    BY <1>1, <2>1 DEF ReadBy, ValueOf
  <2>4. Backend!Free
    BY <1>1, <1>2, <1>4, <2>2, <2>3, ConstantsAssumption DEF Backend!Free
  <2> QED BY <2>4 DEF Backend!Next
<1> QED BY <1>5, <1>6, <1>7 DEF WorkerStep

(* The plugin implements SecretBackend: every resolve is answered at most   *)
(* once, with a failure or with a value its own SDK call read while it held *)
(* the slot alone.                                                          *)
THEOREM PluginImplementsBackend == Spec => ImplementsBackend
<1>1. Init => Backend!Init
  <2> SUFFICES ASSUME Init PROVE Backend!Init
    OBVIOUS
  <2>1. SlotOwner = NoCall
    BY OwnerNone, SlotOwnerIs DEF Init
  <2>2. \A c \in Calls : PhaseOf(c) = "idle" /\ ReadBy(c) = 0 /\ ValueOf(c) = 0
    BY DEF Init, PhaseOf, ReadBy, ValueOf, Nothing
  <2> QED BY <2>1, <2>2 DEF Init, Backend!Init
<1>2. IInv /\ IInv' /\ [Next]_vars => [Backend!Next]_(Backend!vars)
  <2> SUFFICES ASSUME IInv, IInv', [Next]_vars PROVE Backend!Next \/ UNCHANGED Backend!vars
    OBVIOUS
  <2>1. CASE HostStep
    <3>1. UNCHANGED <<stored, asked, caller, outcome, got>> /\ SlotOwner' = SlotOwner
      BY <2>1, SlotOwnerIs DEF HostStep, Configure, Load, Unload, callVars, workVars
    <3> QED BY <3>1, AbstractUnchanged
  <2>2. CASE Rotate
    <3>1. stored' = stored + 1 /\ UNCHANGED <<asked, caller, outcome, got>> /\ SlotOwner' = SlotOwner
      BY <2>2, SlotOwnerIs DEF Rotate, callVars, workVars
    <3>2. Backend!Rotate
      BY <3>1 DEF Backend!Rotate, PhaseOf, ReadBy, ValueOf
    <3> QED BY <3>2 DEF Backend!Next
  <2>3. CASE UNCHANGED vars
    <3>1. UNCHANGED <<stored, asked, caller, outcome, got>> /\ SlotOwner' = SlotOwner
      BY <2>3, SlotOwnerIs DEF vars, callVars, workVars
    <3> QED BY <3>1, AbstractUnchanged
  <2> QED BY <2>1, <2>2, <2>3, CallerRefines, WorkerRefines DEF Next
<1> QED BY <1>1, <1>2, Invariance, PTL DEF Spec, ImplementsBackend, Backend!Spec

=============================================================================
