---------------------------- MODULE CloudsProofs ----------------------------
(***************************************************************************)
(* What MCClouds checks of a DigitalOcean account and of Azure's choice of  *)
(* a subscription, for every set of calls, firewalls, fields, things, tags, *)
(* tokens and subscriptions, every page size and page limit, and every      *)
(* number of loads.                                                         *)
(*                                                                         *)
(* Of DigitalOcean's firewalls: the types, the nil backend, the truth of    *)
(* answers and telemetry, and, one call at a time, the refinement of        *)
(* Inventory.  Of Azure: that its default is explained is not inductive; it *)
(* needs the memo, and a target on its way to the memo, to be explained too *)
(* (Explained), and the backend a call holds to be one that was built       *)
(* already (Built).                                                         *)
(***************************************************************************)
EXTENDS MCClouds, FiniteSetTheorems, WellFoundedInduction, TLAPS

LEMMA Typed == ASSUME NEW r \in Requests PROVE r \in Request
<1>1. PICK op \in Ops : r \in [op : {op}, id : Ids, given : GivenOf(Takes(op)), dry : Forms, ack : BOOLEAN]
  BY DEF Requests
<1>2. Takes(op) \subseteq Fields
  BY ConstantsAssumption DEF Takes
<1>3. GivenOf(Takes(op)) \subseteq Given
  BY <1>2 DEF GivenOf, Given
<1> QED BY <1>1, <1>3 DEF Request

LEMMA SomeRequest == NoRequest \in Request
<1>1. PICK i \in Ids, d \in Forms : TRUE
  BY ConstantsAssumption
<1> DEFINE r == [op |-> "create_droplet", id |-> i, given |-> [f \in {} |-> {}], dry |-> d, ack |-> TRUE]
<1>2. [f \in {} |-> {}] \in GivenOf(Takes("create_droplet"))
  BY DEF GivenOf, Takes
<1>3. r \in [op : {"create_droplet"}, id : Ids, given : GivenOf(Takes("create_droplet")), dry : Forms, ack : BOOLEAN]
  BY <1>1, <1>2
<1>4. r \in Requests
  BY <1>3 DEF Requests, Ops
<1> QED BY <1>4, Typed DEF NoRequest

LEMMA BlankFirewall == Blank \in Firewall
BY DEF Blank, Firewall

\* An overlay of a firewall is a firewall.
LEMMA OverlayTyped ==
  ASSUME NEW w \in Firewall, NEW g \in Given PROVE Overlay(w, g) \in Firewall
<1>1. PICK F \in SUBSET Fields : g \in [F -> SUBSET Items]
  BY DEF Given, GivenOf
<1> QED BY <1>1 DEF Overlay, Firewall

LEMMA GivenDroplets ==
  ASSUME NEW g \in Given, "droplet_ids" \in DOMAIN g PROVE g["droplet_ids"] \in SUBSET Items
BY DEF Given, GivenOf

-----------------------------------------------------------------------------
LEMMA ReturnTypes ==
  ASSUME TypeOK, NEW c \in Calls, NEW o \in Outs, Return(c, o)
  PROVE /\ pc' \in [Calls -> Stages] /\ req' \in [Calls -> Request]
        /\ current' \in [Calls -> Firewall] /\ out' \in [Calls -> Outs]
        /\ event' \in [Calls -> {"none", "change", "preview"}] /\ worded' \subseteq Calls
BY SomeRequest, BlankFirewall DEF TypeOK, Return, Answers, Stages, EventOf

LEMMA DoneTypes ==
  ASSUME TypeOK, NEW c \in Calls, Done(c)
  PROVE /\ pc' \in [Calls -> Stages] /\ req' \in [Calls -> Request]
        /\ current' \in [Calls -> Firewall] /\ out' \in [Calls -> Outs]
        /\ event' \in [Calls -> {"none", "change", "preview"}] /\ worded' \subseteq Calls
        /\ did' \subseteq Calls /\ lost' \subseteq Calls /\ cut' = cut
        /\ config' = config /\ backend' = backend /\ alive' = alive
<1>1. PICK o \in {"ok", "error"} : Return(c, o)
  BY DEF Done
<1> QED BY <1>1, ReturnTypes DEF Done, TypeOK, Outs, plugin

LEMMA BecomesTypes ==
  ASSUME TypeOK, calm' \in BOOLEAN, NEW c \in Calls, NEW w \in Firewall \cup {Gone}, Becomes(c, w)
  PROVE TypeOK'
<1>1. fw' \in [Ids -> Firewall \cup {Unborn, Gone}]
  BY DEF Becomes, TypeOK
<1> QED BY <1>1, DoneTypes DEF Becomes, TypeOK

LEMMA CalmType == TypeOK /\ [Next]_vars => calm' \in BOOLEAN
<1> SUFFICES ASSUME TypeOK, [Next]_vars PROVE calm' \in BOOLEAN
  OBVIOUS
<1>1. ASSUME NEW P, calm' = (calm /\ P) PROVE calm' \in BOOLEAN
  BY <1>1
<1>2. ASSUME calm' = calm PROVE calm' \in BOOLEAN
  BY <1>2 DEF TypeOK
<1>3. CASE UNCHANGED vars
  BY <1>2, <1>3 DEF vars
<1>4. CASE Configure \/ Load \/ Unload
  BY <1>2, <1>4 DEF Configure, Load, Unload
<1>5. ASSUME NEW c \in Calls, Start(c) PROVE calm' \in BOOLEAN
  BY Zenon, <1>1, <1>5 DEF Start
<1>6. ASSUME NEW c \in Calls, Step(c) PROVE calm' \in BOOLEAN
  BY <1>2, <1>6 DEF Step, Panic
<1> QED BY <1>3, <1>4, <1>5, <1>6 DEF Next

\* What runs went through the gate, and is where its operation goes.
Gated == \A c \in Running : /\ Accepted(req[c]) /\ ~Dry(req[c])
                            /\ pc[c] = "get" => req[c].op = "update_firewall"
                            /\ pc[c] = "lookup" => req[c].op = "create_droplet"

\* A call that moves leaves the others alone.
Alone(c) == \A d \in Calls \ {c} : /\ pc'[d] = pc[d] /\ req'[d] = req[d]
                                    /\ current'[d] = current[d] /\ out'[d] = out[d]
                                    /\ event'[d] = event[d]
                                    /\ (d \in worded' <=> d \in worded)

LEMMA StartAlone ==
  ASSUME TypeOK, NEW c \in Calls, NEW r \in Requests,
         Refuse(c, r) \/ Preview(c, r) \/ NoCredential(c, r) \/ Begin(c, r)
  PROVE Alone(c)
<1>1. CASE Begin(c, r)
  BY <1>1 DEF Begin, Asks, Goto, TypeOK, Alone
<1>2. CASE ~Begin(c, r)
  <2>1. PICK o \in Outs : Answers(c, r, o) /\ Asks(c) /\ UNCHANGED req
    BY <1>2 DEF Refuse, Preview, NoCredential, Outs
  <2> QED BY <2>1 DEF Answers, Asks, TypeOK, Alone
<1> QED BY <1>1, <1>2

\* A step of a call: it stays where it was, moves on, or returns.
LEMMA StepMoves ==
  ASSUME TypeOK, NEW c \in Calls, Step(c)
  PROVE /\ Alone(c)
        /\ \/ pc'[c] = "returned"
           \/ req' = req /\ pc' = pc
           \/ req' = req /\ pc[c] = "get" /\ pc'[c] = "send"
           \/ req' = req /\ pc[c] = "send" /\ pc'[c] = "lookup" /\ req[c].op = "create_droplet"
<1> USE DEF TypeOK, Alone
<1>1. ASSUME NEW o \in Outs, Return(c, o) PROVE Alone(c) /\ pc'[c] = "returned"
  BY <1>1 DEF Return, Answers
<1>2. ASSUME Done(c) PROVE Alone(c) /\ pc'[c] = "returned"
  BY <1>1, <1>2 DEF Done, Outs
<1>3. CASE Panic(c)
  BY <1>3 DEF Panic
<1>4. CASE Read(c)
  BY <1>1, <1>4 DEF Read, At, Goto, Outs
<1>5. CASE Fails(c) \/ LookUp(c)
  BY <1>1, <1>5 DEF Fails, LookUp, Outs
<1>6. CASE CreateFirewall(c) \/ UpdateFirewall(c) \/ DeleteFirewall(c)
           \/ AddFirewallDroplets(c) \/ RemoveFirewallDroplets(c)
  BY <1>2, <1>6 DEF CreateFirewall, UpdateFirewall, DeleteFirewall, AddFirewallDroplets,
                    RemoveFirewallDroplets, Becomes
<1>7. CASE CreateDroplet(c)
  BY <1>1, <1>7 DEF CreateDroplet, At, Goto, Outs
<1> QED BY <1>3, <1>4, <1>5, <1>6, <1>7 DEF Step, Requested

TypeInv == TypeOK /\ Gated

LEMMA GatedStep == ASSUME TypeInv, [Next]_vars PROVE Gated'
<1> USE DEF TypeInv, Gated, Running
<1>1. CASE UNCHANGED vars
  BY <1>1 DEF vars
<1>2. CASE Configure \/ Load \/ Unload
  BY <1>2 DEF Configure, Load, Unload
<1>3. ASSUME NEW c \in Calls, NEW r \in Requests,
             Refuse(c, r) \/ Preview(c, r) \/ NoCredential(c, r) \/ Begin(c, r)
      PROVE Gated'
  <2>1. Alone(c)
    BY <1>3, StartAlone
  <2>2. CASE Begin(c, r)
    <3>1. req'[c] = r /\ Accepted(r) /\ ~Dry(r) /\ pc'[c] = First(r)
      BY <2>2 DEF Begin, Goto, TypeOK
    <3> QED BY <2>1, <3>1 DEF Alone, First
  <2>3. CASE ~Begin(c, r)
    <3>1. pc'[c] = "returned"
      BY <1>3, <2>3 DEF Refuse, Preview, NoCredential, Answers, TypeOK
    <3> QED BY <2>1, <3>1 DEF Alone
  <2> QED BY <2>2, <2>3
<1>4. ASSUME NEW c \in Calls, Step(c) PROVE Gated'
  <2>1. SUFFICES ASSUME NEW d \in Calls, d \in Running'
                 PROVE /\ Accepted(req'[d]) /\ ~Dry(req'[d])
                       /\ pc'[d] = "get" => req'[d].op = "update_firewall"
                       /\ pc'[d] = "lookup" => req'[d].op = "create_droplet"
    OBVIOUS
  <2>2. CASE d # c
    BY <1>4, <2>1, <2>2, StepMoves DEF Alone
  <2>3. CASE d = c
    BY <1>4, <2>1, <2>3, StepMoves
  <2> QED BY <2>2, <2>3
<1> QED BY <1>1, <1>2, <1>3, <1>4 DEF Next, Start

LEMMA TypeStep == TypeInv /\ [Next]_vars => TypeInv'
<1> SUFFICES ASSUME TypeInv, [Next]_vars PROVE TypeOK'
  BY GatedStep DEF TypeInv
<1>0. calm' \in BOOLEAN
  BY CalmType DEF TypeInv
<1> USE <1>0 DEF TypeInv
<1>1. CASE UNCHANGED vars
  BY <1>1 DEF vars, TypeOK
<1>2. CASE Configure \/ Load \/ Unload
  BY <1>2 DEF Configure, Load, Unload, TypeOK, cloud, Running
<1>3. ASSUME NEW c \in Calls, NEW r \in Requests,
             Refuse(c, r) \/ Preview(c, r) \/ NoCredential(c, r) \/ Begin(c, r)
      PROVE TypeOK'
  <2>1. r \in Request
    BY Typed
  <2>2. CASE Begin(c, r)
    BY <2>1, <2>2 DEF Begin, Asks, First, Goto, TypeOK, cloud, plugin, Stages
  <2>3. CASE Refuse(c, r) \/ Preview(c, r) \/ NoCredential(c, r)
    <3>1. PICK o \in Outs : Answers(c, r, o) /\ Asks(c) /\ UNCHANGED req
      BY <2>3 DEF Refuse, Preview, NoCredential, Outs
    <3> QED BY <3>1 DEF Asks, Answers, EventOf, TypeOK, cloud, plugin, Stages
  <2> QED BY <1>3, <2>2, <2>3
<1>4. ASSUME NEW c \in Calls, Step(c) PROVE TypeOK'
  <2>0. req[c] \in Request /\ current[c] \in Firewall
    BY DEF TypeOK
  <2>1. CASE Panic(c)
    BY <2>1 DEF Panic, TypeOK, cloud
  <2>2. CASE Read(c)
    <3>1. CASE Return(c, "error")
      BY <2>2, <3>1, ReturnTypes DEF Read, TypeOK, cloud, plugin, Outs
    <3>2. CASE ~Return(c, "error")
      BY <2>2, <3>2 DEF Read, Goto, TypeOK, cloud, plugin, Stages
    <3> QED BY <3>1, <3>2
  <2>3. CASE Fails(c)
    BY <2>3, ReturnTypes DEF Fails, TypeOK, cloud, plugin, Outs
  <2>4. CASE CreateFirewall(c)
    <3>1. Overlay(Blank, req[c].given) \in Firewall
      BY <2>0, OverlayTyped, BlankFirewall DEF Request
    <3> QED BY <2>4, <3>1, DoneTypes DEF CreateFirewall, TypeOK
  <2>5. CASE UpdateFirewall(c)
    BY <2>0, <2>5, OverlayTyped, BecomesTypes DEF UpdateFirewall, Request
  <2>6. CASE DeleteFirewall(c)
    BY <2>6, BecomesTypes DEF DeleteFirewall
  <2>7. CASE AddFirewallDroplets(c) \/ RemoveFirewallDroplets(c)
    <3> DEFINE w == fw[req[c].id]
    <3>1. CASE w \in Firewall
      <4>1. "droplet_ids" \in DOMAIN req[c].given
        BY <2>7 DEF Gated, Running, Accepted, Sound, AddFirewallDroplets, RemoveFirewallDroplets, At
      <4>2. req[c].given["droplet_ids"] \in SUBSET Items
        BY <2>0, <4>1, GivenDroplets DEF Request
      <4>3. /\ [w EXCEPT !["droplet_ids"] = @ \cup req[c].given["droplet_ids"]] \in Firewall
            /\ [w EXCEPT !["droplet_ids"] = @ \ req[c].given["droplet_ids"]] \in Firewall
        BY <3>1, <4>2, ConstantsAssumption DEF Firewall
      <4> HIDE DEF w
      <4> QED BY <2>7, <4>3, BecomesTypes DEF AddFirewallDroplets, RemoveFirewallDroplets, w
    <3>2. CASE w \notin Firewall
      BY <2>7, <3>2 DEF AddFirewallDroplets, RemoveFirewallDroplets, Becomes
    <3> QED BY <3>1, <3>2
  <2>8. CASE CreateDroplet(c)
    <3>1. CASE Return(c, "error")
      BY <2>8, <3>1, ReturnTypes DEF CreateDroplet, TypeOK, plugin, Outs
    <3>2. CASE ~Return(c, "error")
      BY <2>8, <3>2 DEF CreateDroplet, Goto, TypeOK, plugin, Stages
    <3> QED BY <3>1, <3>2
  <2>9. CASE LookUp(c)
    BY <2>9, ReturnTypes DEF LookUp, TypeOK, cloud, plugin, Outs
  <2> QED BY <1>4, <2>1, <2>2, <2>3, <2>4, <2>5, <2>6, <2>7, <2>8, <2>9 DEF Step, Requested
<1> QED BY <1>1, <1>2, <1>3, <1>4 DEF Next, Start

LEMMA InitTypes == Init => TypeInv
BY SomeRequest, BlankFirewall DEF Init, TypeInv, TypeOK, Gated, Running, Stages, Outs

(* Every variable keeps its type: in particular an overlay, an attach and a
   detach always make a whole firewall, which needs the gate. *)
THEOREM TypeCorrect == Spec => []TypeOK
<1>1. TypeInv => TypeOK
  BY DEF TypeInv
<1> QED BY <1>1, InitTypes, TypeStep, PTL DEF Spec

-----------------------------------------------------------------------------
(* The nil backend. *)
Ready == /\ alive /\ backend = NoToken => Running \subseteq cut
         /\ PanicsOnlyUnderUnload

ReadyInv == TypeInv /\ Ready

LEMMA ReadyStep == ReadyInv /\ [Next]_vars => ReadyInv'
<1> SUFFICES ASSUME ReadyInv, [Next]_vars PROVE Ready'
  BY TypeStep DEF ReadyInv
<1> USE DEF ReadyInv, Ready, PanicsOnlyUnderUnload
<1>1. CASE UNCHANGED vars
  BY <1>1 DEF vars, Running
<1>2. CASE Configure \/ Load \/ Unload
  BY <1>2, ConstantsAssumption DEF Configure, Load, Unload, Running, TypeInv, TypeOK
<1>3. ASSUME NEW c \in Calls, NEW r \in Requests,
             Refuse(c, r) \/ Preview(c, r) \/ NoCredential(c, r) \/ Begin(c, r)
      PROVE Ready'
  <2>1. Alone(c) /\ alive /\ UNCHANGED <<alive, backend, cut>>
    BY <1>3, StartAlone DEF ReadyInv, TypeInv, Refuse, Preview, NoCredential, Begin, Asks, plugin
  <2>2. CASE backend = NoToken
    <3>1. pc'[c] = "returned"
      BY <1>3, <2>2 DEF Refuse, Preview, NoCredential, Begin, Answers, TypeInv, TypeOK
    <3> QED BY <2>1, <3>1 DEF Running, Alone
  <2>3. CASE backend # NoToken
    BY <2>1, <2>3
  <2> QED BY <2>2, <2>3
<1>4. ASSUME NEW c \in Calls, Step(c) PROVE Ready'
  <2>1. CASE Panic(c)
    BY <2>1 DEF Panic, Running
  <2>2. CASE ~Panic(c)
    <3>1. alive /\ backend # NoToken /\ alive' /\ backend' = backend
      BY <1>4, <2>2 DEF Step, Requested, Read, Fails, CreateFirewall, UpdateFirewall, DeleteFirewall,
           AddFirewallDroplets, RemoveFirewallDroplets, CreateDroplet, LookUp, At, Becomes, Done, plugin
    <3> QED BY <3>1
  <2> QED BY <2>1, <2>2
<1> QED BY <1>1, <1>2, <1>3, <1>4 DEF Next, Start

(* No call reaches a nil backend unless the host unloaded under it. *)
THEOREM BackendIsThere == Spec => []PanicsOnlyUnderUnload
<1>1. Init => ReadyInv
  BY InitTypes DEF ReadyInv, Ready, PanicsOnlyUnderUnload, Init, Running
<1>2. ReadyInv => PanicsOnlyUnderUnload
  BY DEF ReadyInv, Ready
<1> QED BY <1>1, <1>2, ReadyStep, PTL DEF Spec

-----------------------------------------------------------------------------
(* The truth of answers. *)
Told == \A c \in Calls : /\ pc[c] # "returned" => out[c] = "none"
                         /\ pc[c] \in {"idle", "get", "send"} => c \notin did
                         /\ pc[c] = "lookup" => c \in did

AnswerInv == TypeInv /\ Told /\ AnswerIsTrue

LEMMA AnswerStep == AnswerInv /\ [Next]_vars => AnswerInv'
<1> SUFFICES ASSUME AnswerInv, [Next]_vars PROVE Told' /\ AnswerIsTrue'
  BY TypeStep DEF AnswerInv
<1> USE DEF AnswerInv, TypeInv, Told, AnswerIsTrue
<1>1. CASE UNCHANGED vars
  BY <1>1 DEF vars
<1>2. CASE Configure \/ Load \/ Unload
  BY <1>2 DEF Configure, Load, Unload, cloud
<1>3. ASSUME NEW c \in Calls, NEW r \in Requests,
             Refuse(c, r) \/ Preview(c, r) \/ NoCredential(c, r) \/ Begin(c, r)
      PROVE Told' /\ AnswerIsTrue'
  <2>1. Alone(c) /\ UNCHANGED <<did, lost>> /\ c \notin did
    BY <1>3, StartAlone DEF Refuse, Preview, NoCredential, Begin, Asks, cloud
  <2>2. CASE Begin(c, r)
    <3>1. out'[c] = "none" /\ pc'[c] \in {"get", "send"}
      BY <2>2 DEF Begin, Asks, Goto, First, TypeOK
    <3> QED BY <2>1, <3>1 DEF Alone
  <2>3. CASE ~Begin(c, r)
    <3>1. out'[c] \in {"refused", "preview", "credential_missing"} /\ pc'[c] = "returned"
      BY <1>3, <2>3 DEF Refuse, Preview, NoCredential, Answers, TypeOK
    <3> QED BY <2>1, <3>1 DEF Alone
  <2> QED BY <2>2, <2>3
<1>4. ASSUME NEW c \in Calls, Step(c) PROVE Told' /\ AnswerIsTrue'
  <2>0. ASSUME NEW o \in Outs, Return(c, o) PROVE out'[c] = o /\ pc'[c] = "returned"
    BY <2>0 DEF Return, Answers, TypeOK
  <2>1. Alone(c)
    BY <1>4, StepMoves
  <2>2. CASE Panic(c)
    BY <2>2 DEF Panic, cloud
  <2>3. CASE Read(c)
    <3>1. UNCHANGED <<did, lost>> /\ c \notin did
      BY <2>3 DEF Read, At, cloud
    <3>2. CASE Return(c, "error")
      BY <2>0, <2>1, <3>1, <3>2 DEF Alone, Outs
    <3>3. CASE ~Return(c, "error")
      <4>1. out'[c] = "none" /\ pc'[c] = "send"
        BY <2>3, <3>3 DEF Read, At, Goto, TypeOK
      <4> QED BY <2>1, <3>1, <4>1 DEF Alone
    <3> QED BY <3>2, <3>3
  <2>4. CASE Fails(c)
    <3>1. UNCHANGED <<did, lost>> /\ c \notin did /\ Return(c, "error")
      BY <2>4 DEF Fails, At, cloud
    <3> QED BY <2>0, <2>1, <3>1 DEF Alone, Outs
  <2>5. ASSUME Done(c) PROVE Told' /\ AnswerIsTrue'
    <3>1. CASE Return(c, "ok")
      BY <2>0, <2>1, <2>5, <3>1 DEF Alone, Done, Outs
    <3>2. CASE Return(c, "error")
      BY <2>0, <2>1, <2>5, <3>2 DEF Alone, Done, Outs
    <3> QED BY <2>5, <3>1, <3>2 DEF Done
  <2>6. CASE CreateFirewall(c) \/ UpdateFirewall(c) \/ DeleteFirewall(c)
             \/ AddFirewallDroplets(c) \/ RemoveFirewallDroplets(c)
    BY <2>5, <2>6 DEF CreateFirewall, UpdateFirewall, DeleteFirewall, AddFirewallDroplets,
                      RemoveFirewallDroplets, Becomes
  <2>7. CASE CreateDroplet(c)
    <3>1. CASE Return(c, "error")
      <4>1. out'[c] = "error" /\ pc'[c] = "returned"
        BY <2>0, <3>1 DEF Outs
      <4>2. did' = did \cup {c} /\ lost' = lost \cup {c}
        BY <2>7, <4>1 DEF CreateDroplet, At, Goto, TypeOK
      <4> QED BY <2>1, <4>1, <4>2 DEF Alone
    <3>2. CASE ~Return(c, "error")
      <4>1. out'[c] = "none" /\ pc'[c] = "lookup" /\ did' = did \cup {c} /\ lost' = lost
        BY <2>7, <3>2 DEF CreateDroplet, At, Goto, TypeOK
      <4> QED BY <2>1, <4>1 DEF Alone
    <3> QED BY <3>1, <3>2
  <2>8. CASE LookUp(c)
    <3>1. UNCHANGED <<did, lost>> /\ c \in did /\ (Return(c, "ok") \/ Return(c, "reference"))
      BY <2>8 DEF LookUp, At, cloud
    <3>2. out'[c] \in {"ok", "reference"} /\ pc'[c] = "returned"
      BY <2>0, <3>1 DEF Outs
    <3> QED BY <2>1, <3>1, <3>2 DEF Alone
  <2> QED BY <1>4, <2>2, <2>3, <2>4, <2>6, <2>7, <2>8 DEF Step, Requested
<1> QED BY <1>1, <1>2, <1>3, <1>4 DEF Next, Start

(* ok means done, an error means not done or an answer that was lost: in
   particular no created droplet goes unreported because a look-up failed. *)
THEOREM AnswersAreTrue == Spec => []AnswerIsTrue
<1>1. Init => AnswerInv
  BY InitTypes DEF AnswerInv, Told, AnswerIsTrue, Init
<1>2. AnswerInv => AnswerIsTrue
  BY DEF AnswerInv
<1> QED BY <1>1, <1>2, AnswerStep, PTL DEF Spec

-----------------------------------------------------------------------------
(* The telemetry.  What runs is no dry run, in whatever shape dry_run came, and *)
(* what was previewed is reported so, or its dry_run was text.               *)
Reported == (\A c \in Calls : pc[c] # "returned" => event[c] = "none") /\ TelemetryIsTrue

ReportInv == AnswerInv /\ Reported

LEMMA ReturnReports ==
  ASSUME TypeInv, NEW c \in Running, NEW o \in Outs, Return(c, o)
  PROVE /\ out'[c] = o /\ pc'[c] = "returned"
        /\ event'[c] = IF o \in {"preview", "ok", "reference"} THEN "change" ELSE "none"
<1>1. EventOf(req[c]) = "change"
  BY DEF TypeInv, Gated, Dry, EventOf
<1>2. c \in Calls
  BY DEF Running
<1> QED BY <1>1, <1>2 DEF Return, Answers, TypeInv, TypeOK

\* How a running call moves on: it returns an answer, or goes on without one.
LEMMA StepReports ==
  ASSUME TypeInv, NEW c \in Calls, Step(c)
  PROVE /\ did' \subseteq did \cup {c}
        /\ \/ /\ out'[c] \in {"ok", "reference"} /\ event'[c] = "change"
              /\ pc'[c] = "returned"
           \/ out'[c] = "error" /\ event'[c] = "none" /\ pc'[c] = "returned"
           \/ out'[c] = out[c] /\ event'[c] = event[c] /\ pc[c] # "returned"
<1> USE DEF At, Running
<1>0. ASSUME NEW o \in {"ok", "reference", "error"}, c \in Running, Return(c, o)
      PROVE \/ out'[c] \in {"ok", "reference"} /\ event'[c] = "change" /\ pc'[c] = "returned"
            \/ out'[c] = "error" /\ event'[c] = "none" /\ pc'[c] = "returned"
  <2> HIDE DEF Running
  <2> QED BY <1>0, ReturnReports DEF Outs
<1>1. CASE Panic(c)
  BY <1>1 DEF Panic, cloud
<1>2. CASE Read(c)
  <2>1. did' = did /\ c \in Running
    BY <1>2 DEF Read, cloud
  <2>2. CASE Return(c, "error")
    BY <1>0, <2>1, <2>2
  <2>3. CASE ~Return(c, "error")
    BY <1>2, <2>1, <2>3 DEF Read, Goto
  <2> QED BY <2>2, <2>3
<1>3. CASE Fails(c) \/ LookUp(c)
  <2>1. /\ did' = did /\ c \in Running
        /\ \E o \in {"ok", "reference", "error"} : Return(c, o)
    BY <1>3 DEF Fails, LookUp, cloud
  <2> QED BY <1>0, <2>1
<1>4. CASE CreateFirewall(c) \/ UpdateFirewall(c) \/ DeleteFirewall(c)
           \/ AddFirewallDroplets(c) \/ RemoveFirewallDroplets(c)
  <2>1. Done(c) /\ c \in Running
    BY <1>4 DEF CreateFirewall, UpdateFirewall, DeleteFirewall, AddFirewallDroplets,
                RemoveFirewallDroplets, Becomes
  <2>2. did' = did \cup {c} /\ \E o \in {"ok", "reference", "error"} : Return(c, o)
    BY <2>1 DEF Done
  <2> QED BY <1>0, <2>1, <2>2
<1>5. CASE CreateDroplet(c)
  <2>1. did' = did \cup {c} /\ c \in Running
    BY <1>5 DEF CreateDroplet
  <2>2. CASE Return(c, "error")
    BY <1>0, <2>1, <2>2
  <2>3. CASE ~Return(c, "error")
    BY <1>5, <2>1, <2>3 DEF CreateDroplet, Goto
  <2> QED BY <2>2, <2>3
<1> QED BY <1>1, <1>2, <1>3, <1>4, <1>5 DEF Step, Requested

LEMMA ReportStep == ReportInv /\ [Next]_vars => ReportInv'
<1> SUFFICES ASSUME ReportInv, [Next]_vars PROVE Reported'
  BY AnswerStep DEF ReportInv
<1> USE DEF ReportInv, AnswerInv, TypeInv, Told, Reported, TelemetryIsTrue
<1>1. CASE UNCHANGED vars
  BY <1>1 DEF vars
<1>2. CASE Configure \/ Load \/ Unload
  BY <1>2 DEF Configure, Load, Unload, cloud
<1>3. ASSUME NEW c \in Calls, NEW r \in Requests,
             Refuse(c, r) \/ Preview(c, r) \/ NoCredential(c, r) \/ Begin(c, r)
      PROVE Reported'
  <2>1. Alone(c) /\ did' = did /\ c \notin did /\ event[c] = "none"
    BY <1>3, StartAlone DEF Refuse, Preview, NoCredential, Begin, Asks, cloud
  <2>2. CASE Begin(c, r)
    <3>1. out'[c] = out[c] /\ event'[c] = event[c] /\ pc[c] # "returned"
      BY <2>2 DEF Begin, Asks, Goto
    <3> QED BY <2>1, <3>1 DEF Alone
  <2>3. CASE Refuse(c, r) \/ NoCredential(c, r)
    <3>1. /\ out'[c] \in {"refused", "credential_missing"} /\ event'[c] = "none"
          /\ pc'[c] = "returned"
      BY <2>3 DEF Refuse, NoCredential, Answers, TypeOK
    <3> QED BY <2>1, <3>1 DEF Alone
  <2>4. CASE Preview(c, r)
    <3>1. /\ out'[c] = "preview" /\ event'[c] \in {"change", "preview"}
          /\ pc'[c] = "returned" /\ (event'[c] = "preview" \/ c \in worded')
      BY <2>4 DEF Preview, Dry, Answers, EventOf, TypeOK
    <3> QED BY <2>1, <3>1 DEF Alone
  <2> QED BY <1>3, <2>2, <2>3, <2>4
<1>4. ASSUME NEW c \in Calls, Step(c) PROVE Reported'
  <2>1. Alone(c)
    BY <1>4, StepMoves
  <2> QED BY <1>4, <2>1, StepReports DEF Alone
<1> QED BY <1>1, <1>2, <1>3, <1>4 DEF Next, Start

(* What a call tells its caller happened; its event tells a change from a
   preview, except of a preview asked for with text; and only an Unload under
   it makes it panic. *)
THEOREM ReportsAreTrue == Spec => []ReportIsTrue
<1>1. Init => ReportInv
  BY InitTypes DEF ReportInv, AnswerInv, Told, AnswerIsTrue, Reported, TelemetryIsTrue, Init
<1>2. ReportInv /\ PanicsOnlyUnderUnload => ReportIsTrue
  BY DEF ReportInv, AnswerInv, Reported, ReportIsTrue
<1> QED BY <1>1, <1>2, ReportStep, BackendIsThere, PTL DEF Spec

-----------------------------------------------------------------------------
(* The refinement, one call at a time. *)
Serial == /\ \A c, d \in Running : c = d
          /\ \A c \in Calls : pc[c] = "send" /\ req[c].op = "update_firewall" =>
               current[c] = fw[req[c].id]

SerialInv == AnswerInv /\ (calm => Serial)

\* While calls come one at a time, each finds none running.
LEMMA StaysCalm ==
  ASSUME SerialInv, [Next]_vars, calm'
  PROVE Serial /\ \A c \in Calls : Start(c) => Running = {}
<1> USE DEF SerialInv
<1>1. ASSUME NEW P, calm' = (calm /\ P) PROVE calm /\ P
  BY <1>1
<1>2. \A c \in Calls : Start(c) => calm /\ Running = {}
  BY Zenon, <1>1 DEF Start
<1>3. ASSUME calm' = calm PROVE Serial
  BY <1>3
<1>4. CASE UNCHANGED vars
  BY <1>2, <1>3, <1>4 DEF vars
<1>5. CASE Configure \/ Load \/ Unload
  BY <1>2, <1>3, <1>5 DEF Configure, Load, Unload
<1>6. CASE \E c \in Calls : Start(c)
  BY <1>2, <1>6
<1>7. CASE \E c \in Calls : Step(c)
  BY <1>2, <1>3, <1>7 DEF Step, Panic
<1> QED BY <1>4, <1>5, <1>6, <1>7 DEF Next

LEMMA SerialStep == SerialInv /\ [Next]_vars => SerialInv'
<1> SUFFICES ASSUME SerialInv, [Next]_vars, calm' PROVE Serial'
  BY AnswerStep DEF SerialInv
<1>0. Serial /\ \A c \in Calls : Start(c) => Running = {}
  BY StaysCalm
<1> USE <1>0 DEF SerialInv, AnswerInv, TypeInv, Serial
<1>1. CASE UNCHANGED vars
  BY <1>1 DEF vars, Running
<1>2. CASE Configure \/ Load \/ Unload
  BY <1>2 DEF Configure, Load, Unload, cloud, Running
<1>3. ASSUME NEW c \in Calls, NEW r \in Requests, Start(c),
             Refuse(c, r) \/ Preview(c, r) \/ NoCredential(c, r) \/ Begin(c, r)
      PROVE Serial'
  <2>1. Alone(c) /\ Running = {} /\ fw' = fw
    BY <1>3, StartAlone DEF Refuse, Preview, NoCredential, Begin, Asks, cloud
  <2>2. pc'[c] = "returned" \/ (req'[c] = r /\ pc'[c] = First(r))
    BY <1>3 DEF Refuse, Preview, NoCredential, Begin, Answers, Goto, TypeOK
  <2>3. \A d \in Calls : pc'[d] = "send" => d = c
    BY <2>1 DEF Running, Alone
  <2>4. \A d \in Running' : d = c
    BY <2>1 DEF Running, Alone
  <2> QED BY <2>2, <2>3, <2>4 DEF First
<1>4. ASSUME NEW c \in Calls, Step(c) PROVE Serial'
  <2>1. Alone(c) /\ Running' \subseteq Running
    BY <1>4, StepMoves DEF Alone, Running
  <2>2. c \in Running
    BY <1>4 DEF Step, Requested, Panic, Read, Fails, CreateFirewall, UpdateFirewall, DeleteFirewall,
       AddFirewallDroplets, RemoveFirewallDroplets, CreateDroplet, LookUp, At, Running
  <2>3. \A d \in Calls : d # c => pc'[d] # "send"
    BY <2>1, <2>2 DEF Alone, Running
  <2>4. pc'[c] = "send" /\ req'[c].op = "update_firewall" => current'[c] = fw'[req'[c].id]
    <3>1. CASE Panic(c)
      BY <3>1 DEF Panic, cloud
    <3>2. CASE Read(c)
      BY <3>2 DEF Read, At, Goto, Return, Answers, TypeOK, cloud
    <3>3. ASSUME ~Panic(c), ~Read(c) PROVE pc'[c] # "send"
      BY <1>4, <3>3 DEF Step, Requested, Fails, CreateFirewall, UpdateFirewall, DeleteFirewall,
         AddFirewallDroplets, RemoveFirewallDroplets, CreateDroplet, LookUp, At, Becomes, Done,
         Return, Answers, Goto, TypeOK
    <3> QED BY <3>1, <3>2, <3>3
  <2> QED BY <2>1, <2>3, <2>4
<1> QED BY <1>1, <1>2, <1>3, <1>4 DEF Next, Start

\* How the plugin looks to the caller moves only where the call does.
LEMMA AnswerMoves ==
  ASSUME TypeInv, NEW c \in Calls, Alone(c), NEW a, Answer'[c] = a
  PROVE Answer' = [Answer EXCEPT ![c] = a]
<1>1. \A d \in Calls \ {c} : Answer'[d] = Answer[d]
  BY DEF Alone, Answer, Running
<1> QED BY <1>1 DEF Answer

LEMMA RefinementStep ==
  SerialInv /\ [Next]_vars => [calm' => Store!Next]_<<fw, made, req, Answer>>
<1> SUFFICES ASSUME SerialInv, [Next]_vars, calm'
             PROVE Store!Next \/ UNCHANGED <<fw, made, req, Answer>>
  OBVIOUS
<1>0. Serial
  BY StaysCalm
<1> USE <1>0 DEF SerialInv, AnswerInv, TypeInv
<1>1. CASE UNCHANGED vars
  BY <1>1 DEF vars, Answer, Running
<1>2. CASE Configure \/ Load \/ Unload
  BY <1>2 DEF Configure, Load, Unload, cloud, Answer, Running
<1>3. ASSUME NEW c \in Calls, NEW r \in Requests,
             Refuse(c, r) \/ Preview(c, r) \/ NoCredential(c, r) \/ Begin(c, r)
      PROVE Store!Next \/ UNCHANGED <<fw, made, req, Answer>>
  <2>1. Alone(c) /\ pc[c] = "idle" /\ out[c] = "none" /\ Answer[c] = "none" /\ UNCHANGED <<fw, made>>
    BY <1>3, StartAlone DEF Refuse, Preview, NoCredential, Begin, Asks, cloud, Told, Answer, Running
  <2>2. CASE Begin(c, r)
    <3>1. pc'[c] \in {"get", "send"} /\ out'[c] = "none" /\ req'[c] = r /\ r.ack
      BY <2>1, <2>2 DEF Begin, Goto, First, TypeOK, Accepted
    <3>2. Answer'[c] = "sent"
      BY <3>1 DEF Answer, Running
    <3>3. Answer' = [Answer EXCEPT ![c] = "sent"]
      BY <2>1, <3>2, AnswerMoves
    <3>4. Store!Ask(c)
      BY <2>1, <3>1, <3>3 DEF Store!Ask, Store!Others, Alone
    <3> QED BY <3>4 DEF Store!Next
  <2>3. CASE ~Begin(c, r)
    <3>1. /\ pc'[c] = "returned" /\ out'[c] \in {"refused", "preview", "credential_missing"}
          /\ req' = req
      BY <1>3, <2>3 DEF Refuse, Preview, NoCredential, Answers, TypeOK
    <3>2. Answer'[c] = "none"
      BY <3>1 DEF Answer, Running
    <3>3. Answer' = [Answer EXCEPT ![c] = "none"]
      BY <2>1, <3>2, AnswerMoves
    <3>4. Answer' = Answer
      BY <2>1, <3>3 DEF Answer
    <3> QED BY <2>1, <3>1, <3>4
  <2> QED BY <2>2, <2>3
<1>4. ASSUME NEW c \in Calls, Step(c)
      PROVE Store!Next \/ UNCHANGED <<fw, made, req, Answer>>
  <2>0. ASSUME NEW o \in {"ok", "error", "reference"}, Return(c, o)
        PROVE Answer'[c] = IF o = "error" THEN "error" ELSE "ok"
    <3>1. out'[c] = o /\ pc'[c] = "returned"
      BY <2>0 DEF Return, Answers, TypeOK
    <3> QED BY <3>1 DEF Answer
  <2>1. Alone(c) /\ Store!Others(c)
    BY <1>4, StepMoves DEF Alone, Store!Others
  <2>2. ASSUME pc[c] \in {"get", "send"} PROVE Answer[c] = "sent"
    BY <2>2 DEF Told, Answer, Running
  <2>3. ASSUME pc[c] \in {"get", "send"}, Return(c, "error"), UNCHANGED <<fw, made>>
        PROVE Store!Next
    <3>1. Store!Fail(c)
      BY <2>0, <2>1, <2>2, <2>3, AnswerMoves DEF Store!Fail
    <3> QED BY <3>1 DEF Store!Next
  <2>4. ASSUME pc[c] = "send", NEW i \in Ids, Store!Effect(c, i),
               NEW a \in {"ok", "error"}, Answer'[c] = a
        PROVE Store!Next
    <3>1. Store!Apply(c)
      BY <2>1, <2>2, <2>4, AnswerMoves DEF Store!Apply
    <3> QED BY <3>1 DEF Store!Next
  <2>5. ASSUME Done(c) PROVE \E a \in {"ok", "error"} : Answer'[c] = a
    BY <2>0, <2>5 DEF Done
  <2>6. req[c] \in Request /\ req[c].id \in Ids
    BY DEF TypeOK, Request
  <2>7. CASE Panic(c)
    BY <2>7 DEF Panic, cloud, Answer, Running
  <2>8. CASE Read(c)
    <3>1. CASE Return(c, "error")
      BY <2>3, <2>8, <3>1 DEF Read, At, cloud
    <3>2. CASE ~Return(c, "error")
      <4>1. pc'[c] = "send" /\ out'[c] = "none" /\ UNCHANGED <<fw, made, req>>
        BY <2>8, <3>2 DEF Read, At, Goto, TypeOK, Told, cloud
      <4>2. Answer'[c] = "sent" /\ Answer[c] = "sent"
        BY <2>2, <2>8, <4>1 DEF Read, At, Answer, Running
      <4>3. Answer' = [Answer EXCEPT ![c] = "sent"]
        BY <2>1, <4>2, AnswerMoves
      <4>4. Answer' = Answer
        BY <4>2, <4>3 DEF Answer
      <4> QED BY <4>1, <4>4
    <3> QED BY <3>1, <3>2
  <2>9. CASE Fails(c)
    BY <2>3, <2>9 DEF Fails, At, cloud
  <2>10. CASE CreateFirewall(c)
    <3>1. PICK i \in Ids : fw[i] = Unborn /\ fw' = [fw EXCEPT ![i] = Overlay(Blank, req[c].given)]
      BY <2>10 DEF CreateFirewall
    <3>2. Store!Effect(c, i)
      BY <2>10, <3>1 DEF CreateFirewall, Store!Effect, Store!Patch, Overlay, Blank
    <3> QED BY <2>4, <2>5, <2>10, <3>2 DEF CreateFirewall, At
  <2>11. CASE UpdateFirewall(c)
    <3>1. current[c] = fw[req[c].id]
      BY <2>11 DEF UpdateFirewall, At, Serial
    <3>2. Store!Effect(c, req[c].id)
      BY <2>11, <3>1 DEF UpdateFirewall, Becomes, Store!Effect, Store!Patch, Store!Firewall,
                         Firewall, Overlay, TypeOK
    <3> QED BY <2>4, <2>5, <2>6, <2>11, <3>2 DEF UpdateFirewall, Becomes, At
  <2>12. CASE DeleteFirewall(c)
    <3>1. Store!Effect(c, req[c].id)
      BY <2>12 DEF DeleteFirewall, Becomes, Store!Effect, Store!Firewall, Firewall
    <3> QED BY <2>4, <2>5, <2>6, <2>12, <3>1 DEF DeleteFirewall, Becomes, At
  <2>13. CASE AddFirewallDroplets(c) \/ RemoveFirewallDroplets(c)
    <3>1. Store!Effect(c, req[c].id)
      BY <2>6, <2>13 DEF AddFirewallDroplets, RemoveFirewallDroplets, Becomes, Store!Effect,
                  Store!Firewall, Firewall, TypeOK
    <3> QED BY <2>4, <2>5, <2>6, <2>13, <3>1 DEF AddFirewallDroplets, RemoveFirewallDroplets, Becomes, At
  <2>14. CASE CreateDroplet(c)
    <3>1. Store!Effect(c, req[c].id)
      BY <2>14 DEF CreateDroplet, Store!Effect
    <3>2. \E a \in {"ok", "error"} : Answer'[c] = a
      <4>1. CASE Return(c, "error")
        BY <2>0, <4>1
      <4>2. CASE ~Return(c, "error")
        <5>1. pc'[c] = "lookup"
          BY <2>14, <4>2 DEF CreateDroplet, Goto, TypeOK
        <5> QED BY <5>1 DEF Answer
      <4> QED BY <4>1, <4>2
    <3> QED BY <2>4, <2>6, <2>14, <3>1, <3>2 DEF CreateDroplet, At
  <2>15. CASE LookUp(c)
    <3>1. Answer[c] = "ok" /\ Answer'[c] = "ok" /\ UNCHANGED <<fw, made>>
      BY <2>0, <2>15 DEF LookUp, At, Answer, cloud
    <3>2. Answer' = [Answer EXCEPT ![c] = "ok"]
      BY <2>1, <3>1, AnswerMoves
    <3>3. Answer' = Answer
      BY <3>1, <3>2 DEF Answer
    <3>4. Store!Forget(c)
      BY <2>1, <3>1, <3>3 DEF Store!Forget
    <3> QED BY <3>4 DEF Store!Next
  <2> QED BY <1>4, <2>7, <2>8, <2>9, <2>10, <2>11, <2>12, <2>13, <2>14, <2>15 DEF Step, Requested
<1> QED BY <1>1, <1>2, <1>3, <1>4 DEF Next, Start

(* As long as calls come one at a time, every write is a single patch of
   exactly the fields it was given, made only when acknowledged, and answered
   truthfully. *)
THEOREM WritesArePatches == Spec => IsInventory
<1>1. Init => SerialInv
  BY InitTypes DEF SerialInv, AnswerInv, Told, AnswerIsTrue, Serial, Init, Running
<1>2. SerialInv /\ [Next]_vars => SerialInv'
  BY SerialStep
<1>3. Init => Store!Init
  BY DEF Init, Store!Init, Store!Firewall, Firewall, Answer, Running
<1>4. SerialInv /\ [Next]_vars => [calm' => Store!Next]_<<fw, made, req, Answer>>
  BY RefinementStep
<1> QED BY <1>1, <1>2, <1>3, <1>4, PTL DEF Spec, IsInventory

-----------------------------------------------------------------------------
(* Azure's choice of a subscription. *)
Built ==
  /\ azBackend <= loads
  /\ \A c \in Calls : using[c] <= loads
  /\ \A l \in Azure!Loads : l > loads => resolved[l] = NoSub

ChosenInTurn(c) ==
  stage[c] \in {"get", "list", "memoise", "use", "answered"} =>
    /\ stage[c] = "list" => requested[c] = NoSub /\ default[using[c]] = NoSub
    /\ stage[c] # "list" => target[c] \in Subs
    /\ requested[c] # NoSub => target[c] = requested[c]
    /\ requested[c] = NoSub /\ default[using[c]] # NoSub => target[c] = default[using[c]]

Explained ==
  /\ \A l \in Azure!Loads : resolved[l] # NoSub /\ default[l] = NoSub => resolved[l] \in named[l] \cup sole[l]
  /\ \A c \in Calls :
       /\ stage[c] \in {"get", "memoise", "use", "answered"} /\ requested[c] = NoSub /\ default[using[c]] = NoSub
            => target[c] \in named[using[c]] \cup sole[using[c]]
       /\ stage[c] = "memoise" /\ requested[c] # NoSub => target[c] \in named[using[c]]

AzureInv == Azure!TypeOK /\ Built /\ (\A c \in Calls : ChosenInTurn(c)) /\ Explained

LEMMA AzureStarts == Azure!Init => AzureInv
<1> SUFFICES ASSUME Azure!Init PROVE AzureInv
  OBVIOUS
<1>1. Azure!TypeOK
  BY EstateAssumption DEF Azure!Init, Azure!TypeOK, Azure!Loads, Azure!Option, Azure!Stages
<1>2. Built
  BY DEF Azure!Init, Built
<1>3. (\A c \in Calls : ChosenInTurn(c)) /\ Explained
  BY DEF Azure!Init, ChosenInTurn, Explained
<1> QED BY <1>1, <1>2, <1>3 DEF AzureInv

(* Azure!Get and Azure!List only add to what is known of the load they run in. *)
LEMMA GetAddsToKnown ==
  ASSUME Azure!TypeOK, NEW c \in Calls, Azure!Get(c)
  PROVE  /\ named' \in [Azure!Loads -> SUBSET Subs]
         /\ \A l \in Azure!Loads : named[l] \subseteq named'[l]
         /\ stage'[c] = "memoise" /\ requested[c] # NoSub => requested[c] \in named'[using[c]]
<1> DEFINE S == named[using[c]] \cup ({requested[c]} \ {NoSub})
<1>1. using[c] \in Azure!Loads /\ requested[c] \in Azure!Option /\ named[using[c]] \in SUBSET Subs
  BY DEF Azure!TypeOK
<1>2. S \in SUBSET Subs
  BY <1>1 DEF Azure!Option
<1>3. requested[c] # NoSub => requested[c] \in S
  OBVIOUS
<1>4. named[using[c]] \subseteq S
  OBVIOUS
<1>5. \/ named' = [named EXCEPT ![using[c]] = S]
      \/ named' = named /\ stage'[c] # "memoise"
  BY DEF Azure!Get, Azure!Goto, Azure!TypeOK
<1> QED
  <2> HIDE DEF S
  <2> QED BY <1>1, <1>2, <1>3, <1>4, <1>5 DEF Azure!TypeOK

LEMMA ListAddsToKnown ==
  ASSUME Azure!TypeOK, NEW c \in Calls, Azure!List(c)
  PROVE  /\ sole' \in [Azure!Loads -> SUBSET Subs]
         /\ \A l \in Azure!Loads : sole[l] \subseteq sole'[l]
         /\ stage'[c] = "memoise" => target'[c] \in sole'[using[c]] \cap Subs
<1>1. using[c] \in Azure!Loads /\ sole[using[c]] \in SUBSET Subs
  BY DEF Azure!TypeOK
<1>2. CASE sole' = sole /\ stage'[c] # "memoise"
  BY <1>2 DEF Azure!TypeOK
<1>3. ASSUME NEW s \in Subs, target' = [target EXCEPT ![c] = s],
             sole' = [sole EXCEPT ![using[c]] = @ \cup {s}]
      PROVE  /\ sole' \in [Azure!Loads -> SUBSET Subs]
             /\ \A l \in Azure!Loads : sole[l] \subseteq sole'[l]
             /\ target'[c] \in sole'[using[c]] \cap Subs
  <2> DEFINE S == sole[using[c]] \cup {s}
  <2>1. S \in SUBSET Subs /\ s \in S /\ sole[using[c]] \subseteq S
    BY <1>1
  <2>2. sole' = [sole EXCEPT ![using[c]] = S]
    BY <1>3
  <2> QED
    <3> HIDE DEF S
    <3> QED BY <1>1, <1>3, <2>1, <2>2 DEF Azure!TypeOK
<1> QED BY <1>2, <1>3 DEF Azure!List, Azure!Goto, Azure!TypeOK

LEMMA AzureTypeStep == Azure!TypeOK /\ [Azure!Next]_(Azure!vars) => Azure!TypeOK'
<1> SUFFICES ASSUME Azure!TypeOK, [Azure!Next]_(Azure!vars) PROVE Azure!TypeOK'
  OBVIOUS
<1> USE EstateAssumption DEF Azure!TypeOK, Azure!Loads, Azure!Option, Azure!Stages, Azure!pluginVars
<1>1. CASE UNCHANGED Azure!vars
  BY <1>1 DEF Azure!vars
<1>2. CASE Azure!Configure \/ Azure!Unload \/ Azure!Regrant
  BY <1>2 DEF Azure!Configure, Azure!Unload, Azure!Regrant
<1>3. CASE Azure!Load
  BY <1>3 DEF Azure!Load
<1>4. ASSUME NEW c \in Calls, Azure!Step(c) PROVE Azure!TypeOK'
  <2> USE DEF Azure!Goto
  <2>1. CASE Azure!Call(c)
    BY <2>1 DEF Azure!Call
  <2>2. CASE Azure!Choose(c)
    <3>1. Azure!Preferred(c) \in Azure!Option
      BY DEF Azure!Preferred
    <3> QED BY <2>2, <3>1 DEF Azure!Choose
  <2>3. CASE Azure!Get(c)
    <3>1. named' \in [Azure!Loads -> SUBSET Subs]
      BY <2>3, GetAddsToKnown
    <3> QED BY <2>3, <3>1 DEF Azure!Get
  <2>4. CASE Azure!List(c)
    <3>1. sole' \in [Azure!Loads -> SUBSET Subs]
      BY <2>4, ListAddsToKnown
    <3> QED BY <2>4, <3>1 DEF Azure!List
  <2>5. CASE Azure!Memoise(c)
    BY <2>5 DEF Azure!Memoise
  <2>6. CASE Azure!Use(c)
    BY <2>6 DEF Azure!Use
  <2> QED BY <1>4, <2>1, <2>2, <2>3, <2>4, <2>5, <2>6 DEF Azure!Step
<1> QED BY <1>1, <1>2, <1>3, <1>4 DEF Azure!Next

LEMMA AzureKeeps == AzureInv /\ [Azure!Next]_(Azure!vars) => AzureInv'
<1> SUFFICES ASSUME AzureInv, [Azure!Next]_(Azure!vars) PROVE (Built /\ (\A c \in Calls : ChosenInTurn(c)) /\ Explained)'
  BY AzureTypeStep DEF AzureInv
<1> USE EstateAssumption DEF AzureInv, Azure!TypeOK, Azure!Loads, Azure!Option, Azure!pluginVars
<1>1. CASE UNCHANGED Azure!vars \/ Azure!Configure \/ Azure!Unload \/ Azure!Regrant
  BY <1>1 DEF Azure!vars, Azure!Configure, Azure!Unload, Azure!Regrant, Built, ChosenInTurn, Explained
<1>2. CASE Azure!Load
  <2>1. loads' \in Azure!Loads /\ loads' = loads + 1 /\ \A l \in Azure!Loads : l # loads' => default'[l] = default[l]
    BY <1>2 DEF Azure!Load
  <2>2. \A c \in Calls : default'[using[c]] = default[using[c]]
    BY <2>1 DEF Built
  <2>3. Built'
    BY <1>2 DEF Azure!Load, Built
  <2>4. \A c \in Calls : ChosenInTurn(c)'
    BY <1>2, <2>2 DEF Azure!Load, ChosenInTurn
  <2>5. Explained'
    BY <1>2, <2>1, <2>2 DEF Azure!Load, Built, Explained
  <2> QED BY <2>3, <2>4, <2>5
<1>3. ASSUME NEW c \in Calls, Azure!Step(c) PROVE (Built /\ (\A d \in Calls : ChosenInTurn(d)) /\ Explained)'
  <2> USE DEF Azure!Goto
  <2>1. Built'
    BY <1>3 DEF Azure!Step, Azure!Call, Azure!Choose, Azure!Get, Azure!List, Azure!Memoise, Azure!Use, Built
  <2>2. \A d \in Calls : ChosenInTurn(d)'
    <3>1. CASE Azure!Call(c) \/ Azure!Use(c)
      BY <3>1 DEF Azure!Call, Azure!Use, ChosenInTurn
    <3>2. CASE Azure!Choose(c)
      BY <3>2 DEF Azure!Choose, Azure!Preferred, ChosenInTurn
    <3>3. CASE Azure!Get(c) \/ Azure!Memoise(c)
      BY <3>3 DEF Azure!Get, Azure!Memoise, ChosenInTurn
    <3>4. CASE Azure!List(c)
      BY <3>4 DEF Azure!List, ChosenInTurn
    <3> QED BY <1>3, <3>1, <3>2, <3>3, <3>4 DEF Azure!Step
  <2>3. Explained'
    <3>1. CASE Azure!Call(c) \/ Azure!Use(c)
      BY <3>1 DEF Azure!Call, Azure!Use, Explained
    <3>2. CASE Azure!Choose(c)
      BY <3>2 DEF Azure!Choose, Azure!Preferred, Explained
    <3>3. CASE Azure!Get(c)
      <4>1. /\ \A l \in Azure!Loads : named[l] \subseteq named'[l]
            /\ stage'[c] = "memoise" /\ requested[c] # NoSub => requested[c] \in named'[using[c]]
        BY <3>3, GetAddsToKnown
      <4>2. /\ UNCHANGED <<resolved, default, using, requested, target, sole>>
            /\ \A d \in Calls \ {c} : stage'[d] = stage[d]
            /\ stage[c] = "get" /\ stage'[c] \in {"memoise", "error"}
        BY <3>3 DEF Azure!Get
      <4>3. requested[c] # NoSub => target[c] = requested[c]
        BY <4>2 DEF ChosenInTurn
      <4> QED BY <4>1, <4>2, <4>3 DEF Explained
    <3>4. CASE Azure!List(c)
      <4>1. /\ \A l \in Azure!Loads : sole[l] \subseteq sole'[l]
            /\ stage'[c] = "memoise" => target'[c] \in sole'[using[c]]
        BY <3>4, ListAddsToKnown
      <4>2. /\ UNCHANGED <<resolved, default, using, requested, named>>
            /\ \A d \in Calls \ {c} : stage'[d] = stage[d] /\ target'[d] = target[d]
            /\ stage[c] = "list" /\ stage'[c] \in {"memoise", "error"}
        BY <3>4 DEF Azure!List
      <4>3. requested[c] = NoSub
        BY <4>2 DEF ChosenInTurn
      <4> QED BY <4>1, <4>2, <4>3 DEF Explained
    <3>5. CASE Azure!Memoise(c)
      BY <3>5 DEF Azure!Memoise, ChosenInTurn, Explained
    <3> QED BY <1>3, <3>1, <3>2, <3>3, <3>4, <3>5 DEF Azure!Step
  <2> QED BY <2>1, <2>2, <2>3
<1> QED BY <1>1, <1>2, <1>3 DEF Azure!Next

(* Every variable keeps its type. *)
THEOREM AzureTypes == Azure!Spec => []Azure!TypeOK
<1>1. AzureInv => Azure!TypeOK
  BY DEF AzureInv
<1> QED BY <1>1, AzureStarts, AzureKeeps, PTL DEF Azure!Spec

(* The argument comes before the configured default, and both before the memo. *)
THEOREM ChoiceIsInOrder == Azure!Spec => []Azure!ChosenInOrder
<1>1. AzureInv => Azure!ChosenInOrder
  BY DEF AzureInv, ChosenInTurn, Azure!ChosenInOrder, Azure!Chosen
<1> QED BY <1>1, AzureStarts, AzureKeeps, PTL DEF Azure!Spec

(* A call that names nothing acts on what its own load has settled on. *)
THEOREM MemoIsExplained == Azure!Spec => []Azure!DefaultIsExplained
<1>1. AzureInv => Azure!DefaultIsExplained
  BY DEF AzureInv, Explained, Azure!DefaultIsExplained, Azure!ByDefault, Azure!Chosen
<1> QED BY <1>1, AzureStarts, AzureKeeps, PTL DEF Azure!Spec

-----------------------------------------------------------------------------
(* The rest of a DigitalOcean account.  That a list not called truncated is *)
(* whole rests on what a page number has to do with what was read: whatever *)
(* a list has yet to read comes after the pages it asked for (Ahead), since *)
(* only a deletion, never a creation, brings a thing's turn forward.        *)

Stated ==
  \A c \in Calls : /\ flSaid[c] = "none" <=> flStage[c] # "returned"
                   /\ c \in flDid => flStage[c] = "returned"

Ahead(c) ==
  \A t \in since[c] \ found[c] :
    t \in Fleet!Shown(flReq[c]) /\ Fleet!Turn(flReq[c], t) > (page[c] - 1) * PageSize

Reads == /\ \A c \in Calls : flStage[c] = "idle" => page[c] = 1
         /\ \A c \in Calls \ shrunk : flStage[c] = "walk" => Ahead(c)

FleetInv == Fleet!FleetTypeOK /\ Stated /\ Fleet!FleetIsAsTold /\ Reads

FleetRequest == [op : Fleet!Ops, ids : SUBSET Things, place : Places \cup {Nobody, "on"},
                 gb : 0..MaxGB, tag : Tags \cup {Absent}]

LEMMA RequestOfFleet ==
  ASSUME NEW r \in Fleet!Requests, Fleet!Sound(r) PROVE r \in FleetRequest
<1>1. PICK op \in Fleet!Ops :
        \E ids \in SUBSET Things, p \in Places \cup {Nobody, "on"},
           n \in IF op \in {"create_volume", "resize_volume"} THEN 0..MaxGB + 1 ELSE {0},
           t \in Tags \cup {Absent} : r = Fleet!Request(op, ids, p, n, t)
  BY DEF Fleet!Requests, Fleet!Of
<1>2. PICK ids \in SUBSET Things, p \in Places \cup {Nobody, "on"},
           n \in IF op \in {"create_volume", "resize_volume"} THEN 0..MaxGB + 1 ELSE {0},
           t \in Tags \cup {Absent} : r = [op |-> op, ids |-> ids, place |-> p, gb |-> n, tag |-> t]
  BY <1>1 DEF Fleet!Request
<1>3. n \in 0..MaxGB
  <2>1. CASE op \in {"create_volume", "resize_volume"}
    BY <1>2, <2>1, FleetAssumption DEF Fleet!Sound
  <2>2. CASE op \notin {"create_volume", "resize_volume"}
    BY <1>2, <2>2, FleetAssumption
  <2> QED BY <2>1, <2>2
<1> QED BY <1>2, <1>3 DEF FleetRequest

LEMMA NoFleetRequest == Fleet!NoRequest \in FleetRequest
BY FleetAssumption DEF Fleet!NoRequest, Fleet!Request, FleetRequest, Fleet!Ops, Fleet!Lists

(* Answers and the variables they change. *)
LEMMA ReturnsOfFleet ==
  ASSUME Fleet!FleetTypeOK, NEW c \in Calls, NEW a \in Fleet!Answers, Fleet!Return(c, a)
  PROVE  /\ flStage' \in [Calls -> {"idle", "send", "readTag", "makeTag", "putTag", "walk", "returned"}]
         /\ flSaid' \in [Calls -> Fleet!Answers] /\ flReq' \in [Calls -> FleetRequest]
         /\ page' \in [Calls -> 1..MaxPages]
         /\ flStage'[c] = "returned" /\ flSaid'[c] = a
         /\ \A d \in Calls \ {c} : /\ flStage'[d] = flStage[d] /\ flSaid'[d] = flSaid[d]
                                   /\ flReq'[d] = flReq[d] /\ page'[d] = page[d]
BY NoFleetRequest, FleetAssumption
   DEF Fleet!FleetTypeOK, FleetRequest, Fleet!Return, Fleet!Answer

LEMMA DoneOfFleet ==
  ASSUME Fleet!FleetTypeOK, NEW c \in Calls, Fleet!Done(c)
  PROVE  /\ \E a \in {"ok", "error"} : Fleet!Return(c, a)
         /\ flDid' = flDid \cup {c}
         /\ \/ flSaid'[c] = "ok" /\ flLost' = flLost
            \/ flSaid'[c] = "error" /\ flLost' = flLost \cup {c}
BY DEF Fleet!Done, Fleet!Return, Fleet!Answer, Fleet!FleetTypeOK

\* Of a call that moves: what it leaves alone, of itself and of the others.
Elsewhere(c) == \A d \in Calls \ {c} : /\ flStage'[d] = flStage[d] /\ flSaid'[d] = flSaid[d]
                                       /\ flReq'[d] = flReq[d] /\ page'[d] = page[d]
                                       /\ found'[d] = found[d] /\ since'[d] = since[d]

Asked(c) == \E r \in Fleet!Requests, mode \in {"dry", "acked", "bare"} : Fleet!Ask(c, r, mode)
Writes(c) == Fleet!Create(c) \/ Fleet!Delete(c) \/ Fleet!Put(c) \/ Fleet!Clear(c)
             \/ Fleet!Resize(c) \/ Fleet!PutTag(c)

LEMMA WritesReturn ==
  ASSUME Fleet!FleetTypeOK, NEW c \in Calls, Writes(c)
  PROVE  /\ Fleet!Done(c) /\ flStage[c] \in {"send", "putTag"}
         /\ UNCHANGED <<ready, found, since>>
         /\ ~Fleet!Delete(c) => UNCHANGED shrunk
         /\ ~Fleet!Delete(c) /\ ~Fleet!Create(c) => UNCHANGED order
BY DEF Writes, Fleet!Create, Fleet!Delete, Fleet!Put, Fleet!Clear, Fleet!Resize, Fleet!PutTag, Fleet!At

\* The counting of OceanFleet is that of FiniteSets.
LEMMA FleetCounts == ASSUME NEW S PROVE Fleet!Cardinality(S) = Cardinality(S)
BY DEF Fleet!Cardinality, Cardinality

\* A place in the lists is given to one thing only, before and after.
LEMMA CreateOrders ==
  ASSUME Fleet!FleetTypeOK, NEW c \in Calls, Fleet!Create(c)
  PROVE  /\ order' \in [Things -> Nat]
         /\ \A t, u \in Things : order'[t] = order'[u] => t = u \/ order'[t] = 0
         /\ \A t, u \in Fleet!There : order[t] <= order[u] => order'[t] <= order'[u]
         /\ \A t \in Fleet!There : order'[t] > 0
<1>1. PICK i \in 1..Fleet!Cardinality(Fleet!There) + 1 :
        order' = [t \in Things |-> IF t = Fleet!The(c) THEN i
                                   ELSE IF order[t] >= i THEN order[t] + 1 ELSE order[t]]
  BY DEF Fleet!Create
<1>2. Fleet!Cardinality(Fleet!There) \in Nat
  <2>1. IsFiniteSet(Fleet!There)
    BY FleetAssumption, FS_Subset DEF Fleet!There
  <2> QED BY <2>1, FS_CardinalityType, FleetCounts
<1>3. i \in Nat /\ i >= 1
  BY <1>1, <1>2
<1>4. Fleet!The(c) \notin Fleet!There
  BY DEF Fleet!Create
<1>5. \A t \in Things : order'[t] = IF t = Fleet!The(c) THEN i
                                    ELSE IF order[t] >= i THEN order[t] + 1 ELSE order[t]
  BY <1>1
<1>6. order \in [Things -> Nat]
  BY DEF Fleet!FleetTypeOK
<1>7. order' \in [Things -> Nat]
  BY <1>1, <1>3, <1>6
<1>8. ASSUME NEW t \in Things, NEW u \in Things, order'[t] = order'[u] PROVE t = u \/ order'[t] = 0
  <2>1. order[t] = order[u] => t = u \/ order[t] = 0
    BY DEF Fleet!FleetTypeOK
  <2> QED BY <1>3, <1>5, <1>6, <1>8, <2>1
<1>9. ASSUME NEW t \in Fleet!There, NEW u \in Fleet!There, order[t] <= order[u]
      PROVE  order'[t] <= order'[u]
  BY <1>3, <1>4, <1>5, <1>6, <1>9 DEF Fleet!There
<1>10. ASSUME NEW t \in Fleet!There PROVE order'[t] > 0
  BY <1>3, <1>4, <1>5, <1>6 DEF Fleet!There
<1> QED BY <1>7, <1>8, <1>9, <1>10

LEMMA DeleteOrders ==
  ASSUME Fleet!FleetTypeOK, NEW c \in Calls, Fleet!Delete(c)
  PROVE  /\ order' \in [Things -> Nat]
         /\ \A t, u \in Things : order'[t] = order'[u] => t = u \/ order'[t] = 0
<1> DEFINE x == Fleet!The(c)
<1>1. x \in Things /\ order[x] \in Nat /\ order[x] > 0
  BY DEF Fleet!Delete, Fleet!There, Fleet!FleetTypeOK
<1>2. order' = [t \in Things |-> IF t = x THEN 0
                                 ELSE IF order[t] > order[x] THEN order[t] - 1 ELSE order[t]]
  BY DEF Fleet!Delete
<1> HIDE DEF x
<1>3. order' \in [Things -> Nat]
  BY <1>1, <1>2 DEF Fleet!FleetTypeOK
<1>4. ASSUME NEW t \in Things, NEW u \in Things, order'[t] = order'[u] PROVE t = u \/ order'[t] = 0
  <2>1. /\ order[t] = order[u] => t = u \/ order[t] = 0
        /\ order[t] = order[x] => t = x \/ order[t] = 0
        /\ order[u] = order[x] => u = x \/ order[u] = 0
        /\ order[t] \in Nat /\ order[u] \in Nat
    BY <1>1 DEF Fleet!FleetTypeOK
  <2>2. \A v \in {t, u} : order'[v] = IF v = x THEN 0
                                     ELSE IF order[v] > order[x] THEN order[v] - 1 ELSE order[v]
    BY <1>2
  <2> QED BY <1>1, <1>4, <2>1, <2>2
<1> QED BY <1>3, <1>4

-----------------------------------------------------------------------------
(* Pages.  The turns of what a list shows are 1, 2, ... without a gap: so a *)
(* page with nothing on it has nothing after it.                            *)

\* In a finite set put in order by f, some element has each turn up to any other's.
TurnIn(T, f, x) == Cardinality({u \in T : f[u] <= f[x]})

LEMMA TurnsHaveNoGap ==
  ASSUME NEW S, NEW T \in SUBSET S, IsFiniteSet(T), NEW f \in [S -> Nat],
         \A t, u \in T : f[t] = f[u] => t = u,
         NEW k \in Nat, NEW x \in T, TurnIn(T, f, x) > k
  PROVE  \E v \in T : TurnIn(T, f, v) = k + 1
<1> DEFINE UpTo(w) == {u \in T : f[u] <= f[w]}
           Late == {w \in T : Cardinality(UpTo(w)) > k}
           Orders == {f[w] : w \in Late}
<1>1. \A w \in T : IsFiniteSet(UpTo(w)) /\ Cardinality(UpTo(w)) \in Nat
  BY FS_Subset, FS_CardinalityType
<1>2. PICK p \in Orders : \A q \in Orders : <<q, p>> \notin OpToRel(<, Nat)
  <2>1. x \in Late /\ Late \subseteq S
    BY DEF TurnIn
  <2>2. Orders \subseteq Nat /\ Orders # {}
    <3> HIDE DEF Late
    <3> QED BY <2>1
  <2> QED BY <2>2, NatLessThanWellFounded, WFMin
<1>3. PICK v \in Late : p = f[v]
  OBVIOUS
<1>4. ASSUME NEW u \in T, f[u] < f[v] PROVE Cardinality(UpTo(u)) <= k
  <2>1. f[u] \in Nat /\ f[v] \in Nat
    OBVIOUS
  <2>2. <<f[u], f[v]>> \in OpToRel(<, Nat)
    BY <1>4, <2>1 DEF OpToRel
  <2>3. u \notin Late
    BY <1>2, <1>3, <2>2
  <2> HIDE DEF UpTo
  <2> QED BY <1>1, <2>3
<1> DEFINE Before == {u \in T : f[u] < f[v]}
<1>5. IsFiniteSet(Before) /\ Cardinality(Before) \in Nat
  BY FS_Subset, FS_CardinalityType
<1>6. Cardinality(UpTo(v)) = Cardinality(Before) + 1
  <2>1. v \in T /\ v \notin Before /\ UpTo(v) = Before \cup {v}
    OBVIOUS
  <2> QED BY <1>5, <2>1, FS_AddElement
<1>7. Cardinality(Before) <= k
  <2>1. CASE Before = {}
    BY <2>1, FS_EmptySet
  <2>2. CASE Before # {}
    <3> DEFINE Gaps == {f[v] - f[u] : u \in Before}
    <3>1. Gaps \subseteq Nat /\ Gaps # {}
      BY <2>2
    <3>2. PICK g \in Gaps : \A h \in Gaps : <<h, g>> \notin OpToRel(<, Nat)
      BY <3>1, NatLessThanWellFounded, WFMin
    <3>3. PICK w \in Before : g = f[v] - f[w]
      OBVIOUS
    <3>4. \A h \in Gaps : ~(h < g)
      BY <3>1, <3>2 DEF OpToRel
    <3>5. ASSUME NEW u \in Before PROVE f[u] <= f[w]
      <4>1. f[v] - f[u] \in Gaps
        OBVIOUS
      <4> QED BY <3>3, <3>4, <4>1
    <3>6. Before = UpTo(w)
      BY <3>3, <3>5
    <3> QED BY <1>4, <3>3, <3>6
  <2> QED BY <2>1, <2>2
<1>8. v \in T /\ Cardinality(UpTo(v)) > k /\ Cardinality(UpTo(v)) \in Nat
  BY <1>1
<1>9. Cardinality(UpTo(v)) = k + 1
  <2> HIDE DEF UpTo, Before
  <2> QED BY <1>5, <1>6, <1>7, <1>8
<1> QED BY Zenon, <1>8, <1>9 DEF TurnIn

LEMMA ShownIsFinite == ASSUME NEW r PROVE IsFiniteSet(Fleet!Shown(r)) /\ Fleet!Shown(r) \subseteq Things
BY FleetAssumption, FS_Subset DEF Fleet!Shown, Fleet!There

LEMMA TurnIsNat == ASSUME NEW r, NEW t PROVE Fleet!Turn(r, t) \in Nat
<1>1. IsFiniteSet({u \in Fleet!Shown(r) : order[u] <= order[t]})
  BY ShownIsFinite, FS_Subset
<1> QED BY <1>1, FS_CardinalityType, FleetCounts DEF Fleet!Turn

LEMMA Multiples ==
  ASSUME NEW n \in Nat \ {0} PROVE (n - 1) * PageSize \in Nat /\ n * PageSize = (n - 1) * PageSize + PageSize
BY FleetAssumption

\* Nothing comes after an empty page.
LEMMA EmptyPageIsLast ==
  ASSUME Fleet!FleetTypeOK, NEW r, NEW n \in Nat \ {0}, Fleet!Page(r, n) = {},
         NEW t \in Fleet!Shown(r)
  PROVE  Fleet!Turn(r, t) <= (n - 1) * PageSize
<1> SUFFICES ASSUME Fleet!Turn(r, t) > (n - 1) * PageSize PROVE FALSE
  BY TurnIsNat, Multiples
<1> DEFINE k == (n - 1) * PageSize
<1>1. k \in Nat /\ n * PageSize >= k + 1 /\ k + 1 \in k + 1..n * PageSize
  BY Multiples, FleetAssumption
<1>2. /\ \A w, u \in Fleet!Shown(r) : order[w] = order[u] => w = u
      /\ order \in [Things -> Nat]
      /\ Fleet!Shown(r) \in SUBSET Things
  BY DEF Fleet!FleetTypeOK, Fleet!Shown, Fleet!There
<1>3. \A v : Fleet!Turn(r, v) = TurnIn(Fleet!Shown(r), order, v)
  BY FleetCounts DEF Fleet!Turn, TurnIn
<1>4. PICK v \in Fleet!Shown(r) : TurnIn(Fleet!Shown(r), order, v) = k + 1
  <2>1. TurnIn(Fleet!Shown(r), order, t) > k
    BY <1>3
  <2> HIDE DEF k
  <2> QED BY <1>1, <1>2, <2>1, ShownIsFinite, TurnsHaveNoGap
<1>5. Fleet!Turn(r, v) = k + 1
  BY <1>3, <1>4
<1> QED BY <1>1, <1>5 DEF Fleet!Page

\* Nothing comes after as many turns as there are things to show.
LEMMA TurnIsBounded ==
  ASSUME NEW r, NEW t PROVE Fleet!Turn(r, t) <= Fleet!Cardinality(Fleet!Shown(r))
                            /\ Fleet!Cardinality(Fleet!Shown(r)) \in Nat
BY ShownIsFinite, FS_Subset, FS_CardinalityType, FleetCounts DEF Fleet!Turn

\* A creation, or a change of anything but what there is, brings no turn forward.
LEMMA TurnsOnlyGrow ==
  ASSUME NEW r, NEW t \in Fleet!Shown(r),
         \A u, v \in Fleet!There : order[u] <= order[v] => order'[u] <= order'[v],
         \A u \in Fleet!There : order'[u] > 0
  PROVE  /\ t \in Fleet!Shown(r)'
         /\ Fleet!Turn(r, t)' \in Nat /\ Fleet!Turn(r, t)' >= Fleet!Turn(r, t)
<1> DEFINE S == {u \in Fleet!Shown(r) : order[u] <= order[t]}
           N == {u \in Fleet!Of(r.op) \cap {w \in Things : order'[w] > 0} : order'[u] <= order'[t]}
<1>1. Fleet!Shown(r) \subseteq Fleet!There /\ Fleet!There \subseteq Things
      /\ Fleet!Shown(r) \subseteq Fleet!Of(r.op)
  BY DEF Fleet!Shown, Fleet!There
<1>2. t \in Fleet!Of(r.op) \cap {w \in Things : order'[w] > 0}
  BY <1>1
<1>3. S \subseteq N
  BY <1>1
<1>4. IsFiniteSet(N)
  BY FleetAssumption, FS_Subset
<1>5. Cardinality(S) <= Cardinality(N) /\ Cardinality(N) \in Nat /\ Cardinality(S) \in Nat
  BY <1>3, <1>4, FS_Subset, FS_CardinalityType
<1>6. Fleet!Turn(r, t)' = Cardinality(N) /\ Fleet!Turn(r, t) = Cardinality(S)
  BY FleetCounts DEF Fleet!Turn, Fleet!Shown, Fleet!There
<1> QED BY <1>2, <1>5, <1>6 DEF Fleet!Shown, Fleet!There

-----------------------------------------------------------------------------
\* The parts of a type that a call's step must keep besides its own answer.
LEMMA FleetTypesOf ==
  ASSUME Fleet!FleetTypeOK, ready' = ready,
         order' \in [Things -> Nat],
         \A t, u \in Things : order'[t] = order'[u] => t = u \/ order'[t] = 0,
         at' \in [Things -> Places \cup {Nobody, "on"}], gb' \in [Things -> 0..MaxGB],
         tagged' \in [Tags -> {Absent} \cup SUBSET Things],
         flStage' \in [Calls -> {"idle", "send", "readTag", "makeTag", "putTag", "walk", "returned"}],
         flReq' \in [Calls -> FleetRequest], page' \in [Calls -> 1..MaxPages],
         found' \in [Calls -> SUBSET Things], since' \in [Calls -> SUBSET Things],
         flSaid' \in [Calls -> Fleet!Answers],
         flDid' \subseteq Calls, flLost' \subseteq flDid', shrunk' \subseteq Calls
  PROVE  Fleet!FleetTypeOK'
BY DEF Fleet!FleetTypeOK, FleetRequest

LEMMA AskTypes ==
  ASSUME Fleet!FleetTypeOK, NEW c \in Calls, Asked(c)
  PROVE  Fleet!FleetTypeOK' /\ Elsewhere(c)
<1>1. PICK r \in Fleet!Requests, mode \in {"dry", "acked", "bare"} : Fleet!Ask(c, r, mode)
  BY DEF Asked
<1> USE DEF Fleet!FleetTypeOK, FleetRequest, Elsewhere, Fleet!fleet
<1>2. CASE Fleet!Outcome(r, mode) # "begins"
  <2>1. Fleet!Answer(c, Fleet!Outcome(r, mode)) /\ UNCHANGED <<flReq, since, ready, page, found, Fleet!fleet>>
    BY <1>1, <1>2 DEF Fleet!Ask
  <2>2. Fleet!Outcome(r, mode) \in Fleet!Answers
    BY <1>2 DEF Fleet!Outcome, Fleet!Answers
  <2> QED BY <2>1, <2>2 DEF Fleet!Answer
<1>3. CASE Fleet!Outcome(r, mode) = "begins"
  <2>1. Fleet!Sound(r)
    BY <1>3 DEF Fleet!Outcome
  <2>2. r \in FleetRequest
    BY <1>1, <2>1, RequestOfFleet
  <2>3. PICK s \in {"walk", "readTag", "send"} : flStage' = [flStage EXCEPT ![c] = s]
    BY <1>1, <1>3 DEF Fleet!Ask
  <2>4. PICK S \in SUBSET Things : since' = [since EXCEPT ![c] = S]
    BY <1>1, <1>3, ShownIsFinite DEF Fleet!Ask
  <2>5. flReq' = [flReq EXCEPT ![c] = r] /\ UNCHANGED <<flSaid, ready, page, found, Fleet!fleet>>
    BY <1>1, <1>3 DEF Fleet!Ask
  <2> QED BY <2>2, <2>3, <2>4, <2>5
<1> QED BY <1>2, <1>3

LEMMA DataTypes ==
  ASSUME Fleet!FleetTypeOK, NEW c \in Calls, Writes(c)
  PROVE  /\ order' \in [Things -> Nat]
         /\ \A t, u \in Things : order'[t] = order'[u] => t = u \/ order'[t] = 0
         /\ at' \in [Things -> Places \cup {Nobody, "on"}] /\ gb' \in [Things -> 0..MaxGB]
         /\ tagged' \in [Tags -> {Absent} \cup SUBSET Things] /\ shrunk' \subseteq Calls
<1>1. CASE Fleet!Create(c)
  <2>1. gb' \in [Things -> 0..MaxGB]
    BY <1>1 DEF Fleet!Create, Fleet!FleetTypeOK
  <2> QED BY <1>1, <2>1, CreateOrders DEF Fleet!Create, Fleet!FleetTypeOK
<1>2. CASE Fleet!Delete(c)
  <2>1. at' \in [Things -> Places \cup {Nobody, "on"}] /\ gb' \in [Things -> 0..MaxGB]
    <3>1. at' = [at EXCEPT ![Fleet!The(c)] = Nobody] /\ gb' = [gb EXCEPT ![Fleet!The(c)] = 0]
      BY <1>2 DEF Fleet!Delete
    <3>2. 0 \in 0..MaxGB
      BY FleetAssumption
    <3> QED BY <3>1, <3>2 DEF Fleet!FleetTypeOK
  <2>2. tagged' \in [Tags -> {Absent} \cup SUBSET Things]
    <3>1. tagged' = [t \in Tags |-> IF tagged[t] = Absent THEN Absent ELSE tagged[t] \ {Fleet!The(c)}]
      BY <1>2 DEF Fleet!Delete
    <3>2. \A t \in Tags : tagged[t] # Absent => tagged[t] \ {Fleet!The(c)} \in SUBSET Things
      BY DEF Fleet!FleetTypeOK
    <3> QED BY <3>1, <3>2
  <2>3. shrunk' \subseteq Calls
    BY <1>2 DEF Fleet!Delete, Fleet!FleetTypeOK
  <2> QED BY <1>2, <2>1, <2>2, <2>3, DeleteOrders
<1>3. CASE Fleet!Put(c)
  <2>1. flReq[c].place \in Places \cup {Nobody, "on"}
    BY DEF Fleet!FleetTypeOK
  <2> QED BY <1>3, <2>1 DEF Fleet!Put, Fleet!FleetTypeOK
<1>4. CASE Fleet!Clear(c)
  BY <1>4 DEF Fleet!Clear, Fleet!FleetTypeOK
<1>5. CASE Fleet!Resize(c)
  BY <1>5 DEF Fleet!Resize, Fleet!FleetTypeOK
<1>6. CASE Fleet!PutTag(c)
  <2> DEFINE k == flReq[c].tag
  <2>1. flReq[c].ids \subseteq Things /\ tagged[k] # Absent
    BY <1>6 DEF Fleet!PutTag, Fleet!FleetTypeOK
  <2>2. tagged' = [tagged EXCEPT ![k] = tagged[k] \cup flReq[c].ids]
    BY <1>6 DEF Fleet!PutTag
  <2>3. tagged' \in [Tags -> {Absent} \cup SUBSET Things]
    <3>1. k \in Tags => tagged[k] \cup flReq[c].ids \in SUBSET Things
      BY <2>1 DEF Fleet!FleetTypeOK
    <3> QED BY <2>2, <3>1 DEF Fleet!FleetTypeOK
  <2> QED BY <1>6, <2>3 DEF Fleet!PutTag, Fleet!FleetTypeOK
<1> QED BY <1>1, <1>2, <1>3, <1>4, <1>5, <1>6 DEF Writes

LEMMA WriteTypes ==
  ASSUME Fleet!FleetTypeOK, NEW c \in Calls, Writes(c)
  PROVE  Fleet!FleetTypeOK' /\ Elsewhere(c)
<1>1. PICK a \in {"ok", "error"} : Fleet!Return(c, a)
  BY WritesReturn, DoneOfFleet
<1>2. a \in Fleet!Answers
  BY DEF Fleet!Answers
<1>3. flDid' \subseteq Calls /\ flLost' \subseteq flDid'
  BY WritesReturn, DoneOfFleet DEF Fleet!FleetTypeOK
<1>4. UNCHANGED <<ready, found, since>>
  BY WritesReturn
<1>5. found' \in [Calls -> SUBSET Things] /\ since' \in [Calls -> SUBSET Things]
  BY <1>4 DEF Fleet!FleetTypeOK
<1>6. Fleet!FleetTypeOK'
  BY <1>1, <1>2, <1>3, <1>4, <1>5, DataTypes, ReturnsOfFleet, FleetTypesOf
<1> QED BY <1>1, <1>2, <1>4, <1>6, ReturnsOfFleet DEF Elsewhere

\* A step of a list that reads a page: what it adds to the list, and how it goes on.
LEMMA WalkMoves ==
  ASSUME Fleet!FleetTypeOK, NEW c \in Calls, Fleet!Walk(c)
  PROVE  LET P == Fleet!Page(flReq[c], page[c])
         IN /\ UNCHANGED <<ready, since, order, at, gb, tagged, flDid, flLost, shrunk>>
            /\ P \subseteq Things /\ found' = [found EXCEPT ![c] = found[c] \cup P]
            /\ \/ /\ P # {} /\ page[c] < MaxPages /\ page' = [page EXCEPT ![c] = page[c] + 1]
                  /\ UNCHANGED <<flStage, flReq, flSaid>>
               \/ Fleet!Return(c, "truncated")
               \/ /\ Fleet!Return(c, "whole")
                  /\ P = {} \/ page[c] * PageSize >= Fleet!Cardinality(Fleet!Shown(flReq[c]))
<1> PICK P : P = Fleet!Page(flReq[c], page[c])
  OBVIOUS
<1> SUFFICES /\ UNCHANGED <<ready, since, order, at, gb, tagged, flDid, flLost, shrunk>>
             /\ P \subseteq Things /\ found' = [found EXCEPT ![c] = found[c] \cup P]
             /\ \/ /\ P # {} /\ page[c] < MaxPages /\ page' = [page EXCEPT ![c] = page[c] + 1]
                   /\ UNCHANGED <<flStage, flReq, flSaid>>
                \/ Fleet!Return(c, "truncated")
                \/ /\ Fleet!Return(c, "whole")
                   /\ P = {} \/ page[c] * PageSize >= Fleet!Cardinality(Fleet!Shown(flReq[c]))
  OBVIOUS
<1>1. P \subseteq Things
  BY ShownIsFinite DEF Fleet!Page
<1>2. UNCHANGED <<ready, since, order, at, gb, tagged, flDid, flLost, shrunk>>
  BY DEF Fleet!Walk, Fleet!fleet
<1>3. found' = [found EXCEPT ![c] = found[c] \cup P]
  BY DEF Fleet!Walk
<1>4. PICK last \in BOOLEAN :
        /\ last => page[c] * PageSize >= Fleet!Cardinality(Fleet!Shown(flReq[c]))
        /\ IF Fleet!End(c, last, P) = "more"
           THEN page' = [page EXCEPT ![c] = @ + 1] /\ UNCHANGED <<flStage, flReq, flSaid>>
           ELSE Fleet!Return(c, Fleet!End(c, last, P))
  BY DEF Fleet!Walk
<1>5. page[c] \in Nat /\ MaxPages \in Nat
  BY FleetAssumption DEF Fleet!FleetTypeOK
<1>6. CASE Fleet!End(c, last, P) = "more"
  <2>1. P # {} /\ page[c] < MaxPages
    BY <1>5, <1>6 DEF Fleet!End
  <2> QED BY <1>1, <1>2, <1>3, <1>4, <1>6, <2>1
<1>7. CASE Fleet!End(c, last, P) = "truncated"
  BY <1>1, <1>2, <1>3, <1>4, <1>7
<1>8. CASE Fleet!End(c, last, P) = "whole"
  <2>1. last \/ P = {}
    BY <1>8 DEF Fleet!End
  <2> QED BY <1>1, <1>2, <1>3, <1>4, <1>8, <2>1
<1>9. Fleet!End(c, last, P) \in {"more", "truncated", "whole"}
  BY DEF Fleet!End
<1> QED BY <1>6, <1>7, <1>8, <1>9

LEMMA WalkTypes ==
  ASSUME Fleet!FleetTypeOK, NEW c \in Calls, Fleet!Walk(c)
  PROVE  Fleet!FleetTypeOK' /\ Elsewhere(c)
<1>1. PICK P \in SUBSET Things : found' = [found EXCEPT ![c] = found[c] \cup P]
  BY WalkMoves
<1>2. UNCHANGED <<ready, since, order, at, gb, tagged, flDid, flLost, shrunk>>
  BY WalkMoves
<1>3. found' \in [Calls -> SUBSET Things]
  BY <1>1 DEF Fleet!FleetTypeOK
<1>4. CASE \E a \in {"truncated", "whole"} : Fleet!Return(c, a)
  <2>1. PICK a \in Fleet!Answers : Fleet!Return(c, a)
    BY <1>4 DEF Fleet!Answers
  <2> QED BY <1>1, <1>2, <1>3, <2>1, ReturnsOfFleet DEF Fleet!FleetTypeOK, Elsewhere, FleetRequest
<1>5. CASE /\ page[c] < MaxPages /\ page' = [page EXCEPT ![c] = page[c] + 1]
           /\ UNCHANGED <<flStage, flReq, flSaid>>
  <2>1. page' \in [Calls -> 1..MaxPages]
    BY <1>5, FleetAssumption DEF Fleet!FleetTypeOK
  <2> QED BY <1>1, <1>2, <1>3, <1>5, <2>1 DEF Fleet!FleetTypeOK, Elsewhere
<1> QED BY <1>4, <1>5, WalkMoves

\* Any other step of a call.
Else(c) == Fleet!ReadTag(c) \/ Fleet!MakeTag(c) \/ Fleet!Fails(c)

LEMMA ElseMoves ==
  ASSUME Fleet!FleetTypeOK, NEW c \in Calls, Else(c)
  PROVE  /\ UNCHANGED <<ready, found, since, order, at, gb, flDid, flLost, shrunk>>
         /\ tagged' \in [Tags -> {Absent} \cup SUBSET Things]
         /\ flStage[c] \in {"send", "readTag", "makeTag", "putTag", "walk"}
         /\ \/ Fleet!Return(c, "error")
            \/ flStage[c] # "walk" /\ \E s \in {"makeTag", "putTag"} : Fleet!Goto(c, s)
<1>1. CASE Fleet!ReadTag(c)
  BY <1>1 DEF Fleet!ReadTag, Fleet!At, Fleet!fleet, Fleet!FleetTypeOK
<1>2. CASE Fleet!MakeTag(c)
  <2>1. tagged' \in [Tags -> {Absent} \cup SUBSET Things]
    BY <1>2 DEF Fleet!MakeTag, Fleet!FleetTypeOK
  <2> QED BY <1>2, <2>1 DEF Fleet!MakeTag, Fleet!At
<1>3. CASE Fleet!Fails(c)
  BY <1>3 DEF Fleet!Fails, Fleet!At, Fleet!fleet, Fleet!FleetTypeOK
<1> QED BY <1>1, <1>2, <1>3 DEF Else

LEMMA ElseTypes ==
  ASSUME Fleet!FleetTypeOK, NEW c \in Calls, Else(c)
  PROVE  Fleet!FleetTypeOK' /\ Elsewhere(c)
<1>1. CASE Fleet!Return(c, "error")
  <2>1. "error" \in Fleet!Answers
    BY DEF Fleet!Answers
  <2> QED BY <1>1, <2>1, ElseMoves, ReturnsOfFleet DEF Fleet!FleetTypeOK, Elsewhere, FleetRequest
<1>2. ASSUME NEW s \in {"makeTag", "putTag"}, Fleet!Goto(c, s) PROVE Fleet!FleetTypeOK' /\ Elsewhere(c)
  BY <1>2, ElseMoves DEF Fleet!Goto, Fleet!FleetTypeOK, Elsewhere
<1> QED BY <1>1, <1>2, ElseMoves

LEMMA FleetCases ==
  ASSUME Fleet!FleetNext
  PROVE  \E c \in Calls : (flStage[c] = "idle" /\ Asked(c)) \/ Writes(c) \/ Fleet!Walk(c) \/ Else(c)
BY DEF Fleet!FleetNext, Asked, Writes, Else

LEMMA FleetTypeStep ==
  ASSUME Fleet!FleetTypeOK, [Fleet!FleetNext]_(Fleet!fleetVars) PROVE Fleet!FleetTypeOK'
<1>1. CASE UNCHANGED Fleet!fleetVars
  BY <1>1 DEF Fleet!fleetVars, Fleet!FleetTypeOK
<1>2. CASE Fleet!FleetNext
  BY <1>2, FleetCases, AskTypes, WriteTypes, WalkTypes, ElseTypes
<1> QED BY <1>1, <1>2

\* What a call has said of its write, and that it says it when it returns.
LEMMA StatedStep ==
  ASSUME Fleet!FleetTypeOK, Stated, Fleet!AnswersAreTrue, [Fleet!FleetNext]_(Fleet!fleetVars)
  PROVE  (Stated /\ Fleet!AnswersAreTrue)'
<1>1. CASE UNCHANGED Fleet!fleetVars
  BY <1>1 DEF Fleet!fleetVars, Stated, Fleet!AnswersAreTrue
<1> USE DEF Stated, Fleet!AnswersAreTrue
<1>2. CASE Fleet!FleetNext
  <2>1. PICK c \in Calls : (flStage[c] = "idle" /\ Asked(c)) \/ Writes(c) \/ Fleet!Walk(c) \/ Else(c)
    BY <1>2, FleetCases
  <2>2. Elsewhere(c)
    BY <2>1, AskTypes, WriteTypes, WalkTypes, ElseTypes
  <2>3. ASSUME NEW a \in {"error", "truncated", "whole"}, Fleet!Return(c, a),
               flStage[c] # "returned", UNCHANGED <<flDid, flLost>>
        PROVE  (Stated /\ Fleet!AnswersAreTrue)'
    <3>1. flStage'[c] = "returned" /\ flSaid'[c] = a
      BY <2>3 DEF Fleet!Return, Fleet!Answer, Fleet!FleetTypeOK
    <3> QED BY <2>2, <2>3, <3>1 DEF Elsewhere
  <2>4. CASE flStage[c] = "idle" /\ Asked(c)
    <3>1. PICK r \in Fleet!Requests, mode \in {"dry", "acked", "bare"} : Fleet!Ask(c, r, mode)
      BY <2>4 DEF Asked
    <3>2. UNCHANGED <<flDid, flLost>>
      BY <3>1 DEF Fleet!Ask, Fleet!fleet
    <3>3. CASE Fleet!Outcome(r, mode) # "begins"
      <4>1. Fleet!Answer(c, Fleet!Outcome(r, mode))
        BY <3>1, <3>3 DEF Fleet!Ask
      <4>2. Fleet!Outcome(r, mode) \in {"refused", "preview", "credential_missing"}
        BY <3>3 DEF Fleet!Outcome
      <4>3. flStage'[c] = "returned" /\ flSaid'[c] \in {"refused", "preview", "credential_missing"}
        BY <4>1, <4>2 DEF Fleet!Answer, Fleet!FleetTypeOK
      <4> QED BY <2>2, <2>4, <3>2, <4>3 DEF Elsewhere
    <3>4. CASE Fleet!Outcome(r, mode) = "begins"
      <4>1. flStage'[c] \in {"walk", "readTag", "send"} /\ flSaid' = flSaid
        BY <3>1, <3>4 DEF Fleet!Ask, Fleet!FleetTypeOK
      <4> QED BY <2>2, <2>4, <3>2, <4>1 DEF Elsewhere
    <3> QED BY <3>3, <3>4
  <2>5. CASE Writes(c)
    <3>1. /\ flDid' = flDid \cup {c} /\ flStage[c] # "returned"
          /\ \/ flSaid'[c] = "ok" /\ flLost' = flLost
             \/ flSaid'[c] = "error" /\ flLost' = flLost \cup {c}
      BY <2>5, WritesReturn, DoneOfFleet
    <3>2. flStage'[c] = "returned"
      BY <2>5, WritesReturn, DoneOfFleet DEF Fleet!Return, Fleet!Answer, Fleet!FleetTypeOK
    <3> QED BY <2>2, <3>1, <3>2 DEF Elsewhere
  <2>6. CASE Fleet!Walk(c)
    <3>1. UNCHANGED <<flDid, flLost>> /\ flStage[c] = "walk"
      BY <2>6, WalkMoves DEF Fleet!Walk
    <3>2. CASE UNCHANGED <<flStage, flReq, flSaid>>
      BY <3>1, <3>2
    <3>3. CASE \E a \in {"truncated", "whole"} : Fleet!Return(c, a)
      BY <2>3, <3>1, <3>3
    <3> QED BY <2>6, <3>2, <3>3, WalkMoves
  <2>7. CASE Else(c)
    <3>1. UNCHANGED <<flDid, flLost>> /\ flStage[c] # "returned"
      BY <2>7, ElseMoves
    <3>2. ASSUME NEW s \in {"makeTag", "putTag"}, Fleet!Goto(c, s) PROVE (Stated /\ Fleet!AnswersAreTrue)'
      <4>1. flStage'[c] = s /\ flSaid' = flSaid
        BY <3>2 DEF Fleet!Goto, Fleet!FleetTypeOK
      <4> QED BY <2>2, <3>1, <4>1 DEF Elsewhere
    <3> QED BY <2>3, <2>7, <3>1, <3>2, ElseMoves
  <2> QED BY <2>1, <2>4, <2>5, <2>6, <2>7
<1> QED BY <1>1, <1>2

\* A list that somebody else's step leaves alone.
LEMMA AheadElsewhere ==
  ASSUME Fleet!FleetTypeOK, NEW d \in Calls, Ahead(d),
         flReq'[d] = flReq[d], page'[d] = page[d], found'[d] = found[d], since'[d] = since[d],
         \A u, v \in Fleet!There : order[u] <= order[v] => order'[u] <= order'[v],
         \A u \in Fleet!There : order'[u] > 0
  PROVE  Ahead(d)'
<1>1. PICK r, n : r = flReq[d] /\ n = page[d]
  OBVIOUS
<1>2. ASSUME NEW t \in since[d] \ found[d]
      PROVE  t \in Fleet!Shown(r)' /\ Fleet!Turn(r, t)' > (n - 1) * PageSize
  <2>1. t \in Fleet!Shown(r) /\ Fleet!Turn(r, t) > (n - 1) * PageSize
    BY <1>1 DEF Ahead
  <2>2. /\ t \in Fleet!Shown(r)'
        /\ Fleet!Turn(r, t)' \in Nat /\ Fleet!Turn(r, t)' >= Fleet!Turn(r, t)
    BY <2>1, TurnsOnlyGrow
  <2>3. n \in Nat \ {0}
    BY <1>1, FleetAssumption DEF Fleet!FleetTypeOK
  <2>4. PICK m \in Nat : m = (n - 1) * PageSize
    BY <2>3, Multiples
  <2> QED BY <2>1, <2>2, <2>4, TurnIsNat
<1> QED BY <1>1, <1>2 DEF Ahead

\* A list that starts has all of it ahead, and one that reads a page has what is
\* left of it on the pages after that.
LEMMA AskAhead ==
  ASSUME Fleet!FleetTypeOK, NEW c \in Calls, Asked(c), flStage[c] = "idle", flStage'[c] = "walk",
         page[c] = 1
  PROVE  Ahead(c)'
<1>1. PICK r \in Fleet!Requests, mode \in {"dry", "acked", "bare"} : Fleet!Ask(c, r, mode)
  BY DEF Asked
<1>2. Fleet!Outcome(r, mode) = "begins"
  BY <1>1 DEF Fleet!Ask, Fleet!Answer, Fleet!FleetTypeOK
<1>3. r.op \in Fleet!Lists
  BY <1>1, <1>2 DEF Fleet!Ask, Fleet!FleetTypeOK
<1>4. since'[c] = Fleet!Shown(r) /\ flReq'[c] = r /\ page'[c] = 1 /\ UNCHANGED order
  BY <1>1, <1>2, <1>3 DEF Fleet!Ask, Fleet!FleetTypeOK, Fleet!fleet
<1>5. ASSUME NEW t \in Fleet!Shown(r)
      PROVE  t \in Fleet!Shown(r)' /\ Fleet!Turn(r, t)' > (1 - 1) * PageSize
  <2>1. Fleet!Shown(r)' = Fleet!Shown(r) /\ Fleet!Turn(r, t)' = Fleet!Turn(r, t)
    BY <1>4 DEF Fleet!Turn, Fleet!Shown, Fleet!There
  <2>2. Fleet!Turn(r, t) > 0
    <3> DEFINE S == {u \in Fleet!Shown(r) : order[u] <= order[t]}
    <3>1. order[t] \in Nat
      BY ShownIsFinite DEF Fleet!FleetTypeOK
    <3>2. t \in S /\ IsFiniteSet(S)
      BY <3>1, ShownIsFinite, FS_Subset
    <3>3. Cardinality(S) # 0
      BY <3>2, FS_EmptySet
    <3> QED BY <3>3, TurnIsNat, FleetCounts DEF Fleet!Turn
  <2> QED BY <2>1, <2>2, FleetAssumption
<1> QED BY <1>4, <1>5 DEF Ahead

LEMMA WalkAhead ==
  ASSUME Fleet!FleetTypeOK, NEW c \in Calls, Fleet!Walk(c), Ahead(c)
  PROVE  /\ flStage'[c] = "walk" => Ahead(c)'
         /\ flSaid'[c] = "whole" /\ flSaid[c] # "whole" => since'[c] \subseteq found'[c]
<1>1. PICK r, n, P : r = flReq[c] /\ n = page[c] /\ P = Fleet!Page(r, n)
  OBVIOUS
<1>2. /\ UNCHANGED <<since, order>>
      /\ found' = [found EXCEPT ![c] = found[c] \cup P]
      /\ \/ P # {} /\ page' = [page EXCEPT ![c] = page[c] + 1] /\ UNCHANGED <<flStage, flReq, flSaid>>
         \/ Fleet!Return(c, "truncated")
         \/ /\ Fleet!Return(c, "whole")
            /\ P = {} \/ n * PageSize >= Fleet!Cardinality(Fleet!Shown(r))
  BY <1>1, WalkMoves
<1>3. n \in Nat \ {0} /\ (n - 1) * PageSize \in Nat /\ n * PageSize = (n - 1) * PageSize + PageSize
  <2>1. n \in Nat \ {0}
    BY <1>1, FleetAssumption DEF Fleet!FleetTypeOK
  <2> QED BY <2>1, Multiples
<1>4. found'[c] = found[c] \cup P /\ since'[c] = since[c]
  BY <1>2 DEF Fleet!FleetTypeOK
<1>5. ASSUME NEW t \in since[c], t \notin found'[c]
      PROVE  t \in Fleet!Shown(r) /\ Fleet!Turn(r, t) > n * PageSize
  <2>1. t \in Fleet!Shown(r) /\ Fleet!Turn(r, t) > (n - 1) * PageSize
    BY <1>1, <1>4, <1>5 DEF Ahead
  <2>2. t \notin P
    BY <1>4, <1>5
  <2> QED BY <1>1, <1>3, <2>1, <2>2, TurnIsNat, FleetAssumption DEF Fleet!Page
<1>6. CASE P # {} /\ page' = [page EXCEPT ![c] = page[c] + 1] /\ UNCHANGED <<flStage, flReq, flSaid>>
  <2>1. page'[c] - 1 = n /\ flReq'[c] = r
    BY <1>1, <1>3, <1>6 DEF Fleet!FleetTypeOK
  <2>2. ASSUME NEW t \in since'[c] \ found'[c]
        PROVE  t \in Fleet!Shown(r)' /\ Fleet!Turn(r, t)' > n * PageSize
    BY <1>2, <1>4, <1>5 DEF Fleet!Turn, Fleet!Shown, Fleet!There
  <2>3. Ahead(c)'
    BY <2>1, <2>2 DEF Ahead
  <2> QED BY <1>6, <2>3
<1>7. CASE Fleet!Return(c, "truncated")
  BY <1>7 DEF Fleet!Return, Fleet!Answer, Fleet!FleetTypeOK
<1>8. CASE /\ Fleet!Return(c, "whole")
           /\ P = {} \/ n * PageSize >= Fleet!Cardinality(Fleet!Shown(r))
  <2>1. flStage'[c] = "returned"
    BY <1>8 DEF Fleet!Return, Fleet!Answer, Fleet!FleetTypeOK
  <2>2. ASSUME NEW t \in since[c], t \notin found'[c] PROVE FALSE
    <3>1. t \in Fleet!Shown(r) /\ Fleet!Turn(r, t) > n * PageSize
      BY <1>5, <2>2
    <3>2. CASE P = {}
      <4>1. Fleet!Turn(r, t) <= (n - 1) * PageSize
        BY <1>1, <1>3, <3>1, <3>2, EmptyPageIsLast
      <4> QED BY <1>3, <3>1, <4>1, TurnIsNat, FleetAssumption
    <3>3. CASE n * PageSize >= Fleet!Cardinality(Fleet!Shown(r))
      BY <1>3, <3>1, <3>3, TurnIsNat, TurnIsBounded, FleetAssumption
    <3> QED BY <1>8, <3>2, <3>3
  <2> QED BY <1>4, <2>1, <2>2
<1> QED BY <1>2, <1>6, <1>7, <1>8

\* What a step does to the order of things, for a list under which nothing is deleted.
LEMMA OrderGrows ==
  ASSUME Fleet!FleetTypeOK, NEW c \in Calls, NEW d \in Calls \ shrunk', flStage[d] = "walk",
         (flStage[c] = "idle" /\ Asked(c)) \/ Writes(c) \/ Fleet!Walk(c) \/ Else(c)
  PROVE  /\ \A u, v \in Fleet!There : order[u] <= order[v] => order'[u] <= order'[v]
         /\ \A u \in Fleet!There : order'[u] > 0
         /\ shrunk' = shrunk
<1>1. CASE order' = order /\ shrunk' = shrunk
  BY <1>1 DEF Fleet!There
<1>2. CASE Asked(c)
  BY <1>1, <1>2 DEF Asked, Fleet!Ask, Fleet!fleet
<1>3. CASE Fleet!Create(c)
  BY <1>3, CreateOrders DEF Fleet!Create
<1>4. CASE Fleet!Delete(c)
  BY <1>4 DEF Fleet!Delete
<1>5. CASE Writes(c) /\ ~Fleet!Create(c) /\ ~Fleet!Delete(c)
  BY <1>1, <1>5, WritesReturn
<1>6. CASE Fleet!Walk(c)
  BY <1>1, <1>6, WalkMoves
<1>7. CASE Else(c)
  BY <1>1, <1>7, ElseMoves
<1> QED BY <1>2, <1>3, <1>4, <1>5, <1>6, <1>7

LEMMA ShrunkGrows ==
  ASSUME Fleet!FleetTypeOK, NEW c \in Calls,
         (flStage[c] = "idle" /\ Asked(c)) \/ Writes(c) \/ Fleet!Walk(c) \/ Else(c)
  PROVE  shrunk \subseteq shrunk'
<1>1. CASE Asked(c)
  BY <1>1 DEF Asked, Fleet!Ask, Fleet!fleet
<1>2. CASE Fleet!Delete(c)
  BY <1>2 DEF Fleet!Delete
<1>3. CASE Writes(c) /\ ~Fleet!Delete(c)
  BY <1>3, WritesReturn
<1>4. CASE Fleet!Walk(c) \/ Else(c)
  BY <1>4, WalkMoves, ElseMoves
<1> QED BY <1>1, <1>2, <1>3, <1>4

LEMMA ReadsStep ==
  ASSUME FleetInv, [Fleet!FleetNext]_(Fleet!fleetVars)
  PROVE  (Reads /\ Fleet!WholeIsWhole)'
<1>1. CASE UNCHANGED Fleet!fleetVars
  BY <1>1 DEF Fleet!fleetVars, FleetInv, Fleet!FleetIsAsTold, Fleet!WholeIsWhole, Reads, Ahead,
              Fleet!Turn, Fleet!Shown, Fleet!There
<1> USE DEF FleetInv, Fleet!FleetIsAsTold
<1>2. CASE Fleet!FleetNext
  <2>1. PICK c \in Calls : (flStage[c] = "idle" /\ Asked(c)) \/ Writes(c) \/ Fleet!Walk(c) \/ Else(c)
    BY <1>2, FleetCases
  <2>2. Elsewhere(c)
    BY <2>1, AskTypes, WriteTypes, WalkTypes, ElseTypes
  <2>3. shrunk \subseteq shrunk'
    BY <2>1, ShrunkGrows
  <2>4. ASSUME NEW d \in Calls \ {c}
        PROVE  /\ flStage'[d] = "idle" => page'[d] = 1
               /\ d \notin shrunk' /\ flStage'[d] = "walk" => Ahead(d)'
               /\ flSaid'[d] = "whole" /\ d \notin shrunk' => since'[d] \subseteq found'[d]
    <3>1. /\ flStage'[d] = flStage[d] /\ flSaid'[d] = flSaid[d] /\ flReq'[d] = flReq[d]
          /\ page'[d] = page[d] /\ found'[d] = found[d] /\ since'[d] = since[d]
      BY <2>2 DEF Elsewhere
    <3>2. ASSUME d \notin shrunk', flStage'[d] = "walk" PROVE Ahead(d)'
      <4>1. Ahead(d)
        BY <2>3, <3>1, <3>2 DEF Reads
      <4> QED BY <2>1, <3>1, <3>2, <4>1, OrderGrows, AheadElsewhere
    <3>3. (flStage[d] = "idle" => page[d] = 1)
          /\ (flSaid[d] = "whole" /\ d \notin shrunk => since[d] \subseteq found[d])
      BY DEF Reads, Fleet!WholeIsWhole
    <3> QED BY <2>3, <3>1, <3>2, <3>3
  <2>5. /\ flStage'[c] = "idle" => page'[c] = 1
        /\ c \notin shrunk' /\ flStage'[c] = "walk" => Ahead(c)'
        /\ flSaid'[c] = "whole" /\ c \notin shrunk' => since'[c] \subseteq found'[c]
    <3>1. ASSUME NEW a \in {"ok", "error"}, Fleet!Return(c, a)
          PROVE  flStage'[c] = "returned" /\ flSaid'[c] = a
      BY <3>1 DEF Fleet!Return, Fleet!Answer, Fleet!FleetTypeOK
    <3>2. CASE flStage[c] = "idle" /\ Asked(c)
      <4>1. page[c] = 1 /\ flSaid[c] = "none"
        BY <3>2 DEF Reads, Stated
      <4>2. flStage'[c] # "idle" /\ flSaid'[c] # "whole"
        <5>1. PICK r \in Fleet!Requests, mode \in {"dry", "acked", "bare"} : Fleet!Ask(c, r, mode)
          BY <3>2 DEF Asked
        <5>2. CASE Fleet!Outcome(r, mode) = "begins"
          BY <4>1, <5>1, <5>2 DEF Fleet!Ask, Fleet!FleetTypeOK
        <5>3. CASE Fleet!Outcome(r, mode) # "begins"
          BY <5>1, <5>3 DEF Fleet!Ask, Fleet!Answer, Fleet!Outcome, Fleet!FleetTypeOK
        <5> QED BY <5>2, <5>3
      <4> QED BY <3>2, <4>1, <4>2, AskAhead
    <3>3. CASE Writes(c)
      BY <3>1, <3>3, WritesReturn, DoneOfFleet
    <3>4. CASE Fleet!Walk(c)
      <4>1. flStage[c] = "walk" /\ shrunk' = shrunk
        BY <3>4, WalkMoves DEF Fleet!Walk
      <4>2. flSaid[c] # "whole"
        BY <4>1 DEF Stated
      <4>3. c \notin shrunk => Ahead(c)
        BY <4>1 DEF Reads
      <4>4. flStage'[c] # "idle"
        BY <3>4, <4>1, WalkMoves DEF Fleet!Return, Fleet!Answer, Fleet!FleetTypeOK
      <4> QED BY <3>4, <4>1, <4>2, <4>3, <4>4, WalkAhead
    <3>5. CASE Else(c)
      <4>1. ASSUME NEW s \in {"makeTag", "putTag"}, Fleet!Goto(c, s)
            PROVE  flStage'[c] = s /\ flSaid'[c] = flSaid[c]
        BY <4>1 DEF Fleet!Goto, Fleet!FleetTypeOK
      <4>2. flSaid[c] # "whole"
        BY <3>5, ElseMoves DEF Stated
      <4> QED BY <3>1, <3>5, <4>1, <4>2, ElseMoves
    <3> QED BY <2>1, <3>2, <3>3, <3>4, <3>5
  <2> QED BY <2>4, <2>5 DEF Reads, Fleet!WholeIsWhole
<1> QED BY <1>1, <1>2

LEMMA FleetKeeps == FleetInv /\ [Fleet!FleetNext]_(Fleet!fleetVars) => FleetInv'
BY FleetTypeStep, StatedStep, ReadsStep DEF FleetInv, Fleet!FleetIsAsTold

\* As many turns as there are things, so no two have the same.
LEMMA FirstOrder ==
  ASSUME Fleet!FleetInit
  PROVE  order \in [Things -> Nat] /\ \A t, u \in Things : order[t] = order[u] => t = u \/ order[t] = 0
<1> DEFINE T == Fleet!There
           n == Cardinality(T)
           f == [t \in T |-> order[t]]
<1>1. order \in [Things -> Nat]
  <2>1. Cardinality(Things) \in Nat
    BY FleetAssumption, FS_CardinalityType
  <2> QED BY <2>1, FleetCounts DEF Fleet!FleetInit
<1>2. T \subseteq Things /\ IsFiniteSet(T) /\ n \in Nat
  BY FleetAssumption, FS_Subset, FS_CardinalityType DEF Fleet!There
<1>3. {order[t] : t \in T} = 1..n
  BY FleetCounts DEF Fleet!FleetInit
<1> HIDE DEF T
<1>4. f \in [T -> 1..n] /\ \A i \in 1..n : \E t \in T : f[t] = i
  BY <1>3
<1>5. f \in Surjection(T, 1..n)
  BY <1>4 DEF Surjection
<1>6. Cardinality(1..n) = n
  BY <1>2, FS_Interval
<1>7. f \in Injection(T, 1..n)
  <2> HIDE DEF f
  <2> QED BY <1>2, <1>5, <1>6, FS_SurjSameCardinalityImpliesInj
<1>8. \A t, u \in T : f[t] = f[u] => t = u
  <2> HIDE DEF f
  <2> QED BY <1>4, <1>7 DEF Injection, IsInjective
<1>9. \A t \in Things : order[t] # 0 => t \in T
  BY <1>1 DEF T, Fleet!There
<1> QED BY <1>1, <1>8, <1>9

LEMMA FleetStarts == Fleet!FleetInit => FleetInv
<1> SUFFICES ASSUME Fleet!FleetInit PROVE FleetInv
  OBVIOUS
<1> USE DEF Fleet!FleetInit
<1>1. order \in [Things -> Nat] /\ \A t, u \in Things : order[t] = order[u] => t = u \/ order[t] = 0
  BY FirstOrder
<1>2. Fleet!FleetTypeOK
  BY <1>1, NoFleetRequest, FleetAssumption DEF Fleet!FleetTypeOK, FleetRequest, Fleet!Answers
<1>3. Stated /\ Fleet!FleetIsAsTold /\ Reads
  BY DEF Stated, Fleet!FleetIsAsTold, Fleet!AnswersAreTrue, Fleet!WholeIsWhole, Reads
<1> QED BY <1>2, <1>3 DEF FleetInv

-----------------------------------------------------------------------------
(* One of them in a behaviour.                                              *)

CloudsInv == TypeInv /\ AzureInv /\ (scope = "fleet" => FleetInv)

LEMMA AzureVars == UNCHANGED Azure!vars <=> UNCHANGED azureVars
BY DEF Azure!vars, Azure!pluginVars, azureVars

LEMMA FleetVars == UNCHANGED Fleet!fleetVars <=> UNCHANGED fleetVars
BY DEF Fleet!fleetVars, fleetVars

LEMMA CloudsSteps ==
  ASSUME [MCNext]_<<scope, oceanVars, fleetVars, azureVars>>
  PROVE  /\ [Next]_vars /\ [Azure!Next]_(Azure!vars)
         /\ scope' = scope /\ (scope = "fleet" => [Fleet!FleetNext]_(Fleet!fleetVars))
<1>1. [Next]_vars /\ [Azure!Next]_azureVars
      /\ scope' = scope /\ (scope = "fleet" => [Fleet!FleetNext]_fleetVars)
  BY DEF MCNext, oceanVars
<1> QED BY <1>1, AzureVars, FleetVars

LEMMA CloudsStart == MCInit => CloudsInv
BY InitTypes, AzureStarts, FleetStarts DEF MCInit, CloudsInv

LEMMA CloudsKeep == CloudsInv /\ [MCNext]_<<scope, oceanVars, fleetVars, azureVars>> => CloudsInv'
BY CloudsSteps, TypeStep, AzureKeeps, FleetKeeps DEF CloudsInv

LEMMA CloudsAlways == MCSpec => []CloudsInv
BY CloudsStart, CloudsKeep, PTL DEF MCSpec

\* Every variable keeps its type, of whichever plugin runs: a thing's turn in the
\* lists stays its own, whatever is created and deleted.
THEOREM TypesAreKept == MCSpec => []TypesOK
<1>1. CloudsInv => TypesOK
  BY DEF CloudsInv, TypesOK, TypeInv, AzureInv, FleetInv
<1> QED BY <1>1, CloudsAlways, PTL

\* What DigitalOcean's plugin says of a write is so, or its answer was lost; and a
\* list that is not marked truncated (walk, sdk_account.go) has all there was when
\* it began, for any page size and cap, if nothing was deleted meanwhile.
THEOREM FleetsAreAsTold == MCSpec => []FleetIsAsTold
<1>1. CloudsInv => FleetIsAsTold
  BY DEF CloudsInv, FleetIsAsTold, FleetInv
<1> QED BY <1>1, CloudsAlways, PTL

\* Whichever subscription an Azure call acts on (ResolveSubscription, backend.go),
\* there is a reason for it in its own load.
THEOREM SubscriptionsAreExplained == MCSpec => []SubscriptionIsExplained
<1>1. CloudsInv => SubscriptionIsExplained
  BY DEF CloudsInv, AzureInv, ChosenInTurn, Explained, SubscriptionIsExplained,
         Azure!SubscriptionIsExplained, Azure!ChosenInOrder, Azure!DefaultIsExplained,
         Azure!ByDefault, Azure!Chosen
<1> QED BY <1>1, CloudsAlways, PTL
=============================================================================
