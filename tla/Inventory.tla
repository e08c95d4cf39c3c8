----------------------------- MODULE Inventory -----------------------------
(***************************************************************************)
(* What the DigitalOcean connector's write operations promise: a call      *)
(* takes effect once, at one moment between its being sent and its answer, *)
(* and on exactly the fields it was given ("Only the arguments given       *)
(* change", ops_firewalls.go).  A call that is answered ok took effect; of *)
(* one that is answered with an error nothing is known, its answer may     *)
(* have been lost.                                                         *)
(***************************************************************************)
CONSTANTS Calls, Ids, Fields, Items, Unborn, Gone

VARIABLES fw,     \* [Ids -> firewall, Unborn or Gone]
          made,   \* calls a droplet was created for
          asked,  \* [Calls -> the request a call is for]
          answer  \* [Calls -> none, sent, ok or error]

Firewall == [Fields -> SUBSET Items]
Patch(w, given) == [f \in Fields |-> IF f \in DOMAIN given THEN given[f] ELSE w[f]]

Init == /\ fw \in [Ids -> Firewall \cup {Unborn, Gone}]
        /\ made = {}
        /\ answer = [c \in Calls |-> "none"]

\* The request of a call is its own.
Others(c) == \A d \in Calls \ {c} : asked'[d] = asked[d]

\* A request is sent only when it was acknowledged.
Ask(c) == /\ answer[c] = "none" /\ answer' = [answer EXCEPT ![c] = "sent"]
          /\ asked'[c].ack /\ Others(c)
          /\ UNCHANGED <<fw, made>>

Effect(c, i) ==
  LET r == asked[c] IN
  \/ /\ r.op = "create_firewall" /\ fw[i] = Unborn
     /\ fw' = [fw EXCEPT ![i] = Patch([f \in Fields |-> {}], r.given)] /\ UNCHANGED made
  \/ /\ r.op = "create_droplet"
     /\ made' = made \cup {c} /\ UNCHANGED fw
  \/ /\ i = r.id /\ fw[i] \in Firewall
     /\ \/ r.op = "update_firewall" /\ fw' = [fw EXCEPT ![i] = Patch(@, r.given)]
        \/ r.op = "assign_firewall_droplets"
           /\ fw' = [fw EXCEPT ![i]["droplet_ids"] = @ \cup r.given["droplet_ids"]]
        \/ r.op = "unassign_firewall_droplets"
           /\ fw' = [fw EXCEPT ![i]["droplet_ids"] = @ \ r.given["droplet_ids"]]
        \/ r.op = "delete_firewall" /\ fw' = [fw EXCEPT ![i] = Gone]
     /\ UNCHANGED made

Apply(c) == /\ answer[c] = "sent"
            /\ \E i \in Ids : Effect(c, i)
            /\ \E a \in {"ok", "error"} : answer' = [answer EXCEPT ![c] = a]
            /\ Others(c)

Fail(c) == /\ answer[c] = "sent" /\ answer' = [answer EXCEPT ![c] = "error"]
           /\ Others(c) /\ UNCHANGED <<fw, made>>

\* A call that was answered forgets its request.
Forget(c) == answer[c] # "sent" /\ Others(c) /\ UNCHANGED <<fw, made, answer>>

Next == \E c \in Calls : Ask(c) \/ Apply(c) \/ Fail(c) \/ Forget(c)
Spec == Init /\ [][Next]_<<fw, made, asked, answer>>
=============================================================================
