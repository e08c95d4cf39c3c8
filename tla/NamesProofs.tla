---------------------------- MODULE NamesProofs ----------------------------
(***************************************************************************)
(* For every number of calls, keys, devices and records: what the tailnet    *)
(* and the zone are checked for.                                            *)
(***************************************************************************)
EXTENDS MCNames, FiniteSetTheorems, TLAPS

-----------------------------------------------------------------------------
(* The tailnet.                                                            *)

DeviceOps == {"delete_device", "authorize_device", "set_tags"}
Outs == {"none", "ok", "truncated", "preview"} \cup Codes

\* A call's request is one that was let in, and of a call that does not run
\* nothing is kept.
RequestInv == /\ req \in [Calls -> Begun \cup {None}]
              /\ \A c \in Calls : pc[c] = "idle" => list[c] = NoList

\* b.mu is held by the one call that exchanges, and no token is live meanwhile.
LockInv == /\ \A c \in Calls : pc[c] = "exchange" <=> lock = c
           /\ lock # "free" => creds = "oauth" /\ cached # "live"

\* Keys there ever since are there now, and are in a list that is whole.
ListInv == \A c \in Calls : /\ there[c] \subseteq Live
                            /\ list[c].all => there[c] \subseteq list[c].read \cup list[c].todo

\* A preview kept is that of its device as it is.
Previews(p) == /\ p.req.op \in DeviceOps /\ p.req.arg \in Given(p.req.op)
               /\ p.req.dry = FALSE /\ p.req.arg.id \in Present
               /\ p = DevicePreview(p.req, devices[p.req.arg.id])
ShownInv == \A p \in shown : Previews(p)

TailnetInv == TypeOK /\ RequestInv /\ LockInv /\ ListInv /\ ShownInv

LEMMA BegunRequest ==
  ASSUME NEW r \in Begun
  PROVE  /\ r.op \in Reads \cup ackOperations /\ r.arg \in Given(r.op) /\ r.dry \in BOOLEAN
         /\ r = [op |-> r.op, arg |-> r.arg, dry |-> r.dry] /\ r # None
         /\ ~(r.dry /\ r.op = "mint_auth_key")
<1>1. PICK q \in Accepted : r = Kept(q) /\ ~ReadsNothing(q)
  BY DEF Begun
<1>2. PICK o \in Reads \cup ackOperations :
        q \in [op : {o}, arg : Given(o), dry : BOOLEAN, ack : BOOLEAN]
  BY <1>1 DEF Accepted, Requests
<1>3. q.op = o /\ q.arg \in Given(q.op) /\ q.dry \in BOOLEAN
  BY <1>2
<1> QED BY <1>1, <1>3 DEF Kept, ReadsNothing, None, Reads, ackOperations

\* A call that sends is there, with a request.
LEMMA RunningRequest ==
  ASSUME TailnetInv, NEW c \in Calls, pc[c] # "idle"
  PROVE  req[c] \in Begun
BY DEF TailnetInv, TypeOK, RequestInv

LEMMA DeviceArguments ==
  ASSUME NEW o \in DeviceOps, NEW a \in Given(o)
  PROVE  a.id \in Devices /\ (o = "set_tags" => a.tags \subseteq Tags)
BY DEF DeviceOps, Given

LEMMA CodesAreOuts ==
  ASSUME NEW f
  PROVE  errorCode(f) \in Outs /\ errorCode(f) \notin {"none", "ok", "truncated", "preview"}
BY DEF errorCode, Outs, Codes

LEMMA NoListType ==
  /\ NoList \in [todo : SUBSET KeyIds, read : SUBSET KeyIds, all : BOOLEAN]
  /\ NoList.all = FALSE /\ NoList.todo = {} /\ NoList.read = {}
  /\ Cardinality(NoList.todo \cup NoList.read) <= maxListedKeys
<1>1. NoList.todo \cup NoList.read = {}
  BY DEF NoList
<1> QED BY <1>1, FS_EmptySet, TailnetAssumption DEF NoList

\* What the end of a call makes of the history of all of them.
LEMMA ReturnKeeps ==
  ASSUME TailnetInv, NEW c \in Calls, pc[c] # "idle", NEW o \in Outs, Return(c, o),
         keys' \in [KeyIds -> {Unborn, "live", Gone}],
         \A k \in Live : keys'[k] \in {"live", Gone},
         devices' \in [Devices -> Device \cup {Gone}],
         cached' = cached, lock' \in Calls \cup {"free"},
         IF pc[c] = "exchange" THEN lock' = "free" ELSE lock' = lock,
         ShownInv'
  PROVE  TailnetInv'
<1> USE DEF TailnetInv
<1>1. /\ pc' = [pc EXCEPT ![c] = "idle"] /\ req' = [req EXCEPT ![c] = None]
      /\ list' = [list EXCEPT ![c] = NoList] /\ out' = o
      /\ there' = [d \in Calls |-> IF d = c THEN {} ELSE there[d] \ {k \in KeyIds : keys'[k] = Gone}]
      /\ creds' = creds /\ calm' = calm
  BY DEF Return
<1>2. TypeOK'
  <2>1. (\A d \in Calls : (pc[d] = "idle") = (req[d] = None))'
    BY <1>1 DEF TypeOK, RequestInv
  <2>2. list' \in [Calls -> [todo : SUBSET KeyIds, read : SUBSET KeyIds, all : BOOLEAN]]
    BY <1>1, NoListType DEF TypeOK
  <2>3. \A d \in Calls : Cardinality(list'[d].todo \cup list'[d].read) <= maxListedKeys
    <3>1. TAKE d \in Calls
    <3>2. list'[d] = IF d = c THEN NoList ELSE list[d]
      BY <1>1 DEF TypeOK
    <3> QED BY <3>2, NoListType DEF TypeOK
  <2>4. there' \in [Calls -> SUBSET KeyIds]
    BY <1>1 DEF TypeOK
  <2>5. pc' \in [Calls -> {"idle", "authorize", "exchange", "send"}]
    BY <1>1 DEF TypeOK
  <2> QED BY <1>1, <2>1, <2>2, <2>3, <2>4, <2>5 DEF TypeOK, Outs
<1>3. RequestInv'
  BY <1>1 DEF RequestInv, TypeOK
<1>4. LockInv'
  BY <1>1, TailnetAssumption DEF LockInv, TypeOK
<1>5. ListInv'
  <2>1. SUFFICES ASSUME NEW d \in Calls
                 PROVE  /\ there'[d] \subseteq Live'
                        /\ list'[d].all => there'[d] \subseteq list'[d].read \cup list'[d].todo
    BY DEF ListInv
  <2>2. CASE d = c
    BY <1>1, <2>2, NoListType DEF TypeOK
  <2>3. CASE d # c
    <3>1. list'[d] = list[d] /\ there'[d] = there[d] \ {k \in KeyIds : keys'[k] = Gone}
      BY <1>1, <2>3 DEF TypeOK
    <3>2. there'[d] \subseteq Live'
      BY <3>1 DEF ListInv, Live
    <3> QED BY <3>1, <3>2 DEF ListInv
  <2> QED BY <2>2, <2>3
<1> QED BY <1>2, <1>3, <1>4, <1>5

\* A call that ends and leaves the tailnet as it was.
LEMMA ReturnOnlyKeeps ==
  ASSUME TailnetInv, NEW c \in Calls, pc[c] # "idle", NEW o \in Outs, Return(c, o),
         UNCHANGED <<keys, devices, shown, cached>>,
         IF pc[c] = "exchange" THEN lock' = "free" ELSE lock' = lock
  PROVE  TailnetInv'
<1>1. ShownInv'
  BY DEF TailnetInv, ShownInv, Previews, Present
<1>2. \A k \in Live : keys'[k] \in {"live", Gone}
  BY DEF Live
<1>3. lock' \in Calls \cup {"free"}
  BY DEF TailnetInv, TypeOK
<1> QED BY <1>1, <1>2, <1>3, ReturnKeeps DEF TailnetInv, TypeOK

LEMMA FailsKeeps ==
  ASSUME TailnetInv, NEW c \in Calls, pc[c] = "send", Fails(c), UNCHANGED unlocked
  PROVE  TailnetInv' /\ out' \notin {"ok", "truncated"}
<1>1. PICK f \in Failures : Return(c, errorCode(f))
  BY DEF Fails
<1>2. TailnetInv'
  BY <1>1, ReturnOnlyKeeps, CodesAreOuts DEF Fails, unlocked, tailnet
<1>3. out' = errorCode(f)
  BY <1>1 DEF Return
<1> QED BY <1>2, <1>3, CodesAreOuts

\* A call that goes on to another place, of itself or with the lock.
LEMMA GotoKeeps ==
  ASSUME TailnetInv, NEW c \in Calls, pc[c] # "idle", NEW s \in {"authorize", "exchange", "send"},
         Goto(c, s), UNCHANGED <<keys, devices, shown, there>>,
         NEW l, l \in [todo : SUBSET KeyIds, read : SUBSET KeyIds, all : BOOLEAN],
         Cardinality(l.todo \cup l.read) <= maxListedKeys,
         l.all => there[c] \subseteq l.read \cup l.todo,
         list' = [list EXCEPT ![c] = l],
         cached' \in {"none", "live", "expired"}, lock' \in Calls \cup {"free"},
         (lock = c \/ lock' = c) => (s = "exchange" <=> lock' = c),
         lock # c => (lock' = lock \/ (lock = "free" /\ lock' = c)) /\ (s = "exchange" => lock' = c),
         lock = c => lock' \in {c, "free"},
         lock' # "free" => creds = "oauth" /\ cached' # "live"
  PROVE  TailnetInv'
<1> USE DEF TailnetInv
<1>1. /\ pc' = [pc EXCEPT ![c] = s] /\ out' = "none"
      /\ creds' = creds /\ req' = req /\ calm' = calm
  BY DEF Goto
<1>2. TypeOK'
  <2>1. (\A d \in Calls : (pc[d] = "idle") = (req[d] = None))'
    BY <1>1 DEF TypeOK
  <2>2. list' \in [Calls -> [todo : SUBSET KeyIds, read : SUBSET KeyIds, all : BOOLEAN]]
    BY DEF TypeOK
  <2>3. \A d \in Calls : Cardinality(list'[d].todo \cup list'[d].read) <= maxListedKeys
    <3>1. TAKE d \in Calls
    <3>2. list'[d] = IF d = c THEN l ELSE list[d]
      BY DEF TypeOK
    <3> QED BY <3>2 DEF TypeOK
  <2>4. pc' \in [Calls -> {"idle", "authorize", "exchange", "send"}]
    BY <1>1 DEF TypeOK
  <2> QED BY <1>1, <2>1, <2>2, <2>3, <2>4 DEF TypeOK
<1>3. RequestInv'
  BY <1>1 DEF RequestInv, TypeOK
<1>4. LockInv'
  <2>1. SUFFICES ASSUME NEW d \in Calls PROVE pc'[d] = "exchange" <=> lock' = d
    BY <1>1 DEF LockInv
  <2>2. pc'[d] = IF d = c THEN s ELSE pc[d]
    BY <1>1 DEF TypeOK
  <2>3. pc[d] = "exchange" <=> lock = d
    BY DEF LockInv
  <2> QED BY <2>2, <2>3, TailnetAssumption
<1>5. ListInv'
  BY <1>1 DEF ListInv, Live, TypeOK
<1>6. ShownInv'
  BY DEF ShownInv, Previews, Present
<1> QED BY <1>2, <1>3, <1>4, <1>5, <1>6

LEMMA AnswerKeeps == ASSUME TailnetInv, NEW c \in Calls, Answer(c) PROVE TailnetInv'
<1>1. Refusals \subseteq Codes
  BY DEF Refusals, Gate, Codes
<1>2. out' \in Outs /\ calm' \in BOOLEAN
  BY <1>1 DEF Answer, Arrives, TailnetInv, TypeOK, Outs, Codes
<1>3. TypeOK'
  BY <1>2 DEF Answer, TailnetInv, TypeOK, Outs, tailnet
<1> QED BY <1>3 DEF Answer, TailnetInv, RequestInv, LockInv, ListInv, ShownInv, Live, Previews,
                    Present, tailnet

LEMMA ExpiresKeeps == ASSUME TailnetInv, Expires PROVE TailnetInv'
BY DEF Expires, TailnetInv, TypeOK, RequestInv, LockInv, ListInv, ShownInv, Live, Previews,
       Present, tailnet

LEMMA BeginKeeps == ASSUME TailnetInv, NEW c \in Calls, Begin(c) PROVE TailnetInv'
<1> USE DEF TailnetInv
<1>1. PICK r \in Begun : req' = [req EXCEPT ![c] = r]
  BY DEF Begin
<1>2. /\ pc[c] = "idle" /\ pc' = [pc EXCEPT ![c] = "authorize"] /\ r # None
      /\ calm' \in BOOLEAN /\ out' = "none"
      /\ UNCHANGED <<creds, cached, lock, list, keys, devices>> /\ shown' \in {shown, {}}
  BY BegunRequest DEF Begin, Arrives, Running, tailnet, TypeOK
<1>3. PICK ks \in SUBSET Live : there' = [there EXCEPT ![c] = ks]
  BY DEF Begin
<1>4. TypeOK'
  <2>1. (\A d \in Calls : (pc[d] = "idle") = (req[d] = None))'
    BY <1>1, <1>2 DEF TypeOK, RequestInv
  <2>2. pc' \in [Calls -> {"idle", "authorize", "exchange", "send"}]
    BY <1>2 DEF TypeOK
  <2>3. there' \in [Calls -> SUBSET KeyIds]
    BY <1>3 DEF TypeOK, Live
  <2> QED BY <1>2, <2>1, <2>2, <2>3 DEF TypeOK
<1>5. RequestInv'
  BY <1>1, <1>2 DEF RequestInv, TypeOK
<1>6. LockInv'
  BY <1>2 DEF LockInv, TypeOK
<1>7. ListInv'
  <2>1. SUFFICES ASSUME NEW d \in Calls
                 PROVE  /\ there'[d] \subseteq Live
                        /\ list[d].all => there'[d] \subseteq list[d].read \cup list[d].todo
    BY <1>2 DEF ListInv, Live
  <2>2. there'[d] = IF d = c THEN ks ELSE there[d]
    BY <1>3 DEF TypeOK
  <2>3. d = c => list[d].all = FALSE
    BY <1>2, NoListType DEF RequestInv
  <2> QED BY <2>2, <2>3 DEF ListInv
<1>8. ShownInv'
  BY <1>2 DEF ShownInv, Previews, Present
<1> QED BY <1>4, <1>5, <1>6, <1>7, <1>8

LEMMA AuthorizeKeeps == ASSUME TailnetInv, NEW c \in Calls, Authorize(c) PROVE TailnetInv'
<1> USE DEF TailnetInv
<1>1. /\ pc[c] = "authorize" /\ UNCHANGED <<cached, list, keys, devices, there, shown>>
      /\ list' = [list EXCEPT ![c] = list[c]]
  BY DEF Authorize, tailnet, TypeOK
<1>2. /\ list[c] \in [todo : SUBSET KeyIds, read : SUBSET KeyIds, all : BOOLEAN]
      /\ Cardinality(list[c].todo \cup list[c].read) <= maxListedKeys
      /\ list[c].all => there[c] \subseteq list[c].read \cup list[c].todo
      /\ lock # c /\ c # "free" /\ lock \in Calls \cup {"free"} /\ cached \in {"none", "live", "expired"}
      /\ lock # "free" => creds = "oauth" /\ cached # "live"
  BY <1>1, TailnetAssumption DEF TypeOK, ListInv, LockInv
<1>3. CASE Goto(c, "send") /\ lock' = lock
  BY <1>1, <1>2, <1>3, GotoKeeps
<1>4. CASE Goto(c, "exchange") /\ lock' = c /\ lock = "free" /\ creds = "oauth" /\ cached # "live"
  BY <1>1, <1>2, <1>4, GotoKeeps
<1> QED BY <1>3, <1>4 DEF Authorize, Acquire

LEMMA ExchangeKeeps ==
  ASSUME TailnetInv, NEW c \in Calls, Exchange(c)
  PROVE  TailnetInv' /\ out' \notin {"ok", "truncated"}
<1> USE DEF TailnetInv
<1>1. pc[c] = "exchange" /\ UNCHANGED <<keys, devices, shown>> /\ lock = c
  BY DEF Exchange, tailnet, LockInv
<1>2. CASE /\ cached' \in {"live", "expired"} /\ Goto(c, "send")
           /\ lock' = "free" /\ UNCHANGED <<list, there>>
  <2>1. /\ list[c] \in [todo : SUBSET KeyIds, read : SUBSET KeyIds, all : BOOLEAN]
        /\ Cardinality(list[c].todo \cup list[c].read) <= maxListedKeys
        /\ list[c].all => there[c] \subseteq list[c].read \cup list[c].todo
        /\ list' = [list EXCEPT ![c] = list[c]] /\ c # "free"
    BY <1>2, TailnetAssumption DEF TypeOK, ListInv
  <2>2. TailnetInv'
    BY <1>1, <1>2, <2>1, GotoKeeps
  <2> QED BY <1>2, <2>2 DEF Goto
<1>3. CASE (\E code \in ExchangeCodes : Return(c, code)) /\ lock' = "free" /\ cached' = cached
  <2>1. PICK f \in Failures : Return(c, errorCode(f))
    BY <1>3 DEF ExchangeCodes
  <2>2. TailnetInv'
    BY <1>1, <1>3, <2>1, ReturnOnlyKeeps, CodesAreOuts
  <2>3. out' = errorCode(f)
    BY <2>1 DEF Return
  <2> QED BY <2>2, <2>3, CodesAreOuts
<1> QED BY <1>2, <1>3 DEF Exchange, Unlock

\* A call that ends having changed the tailnet.
LEMMA WrittenKeeps ==
  ASSUME TailnetInv, NEW c \in Calls, pc[c] = "send", NEW o \in Outs, Return(c, o),
         keys' \in [KeyIds -> {Unborn, "live", Gone}],
         \A k \in Live : keys'[k] \in {"live", Gone},
         devices' \in [Devices -> Device \cup {Gone}],
         shown' = {}, UNCHANGED unlocked
  PROVE  TailnetInv'
<1>1. ShownInv'
  BY DEF ShownInv
<1>2. UNCHANGED <<cached, lock>> /\ lock' \in Calls \cup {"free"}
  BY DEF unlocked, TailnetInv, TypeOK
<1> QED BY <1>1, <1>2, ReturnKeeps

LEMMA ReadKeeps == ASSUME TailnetInv, NEW c \in Calls, Read(c) PROVE TailnetInv'
<1>1. CASE UNCHANGED <<tailnet, shown>> /\ Return(c, "ok")
  BY <1>1, ReturnOnlyKeeps DEF Read, Sends, unlocked, tailnet, Outs
<1>2. CASE Fails(c)
  BY <1>2, FailsKeeps DEF Read, Sends
<1> QED BY <1>1, <1>2 DEF Read

LEMMA CreateAuthKeyKeeps == ASSUME TailnetInv, NEW c \in Calls, CreateAuthKey(c) PROVE TailnetInv'
<1>1. CASE Fails(c)
  BY <1>1, FailsKeeps DEF CreateAuthKey, Sends
<1>2. CASE \E k \in KeyIds : /\ keys[k] = Unborn /\ keys' = [keys EXCEPT ![k] = "live"]
                             /\ UNCHANGED devices /\ shown' = {}
                             /\ \E o \in Outs : Return(c, o)
  <2>1. PICK k \in KeyIds : keys[k] = Unborn /\ keys' = [keys EXCEPT ![k] = "live"]
    BY <1>2
  <2>2. PICK o \in Outs : Return(c, o)
    BY <1>2
  <2>3. /\ keys' \in [KeyIds -> {Unborn, "live", Gone}] /\ devices' \in [Devices -> Device \cup {Gone}]
        /\ \A j \in Live : keys'[j] \in {"live", Gone}
    BY <1>2, <2>1 DEF TailnetInv, TypeOK, Live
  <2> QED BY <1>2, <2>2, <2>3, WrittenKeeps DEF CreateAuthKey, Sends
<1> QED
  <2>1. "ok" \in Outs /\ \A f \in MayHaveHappened : errorCode(f) \in Outs
    BY CodesAreOuts DEF Outs
  <2> QED BY <1>1, <1>2, <2>1 DEF CreateAuthKey, Writes

LEMMA RevokeAuthKeyKeeps == ASSUME TailnetInv, NEW c \in Calls, RevokeAuthKey(c) PROVE TailnetInv'
<1>1. CASE Fails(c)
  BY <1>1, FailsKeeps DEF RevokeAuthKey, Sends
<1>2. CASE /\ req[c].arg.id \in Live /\ keys' = [keys EXCEPT ![req[c].arg.id] = Gone]
           /\ UNCHANGED devices /\ shown' = {}
           /\ \E o \in Outs : Return(c, o)
  <2>1. PICK k \in Live : keys' = [keys EXCEPT ![k] = Gone]
    BY <1>2
  <2>2. PICK o \in Outs : Return(c, o)
    BY <1>2
  <2>3. /\ keys' \in [KeyIds -> {Unborn, "live", Gone}] /\ devices' \in [Devices -> Device \cup {Gone}]
        /\ \A j \in Live : keys'[j] \in {"live", Gone}
    BY <1>2, <2>1 DEF TailnetInv, TypeOK, Live
  <2> QED BY <1>2, <2>2, <2>3, WrittenKeeps DEF RevokeAuthKey, Sends
<1> QED
  <2>1. "ok" \in Outs /\ \A f \in MayHaveHappened : errorCode(f) \in Outs
    BY CodesAreOuts DEF Outs
  <2> QED BY <1>1, <1>2, <2>1 DEF RevokeAuthKey, Writes

LEMMA DeviceRequest ==
  ASSUME TailnetInv, NEW c \in Calls, pc[c] # "idle", req[c].op \in DeviceOps
  PROVE  req[c].arg \in Given(req[c].op)
BY RunningRequest, BegunRequest

\* What a change makes of a device that is there.
LEMMA ChangedDevice ==
  ASSUME NEW r, r.op \in DeviceOps, r.arg \in Given(r.op), NEW device \in Device
  PROVE  /\ Changed(r, device) \in Device \cup {Gone}
         /\ LET p == DevicePreview(r, device)
            IN /\ p.nothing <=> Changed(r, device) = device
               /\ r.op = "set_tags" =>
                    Changed(r, device).tags = (device.tags \ p.removed) \cup p.added
<1>1. CASE r.op = "delete_device"
  BY <1>1, TailnetAssumption DEF Changed, DevicePreview
<1>2. CASE r.op = "authorize_device"
  <2>1. Changed(r, device) = [device EXCEPT !.authorized = TRUE]
    BY <1>2 DEF Changed
  <2>2. /\ Changed(r, device) \in Device
        /\ device.authorized <=> Changed(r, device) = device
    BY <2>1 DEF Device
  <2>3. DevicePreview(r, device).nothing = device.authorized
    BY <1>2 DEF DevicePreview
  <2> QED BY <1>2, <2>2, <2>3
<1>3. CASE r.op = "set_tags"
  <2>1. Changed(r, device) = [device EXCEPT !.tags = r.arg.tags] /\ r.arg.tags \subseteq Tags
    BY <1>3, DeviceArguments DEF Changed
  <2>2. /\ Changed(r, device) \in Device /\ Changed(r, device).tags = r.arg.tags
        /\ device.tags = r.arg.tags <=> Changed(r, device) = device
    BY <2>1 DEF Device
  <2>3. /\ DevicePreview(r, device).nothing <=> device.tags = r.arg.tags
        /\ DevicePreview(r, device).added = r.arg.tags \ device.tags
        /\ DevicePreview(r, device).removed = device.tags \ r.arg.tags
    BY <1>3 DEF DevicePreview, equalSets
  <2> QED BY <2>2, <2>3
<1> QED BY <1>1, <1>2, <1>3 DEF DeviceOps

\* A change is carried out, or it fails.
LEMMA ChangeDeviceKeeps ==
  ASSUME TailnetInv, NEW c \in Calls, ChangeDevice(c)
  PROVE  /\ TailnetInv'
         /\ out' = "ok" => LET d == req[c].arg.id
                           IN d \in Present /\ devices' = [devices EXCEPT ![d] = Changed(req[c], devices[d])]
<1>1. CASE Fails(c)
  BY <1>1, FailsKeeps DEF ChangeDevice, Sends
<1>2. CASE LET d == req[c].arg.id
           IN /\ d \in Present /\ devices' = [devices EXCEPT ![d] = Changed(req[c], devices[d])]
              /\ UNCHANGED keys /\ shown' = {}
              /\ \E o \in Outs : Return(c, o)
  <2>1. PICK d \in Present : /\ d = req[c].arg.id
                             /\ devices' = [devices EXCEPT ![d] = Changed(req[c], devices[d])]
    BY <1>2
  <2>2. PICK o \in Outs : Return(c, o)
    BY <1>2
  <2>3. devices[d] \in Device /\ d \in Devices
    BY DEF Present, TailnetInv, TypeOK
  <2>4. req[c].op \in DeviceOps /\ req[c].arg \in Given(req[c].op) /\ pc[c] = "send"
    BY DeviceRequest DEF ChangeDevice, Sends, DeviceOps
  <2>5. Changed(req[c], devices[d]) \in Device \cup {Gone}
    BY <2>3, <2>4, ChangedDevice
  <2>6. /\ keys' \in [KeyIds -> {Unborn, "live", Gone}] /\ devices' \in [Devices -> Device \cup {Gone}]
        /\ \A j \in Live : keys'[j] \in {"live", Gone}
    BY <1>2, <2>1, <2>5 DEF TailnetInv, TypeOK, Live
  <2> QED BY <1>2, <2>2, <2>4, <2>6, WrittenKeeps DEF ChangeDevice
<1> QED
  <2>1. "ok" \in Outs /\ \A f \in MayHaveHappened : errorCode(f) \in Outs
    BY CodesAreOuts DEF Outs
  <2> QED BY <1>1, <1>2, <2>1 DEF ChangeDevice, Writes

LEMMA PreviewKeeps == ASSUME TailnetInv, NEW c \in Calls, Preview(c) PROVE TailnetInv'
<1>1. CASE Fails(c)
  BY <1>1, FailsKeeps DEF Preview, Sends
<1>2. CASE UNCHANGED <<tailnet, shown>> /\ Return(c, "preview")
  BY <1>2, ReturnOnlyKeeps DEF Preview, Sends, unlocked, tailnet, Outs
<1>3. CASE /\ req[c].op # "revoke_key" /\ req[c].arg.id \in Present /\ UNCHANGED tailnet
           /\ Return(c, "preview")
           /\ shown' \in {{DevicePreview([req[c] EXCEPT !.dry = FALSE], devices[req[c].arg.id])}, {}}
  <2>1. pc[c] = "send" /\ req[c].op \in ackOperations /\ req[c].dry = TRUE /\ UNCHANGED <<cached, lock>>
    BY DEF Preview, Sends, unlocked
  <2>2. PICK r \in Begun : r = req[c]
    BY <2>1, RunningRequest
  <2>3. r.op \in DeviceOps /\ r.arg \in Given(r.op)
    BY <1>3, <2>1, <2>2, BegunRequest DEF ackOperations, DeviceOps
  <2>4. r = [op |-> r.op, arg |-> r.arg, dry |-> r.dry]
    BY <2>2, BegunRequest
  <2>5. PICK w : w = [r EXCEPT !.dry = FALSE]
    OBVIOUS
  <2>6. w.op = r.op /\ w.arg = r.arg /\ w.dry = FALSE
    BY <2>4, <2>5
  <2>7. ASSUME NEW p, p = DevicePreview(w, devices[w.arg.id]) PROVE p.req = w
    BY <2>7 DEF DevicePreview
  <2>8. UNCHANGED <<keys, devices>>
    BY <1>3 DEF tailnet
  <2>9. ShownInv'
    <3>1. SUFFICES ASSUME NEW p \in shown' PROVE Previews(p)'
      BY DEF ShownInv
    <3>2. p = DevicePreview(w, devices[w.arg.id])
      BY <1>3, <2>2, <2>5, <2>6, <3>1
    <3>3. p.req = w
      BY <2>7, <3>2
    <3>4. w.arg.id \in Present'
      BY <1>3, <2>2, <2>6, <2>8 DEF Present
    <3>5. p = DevicePreview(p.req, devices'[p.req.arg.id])
      BY <2>8, <3>2, <3>3
    <3> QED BY <2>3, <2>6, <3>3, <3>4, <3>5 DEF Previews
  <2>10. keys' \in [KeyIds -> {Unborn, "live", Gone}] /\ devices' \in [Devices -> Device \cup {Gone}]
         /\ (\A k \in Live : keys'[k] \in {"live", Gone}) /\ lock' \in Calls \cup {"free"}
    BY <2>1, <2>8 DEF TailnetInv, TypeOK, Live
  <2> QED BY <1>3, <2>1, <2>9, <2>10, ReturnKeeps DEF Outs
<1> QED BY <1>1, <1>2, <1>3 DEF Preview

\* A listing begins with ids that are there, all of them if they are said to be.
LEMMA ListKeysKeeps ==
  ASSUME TailnetInv, NEW c \in Calls, ListKeys(c)
  PROVE  TailnetInv' /\ (out' = "ok" => there[c] \subseteq list[c].read \cup list[c].todo)
<1> USE DEF TailnetInv
<1>1. pc[c] = "send" /\ UNCHANGED <<cached, lock>> /\ list[c] = NoList /\ lock # c
  BY DEF ListKeys, Sends, unlocked, LockInv
<1>2. CASE Fails(c)
  BY <1>2, FailsKeeps DEF ListKeys, Sends
<1>3. ASSUME NEW ids \in SUBSET Live, UNCHANGED <<tailnet, shown>>, Capped(ids)
      PROVE  Cardinality(ids) <= maxListedKeys /\ (ids = {} => Live = {})
  <2>1. IsFiniteSet(ids)
    BY TailnetAssumption, FS_Subset DEF Live
  <2>2. Cardinality(ids) \in Nat /\ (ids = {} => Cardinality(ids) = 0)
    BY <2>1, FS_CardinalityType, FS_EmptySet
  <2> QED BY <1>3, <2>2, TailnetAssumption DEF Capped
<1>4. ASSUME NEW ids \in SUBSET Live, UNCHANGED <<tailnet, shown>>, Capped(ids),
             ids = {}, Return(c, "ok")
      PROVE  TailnetInv' /\ there[c] \subseteq {}
  <2>1. TailnetInv'
    BY <1>1, <1>4, ReturnOnlyKeeps DEF tailnet, Outs
  <2>2. Live = {}
    BY <1>3, <1>4
  <2> QED BY <2>1, <2>2 DEF ListInv
<1>5. ASSUME NEW ids \in SUBSET Live, UNCHANGED <<tailnet, shown>>, Capped(ids),
             list' = [list EXCEPT ![c] = [todo |-> ids, read |-> {}, all |-> Truncated(ids)]],
             Goto(c, "authorize"), UNCHANGED there
      PROVE  TailnetInv' /\ out' = "none"
  <2>1. PICK l : l = [todo |-> ids, read |-> {}, all |-> Truncated(ids)]
    OBVIOUS
  <2>2. ids \subseteq KeyIds /\ Truncated(ids) \in BOOLEAN /\ l.todo = ids /\ l.read = {}
    BY <2>1 DEF Live, Truncated
  <2>3. l \in [todo : SUBSET KeyIds, read : SUBSET KeyIds, all : BOOLEAN]
    BY <2>1, <2>2
  <2>4. l.todo \cup l.read = ids /\ l.read \cup l.todo = ids
    BY <2>2
  <2>5. l.all => there[c] \subseteq ids
    BY <2>1 DEF Truncated, ListInv
  <2>6. Cardinality(l.todo \cup l.read) <= maxListedKeys
    BY <1>3, <1>5, <2>4
  <2>7. /\ list' = [list EXCEPT ![c] = l] /\ UNCHANGED <<keys, devices, shown, there>>
        /\ cached' \in {"none", "live", "expired"} /\ lock' \in Calls \cup {"free"} /\ lock' = lock
        /\ lock' # "free" => creds = "oauth" /\ cached' # "live"
    BY <1>1, <1>5, <2>1 DEF tailnet, TypeOK, LockInv
  <2>8. TailnetInv'
    BY <1>1, <1>5, <2>3, <2>4, <2>5, <2>6, <2>7, GotoKeeps
  <2> QED BY <1>5, <2>8 DEF Goto
<1>6. CASE \E ids \in SUBSET Live :
             /\ UNCHANGED <<tailnet, shown>> /\ Capped(ids)
             /\ IF ids = {} THEN Return(c, "ok")
                ELSE /\ list' = [list EXCEPT ![c] = [todo |-> ids, read |-> {}, all |-> Truncated(ids)]]
                     /\ Goto(c, "authorize") /\ UNCHANGED there
  BY <1>4, <1>5, <1>6
<1> QED BY <1>2, <1>6, FailsKeeps DEF ListKeys, Sends

\* What is read back of a list is taken from what was to be read back of it.
LEMMA GetAuthKeyKeeps ==
  ASSUME TailnetInv, NEW c \in Calls, GetAuthKey(c)
  PROVE  TailnetInv' /\ (out' = "ok" => there[c] \subseteq list[c].read \cup list[c].todo)
<1> USE DEF TailnetInv
<1>1. pc[c] = "send" /\ UNCHANGED <<cached, lock>> /\ lock # c
  BY DEF GetAuthKey, Sends, unlocked, LockInv
<1>2. CASE Fails(c)
  BY <1>1, <1>2, FailsKeeps DEF GetAuthKey
<1>3. ASSUME NEW k \in list[c].todo, UNCHANGED <<tailnet, shown>>,
             Return(c, IF list[c].all THEN "ok" ELSE "truncated")
      PROVE  TailnetInv' /\ (out' = "ok" => there[c] \subseteq list[c].read \cup list[c].todo)
  <2>1. PICK o \in {"ok", "truncated"} : o = IF list[c].all THEN "ok" ELSE "truncated"
    OBVIOUS
  <2>2. TailnetInv'
    BY <1>1, <1>3, <2>1, ReturnOnlyKeeps DEF tailnet, Outs
  <2>3. out' = o
    BY <1>3, <2>1 DEF Return
  <2>4. o = "ok" => list[c].all
    BY <2>1 DEF TypeOK
  <2> QED BY <2>2, <2>3, <2>4 DEF ListInv
<1>4. ASSUME NEW k \in list[c].todo, UNCHANGED <<tailnet, shown>>,
             list' = [list EXCEPT ![c].todo = @ \ {k}, ![c].read = @ \cup {k}],
             Goto(c, "authorize"), UNCHANGED there
      PROVE  TailnetInv' /\ out' = "none"
  <2>1. list[c] \in [todo : SUBSET KeyIds, read : SUBSET KeyIds, all : BOOLEAN]
    BY DEF TypeOK
  <2>2. PICK l : l = [list[c] EXCEPT !.todo = @ \ {k}, !.read = @ \cup {k}]
    OBVIOUS
  <2>3. /\ l \in [todo : SUBSET KeyIds, read : SUBSET KeyIds, all : BOOLEAN]
        /\ l.todo = list[c].todo \ {k} /\ l.read = list[c].read \cup {k} /\ l.all = list[c].all
    BY <2>1, <2>2
  <2>4. list' = [list EXCEPT ![c] = l]
    BY <1>4, <2>2 DEF TypeOK
  <2>5. l.todo \cup l.read = list[c].todo \cup list[c].read
    BY <2>1, <2>3
  <2>6. l.all => there[c] \subseteq l.read \cup l.todo
    BY <2>3, <2>5 DEF ListInv
  <2>7. Cardinality(l.todo \cup l.read) <= maxListedKeys
    BY <2>5 DEF TypeOK
  <2>8. /\ UNCHANGED <<keys, devices, shown, there>>
        /\ cached' \in {"none", "live", "expired"} /\ lock' \in Calls \cup {"free"} /\ lock' = lock
        /\ lock' # "free" => creds = "oauth" /\ cached' # "live"
    BY <1>1, <1>4 DEF tailnet, TypeOK, LockInv
  <2>9. TailnetInv'
    BY <1>1, <1>4, <2>3, <2>4, <2>6, <2>7, <2>8, GotoKeeps
  <2> QED BY <1>4, <2>9 DEF Goto
<1>5. CASE \E k \in list[c].todo :
             /\ UNCHANGED <<tailnet, shown>>
             /\ IF list[c].todo = {k} THEN Return(c, IF list[c].all THEN "ok" ELSE "truncated")
                ELSE /\ list' = [list EXCEPT ![c].todo = @ \ {k}, ![c].read = @ \cup {k}]
                     /\ Goto(c, "authorize") /\ UNCHANGED there
  BY <1>3, <1>4, <1>5
<1> QED BY <1>1, <1>2, <1>5, FailsKeeps DEF GetAuthKey

LEMMA TailnetStep == ASSUME TailnetInv, Next PROVE TailnetInv'
<1>1. CASE Expires
  BY <1>1, ExpiresKeeps
<1>2. ASSUME NEW c \in Calls, Answer(c) \/ Begin(c) \/ Step(c) PROVE TailnetInv'
  BY <1>2, AnswerKeeps, BeginKeeps, AuthorizeKeeps, ExchangeKeeps, ReadKeeps, CreateAuthKeyKeeps,
     RevokeAuthKeyKeeps, ChangeDeviceKeeps, PreviewKeeps, ListKeysKeeps, GetAuthKeyKeeps DEF Step
<1> QED BY <1>1, <1>2 DEF Next

LEMMA TailnetStutters == ASSUME TailnetInv, UNCHANGED vars PROVE TailnetInv'
BY DEF vars, tailnet, TailnetInv, TypeOK, RequestInv, LockInv, ListInv, ShownInv, Live, Previews, Present

LEMMA TailnetInit == ASSUME Init PROVE TailnetInv
<1>1. \A c \in Calls : list[c] = NoList /\ pc[c] = "idle" /\ req[c] = None /\ there[c] = {}
  BY DEF Init
<1>2. TypeOK
  BY <1>1, NoListType DEF Init, TypeOK
<1>3. RequestInv /\ ListInv /\ ShownInv
  BY <1>1, NoListType DEF Init, RequestInv, ListInv, ShownInv
<1>4. LockInv
  BY TailnetAssumption DEF Init, LockInv
<1> QED BY <1>2, <1>3, <1>4 DEF TailnetInv

-----------------------------------------------------------------------------
(* What a step of the tailnet's answers.                                    *)

\* A call whose step this is not stays where it is.
LEMMA OthersStay ==
  ASSUME TailnetInv, NEW c \in Calls, NEW d \in Calls \ {c}, Answer(c) \/ Begin(c) \/ Step(c)
  PROVE  pc'[d] = pc[d]
<1>1. ASSUME NEW o, Return(c, o) PROVE pc'[d] = pc[d]
  BY <1>1 DEF Return, TailnetInv, TypeOK
<1>2. ASSUME NEW s, Goto(c, s) PROVE pc'[d] = pc[d]
  BY <1>2 DEF Goto, TailnetInv, TypeOK
<1>3. CASE Answer(c) \/ Begin(c)
  BY <1>3 DEF Answer, Begin, TailnetInv, TypeOK
<1>4. CASE Authorize(c)
  BY <1>2, <1>4 DEF Authorize
<1>5. CASE Exchange(c)
  BY <1>1, <1>2, <1>5 DEF Exchange
<1>6. Fails(c) => pc'[d] = pc[d]
  BY <1>1 DEF Fails
<1>7. CASE Read(c)
  BY <1>1, <1>6, <1>7 DEF Read
<1>8. CASE CreateAuthKey(c)
  BY <1>1, <1>6, <1>8 DEF CreateAuthKey, Writes
<1>9. CASE RevokeAuthKey(c)
  BY <1>1, <1>6, <1>9 DEF RevokeAuthKey, Writes
<1>10. CASE ChangeDevice(c)
  BY <1>1, <1>6, <1>10 DEF ChangeDevice, Writes
<1>11. CASE Preview(c)
  BY <1>1, <1>6, <1>11 DEF Preview
<1>12. CASE ListKeys(c)
  BY <1>1, <1>2, <1>6, <1>12 DEF ListKeys
<1>13. CASE GetAuthKey(c)
  BY <1>1, <1>2, <1>6, <1>13 DEF GetAuthKey
<1> QED BY <1>3, <1>4, <1>5, <1>7, <1>8, <1>9, <1>10, <1>11, <1>12, <1>13 DEF Step

\* An answer of "ok" is that of a call that sent a request.
LEMMA OkIsOfARequest ==
  ASSUME TailnetInv, Next, out' = "ok"
  PROVE  \E c \in Calls : Step(c) /\ pc[c] = "send"
<1>1. ~Expires
  BY DEF Expires
<1>2. PICK c \in Calls : Answer(c) \/ Begin(c) \/ Step(c)
  BY <1>1 DEF Next
<1>3. ~Begin(c)
  BY DEF Begin
<1>4. ~Answer(c)
  <2>1. Refusals \subseteq Codes
    BY DEF Refusals, Gate, Codes
  <2> QED BY <2>1 DEF Answer, Codes
<1>5. ~Authorize(c)
  BY DEF Authorize, Goto
<1>6. ~Exchange(c)
  BY ExchangeKeeps
<1> QED BY <1>2, <1>3, <1>4, <1>5, <1>6 DEF Step, Read, CreateAuthKey, RevokeAuthKey, ChangeDevice,
           Preview, ListKeys, GetAuthKey, Sends

LEMMA ListIsWholeStep ==
  ASSUME TailnetInv, [Next]_vars, out' = "ok", NEW c \in Calls,
         req[c].op = "list_auth_keys", pc'[c] = "idle", ~UNCHANGED vars
  PROVE  there[c] \subseteq list[c].read \cup list[c].todo
<1>1. PICK d \in Calls : Step(d) /\ pc[d] = "send"
  BY OkIsOfARequest
<1>2. pc[c] # "idle"
  BY DEF TailnetInv, TypeOK, None
<1>3. d = c
  BY <1>1, <1>2, OthersStay
<1>4. ListKeys(c) \/ GetAuthKey(c)
  BY <1>1, <1>3 DEF Step, Authorize, Exchange, Read, CreateAuthKey, RevokeAuthKey, ChangeDevice, Preview,
     Sends, ackOperations
<1> QED BY <1>4, ListKeysKeeps, GetAuthKeyKeeps

LEMMA DeviceChangeStep ==
  ASSUME TailnetInv, [Next]_vars, ~UNCHANGED vars, NEW c \in Calls, NEW p \in shown, DoesAsShown(c, p)
  PROVE  LET d == p.req.arg.id
         IN /\ p.nothing <=> UNCHANGED devices
            /\ p.req.op = "set_tags" =>
                 devices'[d].tags = (devices[d].tags \ p.removed) \cup p.added
<1>1. Previews(p) /\ req[c] = p.req /\ pc[c] = "send" /\ pc'[c] = "idle" /\ out' = "ok"
  BY DEF TailnetInv, ShownInv, DoesAsShown
<1>2. PICK e \in Calls : Step(e) /\ pc[e] = "send"
  BY <1>1, OkIsOfARequest
<1>3. e = c
  BY <1>1, <1>2, OthersStay
<1>4. ChangeDevice(c)
  BY <1>1, <1>2, <1>3 DEF Step, Authorize, Exchange, Read, CreateAuthKey, RevokeAuthKey, Preview, ListKeys,
     GetAuthKey, Sends, Previews, DeviceOps
<1>5. PICK d : d = req[c].arg.id
  OBVIOUS
<1>6. d \in Present /\ devices' = [devices EXCEPT ![d] = Changed(req[c], devices[d])]
  BY <1>1, <1>4, <1>5, ChangeDeviceKeeps
<1>7. devices[d] \in Device /\ d \in Devices
  BY <1>6 DEF Present, TailnetInv, TypeOK
<1>8. devices'[d] = Changed(req[c], devices[d])
  BY <1>6, <1>7 DEF TailnetInv, TypeOK
<1>9. devices' = devices <=> Changed(req[c], devices[d]) = devices[d]
  BY <1>6, <1>7, <1>8 DEF TailnetInv, TypeOK
<1>10. p = DevicePreview(req[c], devices[d]) /\ req[c].op \in DeviceOps /\ req[c].arg \in Given(req[c].op)
  BY <1>1, <1>5 DEF Previews
<1>11. PICK q \in DeviceOps : q = req[c].op
  BY <1>10
<1>12. p.nothing <=> Changed(req[c], devices[d]) = devices[d]
  BY <1>7, <1>10, ChangedDevice
<1>13. q = "set_tags" => Changed(req[c], devices[d]).tags = (devices[d].tags \ p.removed) \cup p.added
  BY <1>7, <1>10, <1>11, ChangedDevice
<1> QED BY <1>1, <1>5, <1>8, <1>9, <1>11, <1>12, <1>13

-----------------------------------------------------------------------------
(* Bags of records.                                                        *)

\* What stays of a bag without another, and what two make together.
LEMMA Difference ==
  ASSUME NEW a, NEW b, Namecheap!IsABag(a), Namecheap!IsABag(b)
  PROVE  /\ Namecheap!IsABag(Namecheap!Remove(a, b))
         /\ DOMAIN Namecheap!Remove(a, b) \subseteq DOMAIN a
         /\ \A e : Namecheap!Count(Namecheap!Remove(a, b), e)
                     = IF Namecheap!Count(a, e) > Namecheap!Count(b, e)
                       THEN Namecheap!Count(a, e) - Namecheap!Count(b, e) ELSE 0
BY DEF Namecheap!Remove, Namecheap!(-), Namecheap!IsABag, Namecheap!Count, Namecheap!BagIn,
       Namecheap!BagToSet

LEMMA Together ==
  ASSUME NEW a, NEW b, Namecheap!IsABag(a), Namecheap!IsABag(b)
  PROVE  /\ Namecheap!IsABag(Namecheap!(+)(a, b))
         /\ \A e : Namecheap!Count(Namecheap!(+)(a, b), e) = Namecheap!Count(a, e) + Namecheap!Count(b, e)
BY DEF Namecheap!(+), Namecheap!IsABag, Namecheap!Count, Namecheap!BagIn, Namecheap!BagToSet

LEMMA BagsAreCounted ==
  ASSUME NEW a, NEW b, Namecheap!IsABag(a), Namecheap!IsABag(b),
         \A e : Namecheap!Count(a, e) = Namecheap!Count(b, e)
  PROVE  a = b
<1>1. \A e : /\ e \in DOMAIN a <=> Namecheap!Count(a, e) > 0
             /\ e \in DOMAIN b <=> Namecheap!Count(b, e) > 0
  BY DEF Namecheap!IsABag, Namecheap!Count, Namecheap!BagIn, Namecheap!BagToSet
<1>2. DOMAIN a = DOMAIN b
  BY <1>1
<1>3. \A e \in DOMAIN a : a[e] = b[e]
  BY <1>2 DEF Namecheap!Count, Namecheap!BagIn, Namecheap!BagToSet
<1> QED BY <1>2, <1>3 DEF Namecheap!IsABag

\* Taking away what is not wanted and adding what is missing gives what is wanted.
LEMMA DiffLeadsThere ==
  ASSUME NEW now, NEW set, Namecheap!IsABag(now), Namecheap!IsABag(set)
  PROVE  Namecheap!(+)(Namecheap!(-)(now, Namecheap!Remove(now, set)), Namecheap!Add(now, set)) = set
<1>1. /\ Namecheap!(-)(now, Namecheap!Remove(now, set)) = Namecheap!Remove(now, Namecheap!Remove(now, set))
      /\ Namecheap!Add(now, set) = Namecheap!Remove(set, now)
  BY DEF Namecheap!Remove, Namecheap!Add
<1>2. PICK away : away = Namecheap!Remove(now, set)
  OBVIOUS
<1>3. PICK left : left = Namecheap!Remove(now, away)
  OBVIOUS
<1>4. PICK more : more = Namecheap!Remove(set, now)
  OBVIOUS
<1>5. PICK all : all = Namecheap!(+)(left, more)
  OBVIOUS
<1>6. Namecheap!IsABag(away) /\ Namecheap!IsABag(left) /\ Namecheap!IsABag(more) /\ Namecheap!IsABag(all)
  BY <1>2, <1>3, <1>4, <1>5, Difference, Together
<1>7. ASSUME NEW b, Namecheap!IsABag(b), NEW e PROVE Namecheap!Count(b, e) \in Nat
  BY <1>7 DEF Namecheap!IsABag, Namecheap!Count, Namecheap!BagIn, Namecheap!BagToSet
<1>8. ASSUME NEW e PROVE Namecheap!Count(all, e) = Namecheap!Count(set, e)
  <2>1. PICK n \in Nat : n = Namecheap!Count(now, e)
    BY <1>7
  <2>2. PICK s \in Nat : s = Namecheap!Count(set, e)
    BY <1>7
  <2>3. Namecheap!Count(away, e) = IF n > s THEN n - s ELSE 0
    BY <1>2, <2>1, <2>2, Difference
  <2>4. Namecheap!Count(more, e) = IF s > n THEN s - n ELSE 0
    BY <1>4, <2>1, <2>2, Difference
  <2>5. Namecheap!Count(left, e)
          = IF n > Namecheap!Count(away, e) THEN n - Namecheap!Count(away, e) ELSE 0
    BY <1>3, <1>6, <2>1, Difference
  <2>6. Namecheap!Count(all, e) = Namecheap!Count(left, e) + Namecheap!Count(more, e)
    BY <1>5, <1>6, Together
  <2> QED BY <2>2, <2>3, <2>4, <2>5, <2>6
<1> QED BY <1>1, <1>2, <1>3, <1>4, <1>5, <1>6, <1>8, BagsAreCounted

\* Stored sums the records of a shape, and leaves no mail where there was none.
LEMMA StoredRecords ==
  ASSUME NEW b, Namecheap!IsRecords(b, {0, TTL})
  PROVE  /\ Namecheap!IsRecords(Namecheap!Stored(b), {TTL})
         /\ Namecheap!MailOf(b) = {} => Namecheap!MailOf(Namecheap!Stored(b)) = {}
<1>1. \A e : Namecheap!Count(b, e) \in Nat /\ (Namecheap!Count(b, e) > 0 => e \in DOMAIN b)
  BY DEF Namecheap!IsRecords, Namecheap!IsABag, Namecheap!Count, Namecheap!BagIn, Namecheap!BagToSet
<1> DEFINE n(s) == Namecheap!Count(b, <<s, 0>>) + Namecheap!Count(b, <<s, TTL>>)
           D == {s \in Shapes : n(s) > 0} \X {TTL}
<1>2. Namecheap!Stored(b) = [e \in D |-> n(e[1])]
  BY DEF Namecheap!Stored
<1>3. \A s : n(s) \in Nat
  BY <1>1
<1>4. \A e \in D : /\ e[1] \in Shapes /\ n(e[1]) > 0 /\ e = <<e[1], TTL>>
  OBVIOUS
<1>5. DOMAIN Namecheap!Stored(b) = D
  BY <1>2
<1>6. Namecheap!IsRecords(Namecheap!Stored(b), {TTL})
  <2>1. \A e \in D : n(e[1]) \in {m \in Nat : m > 0}
    BY <1>3, <1>4
  <2>2. Namecheap!Stored(b) \in [D -> {m \in Nat : m > 0}]
    BY <1>2, <2>1
  <2>3. D \subseteq Shapes \X {TTL}
    OBVIOUS
  <2> QED BY <1>5, <2>2, <2>3 DEF Namecheap!IsRecords, Namecheap!IsABag
<1>7. ASSUME NEW e \in D, e[1] \in MX PROVE \E f \in DOMAIN b : f[1] \in MX
  <2>1. Namecheap!Count(b, <<e[1], 0>>) > 0 \/ Namecheap!Count(b, <<e[1], TTL>>) > 0
    BY <1>1, <1>4
  <2>2. <<e[1], 0>>[1] = e[1] /\ <<e[1], TTL>>[1] = e[1]
    OBVIOUS
  <2> QED BY <1>1, <1>7, <2>1, <2>2
<1>8. /\ Namecheap!MailOf(b) = {f \in DOMAIN b : f[1] \in MX}
      /\ Namecheap!MailOf(Namecheap!Stored(b)) = {e \in D : e[1] \in MX}
  BY <1>5 DEF Namecheap!MailOf, Namecheap!BagToSet
<1> QED BY <1>6, <1>7, <1>8

LEMMA SeenIsABag ==
  ASSUME NEW b, Namecheap!IsABag(b)
  PROVE  Namecheap!IsABag(Namecheap!Seen(b)) /\ DOMAIN Namecheap!Seen(b) \subseteq DOMAIN b
BY DEF Namecheap!IsABag, Namecheap!Seen, Namecheap!BagToSet

-----------------------------------------------------------------------------
(* The zone.                                                               *)

ZoneOuts == {"none", "ok", "preview"} \cup Namecheap!Codes
ZoneBegun == {Namecheap!Kept(r) : r \in {r \in Namecheap!Accepted : ~Namecheap!ReadsNothing(r)}}

\* The client there is has the key that is scrubbed, and without one only calls
\* that were unloaded under run.
ClientInv == /\ process # "panicked"
             /\ client # NoKey => scrub = client
             /\ client = NoKey => Namecheap!Running \subseteq cut

\* A call has its request where it belongs, and sent it with the key that is
\* scrubbed unless it was unloaded under.
CallsInv ==
  /\ ncReq \in [Calls -> ZoneBegun \cup {Namecheap!None}]
  /\ \A c \in Calls : /\ ncPc[c] \in {"set", "diff"} => ncReq[c].op = "set_dns_record_set"
                      /\ ncPc[c] \notin {"idle", "ready"} /\ c \notin cut => sent[c] = scrub

\* A preview kept is that of its set and of the zone as it is.
ZoneShownInv ==
  \A s \in ncShown : /\ s.arg.records \in Asked /\ s.email \in Namecheap!EmailTypes
                     /\ s.add = Namecheap!Add(Namecheap!Seen(zone.records), s.arg.records)
                     /\ s.remove = Namecheap!Remove(Namecheap!Seen(zone.records), s.arg.records)

ZoneInv == /\ Namecheap!TypeOK /\ zone = [records |-> zone.records, email |-> zone.email]
           /\ ClientInv /\ CallsInv /\ ZoneShownInv

LEMMA ZoneRequest ==
  ASSUME NEW r \in ZoneBegun
  PROVE  /\ r # Namecheap!None
         /\ r.op = "set_dns_record_set" => /\ r.arg.records \in Asked
                                           /\ Namecheap!Validate(r.arg)
<1>1. PICK q \in Namecheap!Accepted : r = Namecheap!Kept(q)
  BY DEF ZoneBegun
<1>2. PICK o \in Namecheap!Operations :
        q \in [op : {o}, arg : Namecheap!Given(o), dry : BOOLEAN, ack : BOOLEAN]
  BY <1>1 DEF Namecheap!Accepted, Namecheap!ZoneRequests
<1>3. q.op = o /\ q.arg \in Namecheap!Given(o) /\ Namecheap!Sound(q)
  BY <1>1, <1>2 DEF Namecheap!Accepted
<1>4. r.op = o /\ r.arg = q.arg
  BY <1>1, <1>3 DEF Namecheap!Kept
<1>5. o # "none"
  BY DEF Namecheap!Operations, Namecheap!ReadOperations, Namecheap!writeOperations, Namecheap!refusedTools
<1>6. o = "set_dns_record_set" => r.arg.records \in Asked /\ Namecheap!Validate(r.arg)
  BY <1>3, <1>4 DEF Namecheap!Given, Namecheap!Sound
<1> QED BY <1>4, <1>5, <1>6 DEF Namecheap!None

LEMMA ZoneCodes ==
  ASSUME NEW f
  PROVE  Namecheap!errorCode(f) \in ZoneOuts /\ Namecheap!errorCode(f) \notin {"none", "ok", "preview"}
BY DEF Namecheap!errorCode, ZoneOuts, Namecheap!Codes

LEMMA LoadKeepsZone == ASSUME ZoneInv, Namecheap!Load PROVE ZoneInv'
BY DEF Namecheap!Load, Namecheap!ScrubberOf, ZoneInv, Namecheap!TypeOK, ClientInv, CallsInv, ZoneShownInv,
       Namecheap!Running

LEMMA UnloadKeepsZone == ASSUME ZoneInv, Namecheap!Unload PROVE ZoneInv'
<1> USE DEF ZoneInv
<1>1. /\ client' = NoKey /\ cut' = Namecheap!Running /\ ncOut' = "none" /\ said' = NoKey
      /\ UNCHANGED <<process, scrub, ncPc, ncReq, sent, zone, ncShown, ncCalm>>
  BY DEF Namecheap!Unload
<1>2. Namecheap!TypeOK'
  BY <1>1 DEF Namecheap!TypeOK, Namecheap!Running
<1>3. ClientInv'
  BY <1>1 DEF ClientInv, Namecheap!Running
<1>4. CallsInv'
  BY <1>1 DEF CallsInv, Namecheap!Running
<1> QED BY <1>1, <1>2, <1>3, <1>4 DEF ZoneShownInv

\* A call that has sent nothing.
LEMMA AnswersKeepZone ==
  ASSUME ZoneInv, NEW o \in ZoneOuts, Namecheap!Answers(o), ncCalm' \in BOOLEAN
  PROVE  ZoneInv'
BY DEF Namecheap!Answers, Namecheap!pluginVars, ZoneOuts, ZoneInv, Namecheap!TypeOK, ClientInv, CallsInv,
       ZoneShownInv, Namecheap!Running

LEMMA ArrivalKeepsZone ==
  ASSUME ZoneInv, NEW c \in Calls,
         Namecheap!Refuse(c) \/ Namecheap!Preview(c) \/ Namecheap!NoCredential(c)
  PROVE  ZoneInv'
<1>1. ncCalm' \in BOOLEAN
  BY DEF Namecheap!Refuse, Namecheap!Preview, Namecheap!NoCredential, Namecheap!Arrives, ZoneInv, Namecheap!TypeOK
<1>2. \E o \in ZoneOuts : Namecheap!Answers(o)
  BY DEF Namecheap!Refuse, Namecheap!Preview, Namecheap!NoCredential, Namecheap!Gate, ZoneOuts, Namecheap!Codes
<1> QED BY <1>1, <1>2, AnswersKeepZone

LEMMA BeginKeepsZone ==
  ASSUME ZoneInv, NEW c \in Calls, Namecheap!Begin(c)
  PROVE  ZoneInv' /\ ncOut' = "none" /\ said' = NoKey
<1> USE DEF ZoneInv
<1>1. PICK r \in ZoneBegun : ncReq' = [ncReq EXCEPT ![c] = r]
  BY DEF Namecheap!Begin, ZoneBegun
<1>2. /\ ncPc[c] = "idle" /\ client # NoKey /\ r # Namecheap!None
      /\ ncPc' = [ncPc EXCEPT ![c] = "ready"] /\ ncCalm' \in BOOLEAN
      /\ ncShown' \in {ncShown, {}} /\ ncOut' = "none" /\ said' = NoKey
      /\ UNCHANGED <<process, client, scrub, sent, zone, cut>>
  BY ZoneRequest DEF Namecheap!Begin, Namecheap!Arrives, Namecheap!Ready, Namecheap!Running, Namecheap!pluginVars,
     Namecheap!TypeOK
<1>3. Namecheap!TypeOK'
  BY <1>1, <1>2 DEF Namecheap!TypeOK, CallsInv
<1>4. ClientInv'
  BY <1>2 DEF ClientInv
<1>5. CallsInv'
  BY <1>1, <1>2 DEF CallsInv, Namecheap!TypeOK
<1>6. ZoneShownInv'
  BY <1>2 DEF ZoneShownInv
<1> QED BY <1>2, <1>3, <1>4, <1>5, <1>6

LEMMA SendKeepsZone ==
  ASSUME ZoneInv, NEW c \in Calls, Namecheap!Send(c)
  PROVE  ZoneInv' /\ ncOut' = "none" /\ said' = NoKey
<1> USE DEF ZoneInv
<1>1. /\ ncPc[c] = "ready" /\ client # NoKey /\ ncOut' = "none" /\ said' = NoKey
      /\ ncPc' = [ncPc EXCEPT ![c] = Namecheap!First(ncReq[c])] /\ sent' = [sent EXCEPT ![c] = client]
      /\ UNCHANGED <<process, client, scrub, ncReq, zone, ncShown, cut, ncCalm>>
  BY DEF Namecheap!Send, Namecheap!pluginVars
<1>2. ncReq[c] \in ZoneBegun
  BY <1>1 DEF CallsInv, Namecheap!TypeOK
<1>3. PICK r \in ZoneBegun : r = ncReq[c]
  BY <1>2
<1>4. /\ Namecheap!First(r) \in {"read", "diff", "set", "servers"}
      /\ Namecheap!First(r) \in {"diff", "set"} => r.op = "set_dns_record_set"
  <2>1. PICK q \in Namecheap!Accepted : r = Namecheap!Kept(q)
    BY DEF ZoneBegun
  <2>2. PICK o \in Namecheap!Operations :
          q \in [op : {o}, arg : Namecheap!Given(o), dry : BOOLEAN, ack : BOOLEAN]
    BY <2>1 DEF Namecheap!Accepted, Namecheap!ZoneRequests
  <2>3. o \notin Namecheap!refusedTools
    BY <2>1, <2>2 DEF Namecheap!Accepted, Namecheap!Gate
  <2> QED BY <2>1, <2>2, <2>3 DEF Namecheap!Kept, Namecheap!First, Namecheap!Operations,
             Namecheap!ReadOperations, Namecheap!writeOperations
<1>5. Namecheap!TypeOK'
  BY <1>1, <1>3, <1>4 DEF Namecheap!TypeOK
<1>6. ClientInv'
  BY <1>1, <1>3, <1>4 DEF ClientInv, Namecheap!Running, Namecheap!TypeOK
<1>7. CallsInv'
  <2>1. SUFFICES ASSUME NEW d \in Calls
                 PROVE  /\ ncPc'[d] \in {"set", "diff"} => ncReq[d].op = "set_dns_record_set"
                        /\ ncPc'[d] \notin {"idle", "ready"} /\ d \notin cut => sent'[d] = scrub
    BY <1>1 DEF CallsInv
  <2>2. CASE d = c
    BY <1>1, <1>3, <1>4, <2>2 DEF ClientInv, Namecheap!TypeOK
  <2>3. CASE d # c
    BY <1>1, <2>3 DEF CallsInv, Namecheap!TypeOK
  <2> QED BY <2>2, <2>3
<1>8. ZoneShownInv'
  BY <1>1 DEF ZoneShownInv
<1> QED BY <1>1, <1>5, <1>6, <1>7, <1>8

LEMMA PanicsKeepZone ==
  ASSUME ZoneInv, NEW c \in Calls, Namecheap!Panics(c)
  PROVE  ZoneInv' /\ ncOut' = "none" /\ said' = NoKey
<1> USE DEF ZoneInv
<1>1. c \in cut
  BY DEF Namecheap!Panics, ClientInv, Namecheap!Running
<1>2. /\ process' = "pulled" /\ ncPc' = [d \in Calls |-> "idle"] /\ ncReq' = [d \in Calls |-> Namecheap!None]
      /\ sent' = [d \in Calls |-> NoKey] /\ ncOut' = "none" /\ said' = NoKey /\ cut' = {} /\ ncShown' = {}
      /\ UNCHANGED <<client, scrub, zone, ncCalm>>
  BY <1>1 DEF Namecheap!Panics
<1>3. Namecheap!TypeOK'
  BY <1>2 DEF Namecheap!TypeOK
<1>4. ClientInv' /\ CallsInv' /\ ZoneShownInv'
  BY <1>2 DEF ClientInv, CallsInv, ZoneShownInv, Namecheap!Running
<1> QED BY <1>2, <1>3, <1>4

\* The parts of a preview are records.
LEMMA ShownAreRecords ==
  ASSUME NEW z, NEW b \in Asked, Namecheap!IsRecords(z, {TTL})
  PROVE  /\ Namecheap!IsRecords(Namecheap!Add(Namecheap!Seen(z), b), {0, TTL})
         /\ Namecheap!IsRecords(Namecheap!Remove(Namecheap!Seen(z), b), {TTL})
<1>1. Namecheap!IsRecords(b, {0, TTL})
  BY ZoneAssumption
<1>2. Namecheap!IsABag(Namecheap!Seen(z)) /\ DOMAIN Namecheap!Seen(z) \subseteq Shapes \X {TTL}
  BY SeenIsABag DEF Namecheap!IsRecords
<1>3. Namecheap!Add(Namecheap!Seen(z), b) = Namecheap!Remove(b, Namecheap!Seen(z))
  BY DEF Namecheap!Add, Namecheap!Remove
<1> QED BY <1>1, <1>2, <1>3, Difference DEF Namecheap!IsRecords

LEMMA ReturnsKeepZone ==
  ASSUME ZoneInv, NEW c \in Calls, NEW o \in ZoneOuts, NEW text \in Keys \cup {NoKey},
         Namecheap!Returns(c, o, text), ZoneShownInv',
         Namecheap!IsRecords(zone'.records, {TTL}), zone'.email \in Namecheap!EmailTypes,
         zone' = [records |-> zone'.records, email |-> zone'.email]
  PROVE  ZoneInv'
<1> USE DEF ZoneInv
<1>1. /\ ncPc' = [ncPc EXCEPT ![c] = "idle"] /\ ncReq' = [ncReq EXCEPT ![c] = Namecheap!None]
      /\ sent' = [sent EXCEPT ![c] = NoKey] /\ ncOut' = o /\ said' = text /\ cut' = cut \ {c}
      /\ UNCHANGED <<process, client, scrub, ncCalm>>
  BY DEF Namecheap!Returns, Namecheap!pluginVars
<1>2. \A p \in ncShown' : /\ Namecheap!IsRecords(p.add, {0, TTL}) /\ Namecheap!IsRecords(p.remove, {TTL})
                          /\ p.email \in Namecheap!EmailTypes
  BY ShownAreRecords DEF ZoneShownInv
<1>3. (\A d \in Calls : (ncPc[d] = "idle") = (ncReq[d] = Namecheap!None))'
  BY <1>1 DEF Namecheap!TypeOK, CallsInv
<1>4. Namecheap!TypeOK'
  BY <1>1, <1>2, <1>3 DEF Namecheap!TypeOK, ZoneOuts
<1>5. ClientInv'
  BY <1>1 DEF ClientInv, Namecheap!Running, Namecheap!TypeOK
<1>6. CallsInv'
  BY <1>1 DEF CallsInv, Namecheap!TypeOK
<1> QED BY <1>4, <1>5, <1>6

\* A request that went wrong: what it says, and that it is no success.
LEMMA FailsByCode ==
  ASSUME ZoneInv, NEW c \in Calls, ncPc[c] \notin {"idle", "ready"}, NEW fs, Namecheap!FailsBy(c, fs)
  PROVE  /\ ncOut' \notin {"none", "ok", "preview"} /\ (said' # NoKey => c \in cut)
         /\ \E o \in ZoneOuts, text \in Keys \cup {NoKey} : Namecheap!Returns(c, o, text)
<1>0. PICK f \in fs : \E key \in Namecheap!Quoted(c, f) :
                       Namecheap!Returns(c, Namecheap!errorCode(f), Namecheap!Text(key))
  BY DEF Namecheap!FailsBy
<1>1. PICK key \in Namecheap!Quoted(c, f) :
             Namecheap!Returns(c, Namecheap!errorCode(f), Namecheap!Text(key))
  BY <1>0
<1>2. key \in Keys \cup {NoKey} /\ (c \notin cut => key \in {scrub, NoKey})
  BY DEF Namecheap!Quoted, ZoneInv, CallsInv, Namecheap!TypeOK
<1>3. /\ Namecheap!Text(key) \in Keys \cup {NoKey}
      /\ c \notin cut => Namecheap!Text(key) = NoKey
  BY <1>2 DEF Namecheap!Text
<1>4. ncOut' = Namecheap!errorCode(f) /\ said' = Namecheap!Text(key)
  BY <1>1, <1>2 DEF Namecheap!Returns
<1> QED BY <1>1, <1>2, <1>3, <1>4, ZoneCodes

LEMMA ZoneAsItWas ==
  ASSUME ZoneInv, NEW c \in Calls, NEW o \in ZoneOuts, NEW text \in Keys \cup {NoKey},
         Namecheap!Returns(c, o, text), zone' = zone, ncShown' \in {ncShown, {}}
  PROVE  ZoneInv'
<1>1. ZoneShownInv'
  BY DEF ZoneInv, ZoneShownInv
<1> QED BY <1>1, ReturnsKeepZone DEF ZoneInv, Namecheap!TypeOK

LEMMA FailsKeepsZone ==
  ASSUME ZoneInv, NEW c \in Calls, ncPc[c] \notin {"idle", "ready"}, Namecheap!Fails(c)
  PROVE  ZoneInv' /\ ncOut' # "ok" /\ (said' # NoKey => c \in cut) /\ zone' = zone
<1>1. zone' = zone /\ ncShown' = ncShown /\ \E fs : Namecheap!FailsBy(c, fs)
  BY DEF Namecheap!Fails
<1> QED BY <1>1, FailsByCode, ZoneAsItWas

LEMMA ReadKeepsZone ==
  ASSUME ZoneInv, NEW c \in Calls, Namecheap!Read(c)
  PROVE  ZoneInv' /\ (said' # NoKey => c \in cut) /\ zone' = zone
<1>1. CASE Namecheap!Returns(c, "ok", NoKey) /\ UNCHANGED <<zone, ncShown>>
  <2>1. ZoneInv'
    BY <1>1, ZoneAsItWas DEF ZoneOuts
  <2> QED BY <1>1, <2>1 DEF Namecheap!Returns
<1>2. CASE Namecheap!Fails(c)
  BY <1>2, FailsKeepsZone DEF Namecheap!Read
<1> QED BY <1>1, <1>2 DEF Namecheap!Read

\* A preview lists what the set it is asked with would change of the zone as it is.
LEMMA DiffKeepsZone ==
  ASSUME ZoneInv, NEW c \in Calls, Namecheap!Diff(c)
  PROVE  ZoneInv' /\ (said' # NoKey => c \in cut) /\ zone' = zone /\ ncOut' # "ok"
<1>1. CASE Namecheap!Fails(c)
  BY <1>1, FailsKeepsZone DEF Namecheap!Diff
<1>2. CASE /\ Namecheap!Returns(c, "preview", NoKey) /\ zone' = zone
           /\ ncShown' = IF ~ncCalm THEN {}
                         ELSE LET arg == ncReq[c].arg
                                  now == Namecheap!Seen(zone.records)
                              IN {[arg |-> arg, add |-> Namecheap!Add(now, arg.records),
                                   remove |-> Namecheap!Remove(now, arg.records), email |-> arg.email]}
  <2>1. ncReq[c] \in ZoneBegun /\ ncReq[c].op = "set_dns_record_set"
    BY DEF Namecheap!Diff, ZoneInv, CallsInv, Namecheap!TypeOK
  <2>2. PICK arg : arg = ncReq[c].arg
    OBVIOUS
  <2>3. arg.records \in Asked /\ arg.email \in Namecheap!EmailTypes
    BY <2>1, <2>2, ZoneRequest DEF Namecheap!Validate
  <2>4. ZoneShownInv'
    <3>1. ASSUME NEW s \in ncShown'
          PROVE  s = [arg |-> arg, add |-> Namecheap!Add(Namecheap!Seen(zone.records), arg.records),
                      remove |-> Namecheap!Remove(Namecheap!Seen(zone.records), arg.records),
                      email |-> arg.email]
      BY <1>2, <2>2, <3>1
    <3>2. ASSUME NEW s \in ncShown'
          PROVE  /\ s.arg = arg /\ s.add = Namecheap!Add(Namecheap!Seen(zone.records), arg.records)
                 /\ s.remove = Namecheap!Remove(Namecheap!Seen(zone.records), arg.records)
                 /\ s.email = arg.email
      BY <3>1, <3>2
    <3> QED BY <1>2, <2>3, <3>2 DEF ZoneShownInv
  <2>5. ZoneInv'
    BY <1>2, <2>4, ReturnsKeepZone DEF ZoneInv, Namecheap!TypeOK, ZoneOuts
  <2> QED BY <1>2, <2>5 DEF Namecheap!Returns
<1> QED BY <1>1, <1>2 DEF Namecheap!Diff

\* A write makes the zone what it says, or leaves it; if it says so, the former.
LEMMA WritesKeepZone ==
  ASSUME ZoneInv, NEW c \in Calls, ncPc[c] \notin {"idle", "ready"}, NEW z, Namecheap!Writes(c, z),
         Namecheap!IsRecords(z.records, {TTL}), z.email \in Namecheap!EmailTypes,
         z = [records |-> z.records, email |-> z.email]
  PROVE  /\ ZoneInv' /\ (said' # NoKey => c \in cut)
         /\ zone' \in {zone, z} /\ (ncOut' = "ok" => zone' = z)
<1>1. CASE Namecheap!Fails(c)
  BY <1>1, FailsKeepsZone
<1>2. CASE zone' = z /\ ncShown' = {} /\ Namecheap!Returns(c, "ok", NoKey)
  <2>1. ZoneShownInv'
    BY <1>2 DEF ZoneShownInv
  <2>2. ZoneInv'
    BY <1>2, <2>1, ReturnsKeepZone DEF ZoneOuts
  <2> QED BY <1>2, <2>2 DEF Namecheap!Returns
<1>3. CASE zone' = z /\ ncShown' = {} /\ Namecheap!FailsBy(c, Namecheap!MayHaveHappened)
  <2>1. ZoneShownInv'
    BY <1>3 DEF ZoneShownInv
  <2>2. PICK o \in ZoneOuts, text \in Keys \cup {NoKey} : Namecheap!Returns(c, o, text)
    BY <1>3, FailsByCode
  <2>3. ZoneInv'
    BY <1>3, <2>1, <2>2, ReturnsKeepZone
  <2> QED BY <1>3, <2>3, FailsByCode
<1> QED BY <1>1, <1>2, <1>3 DEF Namecheap!Writes

LEMMA SetKeepsZone ==
  ASSUME ZoneInv, NEW c \in Calls, Namecheap!SetDNSRecordSet(c)
  PROVE  LET arg == ncReq[c].arg
         IN /\ ZoneInv' /\ (said' # NoKey => c \in cut) /\ arg.records \in Asked /\ Namecheap!Validate(arg)
            /\ \/ zone' = zone /\ ncOut' # "ok"
               \/ zone' = [records |-> Namecheap!Stored(arg.records), email |-> arg.email]
<1>1. ncPc[c] = "set" /\ ncReq[c] \in ZoneBegun /\ ncReq[c].op = "set_dns_record_set"
  BY DEF Namecheap!SetDNSRecordSet, ZoneInv, CallsInv, Namecheap!TypeOK
<1>2. PICK arg : arg = ncReq[c].arg
  OBVIOUS
<1>3. arg.records \in Asked /\ Namecheap!Validate(arg) /\ arg.email \in Namecheap!EmailTypes
  BY <1>1, <1>2, ZoneRequest DEF Namecheap!Validate
<1>4. PICK z : z = [records |-> Namecheap!Stored(arg.records), email |-> arg.email]
  OBVIOUS
<1>5. Namecheap!SetHosts(arg) = z
  BY <1>4 DEF Namecheap!SetHosts
<1>6. /\ z.records = Namecheap!Stored(arg.records) /\ z.email = arg.email
      /\ z = [records |-> z.records, email |-> z.email]
  BY <1>4
<1>7. Namecheap!IsRecords(z.records, {TTL})
  BY <1>3, <1>6, StoredRecords, ZoneAssumption
<1>8. Namecheap!Writes(c, z)
  BY <1>2, <1>5 DEF Namecheap!SetDNSRecordSet
<1>9. /\ ZoneInv' /\ (said' # NoKey => c \in cut)
      /\ zone' \in {zone, z} /\ (ncOut' = "ok" => zone' = z)
  BY <1>1, <1>3, <1>6, <1>7, <1>8, WritesKeepZone
<1> QED BY <1>2, <1>3, <1>4, <1>9

LEMMA ServersKeepZone ==
  ASSUME ZoneInv, NEW c \in Calls, Namecheap!SetCustomNameservers(c)
  PROVE  ZoneInv' /\ (said' # NoKey => c \in cut) /\ zone' = zone
<1>1. ncPc[c] = "servers" /\ Namecheap!Writes(c, zone)
  BY DEF Namecheap!SetCustomNameservers
<1>2. /\ Namecheap!IsRecords(zone.records, {TTL}) /\ zone.email \in Namecheap!EmailTypes
      /\ zone = [records |-> zone.records, email |-> zone.email]
  BY DEF ZoneInv, Namecheap!TypeOK
<1>3. /\ ZoneInv' /\ (said' # NoKey => c \in cut) /\ zone' \in {zone, zone}
  BY <1>1, <1>2, WritesKeepZone
<1> QED BY <1>3

\* A call that sent its request ends with the answer, and no other moves.
LEMMA OneEnds ==
  ASSUME NEW c \in Calls,
         \/ Namecheap!Read(c) \/ Namecheap!Diff(c) \/ Namecheap!SetDNSRecordSet(c)
         \/ Namecheap!SetCustomNameservers(c)
  PROVE  ncPc[c] # "idle" /\ ncPc' = [ncPc EXCEPT ![c] = "idle"]
<1>1. ASSUME NEW o, NEW text, Namecheap!Returns(c, o, text) PROVE ncPc' = [ncPc EXCEPT ![c] = "idle"]
  BY <1>1 DEF Namecheap!Returns
<1>2. ASSUME NEW fs, Namecheap!FailsBy(c, fs) PROVE ncPc' = [ncPc EXCEPT ![c] = "idle"]
  BY <1>1, <1>2 DEF Namecheap!FailsBy
<1>3. Namecheap!Fails(c) => ncPc' = [ncPc EXCEPT ![c] = "idle"]
  BY <1>2 DEF Namecheap!Fails
<1>4. ASSUME NEW z, Namecheap!Writes(c, z) PROVE ncPc' = [ncPc EXCEPT ![c] = "idle"]
  BY <1>1, <1>2, <1>3, <1>4 DEF Namecheap!Writes
<1> QED BY <1>1, <1>3, <1>4 DEF Namecheap!Read, Namecheap!Diff, Namecheap!SetDNSRecordSet,
           Namecheap!SetCustomNameservers

\* What every step of the plugin and its zone does.
LEMMA ZoneStep ==
  ASSUME ZoneInv, Namecheap!Next
  PROVE  /\ ZoneInv'
         /\ said' # NoKey => \E c \in cut : ncPc'[c] # ncPc[c]
         /\ zone' # zone => \E c \in Calls : Namecheap!SetDNSRecordSet(c)
<1>1. CASE Namecheap!Load
  BY <1>1, LoadKeepsZone DEF Namecheap!Load
<1>2. CASE Namecheap!Unload
  BY <1>2, UnloadKeepsZone DEF Namecheap!Unload
<1>3. ASSUME NEW c \in Calls, Namecheap!Refuse(c) \/ Namecheap!Preview(c) \/ Namecheap!NoCredential(c)
      PROVE  ZoneInv' /\ said' = NoKey /\ zone' = zone
  <2>1. \E o : Namecheap!Answers(o)
    BY <1>3 DEF Namecheap!Refuse, Namecheap!Preview, Namecheap!NoCredential
  <2> QED BY <1>3, <2>1, ArrivalKeepsZone DEF Namecheap!Answers
<1>4. ASSUME NEW c \in Calls, Namecheap!Begin(c) \/ Namecheap!Send(c) \/ Namecheap!Panics(c)
      PROVE  ZoneInv' /\ said' = NoKey /\ zone' = zone
  BY <1>4, BeginKeepsZone, SendKeepsZone, PanicsKeepZone DEF Namecheap!Begin, Namecheap!Send, Namecheap!Panics
<1>5. ASSUME NEW c \in Calls,
             \/ Namecheap!Read(c) \/ Namecheap!Diff(c) \/ Namecheap!SetDNSRecordSet(c)
             \/ Namecheap!SetCustomNameservers(c)
      PROVE  /\ ZoneInv' /\ (said' # NoKey => c \in cut /\ ncPc'[c] # ncPc[c])
             /\ zone' # zone => Namecheap!SetDNSRecordSet(c)
  <2>1. ZoneInv' /\ (said' # NoKey => c \in cut) /\ (zone' # zone => Namecheap!SetDNSRecordSet(c))
    BY <1>5, ReadKeepsZone, DiffKeepsZone, SetKeepsZone, ServersKeepZone
  <2>2. ncPc'[c] # ncPc[c]
    BY <1>5, OneEnds DEF ZoneInv, Namecheap!TypeOK
  <2> QED BY <2>1, <2>2
<1> QED BY <1>1, <1>2, <1>3, <1>4, <1>5 DEF Namecheap!Next

LEMMA ZoneStutters ==
  ASSUME ZoneInv, UNCHANGED zoneVars
  PROVE  ZoneInv'
BY DEF zoneVars, ZoneInv, Namecheap!TypeOK, ClientInv, CallsInv, ZoneShownInv, Namecheap!Running

LEMMA ZoneInit == ASSUME Namecheap!Init PROVE ZoneInv
<1>1. PICK b \in Namecheap!Sets({TTL}), email \in Namecheap!EmailTypes :
        zone = [records |-> b, email |-> email]
  BY DEF Namecheap!Init, Namecheap!Zones
<1>2. PICK S \in SUBSET (Shapes \X {TTL}) : b \in [S -> 1..Most]
  BY DEF Namecheap!Sets
<1>3. Namecheap!IsRecords(b, {TTL})
  BY <1>2 DEF Namecheap!IsRecords, Namecheap!IsABag
<1>4. Namecheap!TypeOK
  BY <1>1, <1>3 DEF Namecheap!Init, Namecheap!TypeOK
<1>5. ClientInv /\ CallsInv /\ ZoneShownInv
  BY DEF Namecheap!Init, ClientInv, CallsInv, ZoneShownInv, Namecheap!Running
<1> QED BY <1>1, <1>4, <1>5 DEF ZoneInv

\* The call whose records replace the zone's is the one whose step it is.
LEMMA ReplacesIsASet ==
  ASSUME ZoneInv, Namecheap!Next, NEW c \in Calls, Namecheap!Replaces(c)
  PROVE  /\ ncReq[c].arg.records \in Asked
         /\ zone' = [records |-> Namecheap!Stored(ncReq[c].arg.records), email |-> ncReq[c].arg.email]
<1>1. ncPc[c] = "set" /\ ncPc'[c] = "idle" /\ ncOut' = "ok"
  BY DEF Namecheap!Replaces
<1>2. ~Namecheap!Load /\ ~Namecheap!Unload
  BY <1>1 DEF Namecheap!Load, Namecheap!Unload
<1>3. ASSUME NEW d \in Calls
      PROVE  ~Namecheap!Refuse(d) /\ ~Namecheap!Preview(d) /\ ~Namecheap!NoCredential(d)
             /\ ~Namecheap!Begin(d) /\ ~Namecheap!Send(d) /\ ~Namecheap!Panics(d)
  BY <1>1 DEF Namecheap!Refuse, Namecheap!Preview, Namecheap!NoCredential, Namecheap!Answers,
              Namecheap!Begin, Namecheap!Send, Namecheap!Panics
<1>4. PICK d \in Calls : \/ Namecheap!Read(d) \/ Namecheap!Diff(d) \/ Namecheap!SetDNSRecordSet(d)
                         \/ Namecheap!SetCustomNameservers(d)
  BY <1>2, <1>3 DEF Namecheap!Next
<1>5. d = c
  BY <1>1, <1>4, OneEnds DEF ZoneInv, Namecheap!TypeOK
<1>6. Namecheap!SetDNSRecordSet(c)
  BY <1>1, <1>4, <1>5 DEF Namecheap!Read, Namecheap!Diff, Namecheap!SetCustomNameservers
<1> QED BY <1>1, <1>6, SetKeepsZone

LEMMA MailStep ==
  ASSUME ZoneInv, Namecheap!Next, zone'.records # zone.records \/ zone'.email # zone.email
  PROVE  ~(zone'.email = "FWD" /\ Namecheap!MailOf(zone'.records) # {})
<1>1. PICK c \in Calls : Namecheap!SetDNSRecordSet(c)
  BY ZoneStep
<1>2. PICK arg : arg = ncReq[c].arg
  OBVIOUS
<1>3. /\ arg.records \in Asked /\ Namecheap!Validate(arg)
      /\ zone' = [records |-> Namecheap!Stored(arg.records), email |-> arg.email]
  BY <1>1, <1>2, SetKeepsZone
<1>4. arg.email = "FWD" => Namecheap!MailOf(Namecheap!Stored(arg.records)) = {}
  BY <1>3, StoredRecords, ZoneAssumption DEF Namecheap!Validate
<1> QED BY <1>3, <1>4

LEMMA DiffStep ==
  ASSUME ZoneInv, Namecheap!Next, NEW c \in Calls, NEW s \in ncShown,
         Namecheap!Replaces(c), s.arg = ncReq[c].arg
  PROVE  Namecheap!Seen(zone'.records)
           = Namecheap!Seen(Namecheap!Stored(
               Namecheap!(+)(Namecheap!(-)(Namecheap!Seen(zone.records), s.remove), s.add)))
<1>1. PICK arg : arg = ncReq[c].arg
  OBVIOUS
<1>2. arg.records \in Asked /\ zone'.records = Namecheap!Stored(arg.records)
  BY <1>1, ReplacesIsASet
<1>3. PICK now : now = Namecheap!Seen(zone.records)
  OBVIOUS
<1>4. s.add = Namecheap!Add(now, arg.records) /\ s.remove = Namecheap!Remove(now, arg.records)
  BY <1>1, <1>3 DEF ZoneInv, ZoneShownInv
<1>5. Namecheap!IsABag(now) /\ Namecheap!IsABag(arg.records)
  BY <1>2, <1>3, SeenIsABag, ZoneAssumption DEF ZoneInv, Namecheap!TypeOK, Namecheap!IsRecords
<1>6. Namecheap!(+)(Namecheap!(-)(now, s.remove), s.add) = arg.records
  BY <1>4, <1>5, DiffLeadsThere
<1> QED BY <1>2, <1>3, <1>6

-----------------------------------------------------------------------------
(* Whichever of the two is run.                                             *)

NamesInv == scope \in {"tailscale", "namecheap"} /\ TailnetInv /\ ZoneInv

LEMMA NamesInit == MCInit => NamesInv
BY TailnetInit, ZoneInit DEF MCInit, NamesInv

LEMMA NamesStep == NamesInv /\ [MCNext]_<<scope, vars, zoneVars>> => NamesInv'
<1> SUFFICES ASSUME NamesInv, [MCNext]_<<scope, vars, zoneVars>> PROVE NamesInv'
  OBVIOUS
<1>1. CASE Next /\ UNCHANGED <<scope, zoneVars>>
  BY <1>1, TailnetStep, ZoneStutters DEF NamesInv
<1>2. CASE Namecheap!Next /\ UNCHANGED <<scope, vars>>
  BY <1>2, ZoneStep, TailnetStutters DEF NamesInv
<1>3. CASE UNCHANGED <<scope, vars, zoneVars>>
  BY <1>3, ZoneStutters, TailnetStutters DEF NamesInv
<1> QED BY <1>1, <1>2, <1>3 DEF MCNext

LEMMA NamesInvariant == MCSpec => []NamesInv
BY NamesInit, NamesStep, PTL DEF MCSpec

\* Of a step of either, what it is of the tailnet and of the zone.
LEMMA EitherSteps ==
  ASSUME [MCNext]_<<scope, vars, zoneVars>>
  PROVE  [Next]_vars /\ [Namecheap!Next]_zoneVars
BY DEF MCNext

LEMMA ZoneVars == UNCHANGED Namecheap!vars <=> UNCHANGED zoneVars
BY DEF Namecheap!vars, Namecheap!pluginVars, Namecheap!callVars, zoneVars

\* A tailnet keeps to its types (connector.go, api_backend.go), a listing to the
\* keys it may read back among them, and so does a zone (plugin.go, client.go).
THEOREM TypesAreKept == MCSpec => []TypesOK
<1>1. NamesInv => TypesOK
  BY DEF NamesInv, TailnetInv, ZoneInv, TypesOK
<1> QED BY <1>1, NamesInvariant, PTL

\* However many calls meet at an expired token, one of them exchanges, and none
\* while the token is live (oauthToken, api_backend.go).
THEOREM OneExchanges == MCSpec => []ExchangesOnlyWhenNeeded
<1>1. NamesInv => ExchangesOnlyWhenNeeded
  <2>1. SUFFICES ASSUME NamesInv, NEW c \in Calls, pc[c] = "exchange"
                 PROVE  creds = "oauth" /\ cached # "live" /\ \A d \in Calls \ {c} : pc[d] # "exchange"
    BY DEF ExchangesOnlyWhenNeeded
  <2> QED BY <2>1, TailnetAssumption DEF NamesInv, TailnetInv, LockInv
<1> QED BY <1>1, NamesInvariant, PTL

\* A listing that does not say truncated has read every key that was there all
\* along (ListAuthKeys, api_backend.go).
THEOREM ListingsAreWhole == MCSpec => ListIsWhole
<1> DEFINE A == out' = "ok" => \A c \in Calls : req[c].op = "list_auth_keys" /\ pc'[c] = "idle" =>
                  there[c] \subseteq list[c].read \cup list[c].todo
<1>1. NamesInv /\ [MCNext]_<<scope, vars, zoneVars>> => [A]_vars
  <2>1. SUFFICES ASSUME NamesInv, [MCNext]_<<scope, vars, zoneVars>>, ~UNCHANGED vars PROVE A
    OBVIOUS
  <2> QED BY <2>1, EitherSteps, ListIsWholeStep DEF NamesInv
<1> QED BY <1>1, NamesInvariant, PTL DEF MCSpec, ListIsWhole

\* A zone that was set is the set that was given, what getHosts hides of it
\* included (SetDNSRecordSet, client.go), and no write leaves mail where it is
\* forwarded (DNSRecordSet.Validate, dto.go).
THEOREM ZonesAreAsGiven == MCSpec => ZoneIsAsGiven
<1> DEFINE A == ncCalm' => \A c \in Calls : Namecheap!Replaces(c) =>
                  zone'.records = Namecheap!Stored(ncReq[c].arg.records) /\ zone'.email = ncReq[c].arg.email
           B == zone'.records # zone.records \/ zone'.email # zone.email =>
                  ~(zone'.email = "FWD" /\ Namecheap!MailOf(zone'.records) # {})
<1>1. NamesInv /\ [MCNext]_<<scope, vars, zoneVars>> => [A]_Namecheap!vars
  <2>1. SUFFICES ASSUME NamesInv, [MCNext]_<<scope, vars, zoneVars>>, ~UNCHANGED zoneVars PROVE A
    BY ZoneVars
  <2> QED BY <2>1, EitherSteps, ReplacesIsASet DEF NamesInv
<1>2. NamesInv /\ [MCNext]_<<scope, vars, zoneVars>> => [B]_Namecheap!vars
  <2>1. SUFFICES ASSUME NamesInv, [MCNext]_<<scope, vars, zoneVars>>, ~UNCHANGED zoneVars PROVE B
    BY ZoneVars
  <2> QED BY <2>1, EitherSteps, MailStep DEF NamesInv
<1> QED BY <1>1, <1>2, NamesInvariant, PTL
        DEF MCSpec, ZoneIsAsGiven, Namecheap!ZoneIsAsGiven, Namecheap!SetIsComplete, Namecheap!MailIsNotInConflict

\* Across any reloads only a call that was running when the host unloaded reaches
\* a nil backend or says its key (plugin.go, scrub.go).
THEOREM UnloadsAloneHarm == MCSpec => OnlyUnloadHarms
<1> DEFINE A == said' # NoKey => \E c \in cut : ncPc'[c] # ncPc[c]
<1>1. NamesInv => Namecheap!PanicsOnlyUnderUnload
  BY DEF NamesInv, ZoneInv, ClientInv, Namecheap!PanicsOnlyUnderUnload
<1>2. NamesInv /\ [MCNext]_<<scope, vars, zoneVars>> => [A]_Namecheap!vars
  <2>1. SUFFICES ASSUME NamesInv, [MCNext]_<<scope, vars, zoneVars>>, ~UNCHANGED zoneVars PROVE A
    BY ZoneVars
  <2> QED BY <2>1, EitherSteps, ZoneStep DEF NamesInv
<1> QED BY <1>1, <1>2, NamesInvariant, PTL
        DEF MCSpec, OnlyUnloadHarms, Namecheap!OnlyUnloadHarms, Namecheap!KeyStaysUnsaid

\* What a preview says of a zone's records (diffRecordSets, dto.go) and of a
\* device (devicePreview, connector.go) is what the change then does.
THEOREM PreviewsAreTrue == MCSpec => ChangesAreAsShown
<1> DEFINE A == ncCalm' => \A c \in Calls, s \in ncShown :
                  Namecheap!Replaces(c) /\ s.arg = ncReq[c].arg =>
                    Namecheap!Seen(zone'.records)
                      = Namecheap!Seen(Namecheap!Stored(
                          Namecheap!(+)(Namecheap!(-)(Namecheap!Seen(zone.records), s.remove), s.add)))
           B == \A c \in Calls, p \in shown : DoesAsShown(c, p) =>
                  LET d == p.req.arg.id
                  IN /\ p.nothing <=> UNCHANGED devices
                     /\ p.req.op = "set_tags" =>
                          devices'[d].tags = (devices[d].tags \ p.removed) \cup p.added
<1>1. NamesInv /\ [MCNext]_<<scope, vars, zoneVars>> => [A]_Namecheap!vars
  <2>1. SUFFICES ASSUME NamesInv, [MCNext]_<<scope, vars, zoneVars>>, ~UNCHANGED zoneVars PROVE A
    BY ZoneVars
  <2>2. Namecheap!Next
    BY <2>1, EitherSteps
  <2> QED BY <2>1, <2>2, DiffStep DEF NamesInv
<1>2. NamesInv /\ [MCNext]_<<scope, vars, zoneVars>> => [B]_vars
  <2>1. SUFFICES ASSUME NamesInv, [MCNext]_<<scope, vars, zoneVars>>, ~UNCHANGED vars PROVE B
    OBVIOUS
  <2> QED BY <2>1, EitherSteps, DeviceChangeStep DEF NamesInv
<1> QED BY <1>1, <1>2, NamesInvariant, PTL
        DEF MCSpec, ChangesAreAsShown, Namecheap!DiffIsTheChange, DeviceChangeAsShown
=============================================================================
