---------------------------- MODULE SitesProofs ----------------------------
(***************************************************************************)
(* For every number of calls, keys, buckets, records and profiles: what      *)
(* Cloudflare's keys and records and Vercel's deployments are checked for.   *)
(***************************************************************************)
EXTENDS MCSites, FiniteSetTheorems, WellFoundedInduction, TLAPS

-----------------------------------------------------------------------------
(* The plugin around its operations.                                       *)

\* A call that runs without a backend was unloaded under; while calm one runs.
PluginInv == /\ PluginTypeOK /\ pc = [c \in Calls |-> pc[c]]
             /\ process # "panicked"
             /\ backend = NoToken => Running \subseteq cut
             /\ calm => \A c, d \in Running : c = d

Outs == {"none", "ok", "preview"} \cup Codes

LEMMA HostKeeps ==
  ASSUME PluginInv, (\E t \in Offered : LoadWith(t)) \/ Unload
  PROVE  PluginInv'
BY DEF PluginInv, PluginTypeOK, Running, Offered, LoadWith, Unload

LEMMA AskKeeps ==
  ASSUME PluginInv, NEW c \in Calls, Asks(c), UNCHANGED <<pc, req, cut>>, out' \in Outs
  PROVE  PluginInv'
BY DEF PluginInv, PluginTypeOK, Running, Asks, pluginVars, Outs

LEMMA BeginKeeps ==
  ASSUME PluginInv, NEW c \in Calls, NEW r, NEW s, Begin(c, r, s)
  PROVE  PluginInv'
BY DEF PluginInv, PluginTypeOK, Running, Asks, pluginVars, Begin

LEMMA GotoKeeps ==
  ASSUME PluginInv, NEW c \in Running, NEW s, Goto(c, s)
  PROVE  PluginInv'
BY DEF PluginInv, PluginTypeOK, Running, Goto, still, pluginVars

LEMMA AnswersKeep ==
  ASSUME PluginInv, NEW c \in Running, NEW o \in Outs, Answers(c, o)
  PROVE  PluginInv'
<1> USE DEF PluginInv, PluginTypeOK, Running, Answers, still, pluginVars, Outs
<1>1. PluginTypeOK' /\ pc' = [d \in Calls |-> pc'[d]] /\ process' # "panicked"
  OBVIOUS
<1>2. Running' = Running \ {c} /\ cut' = cut \ {c} /\ backend' = backend /\ calm' = calm
  OBVIOUS
<1> QED BY <1>1, <1>2

LEMMA PanicsKeep ==
  ASSUME PluginInv, NEW c \in Calls, Panics(c)
  PROVE  PluginInv'
<1> USE DEF PluginInv, PluginTypeOK, Panics
<1>1. PluginTypeOK' /\ pc' = [d \in Calls |-> pc'[d]]
  OBVIOUS
<1>2. Running' = {} /\ c \in cut
  BY DEF Running
<1> QED BY <1>1, <1>2

LEMMA CodesAreOuts ==
  ASSUME NEW f PROVE ApiCode(f) \in Outs /\ SdkCode(f) \in Outs
BY DEF ApiCode, SdkCode, Outs, Codes

-----------------------------------------------------------------------------
(* R2.                                                                     *)

R2Operations == R2Reads \cup R2Writes

\* What is kept of a request, and of one that passed the gate.
LEMMA KeptR2 ==
  ASSUME NEW r \in {Kept(q) : q \in R2Requests}
  PROVE  /\ r.op \in R2Operations /\ r.arg \in R2Arguments(r.op)
         /\ r.dry \in BOOLEAN /\ r.ack \in BOOLEAN
<1>1. PICK q \in R2Requests : r = Kept(q)
  OBVIOUS
<1>2. PICK o \in R2Operations : q \in [op : {o}, arg : R2Arguments(o), dry : Forms, ack : BOOLEAN]
  BY DEF R2Requests, R2Operations
<1> QED BY <1>1, <1>2 DEF Kept, Dry

LEMMA GatedR2 ==
  ASSUME NEW r \in R2Begun
  PROVE  r \in {Kept(q) : q \in R2Requests} /\ (r.op \in R2Writes => r.dry \/ r.ack)
         /\ (r.op \in R2Reads => ~r.dry)
<1>1. PICK q \in R2Requests : WriteMode(q) /\ r = Kept(q)
  BY DEF R2Begun
<1>2. PICK o \in R2Operations : q \in [op : {o}, arg : R2Arguments(o), dry : Forms, ack : BOOLEAN]
  BY DEF R2Requests, R2Operations
<1> QED BY <1>1, <1>2 DEF Kept, Dry, WriteMode, WriteOperations, R2Writes, R2Reads

\* Where a call is says what it runs, and what became of the key it minted or
\* found.
R2Stage(c) ==
  /\ pc[c] = "create" => req[c].op = "create_r2_bucket"
  /\ pc[c] = "delete" => req[c].op = "delete_r2_bucket"
  /\ pc[c] = "check" => /\ req[c].op \in R2Writes \ {"revoke_r2_credential"}
                        /\ ~req[c].dry => req[c].op = "create_r2_credential"
  /\ req[c].op \in R2Writes => req[c].dry \/ req[c].ack
  /\ pc[c] \in {"groups", "mint", "unmint"} => req[c].op = "create_r2_credential"
  /\ pc[c] \in {"get", "revoke"} => req[c].op = "revoke_r2_credential"
  /\ pc[c] \in {"create", "delete", "groups", "mint", "unmint", "revoke"} => req[c].ack /\ ~req[c].dry
  /\ (minted[c] # NoKey) = (pc[c] = "unmint")

\* No key of anybody else can be deleted.
R2Owned(c) ==
  /\ minted[c] \in Live => keys[minted[c]].ours
  /\ pc[c] = "revoke" /\ req[c].arg.id \in Live => keys[req[c].arg.id].ours

\* While calm, the bucket that was found is there.
R2Found == calm => \A c \in Calls : pc[c] \in {"groups", "mint"} => Named(c) \in buckets

R2Inv == /\ R2TypeOK /\ PluginInv
         /\ learned \subseteq scrub /\ LearnedStaysUnsaid
         /\ EveryKeyAccountedFor
         /\ \A c \in Calls : R2Stage(c) /\ R2Owned(c)
         /\ R2Found

\* Keys are born ours and die.
KeysAge == \A k \in Keys : \/ keys'[k] = keys[k] \/ keys'[k] = Gone
                           \/ keys[k] = Unborn /\ keys'[k] \in Key /\ keys'[k].ours

LEMMA R2FirstIs == ASSUME NEW r \in R2Begun
  PROVE /\ R2First(r) \in {"list", "create", "delete", "check", "get", "verify"}
BY GatedR2, KeptR2 DEF R2First

LEMMA NamedIsBucket ==
  ASSUME R2Inv, NEW c \in Calls, pc[c] \in {"create", "delete", "check", "groups", "mint"}
  PROVE  Named(c) \in Bucket /\ Resource(c) = Named(c)
<1>1. req[c] \in {Kept(q) : q \in R2Requests} /\ req[c].op \in R2Writes \ {"revoke_r2_credential"}
  BY DEF R2Inv, R2TypeOK, R2Stage, None, R2Writes
<1>2. req[c].arg \in [name : Names, jurisdiction : Jurisdictions]
  BY <1>1, KeptR2 DEF R2Arguments, R2Writes, R2Reads
<1> QED BY <1>2, R2Assumption DEF Named, Resource, HeaderRegion, Bucket, Regions

\* What is said and known to the scrubber stays in order.
Scrubbing == /\ scrub' \subseteq Secret /\ learned' \subseteq scrub'
             /\ said' \subseteq Secret /\ LearnedStaysUnsaid'

LEMMA SpeechIsScrubbed ==
  ASSUME R2Inv, NEW c \in Calls, Speaks(c) \/ Quiet
  PROVE  Scrubbing
<1> USE DEF Scrubbing, LearnedStaysUnsaid, secrets
<1>1. scrub \subseteq Secret /\ learned \subseteq scrub
  BY DEF R2Inv, R2TypeOK
<1>2. CASE Quiet
  BY <1>1, <1>2 DEF Quiet
<1>3. CASE Speaks(c)
  <2>1. backend \in Tokens \cup {NoToken}
    BY DEF R2Inv, PluginInv, PluginTypeOK
  <2>2. req[c].op = "revoke_r2_credential" => req[c].arg.id \in Keys
    <3> SUFFICES ASSUME req[c].op = "revoke_r2_credential" PROVE req[c].arg.id \in Keys
      OBVIOUS
    <3>1. req[c] \in {Kept(q) : q \in R2Requests}
      BY DEF R2Inv, R2TypeOK, None
    <3> QED BY <3>1, KeptR2 DEF R2Arguments, R2Reads
  <2> QED BY <1>1, <1>3, <2>1, <2>2 DEF Speaks, Scrubbed, Secret
<1> QED BY <1>2, <1>3

\* A step of c leaves the other calls where they stand.
LEMMA OthersStand ==
  ASSUME R2Inv, NEW c \in Calls, KeysAge,
         \A d \in Calls \ {c} : pc'[d] = pc[d] /\ req'[d] = req[d] /\ minted'[d] = minted[d]
  PROVE  \A d \in Calls \ {c} : (R2Stage(d) /\ R2Owned(d))'
<1> SUFFICES ASSUME NEW d \in Calls \ {c} PROVE (R2Stage(d) /\ R2Owned(d))'
  OBVIOUS
<1>1. R2Stage(d)'
  BY DEF R2Inv, R2Stage
<1>2. \A k \in Live' : keys'[k].ours \/ (k \in Live /\ keys'[k] = keys[k])
  BY R2Assumption DEF KeysAge, Live
<1> QED BY <1>1, <1>2 DEF R2Inv, R2Owned, Live

\* A call ends that had no key to clean up.
LEMMA Ended ==
  ASSUME R2Inv, NEW c \in Running, NEW o \in Outs, R2Return(c, o), pc[c] # "unmint", Scrubbing,
         buckets' \subseteq Bucket, keys' \in [Keys -> Key \cup {Unborn, Gone}],
         handed \subseteq handed', handed' \subseteq Keys, stray \subseteq stray', stray' \subseteq Keys,
         \A k \in Keys : \/ keys'[k] = keys[k] \/ keys'[k] = Gone
                         \/ keys[k] = Unborn /\ keys'[k].ours /\ k \in handed' \cup stray'
  PROVE  R2Inv'
<1> USE DEF R2Return
<1>0. c \in Calls /\ KeysAge
  BY R2Assumption DEF Running, KeysAge
<1>1. PluginInv'
  BY AnswersKeep DEF R2Inv
<1>2. R2TypeOK'
  BY <1>0, <1>1 DEF R2Inv, R2TypeOK, Answers, Scrubbing, PluginInv
<1>3. \A d \in Calls \ {c} : (R2Stage(d) /\ R2Owned(d))'
  BY <1>0, OthersStand DEF R2Inv, R2TypeOK, Answers
<1>4. pc'[c] = "idle" /\ req'[c] = None /\ minted'[c] = NoKey
  BY <1>0 DEF R2Inv, R2TypeOK, Answers
<1>5. (R2Stage(c) /\ R2Owned(c))'
  <2>1. R2Stage(c)'
    BY <1>4 DEF R2Stage, None, R2Writes
  <2>2. R2Owned(c)'
    BY <1>4, R2Assumption DEF R2Owned, Live
  <2> QED BY <2>1, <2>2
<1>6. EveryKeyAccountedFor'
  <2> SUFFICES ASSUME NEW k \in Live', keys'[k].ours
               PROVE  k \in (handed \cup stray \cup {minted[d] : d \in Running})'
    BY DEF EveryKeyAccountedFor
  <2>1. CASE k \in handed' \cup stray'
    BY <2>1
  <2>2. CASE k \in Live /\ keys'[k] = keys[k] /\ k \notin handed' \cup stray'
    <3>1. PICK d \in Running : k = minted[d]
      BY <2>2 DEF R2Inv, EveryKeyAccountedFor
    <3>2. d # c
      BY <3>1, R2Assumption DEF R2Inv, R2Stage, Running, Live
    <3>3. d \in Running' /\ minted'[d] = minted[d]
      BY <1>0, <3>2 DEF Running, Answers, R2Inv, R2TypeOK
    <3> QED BY <3>1, <3>3
  <2> QED BY <2>1, <2>2, R2Assumption DEF Live
<1>7. R2Found'
  BY <1>0, <1>4 DEF R2Found, R2Inv, PluginInv, Running, Answers, still, R2TypeOK
<1> QED BY <1>1, <1>2, <1>3, <1>5, <1>6, <1>7 DEF R2Inv, Scrubbing

\* A call goes on, and nothing else happens.
LEMMA Moved ==
  ASSUME R2Inv, NEW c \in Running, NEW s \in {"detail", "groups", "mint", "revoke"}, Goto(c, s), Same,
         pc[c] \in {"check", "groups", "get", "verify"},
         (R2Stage(c) /\ R2Owned(c))', calm /\ s \in {"groups", "mint"} => Named(c) \in buckets
  PROVE  R2Inv'
<1> USE DEF Same, r2Vars, cloud, secrets
<1>0. c \in Calls /\ KeysAge
  BY DEF Running, KeysAge
<1>1. PluginInv'
  BY GotoKeeps DEF R2Inv
<1>2. R2TypeOK'
  BY <1>0, <1>1 DEF R2Inv, R2TypeOK, Goto, PluginInv, Running
<1>3. \A d \in Calls \ {c} : (R2Stage(d) /\ R2Owned(d))'
  BY <1>0, OthersStand DEF R2Inv, R2TypeOK, Goto
<1>4. Running' = Running
  BY <1>0 DEF Running, Goto, R2Inv, R2TypeOK
<1>5. EveryKeyAccountedFor'
  BY <1>4 DEF R2Inv, EveryKeyAccountedFor, Live
<1>6. R2Found'
  BY <1>0, <1>4 DEF R2Inv, R2Found, Goto, Named, still, R2TypeOK
<1> QED BY <1>1, <1>2, <1>3, <1>5, <1>6 DEF R2Inv, LearnedStaysUnsaid

LEMMA R2StartKeeps == ASSUME R2Inv, NEW c \in Calls, R2Start(c) PROVE R2Inv'
<1>1. CASE /\ \/ Refuse(c, {r \in R2Requests : ~WriteMode(r)})
              \/ backend = NoToken /\ Preview(c, {r \in R2Requests : WriteMode(r) /\ Dry(r)})
              \/ NoCredential(c, {r \in R2Requests : WriteMode(r) /\ ~Dry(r)})
           /\ Same
  <2>1. Asks(c) /\ UNCHANGED <<pc, req, cut>> /\ out' \in Outs /\ Same
    BY <1>1 DEF Refuse, Preview, NoCredential, Answered, Outs, Codes
  <2>2. PluginInv'
    BY <2>1, AskKeeps DEF R2Inv
  <2> USE <2>1 DEF Same, r2Vars, cloud, secrets
  <2>3. R2TypeOK' /\ LearnedStaysUnsaid' /\ learned' \subseteq scrub'
    BY <2>2 DEF R2Inv, R2TypeOK, PluginInv, LearnedStaysUnsaid
  <2>4. EveryKeyAccountedFor'
    BY DEF R2Inv, EveryKeyAccountedFor, Live, Running
  <2>5. \A d \in Calls : (R2Stage(d) /\ R2Owned(d))'
    BY DEF R2Inv, R2Stage, R2Owned, Live
  <2>6. R2Found'
    BY DEF R2Inv, R2Found, Named, Asks
  <2> QED BY <2>2, <2>3, <2>4, <2>5, <2>6 DEF R2Inv
<1>2. ASSUME NEW r \in R2Begun, Begin(c, r, R2First(r)), Quiet, UNCHANGED <<cloud, minted, handed, stray>>
      PROVE  R2Inv'
  <2> USE <1>2 DEF Begin, Asks, pluginVars, cloud
  <2>1. PluginInv'
    BY BeginKeeps DEF R2Inv
  <2>2. /\ r \in {Kept(q) : q \in R2Requests}
        /\ R2First(r) \in {"list", "create", "delete", "check", "get", "verify"}
    BY GatedR2, R2FirstIs
  <2>3. R2TypeOK'
    BY <2>1, <2>2, SpeechIsScrubbed DEF R2Inv, R2TypeOK, PluginInv, Scrubbing
  <2>4. pc'[c] = R2First(r) /\ req'[c] = r /\ minted'[c] = NoKey
    BY DEF R2Inv, R2TypeOK, Running, R2Stage
  <2>5. (R2Stage(c) /\ R2Owned(c))'
    <3>1. R2Stage(c)'
      <4>1. r.dry \in BOOLEAN /\ r.ack \in BOOLEAN /\ (r.op \in R2Writes => r.dry \/ r.ack)
             /\ (r.op \in R2Reads => ~r.dry) /\ r.op \in R2Reads \cup R2Writes
        BY <2>2, GatedR2, KeptR2 DEF R2Operations
      <4>2. /\ R2First(r) = "create" => r.op = "create_r2_bucket" /\ ~r.dry
            /\ R2First(r) = "delete" => r.op = "delete_r2_bucket" /\ ~r.dry
            /\ R2First(r) = "check" => /\ r.op \in R2Writes \ {"revoke_r2_credential"}
                                       /\ ~r.dry => r.op = "create_r2_credential"
            /\ R2First(r) = "get" => r.op = "revoke_r2_credential"
        <5>1. CASE r.op \in R2Reads
          BY <4>1, <5>1 DEF R2First, R2Reads
        <5>2. CASE r.op \in R2Writes
          <6>1. CASE r.dry
            BY <4>1, <5>2, <6>1 DEF R2First, R2Writes
          <6>2. CASE ~r.dry
            BY <4>1, <5>2, <6>2 DEF R2First, R2Writes
          <6> QED BY <6>1, <6>2
        <5> QED BY <4>1, <5>1, <5>2
      <4> QED BY <2>2, <2>4, <4>1, <4>2 DEF R2Stage, R2Writes
    <3> QED BY <2>2, <2>4, <3>1, R2Assumption DEF R2Owned, Live
  <2>6. \A d \in Calls \ {c} : (R2Stage(d) /\ R2Owned(d))'
    BY OthersStand DEF R2Inv, R2TypeOK, KeysAge
  <2>7. EveryKeyAccountedFor'
    <3>1. Running \subseteq Running'
      BY DEF Running, R2Inv, R2TypeOK
    <3> QED BY <3>1 DEF R2Inv, EveryKeyAccountedFor, Live
  <2>8. R2Found'
    BY <2>2, <2>4 DEF R2Inv, R2Found, R2TypeOK, Running
  <2> QED BY <2>1, <2>3, <2>5, <2>6, <2>7, <2>8, SpeechIsScrubbed DEF R2Inv, Scrubbing
<1> QED BY <1>1, <1>2 DEF R2Start

\* A step that reads, or ends the call and leaves the account alone.
LEMMA EndedQuietly ==
  ASSUME R2Inv, NEW c \in Running, NEW o \in Outs, R2Return(c, o), pc[c] # "unmint",
         Speaks(c) \/ Quiet, UNCHANGED <<cloud, handed, stray>>
  PROVE  R2Inv'
<1>1. c \in Calls
  BY DEF Running
<1> QED BY <1>1, SpeechIsScrubbed, Ended DEF cloud, R2Inv, R2TypeOK

LEMMA FailureEnds ==
  ASSUME R2Inv, NEW c \in Running, pc[c] # "unmint", R2Fails(c)
  PROVE  R2Inv'
BY CodesAreOuts, EndedQuietly DEF R2Fails, FailsBy

\* What a step at a stage is: a running call.
LEMMA AtRuns == ASSUME NEW c \in Calls, NEW s, s # "idle", At(c, s) \/ Holds(c, s)
                PROVE  c \in Running /\ pc[c] = s
BY DEF At, Holds, Running

LEMMA ReadKeeps ==
  ASSUME R2Inv, NEW c \in Calls, ListBuckets(c) \/ VerifyToken(c) \/ PermissionGroups(c)
  PROVE  R2Inv'
<1>0. "ok" \in Outs
  BY DEF Outs
<1>1. CASE ListBuckets(c)
  BY <1>0, <1>1, AtRuns, FailureEnds, EndedQuietly DEF ListBuckets, Reads, Succeeds
<1>2. CASE VerifyToken(c)
  <2>1. CASE At(c, "verify") /\ Goto(c, "detail") /\ Same
    <3>1. c \in Running /\ pc[c] = "verify" /\ pc'[c] = "detail" /\ minted'[c] = minted[c] /\ keys' = keys /\ req' = req
      BY <2>1, AtRuns DEF Goto, Same, r2Vars, cloud, R2Inv, R2TypeOK
    <3>2. (R2Stage(c) /\ R2Owned(c))'
      BY <3>1 DEF R2Inv, R2Stage, R2Owned, Live
    <3> QED BY <2>1, <3>1, <3>2, Moved
  <2>2. CASE At(c, "verify") /\ R2Fails(c)
    BY <2>2, AtRuns, FailureEnds
  <2>3. CASE Holds(c, "detail") /\ (Succeeds(c) \/ FailsBy(c, {"unreachable", "garbled"}))
             /\ UNCHANGED <<cloud, handed, stray>>
    BY <1>0, <2>3, AtRuns, CodesAreOuts, EndedQuietly DEF Succeeds, FailsBy
  <2> QED BY <1>2, <2>1, <2>2, <2>3 DEF VerifyToken
<1>3. CASE PermissionGroups(c)
  <2>1. CASE At(c, "groups") /\ Goto(c, "mint") /\ Same
    <3>1. /\ c \in Running /\ pc[c] = "groups" /\ pc'[c] = "mint" /\ minted'[c] = minted[c]
          /\ keys' = keys /\ req' = req
      BY <2>1, AtRuns DEF Goto, Same, r2Vars, cloud, R2Inv, R2TypeOK
    <3>2. (R2Stage(c) /\ R2Owned(c))'
      BY <3>1 DEF R2Inv, R2Stage, R2Owned, Live
    <3> QED BY <2>1, <3>1, <3>2, Moved DEF R2Inv, R2Found
  <2> QED BY <1>3, <2>1, AtRuns, FailureEnds DEF PermissionGroups
<1> QED BY <1>1, <1>2, <1>3

LEMMA BucketKeeps ==
  ASSUME R2Inv, NEW c \in Calls, CreateBucket(c) \/ DeleteBucket(c)
  PROVE  R2Inv'
<1>1. c \in Running /\ pc[c] \in {"create", "delete"}
  BY AtRuns DEF CreateBucket, DeleteBucket
<1>2. Named(c) \in Bucket /\ buckets \subseteq Bucket
  BY <1>1, NamedIsBucket DEF R2Inv, R2TypeOK
<1>3. CASE R2Fails(c)
  BY <1>1, <1>3, FailureEnds
<1>4. CASE /\ buckets' \subseteq Bucket /\ (Succeeds(c) \/ FailsBy(c, MayHaveHappened))
           /\ UNCHANGED <<keys, handed, stray>>
  <2>1. PICK o \in Outs : R2Return(c, o)
    BY <1>4, CodesAreOuts DEF Succeeds, FailsBy, Outs
  <2>2. Scrubbing
    BY <1>4, SpeechIsScrubbed DEF Succeeds, FailsBy
  <2> QED BY <1>1, <1>4, <2>1, <2>2, Ended DEF R2Inv, R2TypeOK
<1>5. CASE CreateBucket(c)
  BY <1>2, <1>3, <1>4, <1>5 DEF CreateBucket, WritesBuckets
<1>6. CASE DeleteBucket(c)
  BY <1>2, <1>3, <1>4, <1>6 DEF DeleteBucket, WritesBuckets
<1> QED BY <1>5, <1>6

LEMMA CheckKeeps == ASSUME R2Inv, NEW c \in Calls, CheckBuckets(c) PROVE R2Inv'
<1>1. c \in Running /\ pc[c] = "check"
  BY AtRuns DEF CheckBuckets
<1>2. CASE ~req[c].dry /\ HasBucket(c) /\ Goto(c, "groups") /\ Same
  <2>1. /\ pc'[c] = "groups" /\ minted'[c] = minted[c] /\ keys' = keys /\ req' = req
    BY <1>1, <1>2 DEF Goto, Same, r2Vars, cloud, R2Inv, R2TypeOK, Running
  <2>2. (R2Stage(c) /\ R2Owned(c))'
    BY <1>1, <1>2, <2>1 DEF R2Inv, R2Stage, R2Owned, Live
  <2> QED BY <1>1, <1>2, <2>2, Moved DEF HasBucket
<1>3. CASE R2Fails(c)
  BY <1>1, <1>3, FailureEnds
<1>4. CASE /\ R2Return(c, "preview") \/ R2Return(c, "invalid_args")
           /\ UNCHANGED <<cloud, handed, stray>> /\ (Quiet \/ Speaks(c))
  BY <1>1, <1>4, EndedQuietly DEF Outs, Codes
<1> QED BY <1>2, <1>3, <1>4 DEF CheckBuckets

LEMMA MintKeeps == ASSUME R2Inv, NEW c \in Calls, Mint(c) PROVE R2Inv'
<1>1. c \in Running /\ pc[c] = "mint" /\ Resource(c) \in Bucket
  BY AtRuns, NamedIsBucket DEF Mint
<1>2. CASE R2Fails(c)
  BY <1>1, <1>2, FailureEnds
<1>3. ASSUME NEW k \in Keys, keys[k] = Unborn, UNCHANGED buckets,
             keys' = [keys EXCEPT ![k] = [ours |-> TRUE, at |-> Resource(c)]],
             \/ /\ R2Return(c, "ok") /\ Register(k)
                /\ handed' = handed \cup {k} /\ learned' = learned \cup {k}
                /\ said' = {} /\ UNCHANGED stray
             \/ Valueless(c, k)
             \/ /\ R2Return(c, "uncoded") \/ \E f \in MayHaveHappened : R2Return(c, ApiCode(f))
                /\ Speaks(c) /\ stray' = stray \cup {k} /\ UNCHANGED handed
      PROVE  R2Inv'
  <2>1. /\ keys' \in [Keys -> Key \cup {Unborn, Gone}] /\ keys'[k] \in Key /\ keys'[k].ours
        /\ \A j \in Keys \ {k} : keys'[j] = keys[j]
    BY <1>1, <1>3 DEF R2Inv, R2TypeOK, Key
  <2>2. buckets' \subseteq Bucket /\ handed \subseteq Keys /\ stray \subseteq Keys
    BY <1>3 DEF R2Inv, R2TypeOK
  <2>3. CASE /\ R2Return(c, "ok") /\ Register(k)
             /\ handed' = handed \cup {k} /\ learned' = learned \cup {k}
             /\ said' = {} /\ UNCHANGED stray
    <3>1. Scrubbing
      BY <2>3 DEF Scrubbing, Register, R2Inv, R2TypeOK, LearnedStaysUnsaid, Secret
    <3> QED BY <1>1, <1>3, <2>1, <2>2, <2>3, <3>1, Ended DEF Outs
  <2>4. CASE /\ R2Return(c, "uncoded") \/ \E f \in MayHaveHappened : R2Return(c, ApiCode(f))
             /\ Speaks(c) /\ stray' = stray \cup {k} /\ UNCHANGED handed
    <3>1. Scrubbing
      BY <2>4, SpeechIsScrubbed
    <3>2. PICK o \in Outs : R2Return(c, o)
      BY <2>4, CodesAreOuts DEF Outs, Codes
    <3> QED BY <1>1, <1>3, <2>1, <2>2, <2>4, <3>1, <3>2, Ended
  <2>5. CASE Valueless(c, k)
    <3> USE <2>5 DEF Valueless, Quiet, secrets
    <3>1. PluginInv'
      BY <1>1, GotoKeeps DEF R2Inv
    <3>2. /\ pc'[c] = "unmint" /\ minted'[c] = k /\ req'[c] = req[c] /\ Running' = Running
          /\ \A d \in Calls \ {c} : pc'[d] = pc[d] /\ req'[d] = req[d] /\ minted'[d] = minted[d]
      BY <1>1 DEF R2Inv, R2TypeOK, Goto, Running
    <3>3. R2TypeOK'
      BY <1>1, <2>1, <2>2, <3>1 DEF R2Inv, R2TypeOK, Goto, PluginInv
    <3>4. \A d \in Calls \ {c} : (R2Stage(d) /\ R2Owned(d))'
      BY <1>3, <2>1, <3>2, OthersStand DEF KeysAge
    <3>5. (R2Stage(c) /\ R2Owned(c))'
      <4>1. R2Stage(c)'
        BY <1>1, <3>2, R2Assumption DEF R2Inv, R2Stage
      <4> QED BY <2>1, <3>2, <4>1 DEF R2Owned
    <3>6. EveryKeyAccountedFor'
      <4> SUFFICES ASSUME NEW j \in Live', keys'[j].ours
                   PROVE  j \in handed' \cup stray' \cup {minted'[d] : d \in Running'}
        BY DEF EveryKeyAccountedFor
      <4>1. CASE j = k
        BY <1>1, <3>2, <4>1
      <4>2. CASE j # k
        <5>1. j \in Live /\ keys[j].ours
          BY <2>1, <4>2 DEF Live
        <5>2. minted[c] # j
          BY <1>1, R2Assumption DEF R2Inv, R2Stage, Live
        <5> QED BY <3>2, <5>1, <5>2 DEF R2Inv, EveryKeyAccountedFor, Running
      <4> QED BY <4>1, <4>2
    <3>7. R2Found'
      <4>1. calm' = calm /\ req' = req /\ buckets' = buckets
        BY <1>3 DEF Goto, still
      <4> QED BY <3>2, <4>1 DEF R2Inv, R2Found, Named
    <3> QED BY <3>1, <3>3, <3>4, <3>5, <3>6, <3>7 DEF R2Inv, LearnedStaysUnsaid
  <2> QED BY <1>3, <2>3, <2>4, <2>5
<1> QED BY <1>2, <1>3 DEF Mint

LEMMA RevokeKeeps ==
  ASSUME R2Inv, NEW c \in Calls, GetR2Credential(c) \/ RevokeR2Credential(c)
  PROVE  R2Inv'
<1>1. c \in Running /\ pc[c] \in {"get", "revoke"}
  BY AtRuns DEF GetR2Credential, RevokeR2Credential
<1>2. req[c].arg \in [id : Keys, secret : BOOLEAN] /\ c \in Calls
  <2>1. req[c].op = "revoke_r2_credential" /\ c \in Calls
    BY <1>1 DEF R2Inv, R2Stage, Running
  <2>2. req[c] \in {Kept(q) : q \in R2Requests}
    BY <2>1 DEF R2Inv, R2TypeOK, None
  <2> QED BY <2>1, <2>2, KeptR2 DEF R2Arguments, R2Reads
<1>3. CASE R2Fails(c)
  BY <1>1, <1>3, FailureEnds
<1>4. CASE GetR2Credential(c) /\ ~R2Fails(c)
  <2> DEFINE k == req[c].arg.id
  <2>1. CASE At(c, "get") /\ k \in Live /\ ~req[c].dry /\ Ours(k) /\ Goto(c, "revoke") /\ Same
    <3>1. /\ pc[c] = "get" /\ pc'[c] = "revoke" /\ minted'[c] = minted[c] /\ keys' = keys /\ req' = req
      BY <1>1, <1>2, <2>1, AtRuns DEF Goto, Same, r2Vars, cloud, R2Inv, R2TypeOK
    <3>2. (R2Stage(c) /\ R2Owned(c))'
      BY <1>2, <2>1, <3>1 DEF R2Inv, R2Stage, R2Owned, Live, Ours, R2Writes
    <3> QED BY <1>1, <2>1, <3>1, <3>2, Moved
  <2>2. CASE /\ R2Return(c, "preview") \/ R2Return(c, "invalid_args")
             /\ UNCHANGED <<cloud, handed, stray>> /\ (Quiet \/ Speaks(c))
    BY <1>1, <2>2, EndedQuietly DEF Outs, Codes
  <2> QED BY <1>4, <2>1, <2>2 DEF GetR2Credential
<1>5. CASE RevokeR2Credential(c) /\ ~R2Fails(c)
  <2>1. /\ keys' \in [Keys -> Key \cup {Unborn, Gone}]
        /\ \A k \in Keys : keys'[k] = keys[k] \/ keys'[k] = Gone
    BY <1>2, <1>5 DEF RevokeR2Credential, Deletes, R2Inv, R2TypeOK
  <2>2. (Succeeds(c) \/ \E F : FailsBy(c, F)) /\ UNCHANGED <<buckets, handed, stray>>
    BY <1>5 DEF RevokeR2Credential
  <2>3. Scrubbing
    BY <1>2, <2>2, SpeechIsScrubbed DEF Succeeds, FailsBy
  <2>4. PICK o \in Outs : R2Return(c, o)
    BY <2>2, CodesAreOuts DEF Succeeds, FailsBy, Outs
  <2> QED BY <1>1, <2>1, <2>2, <2>3, <2>4, Ended DEF R2Inv, R2TypeOK
<1> QED BY <1>3, <1>4, <1>5

LEMMA UnmintKeeps == ASSUME R2Inv, NEW c \in Calls, Unmint(c) PROVE R2Inv'
<1> USE DEF Unmint, R2Return
<1>1. c \in Running /\ minted[c] \in Keys
  <2>1. c \in Running /\ pc[c] = "unmint"
    BY AtRuns
  <2> QED BY <2>1 DEF R2Inv, R2TypeOK, R2Stage
<1>2. /\ keys' \in [Keys -> Key \cup {Unborn, Gone}] /\ stray' \subseteq Keys /\ stray \subseteq stray'
      /\ \A k \in Keys : keys'[k] = keys[k] \/ keys'[k] = Gone
      /\ minted[c] \in stray' \/ minted[c] \notin Live'
  BY <1>1, R2Assumption DEF Deletes, R2Inv, R2TypeOK, Live
<1>3. PluginInv' /\ Scrubbing
  <2>1. "uncoded" \in Outs
    BY DEF Outs, Codes
  <2> QED BY <1>1, <2>1, AnswersKeep, SpeechIsScrubbed DEF R2Inv
<1>4. /\ pc'[c] = "idle" /\ req'[c] = None /\ minted'[c] = NoKey /\ Running' = Running \ {c}
      /\ \A d \in Calls \ {c} : pc'[d] = pc[d] /\ req'[d] = req[d] /\ minted'[d] = minted[d]
  BY DEF R2Inv, R2TypeOK, Answers, Running
<1>5. R2TypeOK'
  BY <1>2, <1>3 DEF R2Inv, R2TypeOK, Answers, Scrubbing, PluginInv
<1>6. \A d \in Calls \ {c} : (R2Stage(d) /\ R2Owned(d))'
  BY <1>2, <1>4, OthersStand DEF KeysAge
<1>7. R2Stage(c)'
  BY <1>4 DEF R2Stage, None, R2Writes
<1>8. R2Owned(c)'
  BY <1>4, R2Assumption DEF R2Owned, Live
<1>9. EveryKeyAccountedFor'
  <2> SUFFICES ASSUME NEW k \in Live', keys'[k].ours, k # minted[c]
               PROVE  k \in handed' \cup stray' \cup {minted'[d] : d \in Running'}
    BY <1>2 DEF EveryKeyAccountedFor
  <2>1. k \in Live /\ keys[k].ours
    BY <1>2, R2Assumption DEF Live
  <2> QED BY <1>2, <1>4, <2>1 DEF R2Inv, EveryKeyAccountedFor, Running
<1>10. R2Found'
  BY <1>4 DEF R2Inv, R2Found, Answers, still, Named
<1> QED BY <1>3, <1>5, <1>6, <1>7, <1>8, <1>9, <1>10 DEF R2Inv, Scrubbing

LEMMA DiesKeeps == ASSUME R2Inv, NEW c \in Calls, R2Dies(c) PROVE R2Inv'
<1> USE DEF R2Dies, Panics, Quiet, secrets, cloud
<1>1. PluginInv'
  BY PanicsKeep DEF R2Inv
<1>2. stray' \subseteq Keys
  BY DEF R2Inv, R2TypeOK
<1>3. R2TypeOK'
  BY <1>1, <1>2 DEF R2Inv, R2TypeOK, PluginInv
<1>4. \A d \in Calls : pc'[d] = "idle" /\ req'[d] = None /\ minted'[d] = NoKey
  OBVIOUS
<1>5. \A d \in Calls : R2Stage(d)'
  BY <1>4 DEF R2Stage, None, R2Writes
<1>6. \A d \in Calls : R2Owned(d)'
  BY <1>4, R2Assumption DEF R2Owned, Live
<1>7. EveryKeyAccountedFor'
  <2> SUFFICES ASSUME NEW k \in Live', keys'[k].ours, k \notin handed' PROVE k \in stray'
    BY DEF EveryKeyAccountedFor
  <2>1. k \in stray \cup {minted[d] : d \in Running}
    BY DEF R2Inv, EveryKeyAccountedFor, Live
  <2> QED BY <2>1, R2Assumption DEF Running, Live
<1>8. R2Found'
  BY <1>4 DEF R2Found
<1> QED BY <1>1, <1>3, <1>5, <1>6, <1>7, <1>8 DEF R2Inv, LearnedStaysUnsaid

LEMMA HostKeepsR2 == ASSUME R2Inv, R2Load \/ (Unload /\ Same) PROVE R2Inv'
<1> USE DEF cloud
<1>1. UNCHANGED <<pc, req, calm, buckets, keys, minted, handed, stray>>
  BY DEF R2Load, LoadWith, Unload, Same, r2Vars
<1>2. PluginInv'
  BY HostKeeps DEF R2Inv, R2Load
<1>3. Scrubbing
  <2>1. CASE R2Load
    BY <2>1 DEF R2Load, Offered, Scrubbing, Secret, LearnedStaysUnsaid
  <2>2. CASE Unload /\ Same
    BY <2>2 DEF Same, r2Vars, secrets, Scrubbing, R2Inv, R2TypeOK, LearnedStaysUnsaid
  <2> QED BY <2>1, <2>2
<1>4. R2TypeOK'
  BY <1>1, <1>2, <1>3 DEF R2Inv, R2TypeOK, Scrubbing, PluginInv
<1>5. \A d \in Calls : (R2Stage(d) /\ R2Owned(d))'
  BY <1>1 DEF R2Inv, R2Stage, R2Owned, Live
<1>6. EveryKeyAccountedFor' /\ R2Found'
  BY <1>1 DEF R2Inv, EveryKeyAccountedFor, R2Found, Live, Running, Named
<1> QED BY <1>2, <1>3, <1>4, <1>5, <1>6 DEF R2Inv, Scrubbing

LEMMA R2StepsKeep == R2Inv /\ R2Next => R2Inv'
<1> SUFFICES ASSUME R2Inv, R2Next PROVE R2Inv'
  OBVIOUS
<1>1. CASE R2Load \/ (Unload /\ Same)
  BY <1>1, HostKeepsR2
<1>2. ASSUME NEW c \in Calls, R2Start(c) \/ R2Step(c) \/ R2Dies(c) PROVE R2Inv'
  BY <1>2, R2StartKeeps, ReadKeeps, BucketKeeps, CheckKeeps, MintKeeps, UnmintKeeps, RevokeKeeps,
     DiesKeeps DEF R2Step
<1> QED BY <1>1, <1>2 DEF R2Next

LEMMA R2Starts == ASSUME PluginInit, R2Init PROVE R2Inv
<1> USE DEF PluginInit, R2Init
<1>1. PluginInv
  BY DEF PluginInv, PluginTypeOK, Running
<1>2. Names \X {"default"} \subseteq Bucket
  BY DEF Bucket, Regions
<1>3. keys \in [Keys -> Key \cup {Unborn, Gone}] /\ \A k \in Live : ~keys[k].ours
  <2>1. ASSUME NEW k \in Keys PROVE keys[k] = Unborn \/ (keys[k] \in Key /\ ~keys[k].ours)
    <3>1. CASE keys[k] \in {[ours |-> FALSE, at |-> b] : b \in Names \X {"default"}}
      <4>1. PICK b \in Bucket : keys[k] = [ours |-> FALSE, at |-> b]
        BY <1>2, <3>1
      <4> QED BY <4>1 DEF Key
    <3> QED BY <3>1
  <2> QED BY <2>1, R2Assumption DEF Live
<1>4. R2TypeOK
  BY <1>1, <1>3 DEF R2TypeOK, PluginInv
<1>5. \A c \in Calls : R2Stage(c)
  BY DEF R2Stage, None, R2Writes
<1>6. \A c \in Calls : R2Owned(c)
  BY R2Assumption DEF R2Owned, Live
<1> QED BY <1>1, <1>3, <1>4, <1>5, <1>6 DEF R2Inv, LearnedStaysUnsaid, EveryKeyAccountedFor, R2Found

\* What a step of an operation can do to the account, and what it then answers.
R2Effect(c) ==
  \/ UNCHANGED cloud
  \/ /\ pc'[c] # pc[c] /\ out' \notin Refusals
     /\ \/ pc[c] \in {"create", "delete"} /\ UNCHANGED keys
        \/ /\ pc[c] = "mint" /\ UNCHANGED buckets
           /\ \E k \in Keys : keys[k] = Unborn /\ keys' = [keys EXCEPT ![k] = [ours |-> TRUE, at |-> Resource(c)]]
        \/ pc[c] = "unmint" /\ UNCHANGED buckets /\ Deletes(minted[c])
        \/ pc[c] = "revoke" /\ UNCHANGED buckets /\ Deletes(req[c].arg.id)

\* No answer that may follow on a change is a refusal.
LEMMA MaybeIsNoRefusal ==
  ASSUME NEW f \in MayHaveHappened PROVE ApiCode(f) \notin Refusals /\ SdkCode(f) \notin Refusals
BY DEF MayHaveHappened, ApiCode, SdkCode, Refusals

LEMMA R2Effects ==
  ASSUME R2Inv, NEW c \in Calls, R2Step(c)
  PROVE  /\ R2Effect(c)
         /\ \A d \in Calls \ {c} : pc'[d] = pc[d]
         /\ pc[c] = "unmint" => out' \notin Refusals
<1>0. c \in Running
  BY AtRuns DEF R2Step, ListBuckets, Reads, VerifyToken, CreateBucket, DeleteBucket, CheckBuckets,
     PermissionGroups, Mint, Unmint, GetR2Credential, RevokeR2Credential
<1>1. ASSUME NEW o, R2Return(c, o) PROVE pc'[c] = "idle" /\ pc'[c] # pc[c] /\ out' = o
  BY <1>0, <1>1 DEF R2Return, Answers, R2Inv, R2TypeOK, Running
<1>2. \A d \in Calls \ {c} : pc'[d] = pc[d]
  <2>1. ASSUME NEW s, pc' = [pc EXCEPT ![c] = s] PROVE \A d \in Calls \ {c} : pc'[d] = pc[d]
    BY <2>1 DEF R2Inv, R2TypeOK
  <2>2. \E s : pc' = [pc EXCEPT ![c] = s]
    BY DEF R2Step, ListBuckets, Reads, VerifyToken, CreateBucket, DeleteBucket, CheckBuckets, WritesBuckets,
       PermissionGroups, Mint, Unmint, GetR2Credential, RevokeR2Credential, R2Fails, FailsBy, Succeeds,
       R2Return, Answers, Goto, Valueless
  <2> QED BY <2>1, <2>2
<1> USE DEF cloud
<1>3. ASSUME R2Fails(c) PROVE UNCHANGED cloud
  BY <1>3 DEF R2Fails
<1>4. CASE ListBuckets(c) \/ VerifyToken(c) \/ CheckBuckets(c) \/ PermissionGroups(c) \/ GetR2Credential(c)
  <2>1. UNCHANGED cloud
    BY <1>3, <1>4 DEF ListBuckets, Reads, VerifyToken, CheckBuckets, PermissionGroups, GetR2Credential, Same, r2Vars
  <2>2. pc[c] # "unmint"
    BY <1>4, AtRuns DEF ListBuckets, Reads, VerifyToken, CheckBuckets, PermissionGroups, GetR2Credential
  <2> QED BY <1>2, <2>1, <2>2 DEF R2Effect
<1>5. CASE CreateBucket(c) \/ DeleteBucket(c)
  <2>1. pc[c] \in {"create", "delete"}
    BY <1>5, AtRuns DEF CreateBucket, DeleteBucket
  <2>2. CASE R2Fails(c)
    BY <1>2, <1>3, <2>1, <2>2 DEF R2Effect
  <2>3. CASE (Succeeds(c) \/ FailsBy(c, MayHaveHappened)) /\ UNCHANGED keys
    <3>1. pc'[c] # pc[c] /\ out' \notin Refusals
      BY <1>1, <2>3, MaybeIsNoRefusal DEF Succeeds, FailsBy, Refusals
    <3> QED BY <1>2, <2>1, <2>3, <3>1 DEF R2Effect
  <2> QED BY <1>5, <2>2, <2>3 DEF CreateBucket, DeleteBucket, WritesBuckets
<1>6. CASE Mint(c)
  <2>1. pc[c] = "mint"
    BY <1>6, AtRuns DEF Mint
  <2>2. CASE R2Fails(c)
    BY <1>2, <1>3, <2>1, <2>2 DEF R2Effect
  <2>3. CASE ~R2Fails(c)
    <3>1. /\ UNCHANGED buckets
          /\ \E k \in Keys : keys[k] = Unborn /\ keys' = [keys EXCEPT ![k] = [ours |-> TRUE, at |-> Resource(c)]]
      BY <1>6, <2>3 DEF Mint
    <3>2. \/ R2Return(c, "ok") \/ Goto(c, "unmint") \/ R2Return(c, "uncoded")
          \/ \E f \in MayHaveHappened : R2Return(c, ApiCode(f))
      BY <1>6, <2>3 DEF Mint, Valueless
    <3>3. ASSUME Goto(c, "unmint") PROVE pc'[c] # pc[c] /\ out' \notin Refusals
      BY <2>1, <3>3 DEF Goto, R2Inv, R2TypeOK, Refusals
    <3>4. pc'[c] # pc[c] /\ out' \notin Refusals
      BY <1>1, <3>2, <3>3, MaybeIsNoRefusal DEF Refusals
    <3> QED BY <1>2, <2>1, <3>1, <3>4 DEF R2Effect
  <2> QED BY <2>2, <2>3
<1>7. CASE Unmint(c)
  <2>1. pc[c] = "unmint" /\ out' = "uncoded" /\ pc'[c] # pc[c]
    BY <1>1, <1>7, AtRuns DEF Unmint
  <2> QED BY <1>2, <1>7, <2>1 DEF Unmint, R2Effect, Refusals
<1>8. CASE RevokeR2Credential(c)
  <2>1. pc[c] = "revoke"
    BY <1>8, AtRuns DEF RevokeR2Credential
  <2>2. CASE R2Fails(c)
    BY <1>2, <1>3, <2>1, <2>2 DEF R2Effect
  <2>3. CASE Deletes(req[c].arg.id) /\ (Succeeds(c) \/ FailsBy(c, MayHaveHappened)) /\ UNCHANGED buckets
    <3>1. pc'[c] # pc[c] /\ out' \notin Refusals
      BY <1>1, <2>3, MaybeIsNoRefusal DEF Succeeds, FailsBy, Refusals
    <3> QED BY <1>2, <2>1, <2>3, <3>1 DEF R2Effect
  <2>4. CASE Deletes(req[c].arg.id) /\ req[c].arg.id \notin Live /\ UNCHANGED buckets
    BY <1>2, <2>1, <2>4 DEF Deletes, R2Effect
  <2> QED BY <1>8, <2>2, <2>3, <2>4 DEF RevokeR2Credential
<1> QED BY <1>4, <1>5, <1>6, <1>7, <1>8 DEF R2Step

\* All that changes the account is an operation's step.
LEMMA OnlyStepsWrite ==
  ASSUME R2Next PROVE UNCHANGED cloud \/ \E c \in Calls : R2Step(c)
BY DEF R2Next, R2Load, R2Start, R2Dies, Same, r2Vars, cloud

\* A mint by c, while calm, is for a bucket that is there; a deletion is of ours.
LEMMA R2WritesAreInOrder ==
  ASSUME R2Inv, R2Next
  PROVE  /\ cloud' # cloud => \E c \in Calls : /\ pc'[c] # pc[c] /\ req[c].op \in R2Writes
                                                /\ req[c].ack /\ ~req[c].dry
         /\ \A k \in Live : ~keys[k].ours => keys'[k] = keys[k]
         /\ calm' => \A k \in Keys : keys[k] = Unborn /\ keys'[k] \in Key => keys'[k].at \in buckets
<1>1. CASE UNCHANGED cloud
  BY <1>1, R2Assumption DEF cloud, Live
<1>2. ASSUME NEW c \in Calls, R2Step(c), cloud' # cloud
      PROVE  /\ /\ pc'[c] # pc[c] /\ req[c].op \in R2Writes
                /\ req[c].ack /\ ~req[c].dry
             /\ \A k \in Live : ~keys[k].ours => keys'[k] = keys[k]
             /\ calm' => \A k \in Keys : keys[k] = Unborn /\ keys'[k] \in Key => keys'[k].at \in buckets
  <2>1. R2Effect(c) /\ R2Stage(c) /\ R2Owned(c)
    BY <1>2, R2Effects DEF R2Inv
  <2>2. pc'[c] # pc[c] /\ req[c].op \in R2Writes /\ req[c].ack /\ ~req[c].dry
    BY <1>2, <2>1 DEF R2Effect, R2Stage, R2Writes
  <2>3. CASE UNCHANGED keys
    BY <2>2, <2>3, R2Assumption DEF Live
  <2>4. CASE pc[c] = "mint" /\ \E k \in Keys : keys[k] = Unborn /\ keys' = [keys EXCEPT ![k] = [ours |-> TRUE, at |-> Resource(c)]]
    <3>1. calm' = calm
      BY <1>2 DEF R2Step, ListBuckets, Reads, VerifyToken, CreateBucket, DeleteBucket, CheckBuckets, WritesBuckets,
         PermissionGroups, Mint, Unmint, GetR2Credential, RevokeR2Credential, R2Fails, FailsBy, Succeeds,
         R2Return, Answers, Goto, Valueless, still
    <3>2. calm => Resource(c) \in buckets
      BY <2>4, NamedIsBucket DEF R2Inv, R2Found
    <3>3. PICK k \in Keys : keys[k] = Unborn /\ keys' = [keys EXCEPT ![k] = [ours |-> TRUE, at |-> Resource(c)]]
      BY <2>4
    <3>4. keys \in [Keys -> Key \cup {Unborn, Gone}]
      BY DEF R2Inv, R2TypeOK
    <3>5. \A j \in Keys \ {k} : keys'[j] = keys[j]
      BY <3>3, <3>4
    <3>6. keys'[k].at = Resource(c)
      BY <3>3, <3>4
    <3> QED BY <2>2, <3>1, <3>2, <3>3, <3>5, <3>6, R2Assumption DEF Live
  <2>5. CASE pc[c] = "unmint" /\ Deletes(minted[c])
    BY <2>1, <2>2, <2>5, R2Assumption DEF R2Owned, Deletes, Live, R2Inv, R2TypeOK
  <2>6. CASE pc[c] = "revoke" /\ Deletes(req[c].arg.id)
    BY <2>1, <2>2, <2>6, R2Assumption DEF R2Owned, Deletes, Live, R2Inv, R2TypeOK
  <2> QED BY <1>2, <2>1, <2>3, <2>4, <2>5, <2>6 DEF R2Effect
<1> QED BY <1>1, <1>2, OnlyStepsWrite

\* What is refused changed nothing, and none of its earlier requests did.
LEMMA R2RefusalsAreTrue ==
  ASSUME R2Inv, R2Next, out' \in Refusals
  PROVE  UNCHANGED cloud /\ \A c \in Calls : pc'[c] # pc[c] => minted[c] = NoKey
<1>1. ASSUME NEW c \in Calls, R2Step(c) PROVE UNCHANGED cloud /\ pc[c] # "unmint" /\ \A d \in Calls \ {c} : pc'[d] = pc[d]
  BY <1>1, R2Effects DEF R2Effect
<1>2. UNCHANGED cloud
  BY <1>1, OnlyStepsWrite
<1>3. ASSUME NEW c \in Calls, pc[c] = "unmint", ~\E d \in Calls : R2Step(d) PROVE pc'[c] = pc[c]
  <2>1. CASE R2Load \/ Unload
    BY <2>1 DEF R2Load, LoadWith, Unload
  <2>2. ASSUME NEW d \in Calls, R2Start(d) PROVE pc'[c] = pc[c]
    <3>1. d # c \/ UNCHANGED pc
      BY <1>3, <2>2 DEF R2Start, Refuse, Preview, NoCredential, Answered, Begin, Asks, Running
    <3> QED BY <1>3, <2>2, <3>1 DEF R2Start, Refuse, Preview, NoCredential, Answered, Begin, Asks, R2Inv, R2TypeOK
  <2>3. ASSUME NEW d \in Calls, R2Dies(d) PROVE FALSE
    BY <2>3 DEF R2Dies, Panics, Refusals
  <2> QED BY <1>3, <2>1, <2>2, <2>3 DEF R2Next
<1>4. ASSUME NEW c \in Calls, pc'[c] # pc[c] PROVE pc[c] # "unmint"
  BY <1>1, <1>3, <1>4
<1> QED BY <1>2, <1>4 DEF R2Inv, R2Stage

-----------------------------------------------------------------------------
(* The zone.                                                               *)

ZoneOperations == ZoneReads \cup ZoneWrites

LEMMA BegunInZone ==
  ASSUME NEW r \in ZoneBegun
  PROVE  /\ r \in {Kept(q) : q \in DNSRequests} /\ r.op \in ZoneOperations
         /\ r.arg \in ZoneArguments(r.op) /\ r.dry \in BOOLEAN
         /\ r.op = "upsert_a_record" => r.arg.content \in Tailnet /\ ~r.arg.proxied
         /\ r.op \in ZoneWrites => r.dry \/ r.ack
         /\ r.op # "upsert_a_record" => ~r.dry
<1>1. PICK q \in DNSRequests : q \in Accepted /\ r = Kept(q) /\ (~Dry(q) \/ q.op = "upsert_a_record")
  BY DEF ZoneBegun, Accepted
<1>2. PICK o \in ZoneOperations : q \in [op : {o}, arg : ZoneArguments(o), dry : Forms, ack : BOOLEAN]
  BY DEF DNSRequests, ZoneOperations
<1>3. (q.op \in ZoneWrites => Dry(q) \/ q.ack) /\ (q.op # "upsert_a_record" => ~Dry(q))
  BY <1>1 DEF Accepted, WriteMode, ZoneWrites, WriteOperations
<1>4. r \in {Kept(p) : p \in DNSRequests}
  BY <1>1
<1>5. r = [q EXCEPT !.dry = Dry(q), !.ack = q.ack /\ q.op \in WriteOperations /\ ~Dry(q)]
  BY <1>1 DEF Kept
<1>6. /\ r.op = q.op /\ r.arg = q.arg /\ r.dry = Dry(q)
      /\ r.ack = (q.ack /\ q.op \in WriteOperations /\ ~Dry(q))
  BY <1>2, <1>5
<1> QED BY <1>1, <1>2, <1>3, <1>4, <1>6 DEF Dry, Accepted, Sound, ZoneWrites, WriteOperations

Upsert == [name : Spellings, content : Tailnet, ttl : TTLs \cup {0}, proxied : {FALSE}]

\* Where a call is says what it runs, and what it has planned.
ZoneStage(c) ==
  /\ pc[c] \in {"zone", "find", "update"} => req[c].op = "upsert_a_record"
  /\ req[c].op = "upsert_a_record" => req[c].arg \in Upsert
  /\ pc[c] = "create" => req[c].op \in {"create_dns_record", "upsert_a_record"}
  /\ pc[c] = "create" /\ req[c].op = "create_dns_record" => req[c].arg \in ZoneArguments("create_dns_record")
  /\ pc[c] = "delete" => req[c].op = "delete_dns_record" /\ req[c].arg.id \in Ids
  /\ pc[c] = "new" => req[c].op = "create_zone"
  /\ pc[c] = "list" => req[c].op \in ZoneReads
  /\ pc[c] = "create" /\ req[c].op = "upsert_a_record" => plan[c] \in Plans /\ plan[c].id = "new"
  /\ pc[c] = "update" => plan[c] \in Plans /\ plan[c].id \in Ids
  /\ plan[c] # NoPlan => pc[c] \in {"create", "update"} /\ req[c].op = "upsert_a_record"
  /\ pc[c] \in {"zone", "find"} => req[c].dry \/ req[c].ack
  /\ pc[c] \in {"create", "update", "delete", "new"} => req[c].ack /\ ~req[c].dry

\* An upsert publishes nothing else.
TailnetOnly == \A c \in Calls : plan[c] # NoPlan => plan[c].after.content \in Tailnet /\ ~plan[c].after.proxied

\* While calm, what was planned is what would be planned now, and what was shown
\* is what would be shown.
PlanStands == calm => \A c \in Calls : plan[c] # NoPlan =>
                /\ plan[c] \in Planned(req[c].arg) /\ Action(plan[c]) # "unchanged" /\ ~req[c].dry
ShownStands == calm => \A s \in shown : \E p \in Planned(s.arg) : s.action = Action(p)

ZoneInv == /\ ZoneTypeOK /\ PluginInv
           /\ \A c \in Calls : ZoneStage(c)
           /\ TailnetOnly /\ PlanStands /\ ShownStands

\* A plan is for one record or none, and there is at most one.
LEMMA PlannedWhat ==
  ASSUME ZoneTypeOK, NEW arg \in Upsert, NEW p \in Planned(arg)
  PROVE  /\ p \in Plans /\ p.after.content = arg.content /\ ~p.after.proxied
         /\ \/ /\ Records = {} /\ p.id = "new"
               /\ p.after.ttl = IF arg.ttl = 0 THEN 1 ELSE arg.ttl
            \/ /\ p.id \in Ids /\ Records = {p.id} /\ p.before = zone[p.id]
               /\ p.after.ttl = IF arg.ttl = 0 THEN zone[p.id].ttl ELSE arg.ttl
         /\ Planned(arg) = {p}
<1> DEFINE After(old) == [content |-> arg.content, proxied |-> FALSE,
                          ttl |-> IF arg.ttl = 0 THEN old ELSE arg.ttl]
<1>1. Planned(arg) = IF Records = {} THEN {[id |-> "new", after |-> After(1)]}
                     ELSE {[id |-> i, before |-> zone[i], after |-> After(zone[i].ttl)] :
                              i \in IF Cardinality(Records) = 1 THEN Records ELSE {}}
  BY DEF Planned, FindARecords, QualifiedName
<1>2. ASSUME NEW old \in TTLs \cup {1}
      PROVE  /\ After(old) \in Record /\ After(old).content = arg.content /\ ~After(old).proxied
             /\ After(old).ttl = IF arg.ttl = 0 THEN old ELSE arg.ttl
  BY <1>2 DEF Upsert, Record
<1> HIDE DEF After
<1>3. CASE Records = {}
  <2>1. Planned(arg) = {[id |-> "new", after |-> After(1)]}
    BY <1>1, <1>3
  <2>2. p = [id |-> "new", after |-> After(1)]
    BY <2>1
  <2>3. p.after = After(1) /\ p.id = "new"
    BY <2>2
  <2>4. p \in Plans
    BY <1>2, <2>2 DEF Plans
  <2> QED BY <1>2, <1>3, <2>1, <2>2, <2>3, <2>4
<1>4. CASE Records # {}
  <2>1. Cardinality(Records) = 1
    BY <1>1, <1>4
  <2>2. PICK i : Records = {i}
    <3>1. IsFiniteSet(Records)
      BY DNSAssumption, FS_Subset DEF Records
    <3> QED BY <2>1, <3>1, FS_Singleton
  <2>3. Planned(arg) = {[id |-> i, before |-> zone[i], after |-> After(zone[i].ttl)]}
    BY <1>1, <1>4, <2>1, <2>2
  <2>4. i \in Ids /\ zone[i] \in Record /\ zone[i].ttl \in TTLs \cup {1}
    BY <2>2 DEF Records, Record
  <2>5. p = [id |-> i, before |-> zone[i], after |-> After(zone[i].ttl)]
    BY <2>3
  <2>6. p.id = i /\ p.before = zone[i] /\ p.after = After(zone[i].ttl)
    BY <2>5
  <2>7. p \in Plans
    BY <1>2, <2>4, <2>5 DEF Plans
  <2> QED BY <1>2, <2>2, <2>3, <2>4, <2>5, <2>6, <2>7
<1> QED BY <1>3, <1>4
ShownType == [arg : ZoneArguments("upsert_a_record"), action : Actions]

\* What would be planned depends on the zone alone.
LEMMA SamePlans ==
  ASSUME UNCHANGED zone PROVE \A arg : Planned(arg)' = Planned(arg)
BY DEF Planned, FindARecords, QualifiedName, Records

LEMMA ShownKept ==
  ASSUME ShownStands, UNCHANGED zone, calm' => calm, shown' \subseteq shown PROVE ShownStands'
BY SamePlans DEF ShownStands

\* Only the call that runs has a plan, while calm; and one that is calm runs alone.
LEMMA PlansRun ==
  ASSUME ZoneInv, NEW c \in Running PROVE calm => \A d \in Calls \ {c} : plan[d] = NoPlan
BY DEF ZoneInv, PluginInv, ZoneStage, Running

\* A call that ran has returned.
LEMMA Returned ==
  ASSUME ZoneInv, NEW c \in Running, NEW o \in Outs, Return(c, o),
         zone' \in [Ids -> Record \cup {Unborn, Gone}], shown' \subseteq ShownType, ShownStands'
  PROVE  ZoneInv'
<1> USE DEF Return
<1>0. c \in Calls /\ calm' = calm
  BY DEF Running, Answers, still
<1>1. PluginInv'
  BY AnswersKeep DEF ZoneInv
<1>2. plan'[c] = NoPlan /\ pc'[c] = "idle" /\ req'[c] = None
  BY <1>0 DEF ZoneInv, ZoneTypeOK, Answers
<1>3. \A d \in Calls \ {c} : plan'[d] = plan[d] /\ pc'[d] = pc[d] /\ req'[d] = req[d]
  BY <1>0 DEF ZoneInv, ZoneTypeOK, Answers
<1>4. ZoneTypeOK'
  BY <1>0, <1>1 DEF ZoneInv, ZoneTypeOK, PluginInv, Answers, ShownType
<1>5. \A d \in Calls : ZoneStage(d)'
  BY <1>2, <1>3 DEF ZoneInv, ZoneStage, None, NoPlan
<1>6. TailnetOnly'
  BY <1>2, <1>3 DEF ZoneInv, TailnetOnly
<1>7. PlanStands'
  BY <1>0, <1>2, <1>3, PlansRun DEF PlanStands
<1> QED BY <1>1, <1>4, <1>5, <1>6, <1>7 DEF ZoneInv

LEMMA ZoneFailureEnds ==
  ASSUME ZoneInv, NEW c \in Running, Fails(c, ApiCode) \/ Fails(c, SdkCode)
  PROVE  ZoneInv'
<1>1. PICK o \in Outs : Return(c, o) /\ UNCHANGED <<zone, shown>>
  BY CodesAreOuts DEF Fails
<1>2. calm' = calm
  BY <1>1 DEF Return, Answers, still
<1> QED BY <1>1, <1>2, Returned, ShownKept DEF ZoneInv, ZoneTypeOK, ShownType

LEMMA WriteEnds ==
  ASSUME ZoneInv, NEW c \in Running, NEW z \in [Ids -> Record \cup {Unborn, Gone}],
         Writes(c, z, ApiCode) \/ Writes(c, z, SdkCode)
  PROVE  ZoneInv'
<1>1. CASE Fails(c, ApiCode) \/ Fails(c, SdkCode)
  BY <1>1, ZoneFailureEnds
<1>2. CASE zone' = z /\ shown' = {} /\ \E o \in Outs : Return(c, o)
  BY <1>2, Returned DEF ShownStands
<1> QED BY <1>1, <1>2, CodesAreOuts DEF Writes, Outs

LEMMA ZoneStartKeeps == ASSUME ZoneInv, NEW c \in Calls, ZoneStart(c) PROVE ZoneInv'
<1>1. CASE /\ \/ Refuse(c, DNSRequests \ Accepted)
              \/ Preview(c, {r \in Accepted : ReadsNothing(r)})
              \/ NoCredential(c, {r \in Accepted : ~ReadsNothing(r)})
           /\ UNCHANGED zoneVars
  <2>1. Asks(c) /\ UNCHANGED <<pc, req, cut>> /\ out' \in Outs
    BY <1>1 DEF Refuse, Preview, NoCredential, Answered, Outs, Codes
  <2>2. PluginInv'
    BY <2>1, AskKeeps DEF ZoneInv
  <2>3. calm' => calm
    BY <2>1 DEF Asks
  <2> USE <1>1, <2>1 DEF zoneVars
  <2>4. ZoneTypeOK' /\ TailnetOnly' /\ \A d \in Calls : ZoneStage(d)'
    BY <2>2 DEF ZoneInv, ZoneTypeOK, PluginInv, TailnetOnly, ZoneStage
  <2>5. PlanStands'
    BY <2>3, SamePlans DEF ZoneInv, PlanStands
  <2> QED BY <2>2, <2>3, <2>4, <2>5, ShownKept DEF ZoneInv
<1>2. ASSUME NEW r \in ZoneBegun, Begin(c, r, ZoneFirst(r)),
             shown' = (IF calm' THEN shown ELSE {}), UNCHANGED <<zone, plan>>
      PROVE  ZoneInv'
  <2> USE <1>2 DEF Begin, Asks
  <2>1. PluginInv'
    BY BeginKeeps DEF ZoneInv
  <2>2. /\ r \in {Kept(q) : q \in DNSRequests} /\ r.op \in ZoneOperations
        /\ r.arg \in ZoneArguments(r.op) /\ r.dry \in BOOLEAN
        /\ r.op = "upsert_a_record" => r.arg \in Upsert
        /\ r.op \in ZoneWrites => r.dry \/ r.ack
        /\ r.op # "upsert_a_record" => ~r.dry
    <3>1. /\ r \in {Kept(q) : q \in DNSRequests} /\ r.op \in ZoneOperations
          /\ r.arg \in ZoneArguments(r.op) /\ r.dry \in BOOLEAN
          /\ r.op = "upsert_a_record" => r.arg.content \in Tailnet /\ ~r.arg.proxied
          /\ r.op \in ZoneWrites => r.dry \/ r.ack
          /\ r.op # "upsert_a_record" => ~r.dry
      BY BegunInZone
    <3>2. ASSUME r.op = "upsert_a_record" PROVE r.arg \in Upsert
      <4>1. r.arg \in [name : Spellings, content : Tailnet \cup Public, ttl : TTLs \cup {0}, proxied : BOOLEAN]
        BY <3>1, <3>2 DEF ZoneArguments
      <4> QED BY <3>1, <3>2, <4>1 DEF Upsert
    <3> QED BY <3>1, <3>2
  <2>3. ZoneFirst(r) \in {"zone", "create", "delete", "new", "list"}
    BY DEF ZoneFirst
  <2>4. ZoneTypeOK'
    BY <2>1, <2>2, <2>3 DEF ZoneInv, ZoneTypeOK, PluginInv
  <2>5. /\ pc'[c] = ZoneFirst(r) /\ req'[c] = r /\ plan'[c] = NoPlan
        /\ \A d \in Calls \ {c} : plan'[d] = plan[d] /\ pc'[d] = pc[d] /\ req'[d] = req[d]
    BY DEF ZoneInv, ZoneTypeOK, ZoneStage, Running
  <2>6. ZoneStage(c)'
    <3>1. /\ ZoneFirst(r) = "zone" => r.op = "upsert_a_record"
          /\ ZoneFirst(r) = "create" => r.op = "create_dns_record"
          /\ ZoneFirst(r) = "delete" => r.op = "delete_dns_record"
          /\ ZoneFirst(r) = "new" => r.op = "create_zone"
          /\ ZoneFirst(r) = "list" => r.op \in ZoneReads
      BY <2>2 DEF ZoneFirst, ZoneOperations, ZoneReads, ZoneWrites
    <3>2. r.op = "delete_dns_record" => r.arg.id \in Ids
      BY <2>2 DEF ZoneArguments
    <3>3. /\ ZoneFirst(r) = "zone" => r.dry \/ r.ack
          /\ ZoneFirst(r) \in {"create", "delete", "new"} => r.ack /\ ~r.dry
      BY <2>2, <3>1 DEF ZoneWrites
    <3> QED BY <2>2, <2>3, <2>5, <3>1, <3>2, <3>3 DEF ZoneStage, NoPlan
  <2>7. \A d \in Calls \ {c} : ZoneStage(d)'
    BY <2>5 DEF ZoneInv, ZoneStage
  <2>8. TailnetOnly'
    BY DEF ZoneInv, TailnetOnly
  <2>9. PlanStands'
    <3>1. calm' => calm
      OBVIOUS
    <3>2. \A d \in Calls : plan[d] # NoPlan => d # c
      BY <2>5
    <3> QED BY <2>5, <3>1, <3>2, SamePlans DEF ZoneInv, PlanStands
  <2>10. ShownStands'
    BY ShownKept DEF ZoneInv
  <2> QED BY <2>1, <2>4, <2>6, <2>7, <2>8, <2>9, <2>10 DEF ZoneInv
<1> QED BY <1>1, <1>2 DEF ZoneStart
\* A find without a dry run plans the write, or ends where nothing would change.
LEMMA PlanUpsertKeeps == ASSUME ZoneInv, NEW c \in Calls, PlanUpsert(c) PROVE ZoneInv'
<1> DEFINE arg == req[c].arg
<1>0. c \in Running /\ pc[c] = "find" /\ UNCHANGED zone
  BY DEF PlanUpsert, At, Running
<1>1. /\ req[c].op = "upsert_a_record" /\ arg \in Upsert /\ req[c].dry \in BOOLEAN
      /\ req[c].dry \/ req[c].ack
  <2>1. req[c].op = "upsert_a_record" /\ arg \in Upsert /\ (req[c].dry \/ req[c].ack)
    BY <1>0 DEF ZoneInv, ZoneStage
  <2>2. req[c] \in {Kept(q) : q \in DNSRequests}
    BY <2>1 DEF ZoneInv, ZoneTypeOK, None
  <2>3. PICK q \in DNSRequests : req[c] = Kept(q)
    BY <2>2
  <2>4. PICK o \in ZoneOperations : q \in [op : {o}, arg : ZoneArguments(o), dry : Forms, ack : BOOLEAN]
    BY DEF DNSRequests, ZoneOperations
  <2> QED BY <2>1, <2>3, <2>4 DEF Kept, Dry
<1>2. CASE Return(c, "invalid_args") /\ UNCHANGED shown
  <2>1. calm' = calm
    BY <1>2 DEF Return, Answers, still
  <2> QED BY <1>0, <1>2, <2>1, Returned, ShownKept DEF ZoneInv, ZoneTypeOK, ShownType, Outs, Codes
<1>3. ASSUME NEW p \in Planned(arg), req[c].dry, Return(c, "preview"),
             shown' = IF calm THEN {[arg |-> arg, action |-> Action(p)]} ELSE {}
      PROVE  ZoneInv'
  <2>1. calm' = calm
    BY <1>3 DEF Return, Answers, still
  <2>2. arg \in ZoneArguments("upsert_a_record") /\ Action(p) \in Actions
    BY <1>1 DEF ZoneArguments, Upsert, Action, Actions
  <2>3. ShownStands'
    <3>1. PICK a : a = arg
      OBVIOUS
    <3>2. p \in Planned(a)'
      BY <1>0, <3>1, SamePlans
    <3> QED BY <1>0, <1>3, <2>1, <3>1, <3>2, SamePlans DEF ShownStands
  <2> QED BY <1>0, <1>3, <2>2, <2>3, Returned DEF ZoneInv, ZoneTypeOK, ShownType, Outs
<1>4. CASE Return(c, "ok") /\ UNCHANGED shown
  <2>1. calm' = calm
    BY <1>4 DEF Return, Answers, still
  <2> QED BY <1>0, <1>4, <2>1, Returned, ShownKept DEF ZoneInv, ZoneTypeOK, ShownType, Outs
<1>5. ASSUME NEW p \in Planned(arg), ~req[c].dry, Action(p) # "unchanged", UNCHANGED shown,
             plan' = [plan EXCEPT ![c] = p],
             Goto(c, IF p.id = "new" THEN "create" ELSE "update")
      PROVE  ZoneInv'
  <2> DEFINE s == IF p.id = "new" THEN "create" ELSE "update"
  <2>1. /\ p \in Plans /\ p.after.content = arg.content /\ ~p.after.proxied
        /\ p.id = "new" \/ p.id \in Ids
    BY <1>1, PlannedWhat DEF ZoneInv
  <2>2. PluginInv'
    BY <1>0, <1>5, GotoKeeps DEF ZoneInv
  <2>3. calm' = calm /\ UNCHANGED <<req, cut>> /\ pc' = [pc EXCEPT ![c] = s] /\ out' = "none"
    BY <1>5 DEF Goto, still
  <2>4. /\ plan'[c] = p /\ pc'[c] = s
        /\ \A d \in Calls \ {c} : plan'[d] = plan[d] /\ pc'[d] = pc[d]
    BY <1>5, <2>3 DEF ZoneInv, ZoneTypeOK
  <2>5. ZoneTypeOK'
    BY <1>0, <1>5, <2>1, <2>2, <2>3 DEF ZoneInv, ZoneTypeOK, PluginInv
  <2>6. ZoneStage(c)'
    BY <1>1, <1>5, <2>1, <2>3, <2>4, DNSAssumption DEF ZoneStage
  <2>7. \A d \in Calls \ {c} : ZoneStage(d)'
    BY <2>3, <2>4 DEF ZoneInv, ZoneStage
  <2>8. TailnetOnly'
    <3>1. arg.content \in Tailnet
      BY <1>1 DEF Upsert
    <3> QED BY <2>1, <2>4, <3>1 DEF ZoneInv, TailnetOnly
  <2>9. PlanStands'
    <3>1. calm => \A d \in Calls \ {c} : plan[d] = NoPlan
      BY <1>0, PlansRun
    <3>2. PICK a : a = arg
      OBVIOUS
    <3>3. p \in Planned(a)' /\ req'[c].arg = a
      BY <1>0, <2>3, <3>2, SamePlans
    <3> QED BY <1>5, <2>3, <2>4, <3>1, <3>3 DEF PlanStands
  <2>10. ShownStands'
    BY <1>0, <1>5, <2>3, ShownKept DEF ZoneInv
  <2> QED BY <2>2, <2>5, <2>6, <2>7, <2>8, <2>9, <2>10 DEF ZoneInv
<1> QED BY <1>0, <1>1, <1>2, <1>3, <1>4, <1>5 DEF PlanUpsert, ComesTo

LEMMA ZoneStepKeeps == ASSUME ZoneInv, NEW c \in Calls, ZoneStep(c) PROVE ZoneInv'
<1>1. CASE GetZone(c)
  <2>1. c \in Running /\ pc[c] = "zone"
    BY <1>1 DEF GetZone, At, Running
  <2>2. CASE Goto(c, "find") /\ UNCHANGED zoneVars
    <3>1. PluginInv'
      BY <2>1, <2>2, GotoKeeps DEF ZoneInv
    <3>2. calm' = calm /\ UNCHANGED <<zone, plan, shown, req>> /\ pc' = [pc EXCEPT ![c] = "find"]
      BY <2>2 DEF Goto, still, zoneVars
    <3>3. ZoneTypeOK'
      BY <2>1, <3>1, <3>2 DEF ZoneInv, ZoneTypeOK, PluginInv
    <3>4. \A d \in Calls : ZoneStage(d)'
      <4>1. pc'[c] = "find" /\ \A d \in Calls \ {c} : pc'[d] = pc[d]
        BY <2>1, <3>2 DEF ZoneInv, ZoneTypeOK
      <4> QED BY <2>1, <3>2, <4>1 DEF ZoneInv, ZoneStage
    <3>5. TailnetOnly' /\ PlanStands'
      BY <3>2, SamePlans DEF ZoneInv, TailnetOnly, PlanStands
    <3> QED BY <3>1, <3>2, <3>3, <3>4, <3>5, ShownKept DEF ZoneInv
  <2> QED BY <1>1, <2>1, <2>2, ZoneFailureEnds DEF GetZone
<1>2. CASE PlanUpsert(c)
  BY <1>2, PlanUpsertKeeps
<1>3. CASE FindFails(c)
  BY <1>3, ZoneFailureEnds DEF FindFails, At, Running
<1>4. CASE UpdateDNSRecord(c)
  <2>1. c \in Running /\ plan[c].id \in Ids /\ plan[c].after \in Record
    BY <1>4, DNSAssumption DEF UpdateDNSRecord, At, Running, ZoneInv, ZoneStage, Plans
  <2>2. [zone EXCEPT ![plan[c].id] = plan[c].after] \in [Ids -> Record \cup {Unborn, Gone}]
    BY <2>1 DEF ZoneInv, ZoneTypeOK
  <2> QED BY <1>4, <2>1, <2>2, WriteEnds, ZoneFailureEnds DEF UpdateDNSRecord
<1>5. CASE CreateDNSRecord(c)
  <2>1. c \in Running /\ pc[c] = "create"
    BY <1>5 DEF CreateDNSRecord, At, Running
  <2>2. Wanted(c) \in Record
    <3>1. CASE req[c].op = "upsert_a_record"
      BY <2>1, <3>1 DEF Wanted, ZoneInv, ZoneStage, Plans
    <3>2. CASE req[c].op = "create_dns_record"
      <4>1. req[c].arg \in [content : Tailnet \cup Public, proxied : BOOLEAN]
        BY <2>1, <3>2 DEF ZoneInv, ZoneStage, ZoneArguments
      <4> QED BY <3>2, <4>1 DEF Wanted, Record
    <3> QED BY <2>1, <3>1, <3>2 DEF ZoneInv, ZoneStage
  <2>3. \A i \in Ids : [zone EXCEPT ![i] = Wanted(c)] \in [Ids -> Record \cup {Unborn, Gone}]
    BY <2>2 DEF ZoneInv, ZoneTypeOK
  <2> QED BY <1>5, <2>1, <2>3, WriteEnds, ZoneFailureEnds DEF CreateDNSRecord
<1>6. CASE DeleteDNSRecord(c)
  <2>1. c \in Running
    BY <1>6 DEF DeleteDNSRecord, At, Running
  <2>2. [zone EXCEPT ![req[c].arg.id] = Gone] \in [Ids -> Record \cup {Unborn, Gone}]
    BY DEF ZoneInv, ZoneTypeOK
  <2> QED BY <1>6, <2>1, <2>2, WriteEnds, ZoneFailureEnds DEF DeleteDNSRecord
<1>7. CASE CreateZone(c)
  BY <1>7, WriteEnds DEF CreateZone, At, Running, ZoneInv, ZoneTypeOK
<1>8. CASE List(c)
  <2>1. c \in Running
    BY <1>8 DEF List, At, Running
  <2>2. CASE Return(c, "ok") /\ UNCHANGED <<zone, shown>>
    <3>1. calm' = calm
      BY <2>2 DEF Return, Answers, still
    <3> QED BY <2>1, <2>2, <3>1, Returned, ShownKept DEF ZoneInv, ZoneTypeOK, ShownType, Outs
  <2> QED BY <1>8, <2>1, <2>2, ZoneFailureEnds DEF List
<1> QED BY <1>1, <1>2, <1>3, <1>4, <1>5, <1>6, <1>7, <1>8 DEF ZoneStep

LEMMA ZoneDiesKeeps == ASSUME ZoneInv, NEW c \in Calls, ZoneDies(c) PROVE ZoneInv'
<1>1. PluginInv'
  BY PanicsKeep DEF ZoneDies, ZoneInv
<1>2. /\ pc' = [d \in Calls |-> "idle"] /\ req' = [d \in Calls |-> None] /\ plan' = [d \in Calls |-> NoPlan]
      /\ shown' = {} /\ UNCHANGED zone
  BY DEF ZoneDies, Panics
<1>3. ZoneTypeOK'
  BY <1>1, <1>2 DEF ZoneInv, ZoneTypeOK, PluginInv
<1>4. \A d \in Calls : ZoneStage(d)'
  BY <1>2 DEF ZoneStage, None, NoPlan
<1> QED BY <1>1, <1>2, <1>3, <1>4 DEF ZoneInv, TailnetOnly, PlanStands, ShownStands

LEMMA ZoneHostKeeps == ASSUME ZoneInv, ZoneHost PROVE ZoneInv'
<1>1. PluginInv'
  BY HostKeeps DEF ZoneHost, ZoneInv
<1>2. UNCHANGED <<pc, req, calm, zone, plan, shown>>
  BY DEF ZoneHost, zoneVars, LoadWith, Unload
<1>3. ZoneTypeOK' /\ TailnetOnly' /\ \A d \in Calls : ZoneStage(d)'
  BY <1>1, <1>2 DEF ZoneInv, ZoneTypeOK, PluginInv, TailnetOnly, ZoneStage
<1>4. PlanStands'
  BY <1>2, SamePlans DEF ZoneInv, PlanStands
<1> QED BY <1>1, <1>2, <1>3, <1>4, ShownKept DEF ZoneInv

LEMMA ZoneKeeps == ASSUME ZoneInv, ZoneNext PROVE ZoneInv'
BY ZoneHostKeeps, ZoneStartKeeps, ZoneStepKeeps, ZoneDiesKeeps DEF ZoneNext

LEMMA ZoneStarts == ASSUME PluginInit, ZoneInit PROVE ZoneInv
<1>1. PluginInv
  BY CloudflareAssumption DEF PluginInit, PluginInv, PluginTypeOK, Running
<1>2. ZoneTypeOK
  BY <1>1 DEF PluginInv, PluginInit, ZoneInit, ZoneTypeOK
<1> QED BY <1>1, <1>2 DEF PluginInit, ZoneInit, ZoneInv, ZoneStage, None, NoPlan, TailnetOnly, PlanStands, ShownStands
\* What a write does, by how it is answered.
LEMMA WriteEffect ==
  ASSUME NEW c \in Calls, NEW z, Writes(c, z, ApiCode) \/ Writes(c, z, SdkCode)
  PROVE  /\ zone' \in {zone, z} /\ (out' \in Refusals => zone' = zone) /\ (out' = "ok" => zone' = z)
         /\ \E o \in Outs : Return(c, o)
<1>1. CASE zone' = z /\ Return(c, "ok")
  BY <1>1 DEF Return, Answers, Refusals, Outs
<1>2. ASSUME NEW f \in MayHaveHappened, zone' = z, Return(c, ApiCode(f)) \/ Return(c, SdkCode(f))
      PROVE  /\ out' \notin Refusals /\ out' # "ok" /\ \E o \in Outs : Return(c, o)
  <2>1. ApiCode(f) # "ok" /\ SdkCode(f) # "ok"
    BY DEF ApiCode, SdkCode
  <2> QED BY <1>2, <2>1, MaybeIsNoRefusal, CodesAreOuts DEF Return, Answers
<1>3. CASE Fails(c, ApiCode) \/ Fails(c, SdkCode)
  <2>1. \A f : ApiCode(f) # "ok" /\ SdkCode(f) # "ok"
    BY DEF ApiCode, SdkCode
  <2> QED BY <1>3, <2>1, CodesAreOuts DEF Fails, Return, Answers
<1> QED BY <1>1, <1>2, <1>3 DEF Writes

\* All that changes the zone, or answers a call "ok", is a step of a running one.
LEMMA OnlyStepsWriteZone ==
  ASSUME ZoneNext PROVE (UNCHANGED zone /\ out' # "ok") \/ \E c \in Calls : ZoneStep(c)
BY DEF ZoneNext, ZoneHost, ZoneStart, ZoneDies, zoneVars, LoadWith, Unload, Refuse, Preview,
       NoCredential, Answered, Begin, Panics

\* A step of c is of c alone.
LEMMA StepIsOf ==
  ASSUME ZoneInv, NEW c \in Calls, ZoneStep(c)
  PROVE  c \in Running /\ calm' = calm /\ \A d \in Calls \ {c} : pc'[d] = pc[d]
<1>1. c \in Running
  BY DEF ZoneStep, GetZone, PlanUpsert, FindFails, UpdateDNSRecord, CreateDNSRecord, DeleteDNSRecord,
         CreateZone, List, At, Running
<1>2. (\E s : Goto(c, s)) \/ \E o : Return(c, o)
  BY WriteEffect DEF ZoneStep, GetZone, PlanUpsert, FindFails, UpdateDNSRecord, CreateDNSRecord,
         DeleteDNSRecord, CreateZone, List, Fails
<1> QED BY <1>1, <1>2 DEF Goto, Return, Answers, still, ZoneInv, ZoneTypeOK

\* What becomes public or proxied, a create_dns_record was asked to make so.
LEMMA PublishedByCreate ==
  ASSUME ZoneInv, ZoneNext, NEW i \in Ids, zone'[i] \in Record, zone'[i] # zone[i],
         zone'[i].proxied \/ zone'[i].content \in Public
  PROVE  \E c \in Calls : pc[c] = "create" /\ req[c].op = "create_dns_record"
<1>1. PICK c \in Calls : ZoneStep(c)
  BY OnlyStepsWriteZone
<1>2. plan[c] # NoPlan => plan[c].after.content \notin Public /\ ~plan[c].after.proxied
  BY DNSAssumption DEF ZoneInv, TailnetOnly
<1>3. CASE GetZone(c) \/ PlanUpsert(c) \/ FindFails(c) \/ List(c)
  BY <1>3 DEF GetZone, PlanUpsert, FindFails, List, Fails, zoneVars
<1>4. CASE UpdateDNSRecord(c)
  <2>1. plan[c] # NoPlan
    BY <1>4, DNSAssumption DEF UpdateDNSRecord, At, ZoneInv, ZoneStage, Plans, NoPlan
  <2>2. zone' \in {zone, [zone EXCEPT ![plan[c].id] = plan[c].after]}
    BY <1>4, WriteEffect DEF UpdateDNSRecord, Fails
  <2> QED BY <1>2, <2>1, <2>2 DEF ZoneInv, ZoneTypeOK
<1>5. CASE CreateDNSRecord(c)
  <2>1. pc[c] = "create"
    BY <1>5 DEF CreateDNSRecord, At
  <2>2. CASE req[c].op = "upsert_a_record"
    <3>1. plan[c] # NoPlan
      BY <2>1, <2>2, DNSAssumption DEF ZoneInv, ZoneStage, NoPlan
    <3>2. PICK j \in Ids : zone' \in {zone, [zone EXCEPT ![j] = plan[c].after]}
      BY <1>5, <2>2, WriteEffect DEF CreateDNSRecord, Fails, Wanted
    <3> QED BY <1>2, <3>1, <3>2 DEF ZoneInv, ZoneTypeOK
  <2> QED BY <2>1, <2>2 DEF ZoneInv, ZoneStage
<1>6. CASE DeleteDNSRecord(c)
  <2>1. zone' \in {zone, [zone EXCEPT ![req[c].arg.id] = Gone]}
    BY <1>6, WriteEffect DEF DeleteDNSRecord, Fails
  <2> QED BY <2>1, DNSAssumption DEF ZoneInv, ZoneTypeOK
<1>7. CASE CreateZone(c)
  BY <1>7, WriteEffect DEF CreateZone
<1> QED BY <1>1, <1>3, <1>4, <1>5, <1>6, <1>7 DEF ZoneStep

\* An upsert that succeeds while calm, in one step, from what was planned.
LEMMA UpsertLeavesOne ==
  ASSUME ZoneInv, ZoneNext, calm', NEW c \in Calls, Upserted(c)
  PROVE  /\ \E i \in Ids :
              LET arg == req[c].arg IN
              /\ {j \in Ids : zone'[j] \in Record} = {i}
              /\ zone'[i].content = arg.content /\ ~zone'[i].proxied
              /\ zone'[i].ttl = IF arg.ttl # 0 THEN arg.ttl
                                ELSE IF zone[i] \in Record THEN zone[i].ttl ELSE 1
         /\ \A s \in shown : s.arg = req[c].arg =>
              s.action = IF pc[c] = "find" THEN "unchanged" ELSE Action(plan[c])
<1> DEFINE arg == req[c].arg
<1>1. ZoneStep(c) /\ calm
  <2>1. PICK d \in Calls : ZoneStep(d)
    BY OnlyStepsWriteZone DEF Upserted
  <2> QED BY <2>1, StepIsOf DEF Upserted, Running
<1>2. arg \in Upsert /\ req[c].op = "upsert_a_record" /\ out' = "ok" /\ ZoneTypeOK
  BY DEF Upserted, ZoneInv, ZoneStage
<1>3. ASSUME NEW p \in Planned(arg), NEW s \in shown, s.arg = arg PROVE s.action = Action(p)
  <2>1. Planned(arg) = {p}
    BY <1>2, PlannedWhat
  <2> QED BY <1>1, <1>3, <2>1 DEF ZoneInv, ShownStands
<1>4. CASE GetZone(c) \/ FindFails(c) \/ List(c) \/ DeleteDNSRecord(c) \/ CreateZone(c)
  <2>1. GetZone(c) \/ FindFails(c)
    BY <1>2, <1>4 DEF List, DeleteDNSRecord, CreateZone, At, ZoneInv, ZoneStage, ZoneReads
  <2>2. \A f : ApiCode(f) # "ok"
    BY DEF ApiCode
  <2> QED BY <1>2, <2>1, <2>2 DEF GetZone, FindFails, Fails, Return, Answers, Goto
<1>5. CASE PlanUpsert(c)
  <2>1. PICK p \in Planned(arg) : Action(p) = "unchanged"
    BY <1>2, <1>5 DEF PlanUpsert, ComesTo, Return, Answers, Goto
  <2>2. /\ p.id \in Ids /\ Records = {p.id} /\ zone[p.id] = p.after
        /\ p.after.content = arg.content /\ ~p.after.proxied
        /\ p.after.ttl = IF arg.ttl = 0 THEN zone[p.id].ttl ELSE arg.ttl
    BY <1>2, <2>1, PlannedWhat DEF Action
  <2>3. zone' = zone /\ pc[c] = "find" /\ zone[p.id] \in Record
    BY <1>5, <2>2 DEF PlanUpsert, At, Records
  <2> QED BY <1>3, <2>1, <2>2, <2>3 DEF Records
<1>6. CASE UpdateDNSRecord(c)
  <2>1. pc[c] = "update"
    BY <1>6 DEF UpdateDNSRecord, At
  <2>2. plan[c].id \in Ids /\ plan[c] # NoPlan
    BY <2>1, DNSAssumption DEF ZoneInv, ZoneStage, NoPlan
  <2>3. plan[c] \in Planned(arg)
    BY <1>1, <2>2 DEF ZoneInv, PlanStands
  <2>4. /\ Records = {plan[c].id} /\ plan[c].after.content = arg.content /\ ~plan[c].after.proxied
        /\ plan[c].after.ttl = IF arg.ttl = 0 THEN zone[plan[c].id].ttl ELSE arg.ttl
        /\ plan[c].after \in Record
    BY <1>2, <2>2, <2>3, PlannedWhat, DNSAssumption DEF Plans
  <2>5. ~Fails(c, ApiCode)
    BY <1>2 DEF ApiCode, Fails, Return, Answers
  <2>6. zone' = [zone EXCEPT ![plan[c].id] = plan[c].after]
    BY <1>2, <1>6, <2>5, WriteEffect DEF UpdateDNSRecord
  <2>7. zone'[plan[c].id] = plan[c].after /\ \A j \in Ids \ {plan[c].id} : zone'[j] = zone[j]
    BY <1>2, <2>2, <2>6 DEF ZoneTypeOK
  <2>8. {j \in Ids : zone'[j] \in Record} = {plan[c].id}
    BY <2>2, <2>4, <2>7 DEF Records
  <2>9. zone[plan[c].id] \in Record
    BY <2>2, <2>4 DEF Records
  <2> QED BY <1>3, <2>1, <2>2, <2>3, <2>4, <2>7, <2>8, <2>9
<1>7. CASE CreateDNSRecord(c)
  <2>1. pc[c] = "create"
    BY <1>7 DEF CreateDNSRecord, At
  <2>2. plan[c].id = "new" /\ plan[c] # NoPlan /\ plan[c].id \notin Ids
    BY <1>2, <2>1, DNSAssumption DEF ZoneInv, ZoneStage, NoPlan
  <2>3. plan[c] \in Planned(arg)
    BY <1>1, <2>2 DEF ZoneInv, PlanStands
  <2>4. /\ Records = {} /\ plan[c].after.content = arg.content /\ ~plan[c].after.proxied
        /\ plan[c].after.ttl = IF arg.ttl = 0 THEN 1 ELSE arg.ttl
    BY <1>2, <2>2, <2>3, PlannedWhat
  <2>5. plan[c].after \in Record
    BY <2>2, <2>3, <1>2, PlannedWhat DEF Plans
  <2>6. ~Fails(c, SdkCode) /\ Wanted(c) = plan[c].after
    BY <1>2 DEF SdkCode, Fails, Return, Answers, Wanted
  <2>7. PICK i \in Ids : zone[i] = Unborn /\ zone' = [zone EXCEPT ![i] = plan[c].after]
    BY <1>2, <1>7, <2>6, WriteEffect DEF CreateDNSRecord
  <2>8. zone'[i] = plan[c].after /\ \A j \in Ids \ {i} : zone'[j] = zone[j]
    BY <1>2, <2>7 DEF ZoneTypeOK
  <2>9. {j \in Ids : zone'[j] \in Record} = {i} /\ zone[i] \notin Record
    BY <2>4, <2>5, <2>7, <2>8, DNSAssumption DEF Records
  <2> QED BY <1>3, <2>1, <2>3, <2>4, <2>8, <2>9
<1> QED BY <1>1, <1>4, <1>5, <1>6, <1>7 DEF ZoneStep

\* What changes the zone is a request of a call that was to send one, and ends it.
LEMMA SendersWrite ==
  ASSUME ZoneInv, ZoneNext, zone' # zone PROVE \E c \in Calls : Sends(c) /\ pc'[c] # pc[c]
<1>1. PICK c \in Calls : ZoneStep(c)
  BY OnlyStepsWriteZone
<1>2. ASSUME NEW o, Return(c, o), pc[c] # "idle" PROVE pc'[c] # pc[c]
  BY <1>2 DEF Return, Answers, ZoneInv, ZoneTypeOK
<1>3. CASE GetZone(c) \/ PlanUpsert(c) \/ FindFails(c) \/ List(c)
  BY <1>3 DEF GetZone, PlanUpsert, FindFails, List, Fails, zoneVars
<1>4. CASE UpdateDNSRecord(c) \/ CreateDNSRecord(c) \/ DeleteDNSRecord(c) \/ CreateZone(c)
  <2>1. pc[c] \in {"update", "create", "delete", "new"} /\ \E o : Return(c, o)
    BY <1>4, WriteEffect DEF UpdateDNSRecord, CreateDNSRecord, DeleteDNSRecord, CreateZone, At, Fails
  <2>2. req[c].op \in ZoneWrites
    BY <2>1 DEF ZoneInv, ZoneStage, ZoneWrites
  <2> QED BY <1>2, <2>1, <2>2 DEF Sends
<1> QED BY <1>1, <1>3, <1>4 DEF ZoneStep

\* What is refused, and what is a preview, changed nothing in the zone.
LEMMA ZoneRefusalsAreTrue ==
  ASSUME ZoneInv, ZoneNext, out' \in Refusals PROVE UNCHANGED zone
<1>1. ASSUME NEW c \in Calls, ZoneStep(c) PROVE UNCHANGED zone
  BY <1>1, WriteEffect DEF ZoneStep, GetZone, PlanUpsert, FindFails, UpdateDNSRecord, CreateDNSRecord,
     DeleteDNSRecord, CreateZone, List, Fails, zoneVars
<1> QED BY <1>1, OnlyStepsWriteZone
-----------------------------------------------------------------------------
(* The deploys.                                                            *)

VercelPlans == [steps : SUBSET Vercel!Steps, left : SUBSET Vercel!Steps, dry : BOOLEAN,
                profile : Profiles \cup {NoFile}, token : Tokens \cup {NoToken},
                asShown : SUBSET [was : Trees, dirty : BOOLEAN]]
VercelTypeOK == /\ Vercel!TypeOK
                /\ vcPc = [c \in Calls |-> vcPc[c]] /\ vcPlan \in [Calls -> VercelPlans]

\* A step that is no longer left has been done, and nobody else undid it; linking
\* is never undone.
Prepared(c) ==
  /\ vcPc[c] = "git" => vcPlan[c].left = vcPlan[c].steps
  /\ vcPc[c] # "idle" => "deploy" \in vcPlan[c].left
  /\ vcPc[c] # "idle" /\ "link" \notin vcPlan[c].left => linked
  /\ (vcPc[c] = "run" /\ c \notin disturbed /\ "build" \in vcPlan[c].steps \ vcPlan[c].left)
        => built = tree

\* What was shown as clean was the commit it named; and what a run was shown as, if
\* it is clean, is what is there.
ShownAsItWas(p) == p.was \in Trees /\ (~p.preview.git.dirty => p.was = p.preview.git.commit)
AsShown ==
  /\ \A p \in vcShown : ShownAsItWas(p)
  /\ \A c \in Calls : vcPc[c] = "run" /\ c \notin disturbed =>
       \A s \in vcPlan[c].asShown : ~s.dirty => s.was = tree

\* A call runs with the token its plugin holds, unless it was unloaded under.
TokenHeld ==
  /\ ~loaded => Vercel!Running \subseteq vcCut
  /\ \A c \in Vercel!Running \ vcCut : vcPlan[c].token = token

VercelInv == /\ VercelTypeOK /\ (\A c \in Calls : Prepared(c)) /\ AsShown /\ TokenHeld
             /\ Vercel!URLIsTheDeployments

VercelOut == {"none", "ok", "preview", "failed"}

\* The step that is due is one that is left, and none that is left is before it.
LEMMA DueIsLeft ==
  ASSUME NEW c \in Calls, vcPlan[c].left \subseteq Vercel!Steps, vcPlan[c].left # {}
  PROVE  /\ Vercel!Due(c) \in vcPlan[c].left
         /\ Vercel!Due(c) = "deploy" => vcPlan[c].left = {"deploy"}
<1> DEFINE rank == Vercel!Rank
<1>1. /\ rank["preflight"] = 1 /\ rank["build"] = 2 /\ rank["link"] = 3 /\ rank["deploy"] = 4
  BY DEF Vercel!Rank
<1> HIDE DEF rank
<1>2. \E s \in vcPlan[c].left : \A t \in vcPlan[c].left : rank[s] <= rank[t]
  <2>1. CASE "preflight" \in vcPlan[c].left
    BY <1>1, <2>1 DEF Vercel!Steps
  <2>2. CASE "preflight" \notin vcPlan[c].left /\ "build" \in vcPlan[c].left
    BY <1>1, <2>2 DEF Vercel!Steps
  <2>3. CASE vcPlan[c].left \subseteq {"link", "deploy"} /\ "link" \in vcPlan[c].left
    BY <1>1, <2>3 DEF Vercel!Steps
  <2>4. CASE vcPlan[c].left \subseteq {"deploy"}
    BY <1>1, <2>4 DEF Vercel!Steps
  <2> QED BY <2>1, <2>2, <2>3, <2>4 DEF Vercel!Steps
<1>3. /\ Vercel!Due(c) \in vcPlan[c].left
      /\ \A t \in vcPlan[c].left : rank[Vercel!Due(c)] <= rank[t]
  BY <1>2 DEF Vercel!Due, rank
<1> QED BY <1>1, <1>3 DEF Vercel!Steps

\* The smallest and the largest of some indices are of them.
LEMMA MinIsThere ==
  ASSUME NEW n \in Nat, NEW S \in SUBSET (1 .. n), S # {}
  PROVE  Vercel!Min(S) \in S /\ \A y \in S : Vercel!Min(S) <= y
<1>1. S \subseteq Nat
  OBVIOUS
<1>2. PICK x \in S : \A y \in S : <<y, x>> \notin OpToRel(<, Nat)
  BY <1>1, NatLessThanWellFounded, WFMin
<1>3. \A y \in S : ~(y < x)
  BY <1>1, <1>2 DEF OpToRel
<1>4. \A y \in S : x <= y
  BY <1>3
<1> QED BY <1>4 DEF Vercel!Min

LEMMA MaxIsThere ==
  ASSUME NEW n \in Nat, NEW S \in SUBSET (1 .. n), S # {}
  PROVE  Vercel!Max(S) \in S
<1> DEFINE T == {n - x : x \in S}
<1>1. T \subseteq Nat /\ T # {}
  <2>1. \A x \in S : n - x \in Nat
    OBVIOUS
  <2>2. T \subseteq Nat
    BY <2>1
  <2>3. PICK x \in S : TRUE
    OBVIOUS
  <2>4. n - x \in T
    BY <2>3
  <2> QED BY <2>2, <2>4
<1>2. PICK t \in T : \A u \in T : <<u, t>> \notin OpToRel(<, Nat)
  BY <1>1, NatLessThanWellFounded, WFMin
<1>3. \A u \in T : ~(u < t)
  BY <1>1, <1>2 DEF OpToRel
<1>4. PICK x \in S : t = n - x
  OBVIOUS
<1>5. \A y \in S : x >= y
  BY <1>3, <1>4
<1> QED BY <1>5 DEF Vercel!Max

\* Which URL a line gives: none if it has none that is allowed, one that is
\* allowed, and the first if all are.
LEMMA PreferredIs ==
  ASSUME NEW l \in Vercel!Line, NEW all \in BOOLEAN
  PROVE  /\ \A j \in DOMAIN l.urls : l.urls[j] \in Vercel!URLs
         /\ (Vercel!preferredURL(l, all) = "none") =
               (\A j \in DOMAIN l.urls : ~all /\ l.urls[j] = "dashboard")
         /\ Vercel!preferredURL(l, all) # "none" =>
               /\ \E j \in DOMAIN l.urls : l.urls[j] = Vercel!preferredURL(l, all)
               /\ all \/ Vercel!preferredURL(l, all) # "dashboard"
               /\ all => Vercel!preferredURL(l, all) = l.urls[1]
<1> DEFINE found == {i \in DOMAIN l.urls : all \/ l.urls[i] # "dashboard"}
           u == Vercel!preferredURL(l, all)
<1>1. l.urls \in {<<>>} \cup {<<x>> : x \in Vercel!URLs} \cup (Vercel!URLs \X Vercel!URLs)
  BY DEF Vercel!Line
<1>2. PICK n \in Nat : DOMAIN l.urls = 1 .. n /\ \A j \in 1 .. n : l.urls[j] \in Vercel!URLs
  <2>1. CASE l.urls = <<>>
    <3>1. DOMAIN l.urls = 1 .. 0 /\ 0 \in Nat /\ \A j \in 1 .. 0 : l.urls[j] \in Vercel!URLs
      BY <2>1
    <3> QED BY <3>1
  <2>2. ASSUME NEW x \in Vercel!URLs, l.urls = <<x>>
        PROVE  \E n \in Nat : DOMAIN l.urls = 1 .. n /\ \A j \in 1 .. n : l.urls[j] \in Vercel!URLs
    <3>1. DOMAIN l.urls = 1 .. 1 /\ 1 \in Nat /\ \A j \in 1 .. 1 : l.urls[j] \in Vercel!URLs
      BY <2>2
    <3> QED BY <3>1
  <2>3. ASSUME NEW x \in Vercel!URLs, NEW y \in Vercel!URLs, l.urls = <<x, y>>
        PROVE  \E n \in Nat : DOMAIN l.urls = 1 .. n /\ \A j \in 1 .. n : l.urls[j] \in Vercel!URLs
    <3>1. DOMAIN l.urls = 1 .. 2 /\ 2 \in Nat /\ \A j \in 1 .. 2 : l.urls[j] \in Vercel!URLs
      BY <2>3
    <3> QED BY <3>1
  <2>4. \/ l.urls = <<>> \/ \E x \in Vercel!URLs : l.urls = <<x>>
        \/ \E x \in Vercel!URLs, y \in Vercel!URLs : l.urls = <<x, y>>
    BY <1>1
  <2> QED BY <2>1, <2>2, <2>3, <2>4
<1>3. u = IF found = {} THEN "none" ELSE l.urls[Vercel!Min(found)]
  BY DEF Vercel!preferredURL
<1>4. ASSUME found # {} PROVE Vercel!Min(found) \in found /\ \A y \in found : Vercel!Min(found) <= y
  BY <1>2, <1>4, MinIsThere
<1>5. "none" \notin Vercel!URLs
  BY DEF Vercel!URLs
<1>6. CASE found = {}
  BY <1>2, <1>3, <1>6
<1>7. CASE found # {}
  <2>1. u = l.urls[Vercel!Min(found)] /\ u # "none" /\ Vercel!Min(found) \in DOMAIN l.urls
    BY <1>2, <1>3, <1>4, <1>5, <1>7
  <2>2. ASSUME all PROVE Vercel!Min(found) = 1
    <3>1. 1 \in found /\ Vercel!Min(found) \in 1 .. n
      BY <1>2, <1>4, <1>7, <2>2
    <3>2. Vercel!Min(found) <= 1
      BY <1>4, <1>7, <3>1
    <3> HIDE DEF found
    <3> QED BY <1>2, <3>1, <3>2
  <2> QED BY <1>2, <1>4, <1>7, <2>1, <2>2
<1> QED BY <1>6, <1>7
\* The lines that hold a URL, and what URLIsTheDeployments says of some lines.
Holding(lines, u) == {i \in DOMAIN lines : u \in {lines[i].urls[j] : j \in DOMAIN lines[i].urls}}
URLOf(lines, u) ==
  /\ (u = "none") = (Holding(lines, "deployment") \cup Holding(lines, "dashboard") = {})
  /\ u # "none" => Holding(lines, u) # {}
  /\ u = "dashboard" => \/ Holding(lines, "deployment") = {}
                        \/ \E i \in Holding(lines, "dashboard") :
                             lines[i].production /\ lines[i].urls[1] = "dashboard"

\* The first pass finds what a line about production names, the second a
\* deployment, the third anything.
LEMMA ExtractedIs ==
  ASSUME NEW lines \in Outputs
  PROVE  /\ URLOf(lines, Vercel!extractDeploymentURL(lines))
         /\ Vercel!extractDeploymentURL(lines) \in {"deployment", "dashboard", "none"}
<1> DEFINE Leading(i) == Vercel!preferredURL(lines[i], TRUE)
           Own(i) == Vercel!preferredURL(lines[i], FALSE)
           Promoted(i) == IF lines[i].production THEN Leading(i) ELSE "none"
           production == Vercel!Pass(lines, LAMBDA l : IF l.production THEN Vercel!preferredURL(l, TRUE) ELSE "none")
           deployment == Vercel!Pass(lines, LAMBDA l : Vercel!preferredURL(l, FALSE))
           any == Vercel!Pass(lines, LAMBDA l : Vercel!preferredURL(l, TRUE))
<1>1. lines \in Seq(Vercel!Line)
  BY SitesAssumption
<1>2. PICK n \in Nat : DOMAIN lines = 1 .. n
  BY <1>1
<1>3. \A i \in DOMAIN lines : lines[i] \in Vercel!Line
  BY <1>1
<1>4. \A S \in SUBSET DOMAIN lines : S # {} => Vercel!Max(S) \in S
  BY <1>2, MaxIsThere
<1>5. IF \A i \in DOMAIN lines : Promoted(i) = "none" THEN production = "none"
      ELSE \E i \in DOMAIN lines : production = Promoted(i) /\ Promoted(i) # "none"
  <2> DEFINE hits == {i \in DOMAIN lines : Promoted(i) # "none"}
  <2>1. production = IF hits = {} THEN "none" ELSE Promoted(Vercel!Max(hits))
    BY DEF Vercel!Pass
  <2>2. hits # {} => Vercel!Max(hits) \in hits
    BY <1>4
  <2> QED BY <2>1, <2>2
<1>6. IF \A i \in DOMAIN lines : Own(i) = "none" THEN deployment = "none"
      ELSE \E i \in DOMAIN lines : deployment = Own(i) /\ Own(i) # "none"
  <2> DEFINE hits == {i \in DOMAIN lines : Own(i) # "none"}
  <2>1. deployment = IF hits = {} THEN "none" ELSE Own(Vercel!Max(hits))
    BY DEF Vercel!Pass
  <2>2. hits # {} => Vercel!Max(hits) \in hits
    BY <1>4
  <2> QED BY <2>1, <2>2
<1>7. IF \A i \in DOMAIN lines : Leading(i) = "none" THEN any = "none"
      ELSE \E i \in DOMAIN lines : any = Leading(i) /\ Leading(i) # "none"
  <2> DEFINE hits == {i \in DOMAIN lines : Leading(i) # "none"}
  <2>1. any = IF hits = {} THEN "none" ELSE Leading(Vercel!Max(hits))
    BY DEF Vercel!Pass
  <2>2. hits # {} => Vercel!Max(hits) \in hits
    BY <1>4
  <2> QED BY <2>1, <2>2
<1>8. Vercel!extractDeploymentURL(lines) =
        IF production # "none" THEN production ELSE IF deployment # "none" THEN deployment ELSE any
  BY DEF Vercel!extractDeploymentURL
<1> HIDE DEF production, deployment, any
<1>9. ASSUME NEW i \in DOMAIN lines
      PROVE  /\ \A j \in DOMAIN lines[i].urls : lines[i].urls[j] \in {"deployment", "dashboard"}
             /\ (Leading(i) = "none") = (DOMAIN lines[i].urls = {})
             /\ (Own(i) = "none") = (\A j \in DOMAIN lines[i].urls : lines[i].urls[j] = "dashboard")
             /\ Leading(i) # "none" => /\ \E j \in DOMAIN lines[i].urls : lines[i].urls[j] = Leading(i)
                                   /\ Leading(i) = lines[i].urls[1]
             /\ Own(i) # "none" => /\ \E j \in DOMAIN lines[i].urls : lines[i].urls[j] = Own(i)
                                   /\ Own(i) # "dashboard"
  BY <1>3, PreferredIs DEF Vercel!URLs
<1> HIDE DEF Leading, Own
<1>10. \A i \in DOMAIN lines : Leading(i) # "none" => i \in Holding(lines, Leading(i)) /\ Leading(i) \in {"deployment", "dashboard"}
  BY <1>9 DEF Holding
<1>11. \A i \in DOMAIN lines : Own(i) # "none" => i \in Holding(lines, Own(i)) /\ Own(i) = "deployment"
  BY <1>9 DEF Holding
<1>12. \A i \in Holding(lines, "deployment") \cup Holding(lines, "dashboard") : i \in DOMAIN lines /\ Leading(i) # "none"
  BY <1>9 DEF Holding
<1>13. \A i \in Holding(lines, "deployment") : Own(i) # "none"
  BY <1>9 DEF Holding
<1>14. CASE production # "none"
  <2>1. PICK i \in DOMAIN lines : lines[i].production /\ production = Leading(i)
    BY <1>5, <1>14
  <2> QED BY <1>8, <1>9, <1>10, <1>14, <2>1 DEF URLOf
<1>15. CASE production = "none" /\ deployment # "none"
  <2>1. PICK i \in DOMAIN lines : deployment = Own(i)
    BY <1>6, <1>15
  <2> QED BY <1>8, <1>11, <1>15, <2>1 DEF URLOf
<1>16. CASE production = "none" /\ deployment = "none"
  <2>1. Holding(lines, "deployment") = {}
    BY <1>6, <1>12, <1>13, <1>16
  <2>2. CASE any = "none"
    <3>1. \A i \in DOMAIN lines : Leading(i) = "none"
      BY <1>7, <2>2
    <3> QED BY <1>8, <1>12, <1>16, <2>1, <2>2, <3>1 DEF URLOf
  <2>3. CASE any # "none"
    <3>1. PICK i \in DOMAIN lines : any = Leading(i)
      BY <1>7, <2>3
    <3> QED BY <1>8, <1>10, <1>16, <2>1, <2>3, <3>1 DEF URLOf
  <2> QED BY <2>2, <2>3
<1> QED BY <1>14, <1>15, <1>16

LEMMA URLByURLOf == /\ Vercel!URLIsTheDeployments = URLOf(printed, url)
                    /\ (Vercel!URLIsTheDeployments)' = URLOf(printed', url')
BY DEF Vercel!URLIsTheDeployments, URLOf, Holding

LEMMA NothingPrinted == URLOf(<<>>, "none")
BY DEF URLOf, Holding
LEMMA EffectIs ==
  ASSUME VercelTypeOK, NEW c \in Calls, NEW s \in Vercel!Steps, Vercel!Effect(c, s) \/ Vercel!Partly(c, s)
  PROVE  /\ linked' \in BOOLEAN /\ (linked => linked') /\ built' \in Trees \cup {Unbuilt}
         /\ s # "build" => built' = built
         /\ deployed' \subseteq {[tree |-> tree, built |-> built, linked |-> linked]}
         /\ s # "deploy" => deployed' = {}
         /\ Vercel!Effect(c, s) => (s = "build" => built' = tree) /\ (s = "link" => linked')
<1> USE DEF VercelTypeOK, Vercel!TypeOK, Vercel!Effect, Vercel!Partly, Vercel!Steps
<1>1. CASE s = "preflight"
  BY <1>1
<1>2. CASE s = "build"
  BY <1>2
<1>3. CASE s = "link"
  BY <1>3
<1>4. CASE s = "deploy"
  BY <1>4
<1> QED BY <1>1, <1>2, <1>3, <1>4

\* What the text of an answer holds of the token.
LEMMA SaidIs ==
  ASSUME VercelInv, NEW c \in Vercel!Running, NEW t \in Vercel!Said(c)
  PROVE  t \in Tokens \cup {NoToken} /\ (c \notin vcCut => t = NoToken)
<1>1. c \in Calls
  BY DEF Vercel!Running
<1>2. vcPlan[c].token \in Tokens \cup {NoToken}
  BY <1>1 DEF VercelInv, VercelTypeOK, VercelPlans
<1> QED BY <1>2 DEF VercelInv, TokenHeld, Vercel!Said, Vercel!Text

\* What the host, the operator and a call that is answered at once do.
LEMMA AroundKeeps ==
  ASSUME VercelInv,
         Vercel!Load \/ Vercel!Unload \/ Vercel!Edit \/ \E c \in Calls : Vercel!Refuse(c) \/ Vercel!Read(c)
  PROVE  VercelInv'
<1> USE DEF Vercel!Silent, Vercel!Says, Vercel!hostVars, Vercel!machine
<1>1. printed' = <<>> /\ url' = "none" /\ vcSaid' = NoToken /\ deployed' = {}
      /\ UNCHANGED <<linked, built, vcPc, vcPlan>>
  BY DEF Vercel!Load, Vercel!Unload, Vercel!Edit, Vercel!Refuse, Vercel!Read
<1>2. (Vercel!URLIsTheDeployments)'
  BY <1>1, URLByURLOf, NothingPrinted
<1>3. Vercel!Running' = Vercel!Running
  BY <1>1 DEF Vercel!Running
<1>4. CASE Vercel!Load
  <2> USE <1>4 DEF Vercel!Load
  <2>1. VercelTypeOK'
    BY <1>1 DEF VercelInv, VercelTypeOK, Vercel!TypeOK
  <2>2. (\A c \in Calls : Prepared(c)') /\ AsShown'
    BY <1>1 DEF VercelInv, Prepared, AsShown
  <2>3. TokenHeld'
    BY <1>1, <1>3 DEF VercelInv, TokenHeld
  <2> QED BY <1>2, <2>1, <2>2, <2>3 DEF VercelInv
<1>5. CASE Vercel!Unload
  <2> USE <1>5 DEF Vercel!Unload
  <2>1. VercelTypeOK'
    BY <1>1 DEF VercelInv, VercelTypeOK, Vercel!TypeOK, Vercel!Running
  <2>2. (\A c \in Calls : Prepared(c)') /\ AsShown'
    BY <1>1 DEF VercelInv, Prepared, AsShown
  <2>3. TokenHeld'
    BY <1>1, <1>3 DEF VercelInv, TokenHeld
  <2> QED BY <1>2, <2>1, <2>2, <2>3 DEF VercelInv
<1>6. CASE Vercel!Edit
  <2> USE <1>6 DEF Vercel!Edit
  <2>1. VercelTypeOK'
    BY <1>1 DEF VercelInv, VercelTypeOK, Vercel!TypeOK, Vercel!Running
  <2>2. (\A c \in Calls : Prepared(c)') /\ AsShown'
    BY <1>1 DEF VercelInv, Prepared, AsShown, Vercel!Running
  <2>3. TokenHeld'
    BY <1>1, <1>3 DEF VercelInv, TokenHeld
  <2> QED BY <1>2, <2>1, <2>2, <2>3 DEF VercelInv
<1>7. ASSUME NEW c \in Calls, Vercel!Refuse(c) \/ Vercel!Read(c) PROVE VercelInv'
  <2> USE <1>7 DEF Vercel!Refuse, Vercel!Read
  <2>1. VercelTypeOK'
    BY <1>1 DEF VercelInv, VercelTypeOK, Vercel!TypeOK
  <2>2. (\A d \in Calls : Prepared(d)') /\ AsShown'
    BY <1>1 DEF VercelInv, Prepared, AsShown
  <2>3. TokenHeld'
    BY <1>1, <1>3 DEF VercelInv, TokenHeld
  <2> QED BY <1>2, <2>1, <2>2, <2>3 DEF VercelInv
<1> QED BY <1>4, <1>5, <1>6, <1>7

LEMMA PlanDeployKeeps == ASSUME VercelInv, NEW c \in Calls, Vercel!PlanDeploy(c) PROVE VercelInv'
<1> USE DEF Vercel!Silent, Vercel!Says, Vercel!hostVars, Vercel!machine, Vercel!PlanDeploy
<1>1. PICK dry \in BOOLEAN :
        vcPlan' = [vcPlan EXCEPT ![c] = [Vercel!NoPlan EXCEPT !.steps = Vercel!StepsOf(file),
                                            !.left = Vercel!StepsOf(file), !.dry = dry,
                                            !.profile = file, !.token = token]]
  OBVIOUS
<1>2. Vercel!StepsOf(file) \subseteq Vercel!Steps /\ "deploy" \in Vercel!StepsOf(file)
      /\ (~linked => "link" \in Vercel!StepsOf(file)) /\ file \in Profiles
  <2>1. file \in Profiles
    BY DEF VercelInv, VercelTypeOK, Vercel!TypeOK
  <2>2. file.commands \subseteq {"preflight", "build"}
    BY <2>1, SitesAssumption DEF Vercel!Profile
  <2> QED BY <2>1, <2>2 DEF Vercel!StepsOf, Vercel!Steps
<1> DEFINE p == [steps |-> Vercel!StepsOf(file), left |-> Vercel!StepsOf(file), dry |-> dry, profile |-> file,
                 token |-> token, asShown |-> {}]
<1>3. vcPlan' = [vcPlan EXCEPT ![c] = p]
  BY <1>1 DEF Vercel!NoPlan
<1>4. p \in VercelPlans
  BY <1>2 DEF VercelPlans, VercelInv, VercelTypeOK, Vercel!TypeOK
<1>5. /\ p.left = p.steps /\ p.token = token /\ p.steps = Vercel!StepsOf(file)
  OBVIOUS
<1> HIDE DEF p
<1>6. /\ vcPlan'[c] = p /\ vcPc'[c] = "git" /\ vcPc[c] = "idle"
      /\ \A d \in Calls \ {c} : vcPlan'[d] = vcPlan[d] /\ vcPc'[d] = vcPc[d]
  BY <1>3 DEF VercelInv, VercelTypeOK, Vercel!TypeOK, Vercel!Arrives, Vercel!Running
<1>7. VercelTypeOK'
  <2>1. vcPlan' \in [Calls -> VercelPlans] /\ vcPc' \in [Calls -> {"idle", "git", "run"}]
    BY <1>3, <1>4 DEF VercelInv, VercelTypeOK, Vercel!TypeOK
  <2>2. \A d \in Calls : /\ vcPlan'[d].left \subseteq vcPlan'[d].steps /\ vcPlan'[d].steps \subseteq Vercel!Steps
                         /\ vcPc'[d] = "run" => "deploy" \in vcPlan'[d].left /\ ~vcPlan'[d].dry
    BY <1>2, <1>5, <1>6 DEF VercelInv, VercelTypeOK, Vercel!TypeOK
  <2> QED BY <2>1, <2>2 DEF VercelInv, VercelTypeOK, Vercel!TypeOK
<1>8. \A d \in Calls : Prepared(d)'
  BY <1>2, <1>5, <1>6 DEF VercelInv, Prepared
<1>9. AsShown'
  BY <1>6 DEF VercelInv, AsShown
<1>10. TokenHeld'
  <2>1. Vercel!Running' = Vercel!Running \cup {c} /\ loaded
    BY <1>6 DEF Vercel!Running, Vercel!Arrives
  <2> QED BY <1>5, <1>6, <2>1 DEF VercelInv, TokenHeld, Vercel!Running
<1>11. (Vercel!URLIsTheDeployments)'
  BY URLByURLOf, NothingPrinted
<1> QED BY <1>7, <1>8, <1>9, <1>10, <1>11 DEF VercelInv
\* A run or a dry run ends; if it built, others run disturbed.
LEMMA EndKeeps ==
  ASSUME VercelInv, NEW c \in Vercel!Running, Vercel!Ends(c), UNCHANGED <<loaded, token, file, head, tree>>,
         linked' \in BOOLEAN, linked => linked', built' \in Trees \cup {Unbuilt},
         built' = built \/ Vercel!Running \ {c} \subseteq disturbed',
         disturbed \subseteq disturbed', disturbed' \subseteq Calls,
         deployed' \subseteq {[tree |-> tree, built |-> built, linked |-> linked]},
         vcOut' \in VercelOut, vcSaid' \in Tokens \cup {NoToken},
         URLOf(printed', url'), url' \in {"deployment", "dashboard", "none"},
         \A p \in vcShown' : ShownAsItWas(p)
  PROVE  VercelInv'
<1>1. /\ c \in Calls /\ vcPc'[c] = "idle" /\ vcPlan'[c] = Vercel!NoPlan /\ vcCut' = vcCut \ {c}
      /\ \A d \in Calls \ {c} : vcPlan'[d] = vcPlan[d] /\ vcPc'[d] = vcPc[d]
  BY DEF Vercel!Running, Vercel!Ends, VercelInv, VercelTypeOK, Vercel!TypeOK
<1>2. Vercel!NoPlan \in VercelPlans /\ Vercel!NoPlan.left = {} /\ Vercel!NoPlan.steps = {}
  BY DEF Vercel!NoPlan, VercelPlans
<1>3. VercelTypeOK'
  <2>1. vcPlan' \in [Calls -> VercelPlans] /\ vcPc' \in [Calls -> {"idle", "git", "run"}]
    BY <1>1, <1>2 DEF VercelInv, VercelTypeOK, Vercel!TypeOK, Vercel!Ends
  <2>2. \A d \in Calls : /\ vcPlan'[d].left \subseteq vcPlan'[d].steps /\ vcPlan'[d].steps \subseteq Vercel!Steps
                         /\ vcPc'[d] = "run" => "deploy" \in vcPlan'[d].left /\ ~vcPlan'[d].dry
    BY <1>1, <1>2 DEF VercelInv, VercelTypeOK, Vercel!TypeOK
  <2>3. deployed' \subseteq [tree : Trees, built : Trees \cup {Unbuilt}, linked : BOOLEAN]
    BY DEF VercelInv, VercelTypeOK, Vercel!TypeOK
  <2> QED BY <1>1, <2>1, <2>2, <2>3 DEF VercelInv, VercelTypeOK, Vercel!TypeOK, VercelOut, Vercel!URLs
<1>4. \A d \in Calls : Prepared(d)'
  BY <1>1 DEF VercelInv, Prepared, Vercel!Running
<1>5. AsShown'
  BY <1>1 DEF VercelInv, AsShown
<1>6. TokenHeld'
  <2>1. Vercel!Running' = Vercel!Running \ {c}
    BY <1>1 DEF Vercel!Running
  <2> QED BY <1>1, <2>1 DEF VercelInv, TokenHeld, Vercel!Running
<1> QED BY <1>3, <1>4, <1>5, <1>6, URLByURLOf DEF VercelInv

LEMMA InspectGitKeeps == ASSUME VercelInv, NEW c \in Calls, Vercel!InspectGit(c) PROVE VercelInv'
<1> DEFINE preview(git) == [steps |-> vcPlan[c].steps, profile |-> vcPlan[c].profile, git |-> git]
<1>1. /\ vcPc[c] = "git" /\ c \in Vercel!Running
      /\ UNCHANGED <<loaded, token, file, head, tree, linked, built, disturbed>>
  BY DEF Vercel!InspectGit, Vercel!Running, Vercel!hostVars, Vercel!machine
<1>2. ASSUME NEW git \in Vercel!Inspected, Vercel!Ends(c), Vercel!Says("preview"),
             vcShown' = {[preview |-> preview(git), was |-> t] :
                           t \in IF Vercel!Answered(git) /\ c \notin disturbed THEN {tree} ELSE {}}
      PROVE  VercelInv'
  <2>1. ASSUME NEW p \in vcShown' PROVE ShownAsItWas(p)
    <3>1. p = [preview |-> preview(git), was |-> tree] /\ Vercel!Answered(git)
      BY <1>2, <2>1
    <3>2. p.was = tree /\ p.preview.git = git
      BY <3>1
    <3> QED BY <3>1, <3>2 DEF ShownAsItWas, Vercel!Answered, Vercel!Dirty, VercelInv, VercelTypeOK, Vercel!TypeOK
  <2>2. /\ linked \in BOOLEAN /\ built \in Trees \cup {Unbuilt} /\ disturbed \subseteq Calls
        /\ vcOut' = "preview" /\ vcSaid' = NoToken /\ deployed' = {} /\ printed' = <<>> /\ url' = "none"
    BY <1>2 DEF VercelInv, VercelTypeOK, Vercel!TypeOK, Vercel!Says
  <2> QED BY <1>1, <1>2, <2>1, <2>2, EndKeeps, NothingPrinted DEF VercelOut
<1>3. ASSUME NEW git \in Vercel!Inspected, ~vcPlan[c].dry, Vercel!Silent, vcShown' = {}, UNCHANGED vcCut,
             vcPlan' = [vcPlan EXCEPT ![c].profile = NoFile,
                          ![c].asShown = {[was |-> p.was, dirty |-> git.dirty] :
                             p \in {q \in vcShown : Vercel!Answered(git) /\ q.preview = preview(git)}}],
             vcPc' = [vcPc EXCEPT ![c] = "run"]
      PROVE  VercelInv'
  <2> DEFINE as == {[was |-> p.was, dirty |-> git.dirty] :
                      p \in {q \in vcShown : Vercel!Answered(git) /\ q.preview = preview(git)}}
             q == [vcPlan[c] EXCEPT !.profile = NoFile, !.asShown = as]
  <2>1. as \subseteq [was : Trees, dirty : BOOLEAN] /\ \A s \in as : ~s.dirty => s.was = tree
    <3>1. ASSUME NEW s \in as PROVE s \in [was : Trees, dirty : BOOLEAN] /\ (~s.dirty => s.was = tree)
      <4>1. PICK p \in vcShown : /\ Vercel!Answered(git) /\ p.preview = preview(git)
                                 /\ s = [was |-> p.was, dirty |-> git.dirty]
        OBVIOUS
      <4>2. ShownAsItWas(p) /\ p.preview.git = git
        BY <4>1 DEF VercelInv, AsShown
      <4>3. s.was = p.was /\ s.dirty = git.dirty /\ p.was \in Trees
        BY <4>1, <4>2 DEF ShownAsItWas
      <4>4. git.dirty \in BOOLEAN
        <5>1. PICK a \in {head, Unbuilt}, b \in {Vercel!Dirty, FALSE} : git = [commit |-> a, dirty |-> b]
          BY DEF Vercel!Inspected
        <5> QED BY <5>1 DEF Vercel!Dirty
      <4> QED BY <4>1, <4>2, <4>3, <4>4 DEF ShownAsItWas, Vercel!Answered, Vercel!Dirty
    <3> QED BY <3>1
  <2>2. vcPlan' = [vcPlan EXCEPT ![c] = q]
    <3>1. vcPlan' = [vcPlan EXCEPT ![c].profile = NoFile, ![c].asShown = as]
      BY <1>3
    <3> HIDE DEF as
    <3> QED BY <3>1 DEF VercelInv, VercelTypeOK, VercelPlans
  <2>3. /\ q \in VercelPlans /\ q.left = vcPlan[c].left /\ q.steps = vcPlan[c].steps /\ q.asShown = as
        /\ q.dry = vcPlan[c].dry /\ q.token = vcPlan[c].token
    <3>1. vcPlan[c] \in VercelPlans
      BY DEF VercelInv, VercelTypeOK
    <3>2. as \in SUBSET [was : Trees, dirty : BOOLEAN]
      BY <2>1
    <3> HIDE DEF as
    <3> QED BY <3>1, <3>2 DEF VercelPlans
  <2> HIDE DEF q, as
  <2>4. /\ vcPlan'[c] = q /\ vcPc'[c] = "run"
        /\ \A d \in Calls \ {c} : vcPlan'[d] = vcPlan[d] /\ vcPc'[d] = vcPc[d]
    BY <1>3, <2>2 DEF VercelInv, VercelTypeOK, Vercel!TypeOK
  <2>5. /\ vcOut' = "none" /\ vcSaid' = NoToken /\ deployed' = {} /\ printed' = <<>> /\ url' = "none"
    BY <1>3 DEF Vercel!Silent, Vercel!Says
  <2>6. VercelTypeOK'
    <3>1. vcPlan' \in [Calls -> VercelPlans] /\ vcPc' \in [Calls -> {"idle", "git", "run"}]
      BY <1>3, <2>2, <2>3 DEF VercelInv, VercelTypeOK, Vercel!TypeOK
    <3>2. \A d \in Calls : /\ vcPlan'[d].left \subseteq vcPlan'[d].steps /\ vcPlan'[d].steps \subseteq Vercel!Steps
                           /\ vcPc'[d] = "run" => "deploy" \in vcPlan'[d].left /\ ~vcPlan'[d].dry
      <4>1. "deploy" \in q.left /\ ~q.dry
        BY <1>1, <1>3, <2>3 DEF VercelInv, Prepared
      <4> QED BY <2>3, <2>4, <4>1 DEF VercelInv, VercelTypeOK, Vercel!TypeOK
    <3> QED BY <1>1, <1>3, <2>5, <3>1, <3>2 DEF VercelInv, VercelTypeOK, Vercel!TypeOK
  <2>7. \A d \in Calls : Prepared(d)'
    BY <1>1, <2>3, <2>4 DEF VercelInv, Prepared
  <2>8. AsShown'
    BY <1>1, <1>3, <2>1, <2>3, <2>4 DEF VercelInv, AsShown
  <2>9. TokenHeld'
    <3>1. Vercel!Running' = Vercel!Running
      BY <1>1, <2>4 DEF Vercel!Running
    <3> QED BY <1>1, <1>3, <2>3, <2>4, <3>1 DEF VercelInv, TokenHeld, Vercel!Running
  <2> QED BY <2>5, <2>6, <2>7, <2>8, <2>9, URLByURLOf, NothingPrinted DEF VercelInv
<1>4. vcPlan[c].dry \in BOOLEAN
  BY DEF VercelInv, VercelTypeOK, VercelPlans
<1> QED BY <1>2, <1>3, <1>4 DEF Vercel!InspectGit

\* What is due in a run is left of it.
LEMMA RunIsDue ==
  ASSUME VercelInv, NEW c \in Calls, vcPc[c] = "run"
  PROVE  /\ c \in Vercel!Running /\ Vercel!Due(c) \in Vercel!Steps /\ Vercel!Due(c) \in vcPlan[c].left
         /\ Vercel!Due(c) = "deploy" => vcPlan[c].left = {"deploy"}
<1>1. vcPlan[c].left \subseteq Vercel!Steps /\ vcPlan[c].left # {}
  BY DEF VercelInv, VercelTypeOK, Vercel!TypeOK
<1> QED BY <1>1, DueIsLeft DEF Vercel!Running

LEMMA DoesKeeps == ASSUME VercelInv, NEW c \in Calls, Vercel!Does(c) PROVE VercelInv'
<1> DEFINE s == Vercel!Due(c)
<1>1. /\ vcPc[c] = "run" /\ s # "deploy" /\ Vercel!Effect(c, s)
      /\ UNCHANGED <<loaded, token, file, head, tree, vcPc, vcCut, vcShown>>
      /\ vcOut' = "none" /\ vcSaid' = NoToken /\ printed' = <<>> /\ url' = "none"
      /\ disturbed' = disturbed \cup (IF s = "build" THEN Vercel!Running \ {c} ELSE {})
  BY DEF Vercel!Does, Vercel!Quiet, Vercel!Disturbs, Vercel!hostVars, Vercel!machine
<1>2. /\ c \in Vercel!Running /\ s \in Vercel!Steps /\ s \in vcPlan[c].left
  BY <1>1, RunIsDue
<1>3. /\ linked' \in BOOLEAN /\ (linked => linked') /\ built' \in Trees \cup {Unbuilt}
      /\ s # "build" => built' = built
      /\ deployed' = {}
      /\ (s = "build" => built' = tree) /\ (s = "link" => linked')
  BY <1>1, <1>2, EffectIs DEF VercelInv
<1>4. vcPlan' = [vcPlan EXCEPT ![c].left = @ \ {s}]
  BY DEF Vercel!Does
<1>5. vcPlan[c] \in VercelPlans
  BY DEF VercelInv, VercelTypeOK
<1> DEFINE q == [vcPlan[c] EXCEPT !.left = vcPlan[c].left \ {s}]
<1>6. vcPlan' = [vcPlan EXCEPT ![c] = q]
  BY <1>4 DEF VercelInv, VercelTypeOK, VercelPlans
<1>7. /\ q \in VercelPlans /\ q.left = vcPlan[c].left \ {s} /\ q.steps = vcPlan[c].steps
      /\ q.asShown = vcPlan[c].asShown /\ q.dry = vcPlan[c].dry /\ q.token = vcPlan[c].token
  BY <1>5 DEF VercelPlans
<1> HIDE DEF q, s
<1>8. vcPlan'[c] = q /\ \A d \in Calls \ {c} : vcPlan'[d] = vcPlan[d]
  BY <1>6 DEF VercelInv, VercelTypeOK
<1>9. VercelTypeOK'
  <2>1. vcPlan' \in [Calls -> VercelPlans] /\ vcPc' \in [Calls -> {"idle", "git", "run"}]
    BY <1>1, <1>6, <1>7 DEF VercelInv, VercelTypeOK, Vercel!TypeOK
  <2>2. \A d \in Calls : /\ vcPlan'[d].left \subseteq vcPlan'[d].steps /\ vcPlan'[d].steps \subseteq Vercel!Steps
                         /\ vcPc'[d] = "run" => "deploy" \in vcPlan'[d].left /\ ~vcPlan'[d].dry
    BY <1>1, <1>7, <1>8 DEF VercelInv, VercelTypeOK, Vercel!TypeOK
  <2> QED BY <1>1, <1>3, <2>1, <2>2 DEF VercelInv, VercelTypeOK, Vercel!TypeOK, Vercel!Running
<1>10. \A d \in Calls : Prepared(d)'
  <2>1. Prepared(c)'
    BY <1>1, <1>3, <1>7, <1>8 DEF VercelInv, Prepared
  <2>2. ASSUME NEW d \in Calls \ {c} PROVE Prepared(d)'
    BY <1>1, <1>3, <1>8 DEF VercelInv, Prepared, Vercel!Running
  <2> QED BY <2>1, <2>2
<1>11. AsShown'
  BY <1>1, <1>7, <1>8 DEF VercelInv, AsShown
<1>12. TokenHeld'
  <2>1. Vercel!Running' = Vercel!Running
    BY <1>1 DEF Vercel!Running
  <2> QED BY <1>1, <1>7, <1>8, <2>1 DEF VercelInv, TokenHeld, Vercel!Running
<1> QED BY <1>1, <1>9, <1>10, <1>11, <1>12, URLByURLOf, NothingPrinted DEF VercelInv

LEMMA RunEndsKeeps == ASSUME VercelInv, NEW c \in Calls, Vercel!Deploys(c) \/ Vercel!Fails(c) PROVE VercelInv'
<1> DEFINE s == Vercel!Due(c)
<1>1. /\ vcPc[c] = "run" /\ (Vercel!Effect(c, s) \/ Vercel!Partly(c, s))
      /\ Vercel!Ends(c) /\ UNCHANGED <<loaded, token, file, head, tree, vcShown>>
      /\ disturbed' = disturbed \cup (IF s = "build" THEN Vercel!Running \ {c} ELSE {})
      /\ vcOut' \in {"ok", "failed"} /\ vcSaid' \in Vercel!Said(c)
  BY DEF Vercel!Deploys, Vercel!Fails, Vercel!Disturbs, Vercel!hostVars, Vercel!machine
<1>2. /\ c \in Vercel!Running /\ s \in Vercel!Steps /\ s \in vcPlan[c].left
  BY <1>1, RunIsDue
<1>3. /\ linked' \in BOOLEAN /\ (linked => linked') /\ built' \in Trees \cup {Unbuilt}
      /\ s # "build" => built' = built
      /\ deployed' \subseteq {[tree |-> tree, built |-> built, linked |-> linked]}
  BY <1>1, <1>2, EffectIs DEF VercelInv
<1>4. vcSaid' \in Tokens \cup {NoToken}
  BY <1>1, <1>2, SaidIs
<1>5. URLOf(printed', url') /\ url' \in {"deployment", "dashboard", "none"}
  BY ExtractedIs, NothingPrinted DEF Vercel!Deploys, Vercel!Fails
<1>6. disturbed \subseteq Calls /\ \A p \in vcShown : ShownAsItWas(p)
  BY DEF VercelInv, VercelTypeOK, Vercel!TypeOK, AsShown
<1> HIDE DEF s
<1> QED BY <1>1, <1>2, <1>3, <1>4, <1>5, <1>6, EndKeeps DEF VercelOut, Vercel!Running

LEMMA VercelKeeps == ASSUME VercelInv, Vercel!Next PROVE VercelInv'
BY AroundKeeps, PlanDeployKeeps, InspectGitKeeps, DoesKeeps, RunEndsKeeps DEF Vercel!Next

LEMMA VercelStarts == ASSUME Vercel!Init PROVE VercelInv
<1> USE DEF Vercel!Init
<1>1. Vercel!NoPlan \in VercelPlans /\ Vercel!NoPlan.left = {} /\ Vercel!NoPlan.steps = {}
  BY DEF Vercel!NoPlan, VercelPlans
<1>2. VercelTypeOK
  BY <1>1 DEF VercelTypeOK, Vercel!TypeOK, Vercel!URLs
<1>3. /\ \A c \in Calls : Prepared(c)
  BY DEF Prepared
<1>4. AsShown /\ TokenHeld
  BY DEF AsShown, TokenHeld, Vercel!Running
<1> QED BY <1>2, <1>3, <1>4, URLByURLOf, NothingPrinted DEF VercelInv
\* What a run that ends without a disturbance has put into production.
LEMMA DeployedIs ==
  ASSUME VercelInv, Vercel!Next, NEW c \in Calls \ disturbed, NEW d \in deployed', vcPc'[c] # vcPc[c]
  PROVE  /\ d.linked /\ ("build" \in vcPlan[c].steps => d.built = d.tree)
         /\ \A s \in vcPlan[c].asShown : ~s.dirty => d.tree = s.was
<1>1. (Vercel!Deploys(c) \/ Vercel!Fails(c)) /\ vcPc[c] = "run"
  <2>1. PICK e \in Calls : Vercel!Deploys(e) \/ Vercel!Fails(e)
    <3>1. ASSUME NEW e \in Calls, Vercel!Does(e) PROVE FALSE
      BY <3>1, RunIsDue, EffectIs DEF VercelInv, Vercel!Does
    <3>2. ~(Vercel!Load \/ Vercel!Unload \/ Vercel!Edit)
      BY DEF Vercel!Load, Vercel!Unload, Vercel!Edit, Vercel!Silent, Vercel!Says
    <3>3. ASSUME NEW e \in Calls,
                 Vercel!Refuse(e) \/ Vercel!Read(e) \/ Vercel!PlanDeploy(e) \/ Vercel!InspectGit(e)
          PROVE  FALSE
      BY <3>3 DEF Vercel!Refuse, Vercel!Read, Vercel!PlanDeploy, Vercel!InspectGit, Vercel!Silent, Vercel!Says
    <3> QED BY <3>1, <3>2, <3>3 DEF Vercel!Next
  <2>2. vcPc[e] = "run" /\ vcPc' = [vcPc EXCEPT ![e] = "idle"]
    BY <2>1 DEF Vercel!Deploys, Vercel!Fails, Vercel!Ends
  <2> QED BY <2>1, <2>2 DEF VercelInv, VercelTypeOK, Vercel!TypeOK
<1> DEFINE s == Vercel!Due(c)
<1>2. Vercel!Effect(c, s) \/ Vercel!Partly(c, s)
  BY <1>1 DEF Vercel!Deploys, Vercel!Fails
<1>3. s \in Vercel!Steps /\ (s = "deploy" => vcPlan[c].left = {"deploy"})
  BY <1>1, RunIsDue
<1> HIDE DEF s
<1>4. s = "deploy" /\ deployed' \subseteq {[tree |-> tree, built |-> built, linked |-> linked]}
  BY <1>2, <1>3, EffectIs DEF VercelInv
<1>5. d = [tree |-> tree, built |-> built, linked |-> linked]
  BY <1>4
<1>6. d.tree = tree /\ d.built = built /\ d.linked = linked
  BY <1>5
<1>7. linked /\ ("build" \in vcPlan[c].steps => built = tree)
  BY <1>1, <1>3, <1>4 DEF VercelInv, Prepared
<1>8. \A a \in vcPlan[c].asShown : ~a.dirty => a.was = tree
  BY <1>1 DEF VercelInv, AsShown
<1> QED BY <1>6, <1>7, <1>8

\* Who says the token was unloaded under.
LEMMA SayingIsCut ==
  ASSUME VercelInv, Vercel!Next, vcSaid' # NoToken
  PROVE  \E c \in vcCut : vcPc'[c] # vcPc[c]
<1>1. PICK c \in Calls : Vercel!Deploys(c) \/ Vercel!Fails(c)
  <2>1. ~(Vercel!Load \/ Vercel!Unload \/ Vercel!Edit)
    BY DEF Vercel!Load, Vercel!Unload, Vercel!Edit, Vercel!Silent, Vercel!Says
  <2>2. ASSUME NEW e \in Calls, \/ Vercel!Refuse(e) \/ Vercel!Read(e) \/ Vercel!PlanDeploy(e)
                                \/ Vercel!InspectGit(e) \/ Vercel!Does(e)
        PROVE  FALSE
    BY <2>2 DEF Vercel!Refuse, Vercel!Read, Vercel!PlanDeploy, Vercel!InspectGit, Vercel!Does,
                Vercel!Silent, Vercel!Says, Vercel!Quiet
  <2> QED BY <2>1, <2>2 DEF Vercel!Next
<1>2. c \in Vercel!Running /\ vcPc'[c] # vcPc[c] /\ vcSaid' \in Vercel!Said(c)
  BY <1>1 DEF Vercel!Deploys, Vercel!Fails, Vercel!Ends, Vercel!Running, VercelInv, VercelTypeOK, Vercel!TypeOK
<1> QED BY <1>2, SaidIs

-----------------------------------------------------------------------------
(* Whichever of them runs.                                                 *)

\* The inductive invariant.
SitesInv == /\ scope \in {"zone", "r2", "vercel"}
            /\ scope = "zone" => ZoneInv /\ NoBuckets
            /\ scope # "zone" => R2Inv
            /\ scope = "vercel" => VercelInv
            /\ URLOf(printed, url)

LEMMA ZoneStutters == ASSUME ZoneInv, UNCHANGED cloudflareVars PROVE ZoneInv'
<1> USE DEF cloudflareVars, pluginVars, zoneVars
<1>1. PluginInv'
  BY DEF ZoneInv, PluginInv, PluginTypeOK, Running
<1>2. ZoneTypeOK'
  BY <1>1 DEF ZoneInv, ZoneTypeOK, PluginInv
<1>3. (\A c \in Calls : ZoneStage(c)') /\ TailnetOnly'
  BY DEF ZoneInv, ZoneStage, TailnetOnly
<1>4. PlanStands' /\ ShownStands'
  BY SamePlans DEF ZoneInv, PlanStands, ShownStands
<1> QED BY <1>1, <1>2, <1>3, <1>4 DEF ZoneInv

LEMMA R2Stutters == ASSUME R2Inv, UNCHANGED cloudflareVars PROVE R2Inv'
<1> USE DEF cloudflareVars, pluginVars, r2All, r2Vars, cloud, secrets
<1>1. PluginInv'
  BY DEF R2Inv, PluginInv, PluginTypeOK, Running
<1>2. R2TypeOK'
  BY <1>1 DEF R2Inv, R2TypeOK, PluginInv
<1>3. \A c \in Calls : (R2Stage(c) /\ R2Owned(c))'
  BY DEF R2Inv, R2Stage, R2Owned, Live
<1>4. EveryKeyAccountedFor' /\ R2Found'
  BY DEF R2Inv, EveryKeyAccountedFor, Live, Running, R2Found, Named
<1> QED BY <1>1, <1>2, <1>3, <1>4 DEF R2Inv, LearnedStaysUnsaid

LEMMA VercelStutters == ASSUME VercelInv, UNCHANGED vercelVars PROVE VercelInv'
<1> USE DEF vercelVars
<1>1. VercelTypeOK'
  BY DEF VercelInv, VercelTypeOK, Vercel!TypeOK
<1>2. (\A c \in Calls : Prepared(c)') /\ AsShown' /\ TokenHeld'
  BY DEF VercelInv, Prepared, AsShown, ShownAsItWas, TokenHeld, Vercel!Running
<1> QED BY <1>1, <1>2, URLByURLOf DEF VercelInv

LEMMA NoBucketsStutters == ASSUME NoBuckets, UNCHANGED r2All PROVE NoBuckets'
BY DEF NoBuckets, r2All, r2Vars, cloud, secrets

LEMMA SitesStart == Init => SitesInv
<1> SUFFICES ASSUME Init PROVE SitesInv
  OBVIOUS
<1>0. URLOf(printed, url)
  BY NothingPrinted DEF Init, NoCheckout, Vercel!Init
<1>1. CASE scope = "zone" /\ ZoneInit /\ NoBuckets
  BY <1>0, <1>1, ZoneStarts DEF Init, SitesInv
<1>2. CASE scope = "r2" /\ R2Init
  BY <1>0, <1>2, R2Starts DEF Init, SitesInv
<1>3. CASE scope = "vercel" /\ NoBuckets /\ Vercel!Init
  <2>1. R2Init
    BY <1>3 DEF NoBuckets, R2Init
  <2> QED BY <1>0, <1>3, <2>1, R2Starts, VercelStarts DEF Init, SitesInv
<1> QED BY <1>1, <1>2, <1>3 DEF Init

LEMMA SitesKeep == SitesInv /\ [Next]_vars => SitesInv'
<1> SUFFICES ASSUME SitesInv, [Next]_vars PROVE SitesInv'
  OBVIOUS
<1>1. CASE scope = "zone" /\ ZoneNext /\ UNCHANGED <<scope, r2All, vercelVars>>
  BY <1>1, ZoneKeeps, NoBucketsStutters DEF SitesInv, vercelVars
<1>2. CASE scope = "r2" /\ R2Next /\ UNCHANGED <<scope, zoneVars, vercelVars>>
  BY <1>2, R2StepsKeep DEF SitesInv, vercelVars
<1>3. CASE scope = "vercel" /\ Vercel!Next /\ UNCHANGED <<scope, cloudflareVars>>
  BY <1>3, VercelKeeps, R2Stutters, URLByURLOf DEF SitesInv, VercelInv
<1>4. CASE UNCHANGED vars
  BY <1>4, ZoneStutters, R2Stutters, VercelStutters, NoBucketsStutters DEF SitesInv, vars, cloudflareVars, vercelVars
<1> QED BY <1>1, <1>2, <1>3, <1>4 DEF Next

LEMMA SitesAlways == Spec => []SitesInv
BY SitesStart, SitesKeep, PTL DEF Spec

\* Every variable keeps its type, whichever of the three parts runs.
THEOREM TypeCorrect == Spec => []TypeOK
<1>1. SitesInv => TypeOK
  BY DEF SitesInv, TypeOK, ZoneInv, R2Inv, VercelInv, VercelTypeOK
<1> QED BY <1>1, SitesAlways, PTL

\* No error says the token that was loaded, or a secret that was minted, since
\* the last Load.
THEOREM LearnedIsUnsaid == Spec => []LearnedStaysUnsaid
<1>1. SitesInv => LearnedStaysUnsaid
  BY DEF SitesInv, R2Inv, NoBuckets, LearnedStaysUnsaid
<1> QED BY <1>1, SitesAlways, PTL

\* What a step does to R2, when SitesInv holds.
LEMMA R2InOrder ==
  ASSUME SitesInv, [Next]_vars
  PROVE  /\ \/ UNCHANGED cloud
            \/ \E c \in Calls : pc'[c] # pc[c] /\ req[c].op \in R2Writes /\ req[c].ack /\ ~req[c].dry
         /\ \A k \in Live : ~keys[k].ours => keys'[k] = keys[k]
         /\ calm' => \A k \in Keys : keys[k] = Unborn /\ keys'[k] \in Key => keys'[k].at \in buckets
<1>1. CASE UNCHANGED cloud
  BY <1>1, R2Assumption DEF cloud, Live
<1>2. CASE scope = "r2" /\ R2Next
  BY <1>2, R2WritesAreInOrder DEF SitesInv
<1>3. CASE scope # "r2" \/ UNCHANGED vars
  BY <1>1, <1>3 DEF Next, vars, cloudflareVars, r2All, r2Vars, cloud
<1> QED BY <1>2, <1>3 DEF Next

\* R2 keys are in order: each of ours is in somebody's hands or lost with an
\* answer; nobody else's is touched; and, while calls come one at a time, each is
\* minted for a bucket that is there.
THEOREM R2KeysAreInOrder == Spec => KeysAreInOrder
<1>1. SitesInv => EveryKeyAccountedFor
  BY R2Assumption DEF SitesInv, R2Inv, NoBuckets, EveryKeyAccountedFor, Live
<1>2. SitesInv /\ [Next]_vars => [\A k \in Live : ~keys[k].ours => keys'[k] = keys[k]]_<<pluginVars, pc, req, out, cut, calm, r2Vars, said>>
  BY R2InOrder
<1>3. SitesInv /\ [Next]_vars =>
        [calm' => \A k \in Keys : keys[k] = Unborn /\ keys'[k] \in Key => keys'[k].at \in buckets]_<<pluginVars, pc, req, out, cut, calm, r2Vars, said>>
  BY R2InOrder
<1> QED BY <1>1, <1>2, <1>3, SitesAlways, PTL DEF Spec, KeysAreInOrder, OthersKeysStay, KeyForABucketThatIsThere

\* An upsert, as far as anything but the zone runs.
LEMMA OnlyZoneUpserts ==
  ASSUME SitesInv, [Next]_vars
  PROVE  \/ scope = "zone" /\ ZoneInv /\ ZoneNext
         \/ UNCHANGED zone /\ \A c \in Calls : ~Upserted(c)
<1>1. CASE scope = "zone" /\ ZoneNext
  BY <1>1 DEF SitesInv
<1>2. CASE scope = "r2" /\ R2Next /\ UNCHANGED <<scope, zoneVars, vercelVars>>
  <2>1. ASSUME NEW c \in Calls PROVE req[c].op # "upsert_a_record"
    <3>1. R2TypeOK
      BY <1>2 DEF SitesInv, R2Inv
    <3> QED BY <3>1, KeptR2 DEF R2TypeOK, None, R2Operations, R2Reads, R2Writes
  <2> QED BY <1>2, <2>1 DEF Upserted, zoneVars
<1>3. CASE UNCHANGED cloudflareVars
  BY <1>3 DEF cloudflareVars, zoneVars, Upserted, Running
<1> QED BY <1>1, <1>2, <1>3 DEF Next, vars

\* In the zone whoever is to send a write was acknowledged; elsewhere nobody sends one.
LEMMA SendersWereTold ==
  ASSUME SitesInv, NEW c \in Calls, Sends(c) PROVE req[c].op \in ZoneWrites /\ req[c].ack /\ ~req[c].dry
<1>1. CASE scope = "zone"
  BY <1>1 DEF SitesInv, ZoneInv, ZoneStage, Sends, ZoneWrites
<1>2. CASE scope # "zone"
  <2>1. R2TypeOK
    BY <1>2 DEF SitesInv, R2Inv
  <2>2. req[c].op \notin ZoneReads \cup ZoneWrites
    BY <2>1, KeptR2 DEF R2TypeOK, None, R2Operations, R2Reads, R2Writes, ZoneReads, ZoneWrites
  <2> QED BY <2>2 DEF Sends
<1> QED BY <1>1, <1>2

\* An upsert leaves one unproxied record of the address asked for when calls come
\* one at a time; and never, however they come, makes anything public.
THEOREM UpsertsAreSafe == Spec => UpsertIsSafe
<1>1. SitesInv /\ [Next]_vars =>
        [\A i \in Ids : (/\ zone'[i] \in Record /\ zone'[i] # zone[i]
                         /\ zone'[i].proxied \/ zone'[i].content \in Public)
           => \E c \in Calls : pc[c] = "create" /\ req[c].op = "create_dns_record"]_<<pluginVars, pc, req, out, cut, calm, zoneVars>>
  BY OnlyZoneUpserts, PublishedByCreate
<1>2. SitesInv /\ [Next]_vars =>
        [calm' => \A c \in Calls : Upserted(c) =>
           \E i \in Ids :
              LET arg == req[c].arg IN
              /\ {j \in Ids : zone'[j] \in Record} = {i}
              /\ zone'[i].content = arg.content /\ ~zone'[i].proxied
              /\ zone'[i].ttl = IF arg.ttl # 0 THEN arg.ttl
                                ELSE IF zone[i] \in Record THEN zone[i].ttl ELSE 1]_<<pluginVars, pc, req, out, cut, calm, zoneVars>>
  BY OnlyZoneUpserts, UpsertLeavesOne
<1> QED BY <1>1, <1>2, SitesAlways, PTL DEF Spec, UpsertIsSafe, UpsertSettles, PublicOnlyByCreate

\* While calls come one at a time, an upsert does what its preview of the same
\* zone said it would.
THEOREM UpsertsDoWhatWasShown == Spec => DoesWhatWasShown
<1>1. SitesInv /\ [Next]_vars =>
        [calm' => \A c \in Calls : Upserted(c) =>
           \A s \in shown : s.arg = req[c].arg =>
              s.action = IF pc[c] = "find" THEN "unchanged" ELSE Action(plan[c])]_<<pluginVars, pc, req, out, cut, calm, zoneVars>>
  BY OnlyZoneUpserts, UpsertLeavesOne
<1> QED BY <1>1, SitesAlways, PTL DEF Spec, DoesWhatWasShown

\* What passes the gate to write was acknowledged and is no dry run, of the zone's
\* records as of buckets and keys; it has a backend; and what was refused changed
\* nothing.
THEOREM TheGateHolds == Spec => GateHolds
<1>1. SitesInv => PanicsOnlyUnderUnload
  BY DEF SitesInv, ZoneInv, R2Inv, PluginInv, PanicsOnlyUnderUnload
<1>2. SitesInv /\ [Next]_vars =>
        [cloud' # cloud =>
           \E c \in Calls : pc'[c] # pc[c] /\ req[c].op \in R2Writes /\ req[c].ack /\ ~req[c].dry]_<<pluginVars, pc, req, out, cut, calm, r2Vars, said>>
  BY R2InOrder
<1>3. SitesInv /\ [Next]_vars =>
        [out' \in Refusals =>
           UNCHANGED <<zone, cloud>> /\ \A c \in Calls : pc'[c] # pc[c] => minted[c] = NoKey]_vars
  <2> SUFFICES ASSUME SitesInv, Next, out' \in Refusals
               PROVE  UNCHANGED <<zone, cloud>> /\ \A c \in Calls : pc'[c] # pc[c] => minted[c] = NoKey
    OBVIOUS
  <2>1. CASE scope = "zone" /\ ZoneNext /\ UNCHANGED <<scope, r2All, vercelVars>>
    <3>1. UNCHANGED zone
      BY <2>1, ZoneRefusalsAreTrue DEF SitesInv
    <3> QED BY <2>1, <3>1 DEF SitesInv, NoBuckets, r2All, r2Vars
  <2>2. CASE scope = "r2" /\ R2Next /\ UNCHANGED <<scope, zoneVars, vercelVars>>
    BY <2>2, R2RefusalsAreTrue DEF SitesInv, zoneVars
  <2>3. CASE UNCHANGED cloudflareVars
    BY <2>3 DEF cloudflareVars, zoneVars, r2All, r2Vars
  <2> QED BY <2>1, <2>2, <2>3 DEF Next
<1>4. SitesInv => \A c \in Calls : Sends(c) => req[c].op \in ZoneWrites /\ req[c].ack /\ ~req[c].dry
  BY SendersWereTold
<1>5. SitesInv /\ [Next]_vars =>
        [zone' # zone => \E c \in Calls : Sends(c) /\ pc'[c] # pc[c]]_<<pluginVars, pc, req, out, cut, calm, zoneVars>>
  BY OnlyZoneUpserts, SendersWrite
<1> QED BY <1>1, <1>2, <1>3, <1>4, <1>5, SitesAlways, PTL DEF Spec, GateHolds, OnlyAcknowledgedChanges,
     OnlyAcknowledgedRecords, RefusedChangedNothing

\* What is deployed: an undisturbed run deploys from a linked checkout what it
\* built of it; and if it plans what a preview of a clean checkout showed, it
\* deploys what was there at the preview, whatever was edited in between.
THEOREM RunsDeployAsPlanned == Spec => DeploysAsPlanned
<1>1. SitesInv /\ [Next]_vars => (VercelInv /\ Vercel!Next) \/ UNCHANGED Vercel!vars
  BY DEF SitesInv, Next, vars, vercelVars, Vercel!vars, Vercel!hostVars, Vercel!machine, Vercel!answer
<1>2. SitesInv /\ [Next]_vars =>
        [\A c \in Calls \ disturbed, d \in deployed' : vcPc'[c] # vcPc[c] =>
           d.linked /\ ("build" \in vcPlan[c].steps => d.built = d.tree)]_(Vercel!vars)
  BY <1>1, DeployedIs
<1>3. SitesInv /\ [Next]_vars =>
        [\A c \in Calls \ disturbed, d \in deployed' : vcPc[c] = "run" /\ vcPc'[c] = "idle" =>
           \A s \in vcPlan[c].asShown : ~s.dirty => d.tree = s.was]_(Vercel!vars)
  BY <1>1, DeployedIs
<1> QED BY <1>2, <1>3, SitesAlways, PTL DEF Spec, DeploysAsPlanned, Vercel!DeploysAsPlanned,
     Vercel!DeploysWhatItPrepared, Vercel!CleanRunIsThePreview

\* The deployment's URL is read from the output as intended, and a run says its
\* token only if the host unloaded while it was under way.
THEOREM OutputIsReadWell == Spec => OutputIsReadAndScrubbed
<1>1. SitesInv => Vercel!URLIsTheDeployments
  BY URLByURLOf DEF SitesInv
<1>2. SitesInv /\ [Next]_vars => (VercelInv /\ Vercel!Next) \/ UNCHANGED Vercel!vars
  BY DEF SitesInv, Next, vars, vercelVars, Vercel!vars, Vercel!hostVars, Vercel!machine, Vercel!answer
<1>3. SitesInv /\ [Next]_vars => [vcSaid' # NoToken => \E c \in vcCut : vcPc'[c] # vcPc[c]]_(Vercel!vars)
  BY <1>2, SayingIsCut
<1> QED BY <1>1, <1>3, SitesAlways, PTL DEF Spec, OutputIsReadAndScrubbed, Vercel!OutputIsReadAndScrubbed,
     Vercel!TokenStaysUnsaid
=============================================================================
