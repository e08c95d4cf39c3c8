---------------------------- MODULE ConfigsProofs ----------------------------
(***************************************************************************)
(* What MCConfigs checks of Caddyfiles, of previews and of scripts, for     *)
(* every set of calls, configurations, scripts, texts and declarations.    *)
(*                                                                         *)
(* Of caddy's apply: first what holds whatever else happens (overlapping   *)
(* calls, edits, crashes, deadlines, a failing disk); then that as long as *)
(* calls come one at a time, with neither crash nor deadline (calm), it is *)
(* the transaction of ConfigStore.  Of Forge's script: that it changes as  *)
(* the preview showed and by no call that was refused.  Of the previews:   *)
(* that a diff makes the proposed text with the fewest changes             *)
(* (TextDiffProofs), and that a rendered Caddyfile serves what was         *)
(* declared, in the one order there is of its names.                       *)
(***************************************************************************)
EXTENDS MCConfigs, TextDiffProofs, FiniteSetTheorems, FunctionTheorems, TLAPS

\* After the read, what a rollback would write is a file that was live; after
\* the validate, what the swap would write is valid.
Sources ==
  \A c \in Calls :
    /\ stage[c] \in {"stage", "validate", "swap", "reload", "loading", "restore", "putBack"}
         => cur[c] \in Valid \cup byHand
    /\ stage[c] \in {"swap", "reload", "loading", "restore", "putBack"} => want[c] \in Valid

\* A staging file belongs to the stages between its creation and its removal.
Staging ==
  \A c \in Calls :
    /\ <<c, "candidate">> \in temps => stage[c] \in {"validate", "swap", "crashed"}
    /\ <<c, "restore">> \in temps => stage[c] \in {"putBack", "crashed"}

-----------------------------------------------------------------------------
LEMMA CalmType == TypeOK /\ [Next]_vars => calm' \in BOOLEAN
<1> SUFFICES ASSUME TypeOK, [Next]_vars PROVE calm' \in BOOLEAN
  OBVIOUS
<1>1. ASSUME NEW P, calm' = (calm /\ P) PROVE calm' \in BOOLEAN
  BY <1>1
<1>2. CASE UNCHANGED vars
  <2>1. calm' = calm
    BY <1>2 DEF vars
  <2> QED BY <2>1 DEF TypeOK
<1>3. CASE Next
  BY Zenon, <1>1, <1>3 DEF Next
<1> QED BY <1>2, <1>3

(* Every step preserves the types. *)
LEMMA TypeStep == TypeOK /\ [Next]_vars => TypeOK'
<1> SUFFICES ASSUME TypeOK, [Next]_vars PROVE FileTypeOK' /\ CallTypeOK'
  BY CalmType DEF TypeOK
<1> USE ConstantsAssumption
<1>1. CASE UNCHANGED vars
  BY <1>1 DEF TypeOK, FileTypeOK, CallTypeOK, vars
<1>2. CASE Edit
  BY <1>2 DEF TypeOK, FileTypeOK, CallTypeOK, Edit, locals
<1>3. ASSUME NEW c \in Calls, Step(c) \/ Kill(c) \/ Crash(c) PROVE FileTypeOK' /\ CallTypeOK'
  <2> USE DEF TypeOK, FileTypeOK, CallTypeOK, Contents, Stages, Outcomes, Children, Names, Goto, Move, Answer, Forget, Keeps, locals
  <2>1. CASE Refuse(c) \/ Preview(c) \/ ReloadToolReturns(c) \/ Loaded(c) \/ LoadFails(c) \/ Crash(c)
    BY <2>1 DEF Refuse, Preview, ReloadToolReturns, Loaded, LoadFails, Crash
  <2>2. CASE Read(c)
    BY <2>2 DEF Read
  <2>3. CASE Stage(c)
    BY <2>3 DEF Stage
  <2>4. CASE Validate(c)
    BY <2>4 DEF Validate
  <2>5. CASE Swap(c)
    BY <2>5 DEF Swap
  <2>6. CASE Reload(c)
    BY <2>6 DEF Reload
  <2>7. CASE ReloadTool(c)
    BY <2>7 DEF ReloadTool
  <2>8. CASE Post(c)
    BY <2>8 DEF Post
  <2>9. CASE Accept(c)
    BY <2>9 DEF Accept
  <2>10. CASE Decline(c)
    BY <2>10 DEF Decline
  <2>11. CASE Kill(c)
    BY <2>11 DEF Kill
  <2>12. CASE RemoveFile(c)
    BY <2>12 DEF RemoveFile
  <2>13. CASE StageRestore(c)
    BY <2>13 DEF StageRestore
  <2>14. CASE PutBack(c)
    BY <2>14 DEF PutBack
  <2> QED BY <1>3, <2>1, <2>2, <2>3, <2>4, <2>5, <2>6, <2>7, <2>8, <2>9, <2>10, <2>11, <2>12, <2>13, <2>14 DEF Step
<1> QED BY <1>1, <1>2, <1>3 DEF Next

LEMMA InitTypes == Init => TypeOK
BY ConstantsAssumption DEF Init, TypeOK, FileTypeOK, CallTypeOK, Contents, Stages, Outcomes, Children

(* Every variable keeps its type. *)
THEOREM TypeCorrect == Spec => []TypeOK
BY InitTypes, TypeStep, PTL DEF Spec

-----------------------------------------------------------------------------
(* The live file was put there by hand, or passed caddy validate. *)
LiveInv == TypeOK /\ LiveFileIsValid /\ Sources

LEMMA LiveStep == LiveInv /\ [Next]_vars => LiveInv'
<1> SUFFICES ASSUME LiveInv, [Next]_vars PROVE (LiveFileIsValid /\ Sources)'
  BY TypeStep DEF LiveInv
<1> USE DEF LiveInv, LiveFileIsValid, Sources
<1>1. CASE UNCHANGED vars
  BY <1>1 DEF vars
<1>2. CASE Edit
  BY <1>2 DEF Edit, locals
<1>3. ASSUME NEW c \in Calls, Step(c) \/ Kill(c) \/ Crash(c) PROVE (LiveFileIsValid /\ Sources)'
  <2> USE DEF TypeOK, CallTypeOK, Goto, Move, Answer, Forget, Keeps, locals
  <2>1. CASE Refuse(c) \/ Preview(c) \/ ReloadToolReturns(c) \/ Loaded(c) \/ LoadFails(c) \/ Crash(c)
    BY <2>1 DEF Refuse, Preview, ReloadToolReturns, Loaded, LoadFails, Crash
  <2>2. CASE Read(c)
    BY <2>2 DEF Read
  <2>3. CASE Stage(c) \/ StageRestore(c)
    BY <2>3 DEF Stage, StageRestore
  <2>4. CASE Validate(c)
    BY <2>4 DEF Validate, Accepts
  <2>5. CASE Swap(c)
    BY <2>5 DEF Swap
  <2>6. CASE Reload(c) \/ ReloadTool(c) \/ Kill(c)
    BY <2>6 DEF Reload, ReloadTool, Kill
  <2>7. CASE Post(c) \/ Accept(c) \/ Decline(c)
    BY <2>7 DEF Post, Accept, Decline
  <2>8. CASE RemoveFile(c)
    BY <2>8 DEF RemoveFile
  <2>9. CASE PutBack(c)
    BY <2>9 DEF PutBack
  <2> QED BY <1>3, <2>1, <2>2, <2>3, <2>4, <2>5, <2>6, <2>7, <2>8, <2>9 DEF Step
<1> QED BY <1>1, <1>2, <1>3 DEF Next

(* An invalid file never becomes the live one through apply, however calls,
   edits, crashes, deadlines and a failing disk interleave. *)
THEOREM NoInvalidFileGoesLive == Spec => []LiveFileIsValid
<1>1. Init => LiveInv
  BY InitTypes DEF Init, LiveInv, LiveFileIsValid, Sources
<1>2. LiveInv => LiveFileIsValid
  BY DEF LiveInv
<1> QED BY <1>1, <1>2, LiveStep, PTL DEF Spec

-----------------------------------------------------------------------------
(* Staging files go with the call that made them. *)
StagingInv == TypeOK /\ Staging

LEMMA StagingStep == StagingInv /\ [Next]_vars => StagingInv'
<1> SUFFICES ASSUME StagingInv, [Next]_vars PROVE Staging'
  BY TypeStep DEF StagingInv
<1> USE DEF StagingInv, Staging
<1>1. CASE UNCHANGED vars
  BY <1>1 DEF vars
<1>2. CASE Edit
  BY <1>2 DEF Edit, locals
<1>3. ASSUME NEW c \in Calls, Step(c) \/ Kill(c) \/ Crash(c) PROVE Staging'
  <2> USE DEF TypeOK, CallTypeOK, Goto, Move, Answer, Forget, Keeps, locals
  <2>1. CASE Refuse(c) \/ Preview(c) \/ Read(c)
    BY <2>1 DEF Refuse, Preview, Read, MayStart
  <2>2. CASE Stage(c) \/ StageRestore(c)
    <3>1. \A d \in Calls : d # c => stage'[d] = stage[d]
      BY <2>2 DEF Stage, StageRestore
    <3>2. <<c, "candidate">> \notin temps /\ <<c, "restore">> \notin temps
      BY <2>2 DEF Stage, StageRestore
    <3>3. \/ temps' = temps
          \/ temps' = temps \cup {<<c, "candidate">>} /\ stage'[c] = "validate"
          \/ temps' = temps \cup {<<c, "restore">>} /\ stage'[c] = "putBack"
      BY <2>2 DEF Stage, StageRestore
    <3> <<c, "candidate">> # <<c, "restore">>
      OBVIOUS
    <3> HIDE DEF TypeOK, CallTypeOK, Goto, Move, Answer, Forget, Keeps, locals, StagingInv, Staging
    <3>4. ASSUME NEW d \in Calls, <<d, "candidate">> \in temps'
          PROVE  stage'[d] \in {"validate", "swap", "crashed"}
      <4>1. CASE d = c
        BY <4>1, <3>2, <3>3, <3>4
      <4>2. CASE d # c
        <5>1. <<d, "candidate">> \notin {<<c, "candidate">>, <<c, "restore">>}
          BY <4>2
        <5>2. <<d, "candidate">> \in temps
          BY <5>1, <3>3, <3>4
        <5> QED BY <4>2, <3>1, <5>2 DEF StagingInv, Staging
      <4> QED BY <4>1, <4>2
    <3>5. ASSUME NEW d \in Calls, <<d, "restore">> \in temps'
          PROVE  stage'[d] \in {"putBack", "crashed"}
      <4>1. CASE d = c
        BY <4>1, <3>2, <3>3, <3>5
      <4>2. CASE d # c
        <5>1. <<d, "restore">> \notin {<<c, "candidate">>, <<c, "restore">>}
          BY <4>2
        <5>2. <<d, "restore">> \in temps
          BY <5>1, <3>3, <3>5
        <5> QED BY <4>2, <3>1, <5>2 DEF StagingInv, Staging
      <4> QED BY <4>1, <4>2
    <3> QED BY <3>4, <3>5 DEF Staging
  <2>3. CASE Validate(c) \/ Swap(c)
    BY <2>3 DEF Validate, Swap
  <2>4. CASE Reload(c) \/ ReloadTool(c)
    BY <2>4 DEF Reload, ReloadTool, MayStart
  <2>5. CASE Kill(c) \/ Post(c) \/ Accept(c) \/ Decline(c)
    BY <2>5 DEF Kill, Post, Accept, Decline
  <2>6. CASE ReloadToolReturns(c) \/ Loaded(c) \/ LoadFails(c)
    BY <2>6 DEF ReloadToolReturns, Loaded, LoadFails
  <2>7. CASE RemoveFile(c) \/ PutBack(c)
    BY <2>7 DEF RemoveFile, PutBack
  <2>8. CASE Crash(c)
    BY <2>8 DEF Crash
  <2> QED BY <1>3, <2>1, <2>2, <2>3, <2>4, <2>5, <2>6, <2>7, <2>8 DEF Step
<1> QED BY <1>1, <1>2, <1>3 DEF Next

(* Only a crash leaves a staging file behind, whatever fails on the way. *)
THEOREM StagingIsCleanedUp == Spec => []NothingLeftBehind
<1>1. Init => StagingInv
  BY InitTypes DEF Init, StagingInv, Staging
<1>2. StagingInv => NothingLeftBehind
  <2> SUFFICES ASSUME StagingInv, NEW n \in temps
               PROVE  InFlight(n[1]) \/ stage[n[1]] = "crashed"
    BY DEF NothingLeftBehind
  <2>1. PICK c \in Calls, w \in {"candidate", "restore"} : n = <<c, w>>
    BY DEF StagingInv, TypeOK, FileTypeOK, Names
  <2> QED BY <2>1 DEF StagingInv, Staging, InFlight
<1> QED BY <1>1, <1>2, StagingStep, PTL DEF Spec

-----------------------------------------------------------------------------
(* One call at a time, no crash and no deadline.                           *)
Alone == \A c, d \in Calls : InFlight(c) /\ InFlight(d) => c = d

\* What the stages of one call say about the file and the running caddy.
Ledger(c) ==
  /\ child[c] \in Configs \cup {"starting"} => stage[c] \in {"loading", "reloading"}
  /\ stage[c] = "idle" \/ InFlight(c) => outcome[c] = "none"
  /\ stage[c] \in {"stage", "validate", "swap"} => file = cur[c] /\ want[c] # cur[c]
  /\ stage[c] = "swap" => want[c] \in Valid
  /\ stage[c] \in {"reload", "loading", "restore", "putBack"} =>
       /\ file = want[c] /\ want[c] # cur[c] /\ want[c] \in Valid
       /\ replaced[c] = cur[c]
  /\ stage[c] = "loading" =>
       /\ child[c] \in {"starting", "accepted", "refused", want[c]}
       /\ running = IF child[c] = "accepted" THEN want[c] ELSE ran[c]
  /\ stage[c] \in {"restore", "putBack"} => running = ran[c]
  /\ stage[c] = "reloading" => child[c] \in {"starting", "accepted", "refused", file}

Serial == Alone /\ \A c \in Calls : Ledger(c)

SerialInv == TypeOK /\ (calm => Serial)

LEMMA InitSerial == Init => SerialInv
BY InitTypes, ConstantsAssumption DEF Init, SerialInv, Serial, Alone, Ledger, InFlight

(* While one call steps, the others are not in flight and stay as they are. *)
LEMMA OthersRest ==
  ASSUME TypeOK, Serial, NEW c \in Calls, Step(c), OnlyFor(c)
  PROVE  \A d \in Calls \ {c} :
           /\ ~InFlight(d) /\ stage'[d] = stage[d]
           /\ child'[d] = child[d] /\ outcome'[d] = outcome[d]
<1> USE DEF TypeOK, CallTypeOK, Goto, Move, Answer, OnlyFor
<1>1. CASE Refuse(c) \/ Preview(c) \/ Read(c) \/ ReloadTool(c)
  BY <1>1 DEF Refuse, Preview, Read, ReloadTool
<1>2. CASE Stage(c) \/ Validate(c) \/ Swap(c) \/ Reload(c)
  BY <1>2 DEF Stage, Validate, Swap, Reload
<1>3. CASE ReloadToolReturns(c) \/ Loaded(c) \/ LoadFails(c)
  BY <1>3 DEF ReloadToolReturns, Loaded, LoadFails
<1>4. CASE Post(c) \/ Accept(c) \/ Decline(c)
  BY <1>4 DEF Post, Accept, Decline
<1>5. CASE RemoveFile(c) \/ StageRestore(c) \/ PutBack(c)
  BY <1>5 DEF RemoveFile, StageRestore, PutBack
<1> QED BY <1>1, <1>2, <1>3, <1>4, <1>5 DEF Step

LEMMA SerialStep == SerialInv /\ [Next]_vars => SerialInv'
<1> SUFFICES ASSUME SerialInv, [Next]_vars, calm'
             PROVE  (Alone /\ \A c \in Calls : Ledger(c))'
  BY TypeStep DEF SerialInv, Serial
<1>0. calm /\ TypeOK /\ Serial
  BY DEF SerialInv, Next, vars
<1>1. CASE UNCHANGED vars
  BY <1>0, <1>1 DEF vars, Serial, Alone, Ledger, InFlight
<1>2. CASE Edit /\ Nobody
  BY <1>0, <1>2, ConstantsAssumption DEF Edit, Nobody, Serial, Alone, Ledger, InFlight, locals
<1>3. ASSUME NEW c \in Calls, Step(c), OnlyFor(c) PROVE (Alone /\ \A d \in Calls : Ledger(d))'
  <2>1. \A d \in Calls \ {c} : ~InFlight(d) /\ ~InFlight(d)' /\ Ledger(d) /\ Ledger(d)'
    BY <1>0, <1>3, OthersRest DEF Serial, Ledger, InFlight
  <2>2. Alone'
    BY <2>1 DEF Alone
  <2>3. Ledger(c)'
    <3> USE <1>0, ConstantsAssumption DEF Serial, TypeOK, FileTypeOK, CallTypeOK, Contents, Ledger, InFlight, Goto, Move, Answer, Forget, Keeps, locals
    <3>1. CASE Refuse(c) \/ Preview(c)
      BY <3>1 DEF Refuse, Preview, MayStart
    <3>2. CASE Read(c)
      BY <3>2 DEF Read, MayStart
    <3>3. CASE Stage(c) \/ Validate(c)
      BY <3>3 DEF Stage, Validate, Accepts
    <3>4. CASE Swap(c)
      BY <3>4 DEF Swap
    <3>5. CASE Reload(c)
      BY <3>5 DEF Reload
    <3>6. CASE ReloadTool(c) \/ ReloadToolReturns(c)
      BY <3>6 DEF ReloadTool, ReloadToolReturns, MayStart
    <3>7. CASE Post(c)
      BY <3>7 DEF Post
    <3>8. CASE Accept(c)
      BY <3>8 DEF Accept
    <3>9. CASE Decline(c)
      BY <3>9 DEF Decline
    <3>11. CASE Loaded(c) \/ LoadFails(c)
      BY <3>11 DEF Loaded, LoadFails
    <3>12. CASE RemoveFile(c) \/ StageRestore(c) \/ PutBack(c)
      BY <3>12 DEF RemoveFile, StageRestore, PutBack
    <3> QED BY <1>3, <3>1, <3>2, <3>3, <3>4, <3>5, <3>6, <3>7, <3>8, <3>9, <3>11, <3>12 DEF Step
  <2> QED BY <2>1, <2>2, <2>3
<1> QED BY <1>1, <1>2, <1>3, <1>0 DEF Next

(* When apply says applied, the file holds what it rendered and caddy runs it. *)
THEOREM AppliedIsInPlace == Spec => AppliedStayedInPlace
<1> DEFINE A == calm' => \A c \in Calls : outcome[c] = "none" /\ outcome'[c] = "applied"
                                            => file' = want[c] /\ running' = want[c]
<1>1. SerialInv /\ [Next]_vars => [A]_vars
  <2> SUFFICES ASSUME SerialInv, [Next]_vars, calm',
                      NEW c \in Calls, outcome[c] = "none", outcome'[c] = "applied"
               PROVE  file' = want[c] /\ running' = want[c]
    OBVIOUS
  <2>0. calm /\ TypeOK /\ Serial
    BY DEF SerialInv, Next, vars
  <2>1. Step(c)
    <3>1. ~UNCHANGED vars /\ ~Edit
      BY DEF vars, Edit
    <3> QED BY <2>0, <3>1, OthersRest DEF Next
  <2>2. Loaded(c)
    BY <2>0, <2>1 DEF TypeOK, CallTypeOK, Step, Goto, Move, Answer, Refuse, Preview, Read, Stage, Validate, Swap,
      Reload, ReloadTool, ReloadToolReturns, Post, Accept, Decline, LoadFails, RemoveFile, StageRestore, PutBack
  <2> QED BY <2>0, <2>2 DEF Loaded, Keeps, Serial, Ledger
<1>2. SerialInv /\ [Next]_vars => SerialInv'
  BY SerialStep
<1> QED BY <1>1, <1>2, InitSerial, PTL DEF Spec, AppliedStayedInPlace, A

(* When apply says rolled back, the file holds what it replaced and caddy runs
   what it ran before the reload. *)
THEOREM RolledBackIsBack == Spec => AloneItPutsBack /\ OldKeepsRunning
<1> DEFINE A == calm' => \A c \in Calls : outcome[c] = "none" /\ outcome'[c] = "rolledBack" => file' = replaced[c]
           B == calm' => \A c \in Calls : outcome[c] = "none" /\ outcome'[c] = "rolledBack" => running' = ran[c]
<1>1. SerialInv /\ [Next]_vars => [A]_vars /\ [B]_vars
  <2> SUFFICES ASSUME SerialInv, [Next]_vars, calm',
                      NEW c \in Calls, outcome[c] = "none", outcome'[c] = "rolledBack"
               PROVE  file' = replaced[c] /\ running' = ran[c]
    OBVIOUS
  <2>0. calm /\ TypeOK /\ Serial
    BY DEF SerialInv, Next, vars
  <2>1. Step(c)
    <3>1. ~UNCHANGED vars /\ ~Edit
      BY DEF vars, Edit
    <3> QED BY <2>0, <3>1, OthersRest DEF Next
  <2>2. RemoveFile(c) \/ PutBack(c)
    BY <2>0, <2>1 DEF TypeOK, CallTypeOK, Step, Goto, Move, Answer, Refuse, Preview, Read, Stage, Validate, Swap,
      Reload, ReloadTool, ReloadToolReturns, Post, Accept, Decline, Loaded, LoadFails, StageRestore
  <2> QED BY <2>0, <2>2 DEF RemoveFile, PutBack, Keeps, Answer, Serial, TypeOK, CallTypeOK, Ledger
<1>2. SerialInv /\ [Next]_vars => SerialInv'
  BY SerialStep
<1> QED BY <1>1, <1>2, InitSerial, PTL DEF Spec, AloneItPutsBack, PutsBack, OldKeepsRunning, A, B

-----------------------------------------------------------------------------
(* What ConfigStore sees of the file, once at most one call is undecided. *)
LEMMA StoredIs ==
  ASSUME NEW c \in Calls, \A d \in Calls \ {c} : ~Undecided(d)
  PROVE  Stored = IF Undecided(c) THEN cur[c] ELSE file
<1>1. CASE Undecided(c)
  <2>1. \A d \in Calls : Undecided(d) <=> d = c
    BY <1>1
  <2>2. (CHOOSE d \in Calls : Undecided(d)) = c
    BY <2>1
  <2> QED BY <1>1, <2>2 DEF Stored
<1>2. CASE ~Undecided(c)
  BY <1>2 DEF Stored
<1> QED BY <1>1, <1>2

(* A step of a call is a commit, a told loss, a reload, or nothing to see. *)
LEMMA StepIsTransaction ==
  ASSUME TypeOK, Serial, NEW c \in Calls, Step(c), OnlyFor(c)
  PROVE  [Store!Next]_<<Stored, running, Told, byHand>>
<1>1. \A d \in Calls \ {c} : ~Undecided(d) /\ ~Undecided(d)' /\ outcome'[d] = outcome[d]
  BY OthersRest DEF Undecided, InFlight
<1>2. Stored = IF Undecided(c) THEN cur[c] ELSE file
  BY <1>1, StoredIs
<1>3. Stored' = IF Undecided(c)' THEN cur'[c] ELSE file'
  <2>1. CASE Undecided(c)'
    <3>1. \A d \in Calls : Undecided(d)' <=> d = c
      BY <1>1, <2>1
    <3>2. (CHOOSE d \in Calls : Undecided(d)') = c
      BY <3>1
    <3> QED BY <2>1, <3>2 DEF Stored
  <2>2. CASE ~Undecided(c)'
    BY <1>1, <2>2 DEF Stored
  <2> QED BY <2>1, <2>2
<1>4. outcome'[c] # "restoreFailed" /\ outcome[c] # "restoreFailed" => Told' = Told
  BY <1>1 DEF Told
<1> USE DEF Serial, TypeOK, CallTypeOK, Ledger, InFlight, Goto, Move, Answer, Forget, Keeps, locals, Undecided
<1>5. CASE Refuse(c) \/ Preview(c) \/ Read(c)
  BY <1>5, <1>2, <1>3, <1>4 DEF Refuse, Preview, Read, MayStart
<1>6. CASE Stage(c) \/ Validate(c)
  BY <1>6, <1>2, <1>3, <1>4 DEF Stage, Validate
<1>7. CASE Swap(c)
  BY <1>7, <1>2, <1>3, <1>4 DEF Swap
<1>8. CASE Reload(c)
  BY <1>8, <1>2, <1>3, <1>4 DEF Reload
<1>9. CASE ReloadTool(c) \/ ReloadToolReturns(c)
  BY <1>9, <1>2, <1>3, <1>4 DEF ReloadTool, ReloadToolReturns, MayStart
<1>10. CASE Post(c) \/ Decline(c)
  BY <1>10, <1>2, <1>3, <1>4, ConstantsAssumption DEF Post, Decline
<1>11. CASE Accept(c)
  <2>1. child[c] \notin {"starting", "accepted", "refused"} /\ child'[c] = "accepted"
    BY <1>11, ConstantsAssumption DEF Accept
  <2>2. outcome[c] = "none" /\ stage[c] \in {"loading", "reloading"} /\ stage' = stage /\ file' = file
    BY <1>11, ConstantsAssumption DEF Accept
  <2>3. Told' = Told /\ byHand' = byHand
    BY <1>11, <1>4, <2>2 DEF Accept
  <2>4. CASE stage[c] = "loading"
    <3>1. Stored = cur[c] /\ Stored' = want[c] /\ running' = want[c] /\ want[c] # cur[c] /\ want[c] \in Valid
      BY <1>11, <1>2, <1>3, <2>1, <2>2, <2>4 DEF Accept
    <3> QED BY <3>1, <2>3 DEF Store!Next, Store!Commit
  <2>5. CASE stage[c] = "reloading"
    <3>1. Stored = file /\ Stored' = file /\ running' = file /\ file \in Valid
      BY <1>11, <1>2, <1>3, <2>1, <2>2, <2>5 DEF Accept
    <3> QED BY <3>1, <2>3 DEF Store!Next, Store!Reload
  <2> QED BY <2>2, <2>4, <2>5
<1>13. CASE Loaded(c) \/ LoadFails(c)
  BY <1>13, <1>2, <1>3, <1>4 DEF Loaded, LoadFails
<1>14. CASE RemoveFile(c) \/ StageRestore(c) \/ PutBack(c)
  <2>1. outcome[c] = "none" /\ Stored = cur[c] /\ file = want[c] /\ want[c] \in Valid /\ running' = running /\ byHand' = byHand
    BY <1>14, <1>2 DEF RemoveFile, StageRestore, PutBack
  <2>2. CASE outcome'[c] = "restoreFailed"
    <3>1. Stored' = want[c]
      BY <1>14, <1>3, <2>1, <2>2 DEF RemoveFile, StageRestore, PutBack
    <3>2. Told' = Told \cup {c} /\ c \notin Told
      BY <1>1, <2>1, <2>2 DEF Told
    <3> QED BY <2>1, <3>1, <3>2 DEF Store!Next, Store!Lose
  <2>3. CASE outcome'[c] # "restoreFailed"
    <3>1. Stored' = cur[c]
      BY <1>14, <1>3, <2>1, <2>3 DEF RemoveFile, StageRestore, PutBack
    <3> QED BY <2>1, <2>3, <3>1, <1>4
  <2> QED BY <2>2, <2>3
<1> QED BY <1>5, <1>6, <1>7, <1>8, <1>9, <1>10, <1>11, <1>13, <1>14 DEF Step

(* As long as calls come one at a time, with neither crash nor deadline, apply
   is a transaction over the file and the running configuration. *)
THEOREM ApplyIsTransaction == Spec => IsTransaction
<1>1. Init => Store!Init
  <2> SUFFICES ASSUME Init PROVE Store!Init
    OBVIOUS
  <2>1. Stored = file /\ Told = {}
    BY DEF Init, Stored, Undecided, Told
  <2> QED BY <2>1 DEF Init, Store!Init, Contents
<1>2. SerialInv /\ [Next]_vars => [calm' => Store!Next]_<<Stored, running, Told, byHand>>
  <2> SUFFICES ASSUME SerialInv, [Next]_vars, calm' PROVE [Store!Next]_<<Stored, running, Told, byHand>>
    OBVIOUS
  <2>0. calm /\ TypeOK /\ Serial
    BY DEF SerialInv, Next, vars
  <2>1. CASE UNCHANGED vars
    <3>1. Stored' = Stored /\ Told' = Told
      BY <2>1 DEF vars, Stored, Undecided, Told
    <3> QED BY <2>1, <3>1 DEF vars
  <2>2. CASE Edit /\ Nobody
    <3>1. \A c \in Calls : ~Undecided(c) /\ ~Undecided(c)'
      BY <2>2 DEF Edit, Nobody, Undecided, InFlight
    <3>2. Stored = file /\ Stored' = file'
      BY <3>1 DEF Stored
    <3>3. Told' = Told
      BY <2>2 DEF Edit, Told
    <3> QED BY <2>2, <3>2, <3>3 DEF Edit, Contents, Store!Next, Store!Edit
  <2>3. ASSUME NEW c \in Calls, Step(c), OnlyFor(c) PROVE [Store!Next]_<<Stored, running, Told, byHand>>
    BY <2>0, <2>3, StepIsTransaction
  <2> QED BY <2>0, <2>1, <2>2, <2>3 DEF Next
<1>3. SerialInv /\ [Next]_vars => SerialInv'
  BY SerialStep
<1> QED BY <1>1, <1>2, <1>3, InitSerial, PTL DEF Spec, IsTransaction

-----------------------------------------------------------------------------
(* What lies on the disk is in order, whatever crashes, edits and overlaps. *)
THEOREM DiskStaysInOrder == Spec => []DiskIsInOrder
BY NoInvalidFileGoesLive, StagingIsCleanedUp, PTL DEF DiskIsInOrder

(* A call that was alone answers applied, or rolled back, truly. *)
THEOREM AnswersHold == Spec => AnswerIsTrue
BY AppliedIsInPlace, RolledBackIsBack DEF AnswerIsTrue

-----------------------------------------------------------------------------
(* The deployment script of a Forge site (ForgeSite).  A call whose request  *)
(* is under way was accepted (Posed), so that what it writes is a script and *)
(* what it runs is a command.                                               *)
Posed == \A c \in Calls : pc[c] = "sent" => req[c] \in Forge!Sent

CallsInOrder ==
  /\ token \in BOOLEAN /\ forgeCalm \in BOOLEAN
  /\ pc \in [Calls -> {"idle", "sent"}]
  /\ req \in [Calls -> {Forge!Kept(r) : r \in Forge!SiteRequests} \cup {Forge!None}]
  /\ \A c \in Calls : (pc[c] = "idle") = (req[c] = Forge!None)
  /\ Posed

SiteInOrder ==
  /\ script \in Scripts
  /\ told \subseteq Scripts \cup {Forge!Command} /\ Forge!Cardinality(told) <= 1
  /\ out \in {"none", "ok", "preview"} \cup Forge!Codes
  /\ \A s \in shown : s.diff.changed = (s.content # script)

ForgeInv == CallsInOrder /\ SiteInOrder

(* What is sent is an operation of Forge with the argument it takes, which is *)
(* not blank.                                                                *)
LEMMA SentIs ==
  ASSUME NEW r \in Forge!Sent
  PROVE  /\ r # Forge!None
         /\ r \in {Forge!Kept(q) : q \in Forge!SiteRequests}
         /\ r.op = "update_deployment_script" => r.arg \in Scripts
         /\ r.op = "exec_site_command" => r.arg = Forge!Command
<1>1. PICK q \in Forge!Accepted : r = Forge!Kept(q)
  BY DEF Forge!Sent
<1>2. q \in Forge!SiteRequests /\ q.arg # Forge!Blank
  BY <1>1 DEF Forge!Accepted, Forge!Sound
<1>3. PICK o \in Forge!Reads \cup Forge!writeOperations :
        q \in [op : {o}, arg : Forge!Given(o), id : Forge!Ids, dry : BOOLEAN, ack : BOOLEAN]
  BY <1>2 DEF Forge!SiteRequests
<1>4. r.op = q.op /\ r.arg = q.arg /\ q.op = o /\ q.arg \in Forge!Given(o)
  BY <1>1, <1>3 DEF Forge!Kept
<1>5. r.op # "none" /\ Forge!None.op = "none"
  BY <1>3, <1>4 DEF Forge!Reads, Forge!writeOperations, Forge!None
<1>6. r.op = "update_deployment_script" => r.arg \in Scripts
  BY <1>2, <1>4 DEF Forge!Given
<1>7. r.op = "exec_site_command" => r.arg = Forge!Command
  BY <1>2, <1>4 DEF Forge!Given
<1> QED BY <1>1, <1>2, <1>5, <1>6, <1>7

LEMMA ForgeStarts == Forge!Init => ForgeInv
<1> SUFFICES ASSUME Forge!Init PROVE ForgeInv
  OBVIOUS
<1>1. Forge!Cardinality({}) <= 1
  BY FS_EmptySet DEF Forge!Cardinality, Cardinality
<1> QED BY <1>1 DEF Forge!Init, ForgeInv, CallsInOrder, SiteInOrder, Posed

(* A diff says of two scripts whether they differ. *)
LEMMA DiffTells ==
  ASSUME NEW s, NEW t
  PROVE  Forge!diffScripts(s, t).changed = (t # s)
BY DEF Forge!diffScripts, Forge!NoDiff

LEMMA OneRuns ==
  ASSUME NEW x
  PROVE  Forge!Cardinality({}) <= 1 /\ Forge!Cardinality({x}) <= 1
<1>1. \A T : Forge!Cardinality(T) = Cardinality(T)
  BY DEF Forge!Cardinality, Cardinality
<1> QED BY <1>1, FS_EmptySet, FS_Singleton

(* A call that returns is idle, and the others stay as they were. *)
LEMMA ReturnsInOrder ==
  ASSUME CallsInOrder, NEW c \in Calls, NEW o, Forge!Returns(c, o)
  PROVE  CallsInOrder' /\ out' = o /\ req[c] \in Forge!Sent
<1> USE DEF CallsInOrder, Forge!Returns, Posed
<1>1. Forge!Sent' = Forge!Sent
  OBVIOUS
<1>2. Posed'
  <2> SUFFICES ASSUME NEW d \in Calls, pc'[d] = "sent" PROVE req'[d] \in Forge!Sent
    BY <1>1
  <2> QED OBVIOUS
<1>3. \A d \in Calls : (pc'[d] = "idle") = (req'[d] = Forge!None)
  OBVIOUS
<1>4. req' \in [Calls -> {Forge!Kept(r) : r \in Forge!SiteRequests} \cup {Forge!None}]
  OBVIOUS
<1> QED BY <1>2, <1>3, <1>4

LEMMA ForgeStep == ForgeInv /\ [Forge!Next]_(Forge!vars) => ForgeInv'
<1> SUFFICES ASSUME CallsInOrder, SiteInOrder, [Forge!Next]_(Forge!vars)
             PROVE  CallsInOrder' /\ SiteInOrder'
  BY DEF ForgeInv
<1>0. Forge!Codes' = Forge!Codes
  BY DEF Forge!Codes
<1>1. CASE UNCHANGED Forge!vars
  BY <1>1 DEF Forge!vars, Posed, CallsInOrder, SiteInOrder
<1>2. ASSUME NEW c \in Calls, Forge!Answer(c) PROVE CallsInOrder' /\ SiteInOrder'
  <2>1. out' \in {"none", "ok", "preview"} \cup Forge!Codes
    BY <1>2 DEF Forge!Answer, Forge!Gate, Forge!Codes
  <2>2. forgeCalm' \in BOOLEAN
    BY <1>2 DEF Forge!Answer, Forge!Arrives
  <2>3. UNCHANGED <<token, pc, req, script, shown>> /\ told' = {}
    BY <1>2 DEF Forge!Answer
  <2> QED BY <2>1, <2>2, <2>3, OneRuns DEF Posed, CallsInOrder, SiteInOrder
<1>3. ASSUME NEW c \in Calls, Forge!Send(c) PROVE CallsInOrder' /\ SiteInOrder'
  <2>1. PICK r \in Forge!Sent : req' = [req EXCEPT ![c] = r]
    BY <1>3 DEF Forge!Send
  <2>2. /\ pc' = [pc EXCEPT ![c] = "sent"] /\ told' = {} /\ out' = "none"
        /\ UNCHANGED <<token, script>>
    BY <1>3 DEF Forge!Send
  <2>3. forgeCalm' \in BOOLEAN
    BY <1>3 DEF Forge!Send, Forge!Arrives
  <2>4. shown' = shown \/ shown' = {}
    BY <1>3 DEF Forge!Send
  <2>5. Posed'
    <3> SUFFICES ASSUME NEW d \in Calls, pc'[d] = "sent" PROVE req'[d] \in Forge!Sent
      BY DEF Posed
    <3> QED BY <2>1, <2>2 DEF Posed, CallsInOrder
  <2>6. req' \in [Calls -> {Forge!Kept(q) : q \in Forge!SiteRequests} \cup {Forge!None}]
    BY <2>1, SentIs DEF CallsInOrder
  <2>7. \A d \in Calls : (pc'[d] = "idle") = (req'[d] = Forge!None)
    BY <2>1, <2>2, SentIs DEF CallsInOrder
  <2> QED BY <2>2, <2>3, <2>4, <2>5, <2>6, <2>7, OneRuns DEF CallsInOrder, SiteInOrder
<1>4. ASSUME NEW c \in Calls, Forge!Read(c) PROVE CallsInOrder' /\ SiteInOrder'
  <2>1. Forge!Returns(c, "ok") /\ told' = {} /\ UNCHANGED <<script, shown>>
    BY <1>4 DEF Forge!Read
  <2> QED BY <2>1, ReturnsInOrder, OneRuns DEF SiteInOrder
<1>5. ASSUME NEW c \in Calls, Forge!Diff(c) PROVE CallsInOrder' /\ SiteInOrder'
  <2>1. Forge!Returns(c, "preview") /\ told' = {} /\ UNCHANGED script
    BY <1>5 DEF Forge!Diff
  <2>2. shown' \subseteq {[content |-> req[c].arg, diff |-> Forge!diffScripts(script, req[c].arg)]}
    BY <1>5 DEF Forge!Diff
  <2>3. \A s \in shown' : s.diff.changed = (s.content # script')
    BY <2>1, <2>2, DiffTells
  <2> QED BY <2>1, <2>3, ReturnsInOrder, OneRuns DEF SiteInOrder
<1>6. ASSUME NEW c \in Calls, NEW failures, Forge!FailsBy(c, failures)
      PROVE  CallsInOrder' /\ out' \in Forge!Codes /\ req[c] \in Forge!Sent
  <2>1. PICK o \in Forge!Codes : Forge!Returns(c, o)
    BY <1>6 DEF Forge!FailsBy, Forge!errorCode, Forge!Codes
  <2> QED BY <2>1, ReturnsInOrder
<1>7. ASSUME NEW c \in Calls, Forge!Fails(c) PROVE CallsInOrder' /\ SiteInOrder'
  <2>1. CallsInOrder' /\ out' \in Forge!Codes
    BY <1>6, <1>7 DEF Forge!Fails
  <2>2. told' = {} /\ UNCHANGED <<script, shown>>
    BY <1>7 DEF Forge!Fails
  <2> QED BY <1>0, <2>1, <2>2, OneRuns DEF SiteInOrder
<1>8. ASSUME NEW c \in Calls, NEW op, Forge!Write(c, op)
      PROVE  CallsInOrder' /\ out' \in {"ok"} \cup Forge!Codes /\ req[c] \in Forge!Sent
  <2>1. CASE Forge!Returns(c, "ok")
    BY <2>1, ReturnsInOrder
  <2> QED BY <1>6, <1>8, <2>1 DEF Forge!Write
<1>9. ASSUME NEW c \in Calls, Forge!UpdateDeploymentScript(c) PROVE CallsInOrder' /\ SiteInOrder'
  <2>1. CallsInOrder' /\ out' \in {"ok"} \cup Forge!Codes /\ req[c] \in Forge!Sent
    BY <1>8, <1>9 DEF Forge!UpdateDeploymentScript
  <2>2. script' = req[c].arg /\ shown' = {} /\ told' = {}
    BY <1>9 DEF Forge!UpdateDeploymentScript
  <2>3. req[c].op = "update_deployment_script"
    BY <1>9 DEF Forge!UpdateDeploymentScript, Forge!Write
  <2>4. script' \in Scripts
    BY <2>1, <2>2, <2>3, SentIs
  <2> QED BY <1>0, <2>1, <2>2, <2>4, OneRuns DEF SiteInOrder
<1>10. ASSUME NEW c \in Calls, Forge!DeploySite(c) PROVE CallsInOrder' /\ SiteInOrder'
  <2>1. CallsInOrder' /\ out' \in {"ok"} \cup Forge!Codes /\ req[c] \in Forge!Sent
    BY <1>8, <1>10 DEF Forge!DeploySite
  <2>2. told' = {script} /\ UNCHANGED <<script, shown>>
    BY <1>10 DEF Forge!DeploySite
  <2> QED BY <1>0, <2>1, <2>2, OneRuns DEF SiteInOrder
<1>11. ASSUME NEW c \in Calls, Forge!ExecuteSiteCommand(c) PROVE CallsInOrder' /\ SiteInOrder'
  <2>1. CallsInOrder' /\ out' \in {"ok"} \cup Forge!Codes /\ req[c] \in Forge!Sent
    BY <1>8, <1>11 DEF Forge!ExecuteSiteCommand
  <2>2. told' = {req[c].arg} /\ UNCHANGED <<script, shown>>
    BY <1>11 DEF Forge!ExecuteSiteCommand
  <2>3. req[c].op = "exec_site_command"
    BY <1>11 DEF Forge!ExecuteSiteCommand, Forge!Write
  <2>4. told' = {Forge!Command}
    BY <2>1, <2>2, <2>3, SentIs
  <2> QED BY <1>0, <2>1, <2>2, <2>4, OneRuns DEF SiteInOrder
<1> QED BY <1>1, <1>2, <1>3, <1>4, <1>5, <1>7, <1>9, <1>10, <1>11 DEF Forge!Next

-----------------------------------------------------------------------------
(* What the run composes: one of the three at a time. *)
ConfigsInv == TypeOK /\ ForgeInv

LEMMA MCInductive ==
  /\ MCInit => Init /\ ConfigsInv
  /\ ConfigsInv /\ [MCNext]_<<scope, caddyVars, textVars, forgeVars>>
       => [Next]_vars /\ [Forge!Next]_(Forge!vars) /\ ConfigsInv'
<1>1. MCInit => Init /\ ConfigsInv
  BY InitTypes, ForgeStarts DEF MCInit, ConfigsInv
<1>2. ASSUME ConfigsInv, [MCNext]_<<scope, caddyVars, textVars, forgeVars>>
      PROVE  [Next]_vars /\ [Forge!Next]_(Forge!vars) /\ ConfigsInv'
  <2>1. [Next]_vars /\ [Forge!Next]_(Forge!vars)
    BY <1>2 DEF MCNext, caddyVars, forgeVars, Forge!vars
  <2> QED BY <1>2, <2>1, TypeStep, ForgeStep DEF ConfigsInv
<1> QED BY <1>1, <1>2

(* The files and calls of caddy, and the calls, the script and the previews  *)
(* of a Forge site, keep their types whatever they are: a script is never     *)
(* blank, a site is told to run one thing at a time, and a preview that is    *)
(* shown says whether it would change the script there is now.               *)
THEOREM TypesAreKept == MCSpec => []TypesOK
<1>1. ConfigsInv => TypesOK
  BY DEF ConfigsInv, ForgeInv, CallsInOrder, SiteInOrder, TypesOK, Forge!TypeOK
<1> QED BY <1>1, MCInductive, PTL DEF MCSpec

(* What a call answered invalid_args or credential_missing did. *)
LEMMA RefusalStep ==
  [Forge!Next]_(Forge!vars) =>
    [out' \in {"invalid_args", "credential_missing"} => told' = {} /\ script' = script]_(Forge!vars)
<1> SUFFICES ASSUME Forge!Next, out' \in {"invalid_args", "credential_missing"}
             PROVE  told' = {} /\ script' = script
  OBVIOUS
<1>1. PICK c \in Calls : \/ Forge!Answer(c) \/ Forge!Send(c) \/ Forge!Read(c) \/ Forge!Diff(c)
                         \/ Forge!Fails(c) \/ Forge!UpdateDeploymentScript(c)
                         \/ Forge!DeploySite(c) \/ Forge!ExecuteSiteCommand(c)
  BY DEF Forge!Next
<1>2. CASE Forge!Answer(c) \/ Forge!Send(c) \/ Forge!Read(c) \/ Forge!Diff(c) \/ Forge!Fails(c)
  BY <1>2 DEF Forge!Answer, Forge!Send, Forge!Read, Forge!Diff, Forge!Fails
<1>3. ASSUME NEW op, Forge!Write(c, op) PROVE FALSE
  <2>1. out' = "ok" \/ \E f \in Forge!MayHaveHappened : out' = Forge!errorCode(f)
    BY <1>3 DEF Forge!Write, Forge!FailsBy, Forge!Returns
  <2> QED BY <2>1 DEF Forge!MayHaveHappened, Forge!errorCode
<1> QED BY <1>1, <1>2, <1>3 DEF Forge!UpdateDeploymentScript, Forge!DeploySite, Forge!ExecuteSiteCommand

(* "invalid_args" and "credential_missing" (errorCode in forge's plugin.go) are *)
(* answers of calls that ran nothing on the site and left its script alone,     *)
(* whatever happened to their request on the way.                             *)
THEOREM RefusedRanNothing == MCSpec => Forge!RefusedDidNothing
BY MCInductive, RefusalStep, PTL DEF MCSpec, Forge!RefusedDidNothing

-----------------------------------------------------------------------------
(* An update does what its preview said (TextDiffProofs says what a diff of  *)
(* two texts is).                                                            *)

\* ForgeSite's diffs are TextDiff's.
LEMMA SameLines ==
  ASSUME NEW a, NEW b
  PROVE  Forge!lineDiff(a, b) = lineDiff(a, b)
BY DEF Forge!lineDiff, lineDiff, Forge!Op, Op, Forge!LCS, LCS, Forge!Max, Max

LEMMA SameHunks ==
  ASSUME NEW ops
  PROVE  Forge!unified(ops) = unified(ops)
BY DEF Forge!unified, unified, Forge!Changes, Changes, Forge!Reach, Reach, Forge!Hunk, Hunk,
       Forge!OldLines, OldLines, Forge!NewLines, NewLines, Forge!LinesBut, LinesBut,
       Forge!Max, Max, Forge!Min, Min

LEMMA SameCount ==
  ASSUME NEW ops, NEW kind
  PROVE  Forge!Count(ops, kind) = Count(ops, kind)
BY DEF Forge!Count, Count, Forge!Cardinality, Cardinality

LEMMA SameDiff ==
  ASSUME NEW s, NEW t
  PROVE  Forge!diffScripts(s, t) = diffScripts(s, t)
BY SameLines, SameHunks, SameCount DEF Forge!diffScripts, diffScripts, Forge!NoDiff, NoDiff

LEMMA SamePatch ==
  ASSUME NEW a, NEW hunks
  PROVE  Forge!Patched(a, hunks) = Patched(a, hunks)
BY DEF Forge!Patched, Patched, Forge!After, After, Forge!OldLines, OldLines, Forge!NewLines, NewLines,
       Forge!LinesBut, LinesBut

\* No hunks leave a text as it is.
LEMMA PatchedByNone ==
  ASSUME NEW X, NEW a \in Seq(X)
  PROVE  Patched(a, <<>>) = a
<1> DEFINE Body(f) == [k \in 0..Len(<<>>) |->
                        IF k = 0 THEN <<>>
                        ELSE f[k - 1] \o SubSeq(a, After(<<>>, k - 1), <<>>[k].old - 1) \o NewLines(<<>>[k].ops)]
           g == CHOOSE f : f = Body(f)
           none == [k \in 0..Len(<<>>) |-> <<>>]
<1>1. Patched(a, <<>>) = g[Len(<<>>)] \o SubSeq(a, After(<<>>, Len(<<>>)), Len(a))
  BY DEF Patched
<1>2. Len(<<>>) = 0 /\ After(<<>>, 0) = 1
  BY DEF After
<1>3. \A f : DOMAIN Body(f) = {0} /\ Body(f)[0] = <<>>
  BY <1>2
<1>4. none = Body(none)
  BY <1>2
<1> HIDE DEF Body, none
<1>5. g = Body(g)
  BY <1>4, Zenon
<1>6. g[0] = <<>>
  BY <1>3, <1>5
<1> HIDE DEF g
<1>7. SubSeq(a, 1, Len(a)) = a
  BY SubSeqFull
<1>8. Patched(a, <<>>) = <<>> \o a
  BY <1>1, <1>2, <1>6, <1>7
<1> QED BY <1>8, ConcatEmptySeq

\* What a diff tells of two scripts.
Foretells(d, s, t) ==
  /\ d.changed = (t # s)
  /\ Len(t.lines) = Len(s.lines) + d.added - d.removed
  /\ ~d.truncated => Patched(s.lines, d.hunks) = t.lines

LEMMA DiffForetells ==
  ASSUME NEW s \in Scripts, NEW t \in Scripts
  PROVE  Foretells(diffScripts(s, t), s, t)
<1> DEFINE a == s.lines
           b == t.lines
           ops == lineDiff(a, b)
           d == diffScripts(s, t)
<1>1. a \in Seq(Lines) /\ b \in Seq(Lines) /\ Len(a) \in Nat /\ Len(b) \in Nat
  BY ScriptsAssumption, LenProperties
<1>2. CASE s = t
  <2>1. d.changed = FALSE /\ d.added = 0 /\ d.removed = 0 /\ d.hunks = <<>>
    BY <1>2 DEF diffScripts, NoDiff
  <2>2. Patched(a, <<>>) = a
    BY <1>1, PatchedByNone
  <2>3. Len(a) = Len(a) + 0 - 0
    BY <1>1
  <2>4. d.changed = (t # s)
    BY <1>2, <2>1
  <2> HIDE DEF d
  <2>5. Foretells(d, s, t)
    BY <1>2, <2>1, <2>2, <2>3, <2>4 DEF Foretells
  <2> QED BY <2>5 DEF d
<1>3. CASE s # t /\ Len(a) * Len(b) > maxDiffCells
  <2>1. d = [changed |-> TRUE, added |-> Len(b), removed |-> Len(a), truncated |-> TRUE, hunks |-> <<>>]
    BY <1>3 DEF diffScripts
  <2>2. d.changed = TRUE /\ d.added = Len(b) /\ d.removed = Len(a) /\ d.truncated = TRUE
    BY <2>1
  <2>3. Len(b) = Len(a) + Len(b) - Len(a)
    BY <1>1
  <2>4. d.changed = (t # s)
    BY <1>3, <2>2
  <2> HIDE DEF d
  <2>5. Foretells(d, s, t)
    BY <2>2, <2>3, <2>4 DEF Foretells
  <2> QED BY <2>5 DEF d
<1>4. CASE s # t /\ ~(Len(a) * Len(b) > maxDiffCells)
  <2>1. d = [changed |-> TRUE, added |-> Count(ops, "added"), removed |-> Count(ops, "removed"),
             truncated |-> FALSE, hunks |-> unified(ops)]
    BY <1>4 DEF diffScripts
  <2>2. /\ d.changed = TRUE /\ d.added = Count(ops, "added") /\ d.removed = Count(ops, "removed")
        /\ d.hunks = unified(ops)
    BY <2>1
  <2>3. Len(b) = Len(a) + Count(ops, "added") - Count(ops, "removed")
    BY <1>1, DiffCounts
  <2>4. Patched(a, unified(ops)) = b
    BY <1>1, UnifiedMakesTheProposed
  <2>5. d.changed = (t # s)
    BY <1>4, <2>2
  <2> HIDE DEF d
  <2>6. Foretells(d, s, t)
    BY <2>2, <2>3, <2>4, <2>5 DEF Foretells
  <2> QED BY <2>6 DEF d
<1> QED BY <1>2, <1>3, <1>4

\* The last diff shown is of the script there is and one that may be put there.
ShownIsTrue == \A s \in shown : s.content \in Scripts /\ s.diff = diffScripts(script, s.content)

LEMMA ShownStep == ForgeInv /\ ShownIsTrue /\ [Forge!Next]_(Forge!vars) => ShownIsTrue'
<1> SUFFICES ASSUME CallsInOrder, ShownIsTrue, [Forge!Next]_(Forge!vars) PROVE ShownIsTrue'
  BY DEF ForgeInv
<1>1. ASSUME shown' = shown \/ shown' = {}, script' = script PROVE ShownIsTrue'
  BY <1>1 DEF ShownIsTrue
<1>2. CASE UNCHANGED Forge!vars
  BY <1>1, <1>2 DEF Forge!vars
<1>3. ASSUME NEW c \in Calls, Forge!Answer(c) \/ Forge!Read(c) \/ Forge!Fails(c)
      PROVE  ShownIsTrue'
  BY <1>1, <1>3 DEF Forge!Answer, Forge!Read, Forge!Fails
<1>4. ASSUME NEW c \in Calls, Forge!Send(c) PROVE ShownIsTrue'
  BY <1>1, <1>4 DEF Forge!Send
<1>5. ASSUME NEW c \in Calls, Forge!Diff(c) PROVE ShownIsTrue'
  <2>1. pc[c] = "sent" /\ script' = script /\ req[c].op = "update_deployment_script"
    BY <1>5 DEF Forge!Diff, Forge!Returns
  <2>2. req[c].arg \in Scripts
    BY <2>1, SentIs DEF CallsInOrder, Posed
  <2>3. shown' \subseteq {[content |-> req[c].arg, diff |-> Forge!diffScripts(script, req[c].arg)]}
    BY <1>5 DEF Forge!Diff
  <2>4. Forge!diffScripts(script, req[c].arg) = diffScripts(script, req[c].arg)
    BY SameDiff
  <2>5. \A s \in shown' : s.content = req[c].arg /\ s.diff = diffScripts(script, req[c].arg)
    BY <2>3, <2>4
  <2> QED BY <2>1, <2>2, <2>5 DEF ShownIsTrue
<1>6. ASSUME NEW c \in Calls, Forge!UpdateDeploymentScript(c) PROVE ShownIsTrue'
  BY <1>6 DEF Forge!UpdateDeploymentScript, ShownIsTrue
<1>7. ASSUME NEW c \in Calls, Forge!DeploySite(c) \/ Forge!ExecuteSiteCommand(c) PROVE ShownIsTrue'
  BY <1>1, <1>7 DEF Forge!DeploySite, Forge!ExecuteSiteCommand
<1> QED BY <1>2, <1>3, <1>4, <1>5, <1>6, <1>7 DEF Forge!Next

\* A call that answers an update was one.
LEMMA UpdateWas ==
  ASSUME CallsInOrder, Forge!Next, NEW c \in Calls, pc[c] = "sent", pc'[c] = "idle", out' = "ok",
         ~req[c].dry, req[c].op = "update_deployment_script"
  PROVE  script' = req[c].arg
<1>1. PICK d \in Calls : \/ Forge!Answer(d) \/ Forge!Send(d) \/ Forge!Read(d) \/ Forge!Diff(d)
                         \/ Forge!Fails(d) \/ Forge!UpdateDeploymentScript(d)
                         \/ Forge!DeploySite(d) \/ Forge!ExecuteSiteCommand(d)
  BY DEF Forge!Next
<1>2. pc \in [Calls -> {"idle", "sent"}]
  BY DEF CallsInOrder
<1>3. ~Forge!Answer(d) /\ ~Forge!Send(d)
  BY <1>2 DEF Forge!Answer, Forge!Send
<1>4. ASSUME NEW o, Forge!Returns(d, o) PROVE d = c
  BY <1>2, <1>4 DEF Forge!Returns
<1>5. ASSUME NEW failures, Forge!FailsBy(d, failures) PROVE d = c /\ out' # "ok"
  <2>1. PICK f \in failures : Forge!Returns(d, Forge!errorCode(f))
    BY <1>5 DEF Forge!FailsBy
  <2>2. out' = Forge!errorCode(f)
    BY <2>1 DEF Forge!Returns
  <2> QED BY <1>4, <2>1, <2>2 DEF Forge!errorCode
<1>6. ~Forge!Fails(d)
  BY <1>5 DEF Forge!Fails
<1>7. ~Forge!Read(d) /\ ~Forge!Diff(d)
  BY <1>4 DEF Forge!Read, Forge!Diff, Forge!Reads
<1>8. ASSUME NEW op, Forge!Write(d, op) PROVE d = c /\ op = "update_deployment_script"
  BY <1>4, <1>5, <1>8 DEF Forge!Write
<1>9. ~Forge!DeploySite(d) /\ ~Forge!ExecuteSiteCommand(d)
  BY <1>8 DEF Forge!DeploySite, Forge!ExecuteSiteCommand
<1>10. Forge!UpdateDeploymentScript(d)
  BY <1>1, <1>3, <1>6, <1>7, <1>9
<1>11. d = c
  BY <1>8, <1>10 DEF Forge!UpdateDeploymentScript
<1> QED BY <1>10, <1>11 DEF Forge!UpdateDeploymentScript

LEMMA UpdateStep ==
  ForgeInv /\ ShownIsTrue /\ [Forge!Next]_(Forge!vars) =>
    [forgeCalm' => \A c \in Calls, s \in shown :
       pc[c] = "sent" /\ pc'[c] = "idle" /\ out' = "ok" /\ ~req[c].dry
         /\ req[c].op = "update_deployment_script" /\ req[c].arg = s.content =>
         /\ s.diff.changed = (script' # script)
         /\ Len(script'.lines) = Len(script.lines) + s.diff.added - s.diff.removed
         /\ ~s.diff.truncated => Forge!Patched(script.lines, s.diff.hunks) = script'.lines]_(Forge!vars)
<1> SUFFICES ASSUME ForgeInv, ShownIsTrue, Forge!Next, NEW c \in Calls, NEW s \in shown,
                    pc[c] = "sent", pc'[c] = "idle", out' = "ok", ~req[c].dry,
                    req[c].op = "update_deployment_script", req[c].arg = s.content
             PROVE  /\ s.diff.changed = (script' # script)
                    /\ Len(script'.lines) = Len(script.lines) + s.diff.added - s.diff.removed
                    /\ ~s.diff.truncated => Forge!Patched(script.lines, s.diff.hunks) = script'.lines
  BY Zenon
<1>1. script' = s.content
  BY UpdateWas DEF ForgeInv
<1>2. script \in Scripts /\ s.content \in Scripts /\ s.diff = diffScripts(script, s.content)
  BY DEF ForgeInv, SiteInOrder, ShownIsTrue
<1>3. Foretells(s.diff, script, script')
  BY <1>1, <1>2, DiffForetells
<1> QED BY <1>3, SamePatch DEF Foretells

(* "Returns a line diff against the proposed content" (forge's connector.go):  *)
(* as long as calls come one at a time, an update that follows its preview     *)
(* changes the script if and only if the preview said so, by as many lines as  *)
(* it said and into what its hunks make of it, for scripts of any length, any  *)
(* context around the changes and any limit on what is compared.               *)
THEOREM UpdateIsAsShown == MCSpec => SiteIsAsTold
<1>1. MCInit => ShownIsTrue
  BY DEF MCInit, Forge!Init, ShownIsTrue
<1>2. ConfigsInv => ForgeInv
  BY DEF ConfigsInv
<1>3. MCSpec => Forge!UpdateIsTheDiff
  BY <1>1, <1>2, MCInductive, ShownStep, UpdateStep, PTL DEF MCSpec, Forge!UpdateIsTheDiff
<1> QED BY <1>3, RefusedRanNothing, PTL DEF SiteIsAsTold

-----------------------------------------------------------------------------
(* The texts of the previews. *)

LEMMA SameTextDiff ==
  ASSUME NEW a, NEW b
  PROVE  Texts!diffLines(a, b) = lineDiff(a, b)
BY DEF Texts!diffLines, Texts!lineDiff, lineDiff, Texts!Op, Op, Texts!LCS, LCS, Texts!Max, Max

LEMMA SameTextUnified ==
  ASSUME NEW ops
  PROVE  Texts!unified(ops) = unified(ops)
BY DEF Texts!unified, unified, Texts!Changes, Changes, Texts!Reach, Reach, Texts!Hunk, Hunk,
       Texts!OldLines, OldLines, Texts!NewLines, NewLines, Texts!LinesBut, LinesBut,
       Texts!Max, Max, Texts!Min, Min

LEMMA SameTextWritten ==
  ASSUME NEW ops
  PROVE  Texts!unifiedDiff(ops) = unifiedDiff(ops)
<1> DEFINE Here(f) == [start \in 1..Len(ops) + 1 |->
             LET later == {k \in Changes(ops) : k >= start}
                 hi == Min({Reach(ops, Min(later), Joined(ops)) + diffContext, Len(ops)})
             IN IF later = {} THEN <<>>
                ELSE <<writeHunk(Hunk(ops, Max({Min(later) - diffContext, 1}), hi))>> \o f[hi + 1]]
           There(f) == [start \in 1..Len(ops) + 1 |->
             LET later == {k \in Texts!Changes(ops) : k >= start}
                 hi == Texts!Min({Texts!Reach(ops, Texts!Min(later), Texts!Joined(ops)) + diffContext, Len(ops)})
             IN IF later = {} THEN <<>>
                ELSE <<Texts!writeHunk(Texts!Hunk(ops, Texts!Max({Texts!Min(later) - diffContext, 1}), hi))>>
                       \o f[hi + 1]]
<1>1. /\ Texts!Changes(ops) = Changes(ops) /\ Texts!Joined(ops) = Joined(ops)
      /\ \A set : Texts!Min(set) = Min(set) /\ Texts!Max(set) = Max(set)
  BY DEF Texts!Changes, Changes, Texts!Joined, Joined, Texts!Min, Min, Texts!Max, Max
<1>2. \A from, gap : Texts!Reach(ops, from, gap) = Reach(ops, from, gap)
  BY DEF Texts!Reach, Reach, Texts!Changes, Changes, Texts!Min, Min
<1>3. \A lines : Texts!OldLines(lines) = OldLines(lines) /\ Texts!NewLines(lines) = NewLines(lines)
  BY DEF Texts!OldLines, OldLines, Texts!NewLines, NewLines, Texts!LinesBut, LinesBut
<1>4. \A lo, hi : Texts!Hunk(ops, lo, hi) = Hunk(ops, lo, hi)
  BY <1>3 DEF Texts!Hunk, Hunk
<1>5. \A hunk : Texts!writeHunk(hunk) = writeHunk(hunk)
  BY <1>3 DEF Texts!writeHunk, writeHunk
<1>6. \A f : There(f) = Here(f)
  BY <1>1, <1>2, <1>4, <1>5, Zenon
<1>7. unifiedDiff(ops) = (CHOOSE f : f = Here(f))[1]
  BY DEF unifiedDiff
<1>8. Texts!unifiedDiff(ops) = (CHOOSE f : f = There(f))[1]
  BY DEF Texts!unifiedDiff
<1> HIDE DEF Here, There
<1>9. (CHOOSE f : f = Here(f)) = (CHOOSE f : f = There(f))
  BY <1>6, Zenon
<1> QED BY <1>7, <1>8, <1>9

LEMMA SameTextCount ==
  ASSUME NEW ops, NEW kind
  PROVE  Texts!Count(ops, kind) = Count(ops, kind)
BY DEF Texts!Count, Count, Texts!Cardinality, Cardinality

LEMMA SameTextRank ==
  ASSUME NEW set, NEW i
  PROVE  Texts!Rank(set, i) = Rank(set, i)
BY DEF Texts!Rank, Rank, Texts!Cardinality, Cardinality

LEMMA SameTextPatch ==
  ASSUME NEW a, NEW b, NEW hunks
  PROVE  /\ Texts!Patched(a, hunks) = Patched(a, hunks)
         /\ Texts!InPlace(a, b, hunks) = InPlace(a, b, hunks)
<1>1. Texts!Patched(a, hunks) = Patched(a, hunks)
  BY DEF Texts!Patched, Patched, Texts!After, After, Texts!OldLines, OldLines, Texts!NewLines, NewLines,
         Texts!LinesBut, LinesBut
<1>2. Texts!InPlace(a, b, hunks) = InPlace(a, b, hunks)
  BY DEF Texts!InPlace, InPlace, Texts!After, After, Texts!OldLines, OldLines, Texts!NewLines, NewLines,
         Texts!LinesBut, LinesBut
<1> QED BY <1>1, <1>2

LEMMA SameTextRead ==
  ASSUME NEW written
  PROVE  [k \in DOMAIN written |-> Texts!Placed(written[k])] = AsRead(written)
BY DEF AsRead, Texts!Placed, Placed, Texts!OldLines, OldLines, Texts!NewLines, NewLines,
       Texts!LinesBut, LinesBut

\* No lines of either text, alike in their order, are more than the diff keeps.
KeepsMost(a, b) ==
  \A old \in SUBSET DOMAIN a, new \in SUBSET DOMAIN b :
    Cardinality(old) = Cardinality(new) /\ Cardinality(old) > Count(lineDiff(a, b), "kept") =>
      \E i \in old, j \in new : Rank(old, i) = Rank(new, j) /\ a[i] # b[j]

LEMMA DiffKeepsMost ==
  ASSUME NEW X, NEW a \in Seq(X), NEW b \in Seq(X)
  PROVE  KeepsMost(a, b)
<1> SUFFICES ASSUME NEW old \in SUBSET DOMAIN a, NEW new \in SUBSET DOMAIN b,
                    Cardinality(old) = Cardinality(new), Cardinality(old) > Count(lineDiff(a, b), "kept")
             PROVE  \E i \in old, j \in new : Rank(old, i) = Rank(new, j) /\ a[i] # b[j]
  BY DEF KeepsMost
<1>1. DOMAIN a = 1..Len(a) /\ DOMAIN b = 1..Len(b)
  BY LenProperties
<1>2. old \in SUBSET (1..Len(a)) /\ new \in SUBSET (1..Len(b))
  BY <1>1
<1> QED BY <1>2, KeptAreMost

\* What a preview of a diff answers.
DiffMade ==
  asked = "diff" => /\ given \in Pairs
                    /\ made # <<>> => /\ made[1].ops = lineDiff(given[1], given[2])
                                      /\ made[1].forge = unified(lineDiff(given[1], given[2]))
                                      /\ made[1].caddy = unifiedDiff(lineDiff(given[1], given[2]))

LEMMA MadeStep == DiffMade /\ [Texts!Next]_(Texts!vars) => DiffMade'
<1> SUFFICES ASSUME DiffMade, [Texts!Next]_(Texts!vars) PROVE DiffMade'
  OBVIOUS
<1>1. CASE UNCHANGED Texts!vars
  BY <1>1 DEF Texts!vars, DiffMade
<1>2. CASE Texts!Diff
  BY <1>2, SameTextDiff, SameTextUnified, SameTextWritten DEF Texts!Diff, DiffMade
<1>3. CASE Texts!Render
  BY <1>3 DEF Texts!Render, DiffMade
<1> QED BY <1>1, <1>2, <1>3 DEF Texts!Next

LEMMA MadeInductive == MCSpec => [](scope = "texts" => DiffMade)
<1>1. MCInit => (scope = "texts" => DiffMade)
  BY DEF MCInit, Texts!Init, DiffMade
<1>2. (scope = "texts" => DiffMade) /\ [MCNext]_<<scope, caddyVars, textVars, forgeVars>>
        => (scope = "texts" => DiffMade)'
  <2> SUFFICES ASSUME scope' = "texts", scope = "texts" => DiffMade,
                      [MCNext]_<<scope, caddyVars, textVars, forgeVars>>
               PROVE  DiffMade'
    OBVIOUS
  <2>1. scope = "texts" /\ [Texts!Next]_(Texts!vars)
    BY DEF MCNext, textVars, Texts!vars
  <2> QED BY <2>1, MadeStep
<1> QED BY <1>1, <1>2, PTL DEF MCSpec

LEMMA DiffIsRight ==
  ASSUME DiffMade
  PROVE  Texts!HunksMakeTheProposed /\ Texts!ChangesAreNeeded
<1> SUFFICES ASSUME asked = "diff", made # <<>>
             PROVE  Texts!HunksMakeTheProposed /\ Texts!ChangesAreNeeded
  BY DEF Texts!HunksMakeTheProposed, Texts!ChangesAreNeeded, Texts!Answered
<1> DEFINE a == given[1]
           b == given[2]
           X == Range(a) \cup Range(b)
           ops == lineDiff(a, b)
<1>1. given \in Pairs /\ made[1].ops = ops /\ made[1].forge = unified(ops) /\ made[1].caddy = unifiedDiff(ops)
  BY DEF DiffMade
<1>2. a \in Seq(X) /\ b \in Seq(X)
  BY <1>1, PairsAssumption
<1> HIDE DEF X
<1>3. Patched(a, unified(ops)) = b /\ InPlace(a, b, unified(ops))
  BY <1>2, UnifiedMakesTheProposed
<1>4. Patched(a, AsRead(unifiedDiff(ops))) = b /\ InPlace(a, b, AsRead(unifiedDiff(ops)))
  BY <1>2, WrittenMakesTheProposed
<1>5. KeepsMost(a, b)
  BY <1>2, DiffKeepsMost
<1>6. Texts!HunksMakeTheProposed
  <2>1. [k \in DOMAIN made[1].caddy |-> Texts!Placed(made[1].caddy[k])] = AsRead(unifiedDiff(ops))
    BY <1>1, SameTextRead
  <2> QED BY <1>1, <1>3, <1>4, <2>1, SameTextPatch DEF Texts!HunksMakeTheProposed
<1>7. Texts!ChangesAreNeeded
  <2> SUFFICES ASSUME NEW old \in SUBSET DOMAIN a, NEW new \in SUBSET DOMAIN b,
                      Texts!Cardinality(old) = Texts!Cardinality(new),
                      Texts!Cardinality(old) > Texts!Count(made[1].ops, "kept")
               PROVE  \E i \in old, j \in new : Texts!Rank(old, i) = Texts!Rank(new, j) /\ a[i] # b[j]
    BY DEF Texts!ChangesAreNeeded
  <2>1. \A set : Texts!Cardinality(set) = Cardinality(set)
    BY DEF Texts!Cardinality, Cardinality
  <2>2. Cardinality(old) = Cardinality(new) /\ Cardinality(old) > Count(ops, "kept")
    BY <1>1, <2>1, SameTextCount
  <2>3. PICK i \in old, j \in new : Rank(old, i) = Rank(new, j) /\ a[i] # b[j]
    BY <1>5, <2>2 DEF KeepsMost
  <2> QED BY <2>3, SameTextRank
<1> QED BY <1>6, <1>7

-----------------------------------------------------------------------------
(* A rendered file: the order of names. *)

\* Two names are the same for n labels.
Agree(s, t, n) == n <= Len(s) /\ n <= Len(t) /\ \A i \in 1..n : s[i] = t[i]

\* n is where s and t part, and s goes first.
PartsAt(s, t, n) == /\ Agree(s, t, n) /\ n < Len(t)
                    /\ n < Len(s) => s[n + 1] < t[n + 1]

LEMMA SameStart ==
  ASSUME NEW s \in Labels, NEW t \in Labels, NEW n \in 0..Len(s), n <= Len(t)
  PROVE  SubSeq(s, 1, n) = SubSeq(t, 1, n) <=> Agree(s, t, n)
<1>0. Len(s) \in Nat /\ Len(t) \in Nat /\ n \in Nat
  BY LenProperties DEF Labels
<1>1. /\ SubSeq(s, 1, n) = [i \in 1..n |-> s[i]]
      /\ SubSeq(t, 1, n) = [i \in 1..n |-> t[i]]
  BY <1>0
<1>2. ASSUME SubSeq(s, 1, n) = SubSeq(t, 1, n), NEW i \in 1..n PROVE s[i] = t[i]
  <2>1. SubSeq(s, 1, n)[i] = s[i] /\ SubSeq(t, 1, n)[i] = t[i]
    BY <1>1
  <2> QED BY <1>2, <2>1
<1> QED BY <1>0, <1>1, <1>2 DEF Agree

LEMMA BeforeIs ==
  ASSUME NEW s \in Labels, NEW t \in Labels
  PROVE  Texts!Before(s, t) <=> \E n \in Nat : PartsAt(s, t, n)
<1> DEFINE same == {n \in 0..Len(s) : n <= Len(t) /\ SubSeq(s, 1, n) = SubSeq(t, 1, n)}
           last == CHOOSE n \in same : \A m \in same : m <= n
<1>0. Len(s) \in Nat /\ Len(t) \in Nat
  BY LenProperties DEF Labels
<1>1. \A n : n \in same <=> n \in Nat /\ Agree(s, t, n)
  BY <1>0, SameStart DEF Agree
<1>2. Texts!Before(s, t) <=> last < Len(t) /\ (last = Len(s) \/ s[last + 1] < t[last + 1])
  BY DEF Texts!Before
<1>3. 0 \in same
  BY <1>0, <1>1 DEF Agree
<1>4. same \in SUBSET (0..Len(s))
  OBVIOUS
<1> HIDE DEF same
<1>5. \E n \in same : \A m \in same : m <= n
  BY <1>0, <1>3, <1>4, GreatestOf
<1>6. last \in same /\ \A m \in same : m <= last
  BY <1>5, Zenon
<1> HIDE DEF last
<1>7. last \in Nat /\ Agree(s, t, last) /\ last <= Len(s)
  BY <1>1, <1>6 DEF Agree
<1>8. ASSUME Texts!Before(s, t) PROVE \E n \in Nat : PartsAt(s, t, n)
  <2>1. PartsAt(s, t, last)
    BY <1>0, <1>2, <1>7, <1>8 DEF PartsAt
  <2> QED BY <1>7, <2>1
<1>9. ASSUME NEW n \in Nat, PartsAt(s, t, n) PROVE Texts!Before(s, t)
  <2>1. n \in same
    BY <1>1, <1>9 DEF PartsAt
  <2>2. n <= last
    BY <1>6, <2>1
  <2>3. ~(n < last)
    <3> SUFFICES ASSUME n < last PROVE FALSE
      OBVIOUS
    <3>1. n < Len(s) /\ n + 1 \in 1..last /\ n < Len(t)
      BY <1>0, <1>7 DEF Agree
    <3>2. s[n + 1] = t[n + 1]
      BY <1>7, <3>1 DEF Agree
    <3>3. s[n + 1] \in Nat
      BY <1>0, <3>1, ElementOfSeq DEF Labels
    <3> QED BY <1>9, <3>1, <3>2, <3>3 DEF PartsAt
  <2>4. n = last
    BY <1>7, <2>2, <2>3
  <2> QED BY <1>0, <1>2, <1>7, <1>9, <2>4 DEF PartsAt
<1> QED BY <1>8, <1>9

LEMMA NeverBefore ==
  ASSUME NEW s \in Labels
  PROVE  ~Texts!Before(s, s)
<1> SUFFICES ASSUME NEW n \in Nat, PartsAt(s, s, n) PROVE FALSE
  BY BeforeIs
<1>1. Len(s) \in Nat /\ n < Len(s) /\ s[n + 1] < s[n + 1] /\ n + 1 \in 1..Len(s)
  BY LenProperties DEF PartsAt, Labels
<1>2. s[n + 1] \in Nat
  BY <1>1, ElementOfSeq DEF Labels
<1> QED BY <1>1, <1>2

LEMMA BeforeFollows ==
  ASSUME NEW s \in Labels, NEW t \in Labels, NEW u \in Labels, Texts!Before(s, t), Texts!Before(t, u)
  PROVE  Texts!Before(s, u)
<1>0. Len(s) \in Nat /\ Len(t) \in Nat /\ Len(u) \in Nat
  BY LenProperties DEF Labels
<1>1. PICK m \in Nat : PartsAt(s, t, m)
  BY BeforeIs
<1>2. PICK n \in Nat : PartsAt(t, u, n)
  BY BeforeIs
<1>3. /\ \A k \in 1..Len(s) : s[k] \in Nat
      /\ \A k \in 1..Len(t) : t[k] \in Nat
      /\ \A k \in 1..Len(u) : u[k] \in Nat
  BY ElementOfSeq DEF Labels
<1>4. CASE m < n
  <2>1. Agree(s, u, m) /\ m < Len(u)
    BY <1>0, <1>1, <1>2, <1>4 DEF PartsAt, Agree
  <2>2. t[m + 1] = u[m + 1]
    BY <1>2, <1>4 DEF PartsAt, Agree
  <2>3. PartsAt(s, u, m)
    BY <1>1, <2>1, <2>2 DEF PartsAt
  <2> QED BY <2>3, BeforeIs
<1>5. CASE m = n
  <2>1. Agree(s, u, m) /\ m < Len(u)
    BY <1>0, <1>1, <1>2, <1>5 DEF PartsAt, Agree
  <2>2. ASSUME m < Len(s) PROVE s[m + 1] < u[m + 1]
    <3>1. m < Len(t) /\ s[m + 1] < t[m + 1] /\ t[m + 1] < u[m + 1]
      BY <1>1, <1>2, <1>5, <2>2 DEF PartsAt
    <3>2. s[m + 1] \in Nat /\ t[m + 1] \in Nat /\ u[m + 1] \in Nat
      BY <1>0, <1>3, <2>1, <2>2, <3>1
    <3> QED BY <3>1, <3>2
  <2>3. PartsAt(s, u, m)
    BY <2>1, <2>2 DEF PartsAt
  <2> QED BY <2>3, BeforeIs
<1>6. CASE n < m
  <2>1. Agree(s, u, n) /\ n < Len(u) /\ n < Len(t)
    BY <1>0, <1>1, <1>2, <1>6 DEF PartsAt, Agree
  <2>2. s[n + 1] = t[n + 1]
    BY <1>1, <1>6 DEF PartsAt, Agree
  <2>3. PartsAt(s, u, n)
    BY <1>2, <2>1, <2>2 DEF PartsAt
  <2> QED BY <2>3, BeforeIs
<1> QED BY <1>4, <1>5, <1>6

LEMMA BeforeOrAfter ==
  ASSUME NEW s \in Labels, NEW t \in Labels, s # t
  PROVE  Texts!Before(s, t) \/ Texts!Before(t, s)
<1> DEFINE same == {n \in 0..Len(s) : Agree(s, t, n)}
<1>0. Len(s) \in Nat /\ Len(t) \in Nat
  BY LenProperties DEF Labels
<1>1. 0 \in same /\ same \in SUBSET (0..Len(s))
  BY <1>0 DEF Agree
<1>2. PICK n \in same : \A m \in same : m <= n
  <2> HIDE DEF same
  <2> QED BY <1>0, <1>1, GreatestOf
<1>3. n \in Nat /\ Agree(s, t, n) /\ Agree(t, s, n)
  BY <1>2 DEF Agree
<1>4. CASE n = Len(s) /\ n = Len(t)
  <2>1. s = [i \in 1..n |-> s[i]] /\ t = [i \in 1..n |-> t[i]]
    BY <1>4, LenProperties DEF Labels
  <2>2. \A i \in 1..n : s[i] = t[i]
    BY <1>3 DEF Agree
  <2> QED BY <2>1, <2>2
<1>5. CASE n = Len(s) /\ n < Len(t)
  <2>1. PartsAt(s, t, n)
    BY <1>0, <1>3, <1>5 DEF PartsAt
  <2> QED BY <1>3, <2>1, BeforeIs
<1>6. CASE n < Len(s) /\ n = Len(t)
  <2>1. PartsAt(t, s, n)
    BY <1>0, <1>3, <1>6 DEF PartsAt
  <2> QED BY <1>3, <2>1, BeforeIs
<1>7. CASE n < Len(s) /\ n < Len(t)
  <2>1. s[n + 1] \in Nat /\ t[n + 1] \in Nat
    <3>1. n + 1 \in 1..Len(s) /\ n + 1 \in 1..Len(t)
      BY <1>0, <1>3, <1>7
    <3> QED BY <3>1, ElementOfSeq DEF Labels
  <2>2. s[n + 1] # t[n + 1]
    <3> SUFFICES ASSUME s[n + 1] = t[n + 1] PROVE FALSE
      OBVIOUS
    <3>1. Agree(s, t, n + 1) /\ n + 1 \in 0..Len(s)
      BY <1>0, <1>3, <1>7 DEF Agree
    <3> QED BY <1>2, <1>3, <3>1
  <2>3. s[n + 1] < t[n + 1] \/ t[n + 1] < s[n + 1]
    BY <2>1, <2>2
  <2>4. PartsAt(s, t, n) \/ PartsAt(t, s, n)
    BY <1>3, <1>7, <2>3 DEF PartsAt
  <2> QED BY <1>3, <2>4, BeforeIs
<1>8. n <= Len(s) /\ n <= Len(t)
  BY <1>3 DEF Agree
<1> QED BY <1>0, <1>3, <1>4, <1>5, <1>6, <1>7, <1>8

LEMMA SameCardinality == \A set : Texts!Cardinality(set) = Cardinality(set)
BY DEF Texts!Cardinality, Cardinality

\* The names of a set that come before s.
Earlier(names, s) == {t \in names : Texts!Before(t, s)}

LEMMA EarlierGrows ==
  ASSUME NEW names \in SUBSET Labels, IsFiniteSet(names), NEW s \in names, NEW t \in names,
         Texts!Before(s, t)
  PROVE  Cardinality(Earlier(names, s)) < Cardinality(Earlier(names, t))
<1>1. Earlier(names, s) \subseteq Earlier(names, t)
  BY BeforeFollows DEF Earlier
<1>2. s \in Earlier(names, t) /\ s \notin Earlier(names, s)
  BY NeverBefore DEF Earlier
<1>3. IsFiniteSet(Earlier(names, t)) /\ IsFiniteSet(Earlier(names, s))
  <2>1. Earlier(names, t) \in SUBSET names /\ Earlier(names, s) \in SUBSET names
    BY DEF Earlier
  <2> QED BY <2>1, FS_Subset
<1>4. /\ Cardinality(Earlier(names, s)) <= Cardinality(Earlier(names, t))
      /\ Cardinality(Earlier(names, s)) # Cardinality(Earlier(names, t))
  BY <1>1, <1>2, <1>3, FS_Subset
<1>5. Cardinality(Earlier(names, s)) \in Nat /\ Cardinality(Earlier(names, t)) \in Nat
  BY <1>3, FS_CardinalityType
<1> QED BY <1>4, <1>5

\* Every name of a set has its place in the order and every place its name.
LEMMA OrderedIs ==
  ASSUME NEW names \in SUBSET Labels, IsFiniteSet(names)
  PROVE  Texts!Ordered(names) \in Bijection(1..Cardinality(names), names)
<1> DEFINE n == Cardinality(names)
           rank == [s \in names |-> Cardinality(Earlier(names, s))]
           order == [i \in 1..n |-> CHOOSE s \in names : Cardinality(Earlier(names, s)) = i - 1]
<1>0. n \in Nat
  BY FS_CardinalityType
<1>1. Texts!Ordered(names) = order
  BY DEF Texts!Ordered, Earlier, Texts!Cardinality, Cardinality
<1>2. rank \in [names -> 0..n - 1]
  <2>1. ASSUME NEW s \in names PROVE Cardinality(Earlier(names, s)) \in 0..n - 1
    <3>1. Earlier(names, s) \in SUBSET names /\ s \notin Earlier(names, s)
      BY NeverBefore DEF Earlier
    <3>2. IsFiniteSet(Earlier(names, s)) /\ Cardinality(Earlier(names, s)) <= n
          /\ Cardinality(Earlier(names, s)) # n
      BY <3>1, FS_Subset
    <3>3. Cardinality(Earlier(names, s)) \in Nat
      BY <3>2, FS_CardinalityType
    <3> QED BY <1>0, <3>2, <3>3
  <2> QED BY <2>1
<1>3. \A s, t \in names : rank[s] = rank[t] => s = t
  <2> SUFFICES ASSUME NEW s \in names, NEW t \in names, s # t PROVE rank[s] # rank[t]
    OBVIOUS
  <2>1. Texts!Before(s, t) \/ Texts!Before(t, s)
    BY BeforeOrAfter
  <2>2. rank[s] < rank[t] \/ rank[t] < rank[s]
    BY <2>1, EarlierGrows
  <2>3. rank[s] \in Int /\ rank[t] \in Int
    BY <1>0, <1>2
  <2> QED BY <2>2, <2>3
<1>r. \A s \in names : rank[s] = Cardinality(Earlier(names, s))
  OBVIOUS
<1> HIDE DEF rank
<1>4. rank \in Injection(names, 0..n - 1)
  BY <1>2, <1>3, Fun_IsInj
<1>5. rank \in Surjection(names, 0..n - 1)
  <2> HIDE DEF n
  <2>1. n - 1 \in Int /\ (0 > n - 1 => n = 0) /\ (n - 1) - 0 + 1 = n
    BY <1>0
  <2>2. IsFiniteSet(0..n - 1) /\ Cardinality(0..n - 1) = n
    BY <2>1, FS_Interval
  <2> QED BY <1>4, <2>2, FS_Injection DEF n
<1>6. \A i \in 1..n : \E s \in names : rank[s] = i - 1
  <2>1. \A r \in 0..n - 1 : \E s \in names : rank[s] = r
    BY <1>5 DEF Surjection
  <2> QED BY <1>0, <2>1
<1>7. \A i \in 1..n : order[i] \in names /\ rank[order[i]] = i - 1
  BY <1>6, <1>r
<1>8. order \in [1..n -> names]
  BY <1>7
<1> HIDE DEF order
<1>9. \A i, j \in 1..n : order[i] = order[j] => i = j
  BY <1>0, <1>7
<1>10. \A s \in names : \E i \in 1..n : order[i] = s
  <2> SUFFICES ASSUME NEW s \in names PROVE \E i \in 1..n : order[i] = s
    OBVIOUS
  <2>1. rank[s] \in 0..n - 1
    BY <1>2
  <2>2. rank[s] + 1 \in 1..n /\ (rank[s] + 1) - 1 = rank[s]
    BY <1>0, <2>1
  <2>3. order[rank[s] + 1] = s
    BY <1>3, <1>7, <2>2
  <2> QED BY <2>2, <2>3
<1> HIDE DEF n
<1>11. order \in Bijection(1..n, names)
  BY <1>8, <1>9, <1>10, Fun_IsBij
<1> QED BY <1>1, <1>11 DEF n

-----------------------------------------------------------------------------
(* What a rendered file serves. *)

\* A declaration that was accepted, and its routes.
Accepted(in) == /\ in.routes \in Seq(Routes) /\ Texts!parseBind(in.bind)
                /\ \A i \in DOMAIN in.routes : Texts!SoundRoute(in.routes[i])
                /\ Texts!Distinct(in.routes)
Declared(in) == {in.routes[i] : i \in DOMAIN in.routes}

LEMMA LoweredType ==
  ASSUME NEW r \in Routes
  PROVE  Texts!Lowered(r) \in Routes
<1>1. ASSUME NEW s \in Labels PROVE Texts!LowerAll(s) \in Labels
  <2>1. Len(s) \in Nat /\ DOMAIN s = 1..Len(s) /\ \A i \in 1..Len(s) : s[i] \in Nat
    BY LenProperties, ElementOfSeq DEF Labels
  <2>2. \A i \in 1..Len(s) : Texts!ToLower(s[i]) \in Nat
    BY <2>1 DEF Texts!ToLower, Texts!Case
  <2>3. Texts!LowerAll(s) \in [1..Len(s) -> Nat]
    BY <2>1, <2>2 DEF Texts!LowerAll
  <2> QED BY <2>1, <2>3, SeqDef DEF Labels
<1>2. r.name \in Labels /\ r.host \in Labels /\ r.domain \in Labels /\ r.port \in Int
  BY DEF Routes
<1> QED BY <1>1, <1>2 DEF Texts!Lowered, Routes

\* What is accepted of a declaration is that one with its routes in lower case.
AcceptedOf(in, d) ==
  /\ Accepted(in) /\ in.bind = d.bind /\ in.tls = d.tls
  /\ in.routes = [i \in DOMAIN d.routes |-> Texts!Lowered(d.routes[i])]

LEMMA AcceptedIs ==
  ASSUME NEW d \in Declarations, NEW in \in Texts!parseRenderInput(d)
  PROVE  AcceptedOf(in, d)
<1> DEFINE routes == [i \in DOMAIN d.routes |-> Texts!Lowered(d.routes[i])]
<1>1. /\ in = [bind |-> d.bind, tls |-> d.tls, routes |-> routes]
      /\ Texts!parseBind(d.bind) /\ \A i \in DOMAIN routes : Texts!SoundRoute(routes[i])
      /\ Texts!Distinct(routes)
  BY DEF Texts!parseRenderInput
<1>2. routes \in Seq(Routes)
  <2>1. d.routes \in Seq(Routes)
    BY DeclarationsAssumption
  <2>2. Len(d.routes) \in Nat /\ DOMAIN d.routes = 1..Len(d.routes)
        /\ \A i \in 1..Len(d.routes) : d.routes[i] \in Routes
    BY <2>1, LenProperties, ElementOfSeq
  <2>3. routes \in [1..Len(d.routes) -> Routes]
    BY <2>2, LoweredType
  <2> QED BY <2>2, <2>3, SeqDef
<1> HIDE DEF routes
<1>3. in.bind = d.bind /\ in.tls = d.tls /\ in.routes = routes
  BY <1>1
<1> QED BY <1>1, <1>2, <1>3 DEF AcceptedOf, Accepted, routes

LEMMA TailOfOne ==
  ASSUME NEW X, NEW s \in Seq(X), NEW t \in Seq(X), Len(s) = 1
  PROVE  Tail(s \o t) = t
<1>1. Len(t) \in Nat /\ t = [i \in 1..Len(t) |-> t[i]]
  BY LenProperties
<1>2. s \o t \in Seq(X) /\ Len(s \o t) = 1 + Len(t)
  BY ConcatProperties
<1>3. s \o t # <<>>
  BY <1>1, <1>2
<1>4. \A i \in 1..Len(t) : (s \o t)[i + 1] = t[i]
  <2> SUFFICES ASSUME NEW i \in 1..Len(t) PROVE (s \o t)[i + 1] = t[i]
    OBVIOUS
  <2>1. i + 1 \in 1..Len(s) + Len(t) /\ ~(i + 1 <= Len(s)) /\ (i + 1) - Len(s) = i
    BY <1>1
  <2>2. (s \o t)[i + 1] = IF i + 1 <= Len(s) THEN s[i + 1] ELSE t[(i + 1) - Len(s)]
    BY <2>1, ConcatProperties
  <2> QED BY <2>1, <2>2
<1> DEFINE both == s \o t
<1> HIDE DEF both
<1>5. Tail(both) \in Seq(X) /\ Len(Tail(both)) = Len(both) - 1
      /\ \A i \in 1..Len(Tail(both)) : Tail(both)[i] = both[i + 1]
  BY <1>2, <1>3, HeadTailProperties DEF both
<1> DEFINE rest == Tail(both)
<1> HIDE DEF rest
<1>6. Len(rest) = Len(t) /\ \A i \in 1..Len(t) : rest[i] = t[i]
  BY <1>1, <1>2, <1>4, <1>5 DEF rest, both
<1>7. rest = [i \in 1..Len(rest) |-> rest[i]]
  BY <1>5, LenProperties DEF rest
<1> QED BY <1>1, <1>6, <1>7 DEF rest, both

\* The parts of a route's name.
LEMMA NameParts ==
  ASSUME NEW r \in Routes, Texts!SoundRoute(r)
  PROVE  /\ Texts!fqdn(r) = r.name \o Texts!wildcard(r)
         /\ Tail(Texts!fqdn(r)) = Texts!wildcard(r)
         /\ r.name \in Labels /\ Texts!wildcard(r) \in Labels
<1>1. r.name \in Seq(Nat) /\ r.host \in Seq(Nat) /\ r.domain \in Seq(Nat) /\ Len(r.name) = 1
  BY DEF Routes, Labels, Texts!SoundRoute
<1>2. r.host \o r.domain \in Seq(Nat)
  BY <1>1, ConcatProperties
<1>3. (r.name \o r.host) \o r.domain = r.name \o (r.host \o r.domain)
  <2>1. ASSUME NEW s \in Seq(Nat), NEW t \in Seq(Nat), NEW u \in Seq(Nat)
        PROVE  (s \o t) \o u = s \o (t \o u)
    BY ConcatAssociative
  <2> QED BY <1>1, <2>1
<1>4. Tail(r.name \o (r.host \o r.domain)) = r.host \o r.domain
  BY <1>1, <1>2, TailOfOne, Zenon
<1> QED BY <1>1, <1>2, <1>3, <1>4 DEF Texts!fqdn, Texts!wildcard, Labels

LEMMA RoutesAre ==
  ASSUME NEW in, Accepted(in)
  PROVE  /\ Declared(in) \in SUBSET Routes /\ IsFiniteSet(Declared(in))
         /\ \A r \in Declared(in) : Texts!SoundRoute(r)
         /\ \A r, q \in Declared(in) : Texts!fqdn(r) = Texts!fqdn(q) => r = q
<1> DEFINE routes == in.routes
           n == Len(routes)
<1>1. n \in Nat /\ DOMAIN routes = 1..n /\ routes \in [1..n -> Routes]
  BY LenProperties DEF Accepted
<1>2. Declared(in) \in SUBSET Routes /\ \A r \in Declared(in) : Texts!SoundRoute(r)
  BY <1>1 DEF Declared, Accepted
<1>3. IsFiniteSet(Declared(in))
  <2>1. routes \in Surjection(1..n, Declared(in))
    BY <1>1 DEF Surjection, Declared
  <2>2. IsFiniteSet(1..n)
    BY <1>1, FS_Interval
  <2> QED BY <2>1, <2>2, FS_Surjection
<1>4. \A r, q \in Declared(in) : Texts!fqdn(r) = Texts!fqdn(q) => r = q
  BY DEF Declared, Accepted, Texts!Distinct
<1> QED BY <1>2, <1>3, <1>4

\* The routes a site answers for, what it is in a file, and its handlers: one for
\* each of these routes, no two of one name.
RoutesAt(in, x) == {r \in Declared(in) : Texts!wildcard(r) = x}
SiteAt(in, x) == [address |-> x, tls |-> in.tls, handlers |-> Texts!Handlers(in.routes, x)]
OneEach(in, x, handlers) ==
  /\ \A k \in DOMAIN handlers : \E r \in RoutesAt(in, x) : handlers[k] = Texts!Handler(r)
  /\ \A r \in RoutesAt(in, x) : \E k \in DOMAIN handlers : handlers[k] = Texts!Handler(r)
  /\ \A k, m \in DOMAIN handlers : handlers[k].name = handlers[m].name => k = m
  /\ \E n \in Nat : DOMAIN handlers = 1..n

LEMMA HandlersAre ==
  ASSUME NEW in, Accepted(in), NEW x
  PROVE  OneEach(in, x, Texts!Handlers(in.routes, x))
<1> DEFINE site == RoutesAt(in, x)
           names == {r.name : r \in site}
           order == Texts!Ordered(names)
           handlers == Texts!Handlers(in.routes, x)
<1>1. /\ site \in SUBSET Routes /\ IsFiniteSet(site)
      /\ \A r \in site : Texts!SoundRoute(r) /\ Texts!wildcard(r) = x
      /\ \A r, q \in site : Texts!fqdn(r) = Texts!fqdn(q) => r = q
  <2>1. site \in SUBSET Declared(in)
    BY DEF RoutesAt
  <2>2. IsFiniteSet(site)
    BY <2>1, RoutesAre, FS_Subset
  <2> QED BY <2>1, <2>2, RoutesAre DEF RoutesAt
<1>2. handlers = [i \in DOMAIN order |-> Texts!Handler(CHOOSE r \in site : r.name = order[i])]
  BY DEF Texts!Handlers, Texts!Range, RoutesAt, Declared
<1> HIDE DEF site, handlers
<1>3. names \in SUBSET Labels /\ IsFiniteSet(names)
  <2>1. names \in SUBSET Labels
    BY <1>1 DEF Routes
  <2>2. [r \in site |-> r.name] \in Surjection(site, names)
    BY DEF Surjection
  <2> QED BY <1>1, <2>1, <2>2, FS_Surjection
<1>4. ASSUME NEW r \in site, NEW q \in site, r.name = q.name PROVE r = q
  BY <1>1, <1>4, NameParts
<1> DEFINE n == Cardinality(names)
<1>5. n \in Nat
  BY <1>3, FS_CardinalityType
<1>6. /\ order \in [1..n -> names]
      /\ \A i, j \in 1..n : order[i] = order[j] => i = j
      /\ \A s \in names : \E i \in 1..n : order[i] = s
  <2> HIDE DEF order, names, n
  <2>1. order \in Bijection(1..n, names)
    BY <1>3, OrderedIs DEF order, n
  <2> QED BY <2>1 DEF Bijection, Injection, Surjection, IsInjective
<1> HIDE DEF order, n
<1> DEFINE pick == [i \in 1..n |-> CHOOSE r \in site : r.name = order[i]]
<1>7. DOMAIN handlers = 1..n /\ \A i \in 1..n : handlers[i] = Texts!Handler(pick[i])
  BY <1>2, <1>6
<1>8. \A i \in 1..n : pick[i] \in site /\ pick[i].name = order[i]
  BY <1>6
<1> HIDE DEF pick
<1>9. \A i \in 1..n : handlers[i].name = order[i]
  BY <1>7, <1>8 DEF Texts!Handler
<1>10. ASSUME NEW r \in site PROVE \E k \in 1..n : handlers[k] = Texts!Handler(r)
  <2>1. PICK k \in 1..n : order[k] = r.name
    BY <1>6
  <2>2. pick[k] = r
    BY <1>4, <1>8, <2>1
  <2> QED BY <1>7, <2>2
<1>11. \A k \in 1..n : \E r \in site : handlers[k] = Texts!Handler(r)
  BY <1>7, <1>8
<1>12. \A k, m \in 1..n : handlers[k].name = handlers[m].name => k = m
  BY <1>6, <1>9
<1> QED BY <1>5, <1>7, <1>10, <1>11, <1>12 DEF OneEach, site, handlers

LEMMA SitesAre ==
  ASSUME NEW in, Accepted(in)
  PROVE  /\ Texts!renderCaddyfile(in).bind = in.bind
         /\ Texts!Range(Texts!renderCaddyfile(in).sites) = {SiteAt(in, Texts!wildcard(r)) : r \in Declared(in)}
<1> DEFINE addresses == {Texts!wildcard(r) : r \in Declared(in)}
           order == Texts!Ordered(addresses)
           n == Cardinality(addresses)
           sites == [i \in DOMAIN order |-> SiteAt(in, order[i])]
<1>1. Texts!renderCaddyfile(in) = [bind |-> in.bind, sites |-> sites]
  BY DEF Texts!renderCaddyfile, Texts!Range, Declared, SiteAt
<1>2. addresses \in SUBSET Labels /\ IsFiniteSet(addresses)
  <2>1. Declared(in) \in SUBSET Routes /\ IsFiniteSet(Declared(in))
        /\ \A r \in Declared(in) : Texts!SoundRoute(r)
    BY RoutesAre
  <2>2. addresses \in SUBSET Labels
    BY <2>1, NameParts
  <2>3. [r \in Declared(in) |-> Texts!wildcard(r)] \in Surjection(Declared(in), addresses)
    BY DEF Surjection
  <2> QED BY <2>1, <2>2, <2>3, FS_Surjection
<1>3. order \in [1..n -> addresses] /\ \A x \in addresses : \E i \in 1..n : order[i] = x
  <2> HIDE DEF order, addresses, n
  <2>1. order \in Bijection(1..n, addresses)
    BY <1>2, OrderedIs DEF order, n
  <2> QED BY <2>1 DEF Bijection, Injection, Surjection, IsInjective
<1> HIDE DEF order, n
<1>4. {sites[i] : i \in DOMAIN sites} = {SiteAt(in, x) : x \in addresses}
  BY <1>3
<1>5. {SiteAt(in, x) : x \in addresses} = {SiteAt(in, Texts!wildcard(r)) : r \in Declared(in)}
  OBVIOUS
<1> HIDE DEF sites
<1> QED BY <1>1, <1>4, <1>5 DEF Texts!Range

\* A declared name is served by its port: of its site's handlers its own answers.
LEMMA PortsAre ==
  ASSUME NEW in, Accepted(in), NEW r \in Declared(in)
  PROVE  Texts!PortsOf(Texts!renderCaddyfile(in), Texts!fqdn(r)) = {r.port}
<1> DEFINE x == Texts!wildcard(r)
           name == Texts!fqdn(r)
           handlers == Texts!Handlers(in.routes, x)
           hit == {k \in DOMAIN handlers : handlers[k].host = name /\ \A m \in 1..k - 1 : handlers[m].host # name}
           text == Texts!renderCaddyfile(in)
<1>1. /\ Declared(in) \in SUBSET Routes
      /\ \A q \in Declared(in) : Texts!SoundRoute(q)
      /\ \A q \in Declared(in) : Texts!fqdn(q) = name => q = r
  BY RoutesAre
<1>2. Tail(name) = x
  BY <1>1, NameParts
<1>3. OneEach(in, x, handlers)
  BY HandlersAre
<1>4. Texts!Range(text.sites) = {SiteAt(in, Texts!wildcard(q)) : q \in Declared(in)}
  BY SitesAre
<1> HIDE DEF x, name, handlers, text
<1>5. \A s : s \in Texts!Range(text.sites) /\ s.address = x <=> s = SiteAt(in, x)
  BY <1>4 DEF SiteAt, x
<1>6. SiteAt(in, x).handlers = handlers
  BY DEF SiteAt, handlers
<1>7. Texts!Proxied(SiteAt(in, x), name) = {handlers[k].port : k \in hit}
  BY <1>6 DEF Texts!Proxied
<1>8. Texts!PortsOf(text, name) = {handlers[k].port : k \in hit}
  <2>1. {s \in Texts!Range(text.sites) : s.address = Tail(name)} = {SiteAt(in, x)}
    BY <1>2, <1>5
  <2>2. Texts!PortsOf(text, name) = UNION {Texts!Proxied(s, name) : s \in {SiteAt(in, x)}}
    BY <2>1 DEF Texts!PortsOf
  <2> QED BY <1>7, <2>2
<1>9. ASSUME NEW k \in DOMAIN handlers, handlers[k].host = name
      PROVE  handlers[k] = Texts!Handler(r)
  <2>1. PICK q \in RoutesAt(in, x) : handlers[k] = Texts!Handler(q)
    BY <1>3 DEF OneEach
  <2>2. q \in Declared(in) /\ Texts!fqdn(q) = name
    BY <1>9, <2>1 DEF RoutesAt, Texts!Handler
  <2> QED BY <1>1, <2>1, <2>2
<1>10. \A k \in hit : handlers[k].port = r.port
  BY <1>9 DEF Texts!Handler
<1>11. \E k \in hit : handlers[k].port = r.port
  <2>1. r \in RoutesAt(in, x)
    BY DEF RoutesAt, x
  <2>2. PICK k \in DOMAIN handlers : handlers[k] = Texts!Handler(r)
    BY <1>3, <2>1 DEF OneEach
  <2>3. handlers[k].host = name /\ handlers[k].port = r.port
    BY <2>2 DEF Texts!Handler, name
  <2>4. ASSUME NEW m \in 1..k - 1, handlers[m].host = name PROVE FALSE
    <3>1. PICK n \in Nat : DOMAIN handlers = 1..n
      BY <1>3 DEF OneEach
    <3>2. m \in DOMAIN handlers /\ m # k
      BY <3>1
    <3>3. handlers[m] = Texts!Handler(r)
      BY <1>9, <2>4, <3>2
    <3>4. handlers[m].name = handlers[k].name
      BY <2>2, <3>3
    <3> QED BY <1>3, <3>2, <3>4 DEF OneEach
  <2>5. k \in hit
    BY <2>3, <2>4
  <2> QED BY <2>3, <2>5
<1> HIDE DEF hit
<1>12. {handlers[k].port : k \in hit} = {r.port}
  BY <1>10, <1>11
<1> QED BY <1>8, <1>12 DEF text, name

(***************************************************************************)
(* "A route declares ..." (parseRenderInput and renderCaddyfile of caddy's  *)
(* render.go): of a declaration that is accepted the file serves every      *)
(* route's name by its own port and serves no other name, whatever the      *)
(* names, their hosts and domains and the order of the routes, and listens  *)
(* on no public address.                                                    *)
(***************************************************************************)
THEOREM DeclaredIsServed ==
  ASSUME NEW d \in Declarations, NEW in \in Texts!parseRenderInput(d)
  PROVE  LET text == Texts!renderCaddyfile(in)
             routes == {Texts!Lowered(d.routes[i]) : i \in DOMAIN d.routes}
         IN /\ text.bind \in {"tailnet", "loopback"}
            /\ \A r \in routes : Texts!PortsOf(text, Texts!fqdn(r)) = {r.port}
            /\ \A s \in Texts!Range(text.sites) : \A k \in DOMAIN s.handlers :
                 \E r \in routes : s.handlers[k].host = Texts!fqdn(r) /\ s.address = Texts!wildcard(r)
<1> DEFINE text == Texts!renderCaddyfile(in)
           routes == {Texts!Lowered(d.routes[i]) : i \in DOMAIN d.routes}
<1>1. AcceptedOf(in, d)
  BY AcceptedIs
<1>2. routes = Declared(in)
  BY <1>1 DEF AcceptedOf, Declared
<1>3. Accepted(in)
  BY <1>1 DEF AcceptedOf
<1>4. text.bind \in {"tailnet", "loopback"}
  BY <1>3, SitesAre DEF Accepted, Texts!parseBind
<1> HIDE DEF text, routes
<1>5. ASSUME NEW r \in routes PROVE Texts!PortsOf(text, Texts!fqdn(r)) = {r.port}
  BY <1>2, <1>3, PortsAre DEF text
<1>6. ASSUME NEW s \in Texts!Range(text.sites), NEW k \in DOMAIN s.handlers
      PROVE  \E r \in routes : s.handlers[k].host = Texts!fqdn(r) /\ s.address = Texts!wildcard(r)
  <2>1. PICK q \in Declared(in) : s = SiteAt(in, Texts!wildcard(q))
    BY <1>3, SitesAre DEF text
  <2> DEFINE x == Texts!wildcard(q)
  <2> HIDE DEF x
  <2>2. s.address = x /\ s.handlers = Texts!Handlers(in.routes, x)
    BY <2>1 DEF SiteAt, x
  <2>3. PICK r \in RoutesAt(in, x) : s.handlers[k] = Texts!Handler(r)
    <3>1. OneEach(in, x, s.handlers)
      BY <1>3, <2>2, HandlersAre
    <3> QED BY <3>1 DEF OneEach
  <2>4. r \in Declared(in) /\ Texts!wildcard(r) = x /\ s.handlers[k].host = Texts!fqdn(r)
    BY <2>3 DEF RoutesAt, Texts!Handler
  <2> QED BY <1>2, <2>2, <2>4
<1> QED BY <1>4, <1>5, <1>6 DEF text, routes

LEMMA SameRoutesSameFile ==
  ASSUME NEW in, NEW other, in.bind = other.bind, in.tls = other.tls, Declared(in) = Declared(other)
  PROVE  Texts!renderCaddyfile(in) = Texts!renderCaddyfile(other)
<1>1. Texts!Range(in.routes) = Texts!Range(other.routes)
  BY DEF Declared, Texts!Range
<1>2. \A x : Texts!Handlers(in.routes, x) = Texts!Handlers(other.routes, x)
  BY <1>1 DEF Texts!Handlers
<1> QED BY <1>1, <1>2 DEF Texts!renderCaddyfile

(***************************************************************************)
(* "Output is deterministic: sites and the routes inside them are sorted"   *)
(* (caddy's render.go): the order in which a declaration lists its routes   *)
(* does not reach the file, nor whether it is accepted.                     *)
(***************************************************************************)
THEOREM OrderDoesNotMatter ==
  ASSUME NEW d \in Declarations, NEW p \in Texts!Bijection(DOMAIN d.routes, DOMAIN d.routes),
         NEW e, e = [bind |-> d.bind, tls |-> d.tls, routes |-> [i \in DOMAIN d.routes |-> d.routes[p[i]]]]
  PROVE  {Texts!renderCaddyfile(in) : in \in Texts!parseRenderInput(e)}
           = {Texts!renderCaddyfile(in) : in \in Texts!parseRenderInput(d)}
<1> DEFINE D == DOMAIN d.routes
           lowered == [i \in D |-> Texts!Lowered(d.routes[i])]
           moved == [i \in D |-> Texts!Lowered(d.routes[p[i]])]
           Sound(routes) == /\ Texts!parseBind(d.bind) /\ d.tls \in Texts!TLSModes
                            /\ routes # <<>> /\ \A i \in DOMAIN routes : Texts!SoundRoute(routes[i])
                            /\ Texts!Distinct(routes)
           As(routes) == [bind |-> d.bind, tls |-> d.tls, routes |-> routes]
<1>1. /\ Texts!parseRenderInput(d) = IF Sound(lowered) THEN {As(lowered)} ELSE {}
      /\ Texts!parseRenderInput(e) = IF Sound(moved) THEN {As(moved)} ELSE {}
  <2>1. e.bind = d.bind /\ e.tls = d.tls /\ DOMAIN e.routes = D /\ \A i \in D : e.routes[i] = d.routes[p[i]]
    OBVIOUS
  <2>2. [i \in DOMAIN e.routes |-> Texts!Lowered(e.routes[i])] = moved
    BY <2>1
  <2> QED BY <2>1, <2>2 DEF Texts!parseRenderInput
<1>2. /\ \A i \in D : p[i] \in D
      /\ \A i, j \in D : p[i] = p[j] => i = j
      /\ \A j \in D : \E i \in D : p[i] = j
  BY DEF Texts!Bijection, Texts!Injection, Texts!Surjection, Texts!IsInjective
<1>3. DOMAIN lowered = D /\ DOMAIN moved = D /\ \A i \in D : moved[i] = lowered[p[i]]
  BY <1>2
<1> HIDE DEF D, lowered, moved
<1>4. (\A i \in D : Texts!SoundRoute(moved[i])) <=> (\A i \in D : Texts!SoundRoute(lowered[i]))
  BY <1>2, <1>3
<1>5. Texts!Distinct(moved) <=> Texts!Distinct(lowered)
  BY <1>2, <1>3 DEF Texts!Distinct
<1>6. moved = <<>> <=> lowered = <<>>
  <2>1. D = {} => moved = lowered
    BY <1>3 DEF moved, lowered
  <2>2. moved = <<>> \/ lowered = <<>> => D = {}
    BY <1>3
  <2> QED BY <2>1, <2>2
<1>7. Sound(moved) <=> Sound(lowered)
  BY <1>3, <1>4, <1>5, <1>6
<1>8. Declared(As(moved)) = Declared(As(lowered))
  <2>1. {moved[i] : i \in D} = {lowered[i] : i \in D}
    BY <1>2, <1>3
  <2> QED BY <1>3, <2>1 DEF Declared
<1>9. Texts!renderCaddyfile(As(moved)) = Texts!renderCaddyfile(As(lowered))
  BY <1>8, SameRoutesSameFile
<1> HIDE DEF Sound, As
<1> QED BY <1>1, <1>7, <1>9

\* What a preview of a file answers.
FileMade ==
  asked = "render" =>
    /\ given \in Declarations
    /\ made # <<>> => made[1].file = {Texts!renderCaddyfile(in) : in \in Texts!parseRenderInput(given)}

LEMMA FileStep == FileMade /\ [Texts!Next]_(Texts!vars) => FileMade'
<1> SUFFICES ASSUME FileMade, [Texts!Next]_(Texts!vars) PROVE FileMade'
  OBVIOUS
<1>1. CASE UNCHANGED Texts!vars
  BY <1>1 DEF Texts!vars, FileMade
<1>2. CASE Texts!Diff
  BY <1>2 DEF Texts!Diff, FileMade
<1>3. CASE Texts!Render
  <2>1. asked' = asked /\ given' = given
        /\ made' = <<[file |-> {Texts!renderCaddyfile(in) : in \in Texts!parseRenderInput(given)}]>>
    BY <1>3 DEF Texts!Render
  <2>2. made'[1].file = {Texts!renderCaddyfile(in) : in \in Texts!parseRenderInput(given)}
    BY <2>1
  <2> QED BY <2>1, <2>2 DEF FileMade
<1> QED BY <1>1, <1>2, <1>3 DEF Texts!Next

LEMMA FileInductive == MCSpec => [](scope = "texts" => FileMade)
<1>1. MCInit => (scope = "texts" => FileMade)
  BY DEF MCInit, Texts!Init, FileMade
<1>2. (scope = "texts" => FileMade) /\ [MCNext]_<<scope, caddyVars, textVars, forgeVars>>
        => (scope = "texts" => FileMade)'
  <2> SUFFICES ASSUME scope' = "texts", scope = "texts" => FileMade,
                      [MCNext]_<<scope, caddyVars, textVars, forgeVars>>
               PROVE  FileMade'
    OBVIOUS
  <2>1. scope = "texts" /\ [Texts!Next]_(Texts!vars)
    BY DEF MCNext, textVars, Texts!vars
  <2> QED BY <2>1, FileStep
<1> QED BY <1>1, <1>2, PTL DEF MCSpec

LEMMA FileIsRight ==
  ASSUME FileMade
  PROVE  Texts!ServesWhatIsDeclared /\ Texts!FileHasOneForm
<1> SUFFICES ASSUME asked = "render", made # <<>>
             PROVE  Texts!ServesWhatIsDeclared /\ Texts!FileHasOneForm
  BY DEF Texts!ServesWhatIsDeclared, Texts!FileHasOneForm, Texts!Answered
<1>1. given \in Declarations
      /\ made[1].file = {Texts!renderCaddyfile(in) : in \in Texts!parseRenderInput(given)}
  BY DEF FileMade
<1>2. Texts!ServesWhatIsDeclared
  BY <1>1, DeclaredIsServed DEF Texts!ServesWhatIsDeclared
<1>3. Texts!FileHasOneForm
  <2> SUFFICES ASSUME NEW p \in Texts!Bijection(DOMAIN given.routes, DOMAIN given.routes), NEW e,
                      e = [bind |-> given.bind, tls |-> given.tls,
                           routes |-> [i \in DOMAIN given.routes |-> given.routes[p[i]]]]
               PROVE  {Texts!renderCaddyfile(in) : in \in Texts!parseRenderInput(e)} = made[1].file
    BY DEF Texts!FileHasOneForm
  <2> QED BY <1>1, OrderDoesNotMatter
<1> QED BY <1>2, <1>3

(* The previews of caddy and forge are right, for every two texts and every    *)
(* declaration: a diff makes the proposed text and leaves alone what it can,   *)
(* and a rendered file serves what is declared, however it is listed.          *)
THEOREM PreviewsAreRight == MCSpec => []TextsAreRight
<1>1. (scope = "texts" => DiffMade) /\ (scope = "texts" => FileMade) => TextsAreRight
  BY DiffIsRight, FileIsRight DEF TextsAreRight
<1> QED BY <1>1, MadeInductive, FileInductive, PTL
=============================================================================
