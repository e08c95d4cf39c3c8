---------------------------- MODULE CloudflareR2 ----------------------------
(***************************************************************************)
(* The Cloudflare plugin's R2 buckets and the S3 keys it mints for them,    *)
(* verify_token, and the scrubber that must keep the token and every minted *)
(* secret out of error texts.  plugin.go, r2.go, r2_credentials.go, scrub.go *)
(* and api_backend.go.                                                      *)
(*                                                                         *)
(* There is one account.  A key is an API token of it; the secret of key k  *)
(* is written k, as a value.  A bucket is a name in a region.               *)
(***************************************************************************)
EXTENDS CloudflarePlugin

CONSTANTS Names,    \* bucket names
          Jurisdictions,   \* what a caller gives: of "", "default" and "eu"
          Keys      \* ids of account tokens, none of them the plugin's own

Regions == {"default", "eu"}
Bucket == Names \X Regions
Key == [ours : BOOLEAN, at : Bucket]   \* ours: its name has credentialNamePrefix

NoKey == "none"

ASSUME R2Assumption == /\ Tokens \cap Keys = {} /\ NoKey \notin Keys
                       /\ Jurisdictions \subseteq {"", "default", "eu"}
                       /\ Unborn \notin Key /\ Gone \notin Key

\* Effects the connector declares for them.
R2Reads == {"verify_token", "list_r2_buckets"}
R2Writes == {"create_r2_bucket", "delete_r2_bucket", "create_r2_credential", "revoke_r2_credential"}

\* Arguments.  What is given for access_key_id may be a key's id, or, mistaken
\* for it, a secret the caller was handed.
R2Arguments(op) == CASE op \in R2Reads -> {"none"}
               [] op = "revoke_r2_credential" -> [id : Keys, secret : BOOLEAN]
               [] OTHER -> [name : Names, jurisdiction : Jurisdictions]
R2Requests == UNION {[op : {o}, arg : R2Arguments(o), dry : Forms, ack : BOOLEAN] : o \in R2Reads \cup R2Writes}

VARIABLES buckets,  \* the account's buckets
          keys,     \* its tokens: [Keys -> a key, Unborn or Gone]
          scrub,    \* p.scrub: the values it removes
          minted,   \* [Calls -> the id its mint answered without a value]
          handed,   \* history: keys given to a caller
          stray,    \* history: keys a mint made and nobody was told of
          learned,  \* history: secrets the plugin was given or gave since its Load
          said      \* the secrets in the error text of the step just taken

cloud == <<buckets, keys>>
secrets == <<scrub, learned>>
r2Vars == <<cloud, minted, handed, stray, secrets>>

Secret == Tokens \cup Keys

R2TypeOK == /\ PluginTypeOK
          /\ pc \in [Calls -> {"idle", "list", "create", "delete", "check", "groups", "mint",
                               "unmint", "get", "revoke", "verify", "detail"}]
          /\ buckets \subseteq Bucket
          /\ keys \in [Keys -> Key \cup {Unborn, Gone}]
          /\ req \in [Calls -> {Kept(r) : r \in R2Requests} \cup {None}]
          /\ minted \in [Calls -> Keys \cup {NoKey}]
          /\ handed \subseteq Keys /\ stray \subseteq Keys
          /\ scrub \subseteq Secret /\ learned \subseteq Secret /\ said \subseteq Secret

R2Init == /\ buckets \in SUBSET Bucket
        /\ keys \in [Keys -> {[ours |-> FALSE, at |-> b] : b \in Names \X {"default"}} \cup {Unborn}]
        /\ scrub = {} /\ learned = {} /\ said = {} /\ handed = {} /\ stray = {}
        /\ minted = [c \in Calls |-> NoKey]

Live == {k \in Keys : keys[k] \in Key}

\* Nothing is said in this step; and nothing else of R2 changes either.
Quiet == said' = {} /\ UNCHANGED secrets
Same == said' = {} /\ UNCHANGED r2Vars

-----------------------------------------------------------------------------
(* The scrubber.                                                           *)

\* Load makes a new one, of the token alone.
R2Load == \E token \in Offered :
            /\ LoadWith(token)
            /\ scrub' = {token} \ {NoToken} /\ learned' = {token} \ {NoToken} /\ said' = {}
            /\ UNCHANGED <<cloud, minted, handed, stray>>

KeepQuiet(k) == UNCHANGED scrub    \* mutant: a minted secret is not registered

\* register: a minted secret is scrubbed from here on.
Register(k) == scrub' = scrub \cup {k}

\* scrubber.err: what is left of the secrets in a text.
Scrubbed(texts) == texts \ scrub

\* An error text may hold the token, which the HTTP client had, and what the
\* caller gave.
Speaks(c) ==
  /\ said' = Scrubbed(({backend} \ {NoToken}) \cup
                       (IF req[c].op = "revoke_r2_credential" /\ req[c].arg.secret
                        THEN {req[c].arg.id} ELSE {}))
  /\ UNCHANGED secrets

-----------------------------------------------------------------------------
(* Arrival.                                                                *)

\* Every preview reads the account first; so does create_r2_credential.
R2First(r) ==
  CASE r.op = "verify_token" -> "verify"
    [] r.op = "list_r2_buckets" -> "list"
    [] r.op = "revoke_r2_credential" -> "get"
    [] OTHER -> IF r.dry \/ r.op = "create_r2_credential" THEN "check"
                ELSE IF r.op = "create_r2_bucket" THEN "create" ELSE "delete"

\* Only who was handed a secret can give it.
CanGive(r) == r.op = "revoke_r2_credential" => (r.arg.secret => r.arg.id \in handed)

R2Begun == {Kept(r) : r \in {r \in R2Requests : WriteMode(r)}}

R2Start(c) ==
  \/ /\ \/ Refuse(c, {r \in R2Requests : ~WriteMode(r)})
        \/ backend = NoToken /\ Preview(c, {r \in R2Requests : WriteMode(r) /\ Dry(r)})
        \/ NoCredential(c, {r \in R2Requests : WriteMode(r) /\ ~Dry(r)})
     /\ Same
  \/ \E r \in R2Begun : /\ CanGive(r) /\ Begin(c, r, R2First(r))
                        /\ Quiet /\ UNCHANGED <<cloud, minted, handed, stray>>

-----------------------------------------------------------------------------
(* Requests.                                                               *)

\* A step of an operation that holds its backend from an earlier one.
Holds(c, s) == process = "up" /\ pc[c] = s

R2Return(c, o) == Answers(c, o) /\ minted' = [minted EXCEPT ![c] = NoKey]

Succeeds(c) == R2Return(c, "ok") /\ Quiet
FailsBy(c, failures) ==
  /\ \E code \in {ApiCode(f) : f \in failures} : R2Return(c, code)
  /\ Speaks(c)
R2Fails(c) == FailsBy(c, Failures) /\ UNCHANGED <<cloud, handed, stray>>

Reads(c, s) == /\ At(c, s)
               /\ (Succeeds(c) /\ UNCHANGED <<cloud, handed, stray>>) \/ R2Fails(c)

ListBuckets(c) == Reads(c, "list")

\* The second request of VerifyToken reads the token's permissions; that it is
\* refused is noted, that it gets no answer is an error.
VerifyToken(c) ==
  \/ /\ At(c, "verify")
     /\ \/ Goto(c, "detail") /\ Same
        \/ R2Fails(c)
  \/ /\ Holds(c, "detail")
     /\ \/ Succeeds(c)
        \/ FailsBy(c, {"unreachable", "garbled"})
     /\ UNCHANGED <<cloud, handed, stray>>

\* jurisdictionHeader
HeaderRegion(j) == IF j \in {"", "default"} THEN "default" ELSE j
Named(c) == <<req[c].arg.name, HeaderRegion(req[c].arg.jurisdiction)>>

\* A write that would make the buckets b, or is refused by Cloudflare.
WritesBuckets(c, b, possible) ==
  \/ possible /\ buckets' = b /\ Succeeds(c) /\ UNCHANGED <<keys, handed, stray>>
  \/ /\ possible /\ buckets' = b /\ FailsBy(c, MayHaveHappened)
     /\ UNCHANGED <<keys, handed, stray>>
  \/ R2Fails(c)

CreateBucket(c) == /\ At(c, "create")
                   /\ WritesBuckets(c, buckets \cup {Named(c)}, Named(c) \notin buckets)

DeleteBucket(c) == /\ At(c, "delete")
                   /\ WritesBuckets(c, buckets \ {Named(c)}, Named(c) \in buckets)

HasBucketAnywhere(c) ==            \* mutant: the listing is of the default region
  <<req[c].arg.name, "default">> \in buckets

\* hasBucket of what ListBuckets answers for the jurisdiction.
HasBucket(c) == Named(c) \in buckets

\* The account's buckets are read for a preview, which goes on without them, or
\* before a mint, which does not.
CheckBuckets(c) ==
  /\ At(c, "check")
  /\ \/ /\ req[c].dry /\ R2Return(c, "preview")
        /\ UNCHANGED <<cloud, handed, stray>> /\ (Quiet \/ Speaks(c))
     \/ /\ ~req[c].dry /\ HasBucket(c)
        /\ Goto(c, "groups") /\ Same
     \/ /\ ~req[c].dry /\ ~HasBucket(c)
        /\ R2Return(c, "invalid_args") /\ Speaks(c) /\ UNCHANGED <<cloud, handed, stray>>
     \/ ~req[c].dry /\ R2Fails(c)

\* CreateR2Credential finds the permission group; Cloudflare may know none.
PermissionGroups(c) ==
  /\ At(c, "groups")
  /\ \/ Goto(c, "mint") /\ Same
     \/ R2Fails(c)

\* r2BucketResource
Resource(c) == <<req[c].arg.name, IF req[c].arg.jurisdiction = "" THEN "default"
                                  ELSE req[c].arg.jurisdiction>>

ValuelessKept(c, k) ==             \* mutant: a key without its value is left there
  /\ R2Return(c, "uncoded") /\ Speaks(c) /\ UNCHANGED <<handed, stray>>

\* The token came back with its id but no value.
Valueless(c, k) == /\ Goto(c, "unmint") /\ minted' = [minted EXCEPT ![c] = k]
                   /\ Quiet /\ UNCHANGED <<handed, stray>>

\* The token is created and answered with its value, with its id only, with
\* neither, or the answer is lost.
Mint(c) ==
  /\ Holds(c, "mint")
  /\ \/ \E k \in Keys :
          /\ keys[k] = Unborn
          /\ keys' = [keys EXCEPT ![k] = [ours |-> TRUE, at |-> Resource(c)]]
          /\ \/ /\ R2Return(c, "ok") /\ Register(k)
                /\ handed' = handed \cup {k} /\ learned' = learned \cup {k}
                /\ said' = {} /\ UNCHANGED stray
             \/ Valueless(c, k)
             \/ /\ R2Return(c, "uncoded") \/ \E f \in MayHaveHappened : R2Return(c, ApiCode(f))
                /\ Speaks(c) /\ stray' = stray \cup {k} /\ UNCHANGED handed
          /\ UNCHANGED buckets
     \/ R2Fails(c)

\* A DELETE of key k, if it is there.
Deletes(k) == keys' = IF k \in Live THEN [keys EXCEPT ![k] = Gone] ELSE keys

\* The revocation of a key without a value; its error is dropped.
Unmint(c) ==
  /\ Holds(c, "unmint")
  /\ R2Return(c, "uncoded") /\ Speaks(c)
  /\ \/ Deletes(minted[c]) /\ UNCHANGED stray
     \/ UNCHANGED keys /\ stray' = stray \cup {minted[c]}
  /\ UNCHANGED <<buckets, handed>>

OursAlways(k) == TRUE              \* mutant: the name is not looked at

\* mintedByThisPlugin
Ours(k) == keys[k].ours

GetR2Credential(c) ==
  LET k == req[c].arg.id
      found == ~req[c].arg.secret /\ k \in Live
  IN /\ At(c, "get")
     /\ \/ /\ req[c].dry /\ R2Return(c, "preview")
           /\ UNCHANGED <<cloud, handed, stray>> /\ (Quiet \/ Speaks(c))
        \/ /\ ~req[c].dry /\ found /\ Ours(k)
           /\ Goto(c, "revoke") /\ Same
        \/ /\ ~req[c].dry /\ found /\ ~Ours(k)
           /\ R2Return(c, "invalid_args") /\ Speaks(c) /\ UNCHANGED <<cloud, handed, stray>>
        \/ ~req[c].dry /\ R2Fails(c)

RevokeR2Credential(c) ==
  /\ At(c, "revoke")
  /\ \/ /\ Deletes(req[c].arg.id)
        /\ IF req[c].arg.id \in Live THEN Succeeds(c) ELSE FailsBy(c, {"invalid"})
        /\ UNCHANGED <<buckets, handed, stray>>
     \/ /\ Deletes(req[c].arg.id) /\ FailsBy(c, MayHaveHappened)
        /\ UNCHANGED <<buckets, handed, stray>>
     \/ R2Fails(c)

R2Step(c) == \/ ListBuckets(c) \/ VerifyToken(c) \/ CreateBucket(c) \/ DeleteBucket(c)
           \/ CheckBuckets(c) \/ PermissionGroups(c) \/ Mint(c) \/ Unmint(c)
           \/ GetR2Credential(c) \/ RevokeR2Credential(c)

R2Dies(c) == /\ pc[c] \notin {"mint", "unmint", "detail"} /\ Panics(c)
             /\ minted' = [d \in Calls |-> NoKey]
             /\ stray' = stray \cup ({minted[d] : d \in Calls} \ {NoKey})
             /\ Quiet /\ UNCHANGED <<cloud, handed>>

R2Next == \/ R2Load \/ (Unload /\ Same)
          \/ \E c \in Calls : R2Start(c) \/ R2Step(c) \/ R2Dies(c)

-----------------------------------------------------------------------------
\* "So that the plugin's own contract is 'no unacknowledged write'" (writeMode,
\* plugin.go): whatever else runs, only a call that was acknowledged and is no
\* dry run changes the account.
OnlyAcknowledgedChanges ==
  [][cloud' # cloud =>
       \E c \in Calls : pc'[c] # pc[c] /\ req[c].op \in R2Writes /\ req[c].ack /\ ~req[c].dry]_<<pluginVars, pc, req, out, cut, calm, r2Vars, said>>

\* "Refuses any token this plugin did not mint" (revoke_r2_credential,
\* connector.go), the clean-up after a failed mint included: a token made by
\* anybody else stays.
OthersKeysStay == [][\A k \in Live : ~keys[k].ours => keys'[k] = keys[k]]_<<pluginVars, pc, req, out, cut, calm, r2Vars, said>>

\* "A typo in the bucket name must not mint a key for a bucket that does not
\* exist" (plugin.go): as long as calls come one at a time, a minted key is for
\* a bucket that is there, in the region it names.
KeyForABucketThatIsThere ==
  [][calm' => \A k \in Keys : keys[k] = Unborn /\ keys'[k] \in Key => keys'[k].at \in buckets]_<<pluginVars, pc, req, out, cut, calm, r2Vars, said>>

\* Every key the plugin minted is in a caller's hands, unless the answer to the
\* mint was lost or its clean-up failed, or is still being cleaned up.
EveryKeyAccountedFor ==
  \A k \in Live : keys[k].ours => k \in handed \cup stray \cup {minted[c] : c \in Running}

\* "So a credential that came back once cannot surface again in text composed
\* from a later failure" (register, plugin.go): since the last Load, no error
\* has held the token it loaded or a secret minted.  A Load forgets the secrets
\* minted before it.
LearnedStaysUnsaid == said \cap learned = {}

\* R2 keys are in order (client.go, plugin.go): every one of the plugin's is in
\* somebody's hands, for a bucket that is there, and nobody else's is touched.
KeysAreInOrder == []EveryKeyAccountedFor /\ OthersKeysStay /\ KeyForABucketThatIsThere
=============================================================================
