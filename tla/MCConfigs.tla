------------------------------ MODULE MCConfigs ------------------------------
(***************************************************************************)
(* What the plugins replace after a preview, one of three things at a time:  *)
(* the Caddyfile that calls apply and roll back, the texts of the previews   *)
(* themselves, and the deployment script of a Forge site.                    *)
(***************************************************************************)
EXTENDS CaddyApply, TextDiff, TLC, SequencesExt

CONSTANTS Lower, maxPort, Scripts, Pairs, Declarations,
          MaxByHand     \* different contents that others put at config_path, the first one included

\* A script is its lines, of whatever there is in the scripts, and an end.
Lines == UNION {Range(s.lines) : s \in Scripts}
ASSUME ScriptsAssumption == \A s \in Scripts : s \in [lines : Seq(Lines), eol : BOOLEAN]

\* The lines of two texts are of one kind.
ASSUME PairsAssumption == \A p \in Pairs : LET X == Range(p[1]) \cup Range(p[2])
                                           IN p \in Seq(X) \X Seq(X)

\* A declaration is of a kind of address, a mode and routes of names and a port.
Labels == Seq(Nat)
Routes == [name : Labels, host : Labels, domain : Labels, port : Int]
ASSUME DeclarationsAssumption ==
  \A d \in Declarations : d = [bind |-> d.bind, tls |-> d.tls, routes |-> d.routes] /\ d.routes \in Seq(Routes)

VARIABLES scope, asked, given, made,
          token, pc, req, script, told, out, shown, forgeCalm

Texts == INSTANCE ConfigTexts
Forge == INSTANCE ForgeSite WITH ran <- told, calm <- forgeCalm

\* Every two texts of up to three lines of two kinds; six different lines with
\* each kept, dropped or replaced, where hunks meet or stay apart; and texts that
\* grow at one end or both.
MCShort == UNION {[1..n -> {"x", "y"}] : n \in 0..3}
Base == <<1, 2, 3, 4, 5, 6>>
Edited(e) == FoldLeft(LAMBDA s, i : s \o (CASE e[i] = "keep" -> <<i>>
                                            [] e[i] = "drop" -> <<>>
                                            [] OTHER -> <<0>>), <<>>, Base)
MCPairs == (MCShort \X MCShort)
             \cup {<<Base, Edited(e)>> : e \in [1..6 -> {"keep", "drop", "edit"}]}
             \cup {<<Base, <<0>> \o Base \o <<0>>>>, <<Base \o <<0>>, <<0>> \o Base>>}

\* Routes whose names are equal as they stand, in another case or split otherwise,
\* under one another's domains, or not names or ports at all.
R(n, h, d, p) == [name |-> n, host |-> h, domain |-> d, port |-> p]
MCRoutes == {R(<<0>>, <<>>, <<0, 1>>, 1), R(<<100>>, <<>>, <<0, 1>>, 2), R(<<1>>, <<0>>, <<0, 1>>, 1),
             R(<<1>>, <<>>, <<0, 0, 1>>, 2), R(<<1>>, <<>>, <<0, 1>>, 1), R(<<0>>, <<1>>, <<0, 1>>, 2),
             R(<<7>>, <<>>, <<0, 1>>, 1), R(<<0>>, <<>>, <<1>>, 1), R(<<0>>, <<>>, <<0, 1>>, 3)}
Decl(b, t, r) == [bind |-> b, tls |-> t, routes |-> r]
MCDeclarations ==
  {Decl("tailnet", "internal", r) : r \in UNION {[1..n -> MCRoutes] : n \in 0..3}}
    \cup {Decl(b, t, <<R(<<0>>, <<>>, <<0, 1>>, 1)>>) :
            b \in {"tailnet", "loopback", "wildcard", "public", "absent"},
            t \in {"cloudflare-dns", "internal", "http"}}

\* A script without the end of its last line, two that change one end, one of
\* which with the other is too long to compare.
S(l, e) == [lines |-> l, eol |-> e]
MCScripts == {S(<<"x", "y", "x">>, TRUE), S(<<"x", "y", "x">>, FALSE),
              S(<<"y", "x", "x", "x", "x">>, TRUE), S(<<"x", "x", "x", "x", "y">>, TRUE)}

caddyVars == vars
textVars == <<asked, given, made>>
forgeVars == <<token, pc, req, script, told, out, shown, forgeCalm>>

MCInit ==
  /\ scope \in {"caddy", "texts", "forge"}
  /\ Init /\ Texts!Init /\ Forge!Init
  /\ scope # "caddy" => file = Absent /\ running = CHOOSE v \in Valid : TRUE
  /\ scope # "texts" => asked = "diff" /\ given = <<Base, Base>>
  /\ scope # "forge" => token = FALSE /\ script = S(<<"x", "y", "x">>, TRUE)

MCNext == \/ scope = "caddy" /\ Next /\ Cardinality(byHand') <= MaxByHand /\ UNCHANGED <<scope, textVars, forgeVars>>
          \/ scope = "texts" /\ Texts!Next /\ UNCHANGED <<scope, caddyVars, forgeVars>>
          \/ scope = "forge" /\ Forge!Next /\ UNCHANGED <<scope, caddyVars, textVars>>

MCSpec == MCInit /\ [][MCNext]_<<scope, caddyVars, textVars, forgeVars>>

\* The types of whichever runs.
TypesOK == TypeOK /\ (scope = "forge" => Forge!TypeOK)

\* A preview's diff is one (diff.go): its hunks make the proposed text of the
\* current one, and no shorter list of changes would.  A rendered Caddyfile
\* (render.go) serves what was declared and nothing else, and is the same file
\* whatever the order of its routes.
TextsAreRight == scope = "texts" => /\ Texts!HunksMakeTheProposed /\ Texts!ChangesAreNeeded
                                    /\ Texts!ServesWhatIsDeclared /\ Texts!FileHasOneForm

\* A site's deployment script changes as its preview said and by no call that was
\* refused (forge).
SiteIsAsTold == Forge!UpdateIsTheDiff /\ Forge!RefusedDidNothing

\* Calls are alike, and so are the configurations caddy can load.
Alike == Permutations(Calls) \cup Permutations(Valid)
=============================================================================
