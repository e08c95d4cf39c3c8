---------------------------- MODULE ConfigTexts ----------------------------
(***************************************************************************)
(* The texts the caddy and forge plugins compute for a preview: one call    *)
(* each, of a diff of two texts or of a Caddyfile for a declaration.        *)
(***************************************************************************)
EXTENDS TextDiff, CaddyRender

CONSTANTS Pairs,        \* of a current and a proposed text, sequences of lines
          Declarations  \* [bind, tls, routes]

VARIABLES asked,  \* "diff" or "render"
          given,  \* what of
          made    \* the answer: none yet, or one

Init == /\ made = <<>>
        /\ \/ asked = "diff" /\ given \in Pairs
           \/ asked = "render" /\ given \in Declarations

Diff == /\ asked = "diff" /\ made = <<>>
        /\ LET ops == diffLines(given[1], given[2])
           IN made' = <<[ops |-> ops, forge |-> unified(ops), caddy |-> unifiedDiff(ops)]>>
        /\ UNCHANGED <<asked, given>>

Render == /\ asked = "render" /\ made = <<>>
          /\ made' = <<[file |-> {renderCaddyfile(in) : in \in parseRenderInput(given)}]>>
          /\ UNCHANGED <<asked, given>>

vars == <<asked, given, made>>
Next == Diff \/ Render
Spec == Init /\ [][Next]_vars

-----------------------------------------------------------------------------
Answered(what) == asked = what /\ made # <<>>

\* "A diff against the current file" (caddy's render and apply) and "a line diff
\* against the proposed content" (forge's update_deployment_script): the hunks
\* stand where they say, do not overlap, and applied to the current text make the
\* proposed one, wherever they are split.
HunksMakeTheProposed ==
  Answered("diff") =>
    LET a == given[1]
        b == given[2]
        forge == made[1].forge
        caddy == [k \in DOMAIN made[1].caddy |-> Placed(made[1].caddy[k])]
    IN \A hunks \in {forge, caddy} : InPlace(a, b, hunks) /\ Patched(a, hunks) = b

\* "A diff shows only real changes" (render.go): no lines that both sides share,
\* in one order, are more than the diff leaves alone.
ChangesAreNeeded ==
  Answered("diff") =>
    \A old \in SUBSET DOMAIN given[1], new \in SUBSET DOMAIN given[2] :
      Cardinality(old) = Cardinality(new) /\ Cardinality(old) > Count(made[1].ops, "kept") =>
        \E i \in old, j \in new : Rank(old, i) = Rank(new, j) /\ given[1][i] # given[2][j]

\* "Output is deterministic: sites and the routes inside them are sorted, so a
\* no-op apply is a byte-for-byte match" (render.go): the order in which routes
\* are declared does not reach the file.
FileHasOneForm ==
  Answered("render") =>
    \A p \in Bijection(DOMAIN given.routes, DOMAIN given.routes) :
      LET other == [bind |-> given.bind, tls |-> given.tls,
                    routes |-> [i \in DOMAIN given.routes |-> given.routes[p[i]]]]
      IN {renderCaddyfile(in) : in \in parseRenderInput(other)} = made[1].file

\* Of a declaration that is accepted every route's name is served, by its own
\* port and no other, and no other name is served, however names, hosts and
\* domains are split; the file listens on no public address.
ServesWhatIsDeclared ==
  Answered("render") =>
    \A file \in made[1].file :
      LET routes == {Lowered(given.routes[i]) : i \in DOMAIN given.routes}
      IN /\ file.bind \in {"tailnet", "loopback"}
         /\ \A r \in routes : PortsOf(file, fqdn(r)) = {r.port}
         /\ \A s \in Range(file.sites), k \in 1..8 : k \in DOMAIN s.handlers =>
              \E r \in routes : s.handlers[k].host = fqdn(r) /\ s.address = wildcard(r)
=============================================================================
