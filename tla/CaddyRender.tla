---------------------------- MODULE CaddyRender ----------------------------
(***************************************************************************)
(* What the caddy plugin makes of a declaration: parseRenderInput and       *)
(* renderCaddyfile in caddy/internal/caddyplugin/render.go.                 *)
(*                                                                         *)
(* A name is the sequence of its DNS labels, a number each; a declared      *)
(* route may have labels no pattern allows, upper case ones, which become   *)
(* lower case, and ports out of range.  Addresses are by where they are.    *)
(***************************************************************************)
EXTENDS Integers, Sequences, SequencesExt

CONSTANTS Lower,     \* labels in lower case, from 0 on
          maxPort

\* An upper case label is its lower case one plus Case; 0 - 1 is not a label.
Case == 100
ToLower(l) == IF l >= Case THEN l - Case ELSE l
LowerAll(s) == [i \in DOMAIN s |-> ToLower(s[i])]

\* parseBind, of an address by its kind.
Binds == {"tailnet", "loopback", "wildcard", "public", "absent"}
parseBind(bind) == bind \in {"tailnet", "loopback"}

TLSModes == {"cloudflare-dns", "internal"}

Lowered(r) == [name |-> LowerAll(r.name), host |-> LowerAll(r.host),
               domain |-> LowerAll(r.domain), port |-> r.port]

fqdn(r) == r.name \o r.host \o r.domain

\* The site address that covers a route is its name's parent.
wildcard(r) == r.host \o r.domain

\* nameRe, hostRe and domainRe: one label, any number, at least two.
SoundRoute(r) == /\ \A s \in {r.name, r.host, r.domain} : \A i \in DOMAIN s : s[i] \in Lower
                 /\ Len(r.name) = 1 /\ Len(r.domain) >= 2
                 /\ r.port \in 1..maxPort

DistinctAsGiven(routes) ==         \* mutant: compares the names as they were given
  \A i, j \in DOMAIN routes :
    i # j => <<routes[i].name, routes[i].host, routes[i].domain>>
               # <<routes[j].name, routes[j].host, routes[j].domain>>

\* No two routes have the same full name.
Distinct(routes) == \A i, j \in DOMAIN routes : i # j => fqdn(routes[i]) # fqdn(routes[j])

\* parseRenderInput: a declaration it refuses is {}, one it accepts is that one
\* with its routes in lower case.
parseRenderInput(d) ==
  LET routes == [i \in DOMAIN d.routes |-> Lowered(d.routes[i])]
  IN IF /\ parseBind(d.bind) /\ d.tls \in TLSModes
        /\ routes # <<>> /\ \A i \in DOMAIN routes : SoundRoute(routes[i])
        /\ Distinct(routes)
     THEN {[bind |-> d.bind, tls |-> d.tls, routes |-> routes]} ELSE {}

\* The order of names: by their labels, the first that differs.
Before(s, t) ==
  LET same == {n \in 0..Len(s) : n <= Len(t) /\ SubSeq(s, 1, n) = SubSeq(t, 1, n)}
      n == CHOOSE n \in same : \A m \in same : m <= n
  IN n < Len(t) /\ (n = Len(s) \/ s[n + 1] < t[n + 1])

\* The names of a set, each after those before it.
Ordered(names) ==
  [i \in 1..Cardinality(names) |->
     CHOOSE s \in names : Cardinality({t \in names : Before(t, s)}) = i - 1]

Handler(r) == [name |-> r.name, host |-> fqdn(r), port |-> r.port]

HandlersAsGiven(routes, address) ==  \* mutant: a site's routes are not sorted
  LET site == SelectSeq(routes, LAMBDA r : wildcard(r) = address)
  IN [i \in DOMAIN site |-> Handler(site[i])]

\* The handlers of a site, by name.
Handlers(routes, address) ==
  LET site == {r \in Range(routes) : wildcard(r) = address}
      names == Ordered({r.name : r \in site})
  IN [i \in DOMAIN names |-> Handler(CHOOSE r \in site : r.name = names[i])]

\* renderCaddyfile: the sites by their address, each with its handlers and, after
\* them, the abort of everything else.
renderCaddyfile(in) ==
  LET addresses == Ordered({wildcard(r) : r \in Range(in.routes)})
  IN [bind |-> in.bind,
      sites |-> [i \in DOMAIN addresses |->
        [address |-> addresses[i], tls |-> in.tls, handlers |-> Handlers(in.routes, addresses[i])]]]

\* Of a site's handlers for a name, the first answers.
Proxied(site, name) ==
  {site.handlers[k].port : k \in {k \in DOMAIN site.handlers :
     site.handlers[k].host = name /\ \A m \in 1..k - 1 : site.handlers[m].host # name}}

\* What caddy makes of a file: the ports it proxies a name to.  A site serves the
\* names one label below its address.
PortsOf(file, name) ==
  UNION {Proxied(s, name) : s \in {s \in Range(file.sites) : s.address = Tail(name)}}
=============================================================================
