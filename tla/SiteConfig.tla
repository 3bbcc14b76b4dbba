----------------------------- MODULE SiteConfig -----------------------------
(* The sites part of yerdd's configuration: parked roots, linked sites,       *)
(* per-site overrides, domain deltas, whole-host proxies and path rules, the  *)
(* mutations of mutate.rs that change them, and the router rebuilt after each *)
(* one.  A mutation here is the whole of handle_mutation, which holds the     *)
(* config lock from its clone to its swap; one that is refused changes        *)
(* nothing and is not a step.  ConfigStore models saving, crashes and locks.  *)
(* A pinned value is a member of a set; which value it is does not matter.    *)
EXTENDS Naturals, Sequences, SequencesExt, FiniteSets

CONSTANTS
    Names,         \* site and proxy names, which are also their apex domains
    Extra,         \* exact domains that are nobody's apex
    Wild,          \* wildcard domains
    Docroots,      \* project directories
    None,          \* an absent option
    WildcardOf(_), \* exact domain -> the one wildcard that matches it, or None
    Roots,          \* directories that can be parked
    ParentOf(_),    \* docroot -> the root it is an immediate child of
    Under(_, _),    \* docroot, root -> the path of the one begins with the other
    SlugOf(_),      \* docroot -> the name a scan gives it
    InitialStates   \* what config.toml and the disk may hold at boot, and a bound:
                    \* the mutations and directory changes that may follow

VARIABLES
    cfg,      \* the configuration
    router,   \* the live router
    dirs,     \* project directories that exist on disk
    left      \* mutations still to come

sitesvars == <<cfg, router, dirs, left>>

-----------------------------------------------------------------------------
(* How the configuration and the sites found on disk become the host router: *)
(* the effective domain set of each site and whole-host proxy, the claims    *)
(* that decide who owns a domain, and the indices that a Host header is      *)
(* looked up in.  A domain is an atom, the apex of a claimant is its name,   *)
(* and WildcardOf(h) is h with its leftmost label replaced by a star.        *)

Exact == Names \cup Extra
Domains == Exact \cup Wild
apex(name) == name
is_wildcard(d) == d \in Wild

NoDelta == [added |-> <<>>, suppressed |-> {}, primary |-> None]
NoDeltas == [linked |-> [n \in Names |-> NoDelta],
             parked |-> [r \in Docroots |-> NoDelta],
             proxy  |-> [n \in Names |-> NoDelta]]

\* A site as scan_sites returns it: kind is "Linked" or "Parked".
SiteSet == [name : Names, kind : {"Linked", "Parked"}, root : Docroots]

FirstOf(s, P(_)) == s[CHOOSE i \in DOMAIN s : P(s[i]) /\ \A j \in 1 .. i - 1 : ~P(s[j])]

-----------------------------------------------------------------------------
(* The effective set of a claimant and its primary domain.                  *)

\* A set without an exact domain gets the apex back.
SomeExact(name, out) ==
    IF \E i \in DOMAIN out : ~is_wildcard(out[i]) THEN out ELSE <<apex(name)>> \o out

effective_domains(name, delta) ==
    SomeExact(name,
        FoldLeft(LAMBDA s, d : IF Contains(s, d) THEN s ELSE Append(s, d),
                 IF apex(name) \in delta.suppressed THEN <<>> ELSE <<apex(name)>>, delta.added))

choose_primary_Stored(name, effective, stored) ==
    IF stored # None /\ ~is_wildcard(stored) THEN stored ELSE apex(name)

choose_primary(name, effective, stored) ==
    CASE stored # None /\ ~is_wildcard(stored) /\ Contains(effective, stored) -> stored
      [] Contains(effective, apex(name)) -> apex(name)
      [] \E i \in DOMAIN effective : ~is_wildcard(effective[i]) ->
           FirstOf(effective, LAMBDA d : ~is_wildcard(d))
      [] OTHER -> apex(name)

-----------------------------------------------------------------------------
(* Plans: the first site, and the first proxy, of each name.  A proxy whose   *)
(* name a planned site has is shadowed.                                      *)

delta_for(domains, site) ==
    IF site.kind = "Linked" THEN domains.linked[site.name] ELSE domains.parked[site.root]

PlanOf(name, effective, stored) ==
    [name |-> name, effective |-> effective, primary |-> choose_primary(name, effective, stored)]

Plan(name, delta) == PlanOf(name, effective_domains(name, delta), delta.primary)

FirstPerName(s, NameOf(_)) ==
    FoldLeft(LAMBDA seen, x :
                IF \E i \in DOMAIN seen : NameOf(seen[i]) = NameOf(x) THEN seen ELSE Append(seen, x),
             <<>>, s)

SitePlans(domains, kept) ==
    [i \in DOMAIN kept |->
       [site |-> kept[i], eligible |-> TRUE] @@ Plan(kept[i].name, delta_for(domains, kept[i]))]

plan_sites(domains, sites) == SitePlans(domains, FirstPerName(sites, LAMBDA s : s.name))

ProxyPlans(domains, kept, plans) ==
    [i \in DOMAIN kept |->
       [site |-> None, eligible |-> \A j \in DOMAIN plans : plans[j].name # kept[i]]
          @@ Plan(kept[i], domains.proxy[kept[i]])]

plan_proxies(domains, proxies, plans) ==
    ProxyPlans(domains, FirstPerName(proxies, LAMBDA p : p), plans)

\* Every site in scan order, then every proxy in config order.
WithProxies(domains, proxies, plans) == plans \o plan_proxies(domains, proxies, plans)
claimants(domains, sites, proxies) == WithProxies(domains, proxies, plan_sites(domains, sites))

-----------------------------------------------------------------------------
(* build_claims: one pass over the claimants; a claim is replaced only by an  *)
(* explicit one, and only while it is not explicit itself.                   *)

NoClaim == [idx |-> 0, explicit |-> FALSE]

Claim_Latest(cs, claims, i, d) ==
    LET explicit == d # apex(cs[i].name)
    IN  IF claims[d].explicit /\ ~explicit
        THEN claims ELSE [claims EXCEPT ![d] = [idx |-> i, explicit |-> explicit]]

Claim(cs, claims, i, d) ==
    LET explicit == d # apex(cs[i].name)
    IN  IF claims[d].idx # 0 /\ (claims[d].explicit \/ ~explicit)
        THEN claims ELSE [claims EXCEPT ![d] = [idx |-> i, explicit |-> explicit]]

build_claims(cs) ==
    LET OfClaimant(claims, i) ==
          IF cs[i].eligible
          THEN FoldLeft(LAMBDA acc, d : Claim(cs, acc, i, d), claims, cs[i].effective)
          ELSE claims
        all == FoldLeft(OfClaimant, [d \in Domains |-> NoClaim], [i \in DOMAIN cs |-> i])
    IN  [d \in Domains |-> all[d].idx]

-----------------------------------------------------------------------------
(* The router.  An insert is refused when the name or a domain is taken.      *)

EmptyRouter ==
    [sites |-> [n \in Names |-> None], proxies |-> {},
     domains |-> [n \in Names |-> <<>>], primaries |-> [n \in Names |-> None],
     index |-> [d \in Domains |-> None]]

insert_with_domains(r, plan, won, primary) ==
    LET name == plan.name
    IN  IF r.sites[name] # None \/ name \in r.proxies
           \/ \E i \in DOMAIN won : r.index[won[i]] # None
        THEN r
        ELSE [sites |-> IF plan.site = None THEN r.sites ELSE [r.sites EXCEPT ![name] = plan.site],
              proxies |-> IF plan.site = None THEN r.proxies \cup {name} ELSE r.proxies,
              domains |-> [r.domains EXCEPT ![name] = won],
              primaries |-> [r.primaries EXCEPT ![name] = primary],
              index |-> [d \in Domains |-> IF Contains(won, d) THEN name ELSE r.index[d]]]

\* A claimant goes in with the domains it won.
Insert(r, plan, won) ==
    IF plan.eligible
    THEN insert_with_domains(r, plan, won, choose_primary(plan.name, won, plan.primary))
    ELSE r

Inserted(cs, claims) ==
    FoldLeft(LAMBDA r, i : Insert(r, cs[i], SelectSeq(cs[i].effective, LAMBDA d : claims[d] = i)),
             EmptyRouter, [i \in DOMAIN cs |-> i])

build_from(cs) == Inserted(cs, build_claims(cs))

build(domains, sites, proxies) == build_from(claimants(domains, sites, proxies))

-----------------------------------------------------------------------------
(* Reading the router.                                                       *)

domain_owner(r, d) == r.index[d]

resolve_route(r, host) ==
    LET w == WildcardOf(host)
    IN  CASE r.index[host] # None -> r.index[host]
          [] r.index[host] = None /\ w # None -> r.index[w]
          [] OTHER -> None

collisions_Apex(cs) ==
    LET claims == build_claims(cs)
    IN  {<<d, l>> \in Domains \X DOMAIN cs :
           /\ Contains(cs[l].effective, d) /\ d = apex(cs[l].name)
           /\ claims[d] \notin {0, l}}

\* What the doctor reports: the claimants that wanted a domain and lost it.
collisions(cs) ==
    LET claims == build_claims(cs)
    IN  {<<d, l>> \in Domains \X DOMAIN cs :
           /\ Contains(cs[l].effective, d)
           /\ claims[d] \notin {0, l}}

-----------------------------------------------------------------------------
(* The configuration.                                                        *)

Fields == {"php", "secure", "web_root", "wp_auto_login", "front_controller"}
RuleKinds == {"proxy", "route"}
NoRules == [k \in RuleKinds |-> [linked |-> {}, parked |-> {}]]

EmptyConfig ==
    [parked |-> {}, linked |-> <<>>, overrides |-> [r \in Docroots |-> {}],
     domains |-> NoDeltas, proxies |-> <<>>, rules |-> NoRules]

LinkedNames(c) == {c.linked[i].name : i \in DOMAIN c.linked}
ProxyNames(c) == {c.proxies[i].name : i \in DOMAIN c.proxies}
LinkedRoot(c, name) == FirstOf(c.linked, LAMBDA s : s.name = name).root
OnlyNames(s) == [i \in DOMAIN s |-> s[i].name]

DeltaOK(d) ==
    /\ d.added \in Seq(Domains) /\ d.suppressed \subseteq Domains
    /\ d.primary \in Domains \cup {None}

\* The configuration and the router are well formed.
SitesTypeOK ==
    /\ cfg.parked \subseteq Roots /\ dirs \subseteq Docroots
    /\ \A i \in DOMAIN cfg.linked : cfg.linked[i] \in [name : Names, root : Docroots, set : SUBSET Fields]
    /\ \A i \in DOMAIN cfg.proxies : cfg.proxies[i] \in [name : Names, set : SUBSET {"secure"}]
    /\ cfg.overrides \in [Docroots -> SUBSET Fields]
    /\ \A n \in Names : DeltaOK(cfg.domains.linked[n]) /\ DeltaOK(cfg.domains.proxy[n])
    /\ \A r \in Docroots : DeltaOK(cfg.domains.parked[r])
    /\ \A k \in RuleKinds : cfg.rules[k].linked \subseteq Names /\ cfg.rules[k].parked \subseteq Docroots
    /\ \A n \in Names : router.sites[n] \in SiteSet \cup {None}
    /\ left \in Nat

-----------------------------------------------------------------------------
(* validate: what the config crate checks before a save and at every load;    *)
(* a daemon whose file does not pass refuses to start.                       *)

AllDeltas(c) ==
    {c.domains.linked[n] : n \in Names} \cup {c.domains.proxy[n] : n \in Names}
      \cup {c.domains.parked[r] : r \in Docroots}

Distinct(s) == Cardinality({s[i] : i \in DOMAIN s}) = Len(s)

validate_domains(c) ==
    \A d \in AllDeltas(c) :
        /\ Distinct(d.added)
        /\ \A i \in DOMAIN d.added : d.added[i] \notin d.suppressed
        /\ d.primary # None => ~is_wildcard(d.primary)

validate_proxies(c) ==
    /\ Distinct(OnlyNames(c.proxies))
    /\ ProxyNames(c) \cap LinkedNames(c) = {}
    /\ c.rules["proxy"].linked \subseteq LinkedNames(c)

validate(c) ==
    /\ Distinct(OnlyNames(c.linked))
    /\ validate_domains(c)
    /\ validate_proxies(c)
    /\ c.rules["route"].linked \subseteq LinkedNames(c)

-----------------------------------------------------------------------------
(* The scan: parked children in any order the file system lists them, then    *)
(* the linked sites; a linked name hides a parked directory of that name.     *)

scan_sites(c, present) ==
    LET found == {r \in present : ParentOf(r) \in c.parked /\ SlugOf(r) \notin LinkedNames(c)}
        linked == [i \in DOMAIN c.linked |->
                     [name |-> c.linked[i].name, kind |-> "Linked", root |-> c.linked[i].root]]
    IN  {[i \in DOMAIN order |-> [name |-> SlugOf(order[i]), kind |-> "Parked", root |-> order[i]]]
            \o linked : order \in SetToSeqs(found)}

\* build_router: the routers this configuration can give.
build_router(c, present) ==
    {build(c.domains, sites, OnlyNames(c.proxies)) : sites \in scan_sites(c, present)}

SitesInit ==
    /\ \E i \in InitialStates :
         validate(i.config) /\ cfg = i.config /\ dirs = i.dirs /\ left = i.mutations
    /\ router \in build_router(cfg, dirs)

Commit_Unvalidated(new) ==
    /\ left > 0 /\ left' = left - 1
    /\ cfg' = new
    /\ router' \in build_router(new, dirs)
    /\ UNCHANGED dirs

\* The tail of handle_mutation for a configuration apply has accepted.
Commit(new) ==
    /\ left > 0 /\ left' = left - 1
    /\ validate(new)
    /\ cfg' = new
    /\ router' \in build_router(new, dirs)
    /\ UNCHANGED dirs

-----------------------------------------------------------------------------
(* Roots and links.                                                          *)

Park(root) == Commit([cfg EXCEPT !.parked = @ \cup {root}])

is_under_root(docroot, root) == Under(docroot, root)

Unpark(root) ==
    LET gone == {r \in Docroots : is_under_root(r, root)}
    IN  Commit([cfg EXCEPT !.parked = @ \ {root},
                           !.domains.parked = [r \in Docroots |-> IF r \in gone THEN NoDelta ELSE @[r]],
                           !.rules = [k \in RuleKinds |->
                                        [@[k] EXCEPT !.parked = @ \ gone]]])

Link(name, root) ==
    /\ root \in dirs /\ name \notin LinkedNames(cfg)
    /\ LET promoted == cfg.domains.parked[root]
           site == [name |-> name, root |-> root, set |-> {}]
       IN  Commit([cfg EXCEPT
             !.linked = Append(@, site),
             !.domains.linked[name] = IF promoted # NoDelta THEN promoted ELSE @,
             !.domains.parked[root] = NoDelta,
             !.rules = [k \in RuleKinds |->
                 IF root \in @[k].parked
                 THEN [linked |-> @[k].linked \cup {name}, parked |-> @[k].parked \ {root}]
                 ELSE @[k]]])

parent_is_parked_root(c, root) == ParentOf(root) \in c.parked

Unlink_Always(name) ==
    /\ name \in LinkedNames(cfg)
    /\ LET root == LinkedRoot(cfg, name)
           delta == cfg.domains.linked[name]
       IN  Commit([cfg EXCEPT
             !.linked = SelectSeq(@, LAMBDA s : s.name # name),
             !.domains.linked[name] = NoDelta,
             !.domains.parked[root] = IF delta # NoDelta THEN delta ELSE @,
             !.rules = [k \in RuleKinds |-> [@[k] EXCEPT !.linked = @ \ {name}]]])

Unlink(name) ==
    /\ name \in LinkedNames(cfg)
    /\ LET root == LinkedRoot(cfg, name)
           delta == cfg.domains.linked[name]
           reparks == parent_is_parked_root(cfg, root)
       IN  Commit([cfg EXCEPT
             !.linked = SelectSeq(@, LAMBDA s : s.name # name),
             !.domains.linked[name] = NoDelta,
             !.domains.parked[root] = IF reparks /\ delta # NoDelta THEN delta ELSE @,
             !.rules = [k \in RuleKinds |->
                 [linked |-> @[k].linked \ {name},
                  parked |-> IF reparks /\ name \in @[k].linked
                             THEN @[k].parked \cup {root} ELSE @[k].parked]]])

-----------------------------------------------------------------------------
(* Pinned values: on the linked site, else in the override of the parked      *)
(* directory the router knows by that name, else (secure only) on a proxy.    *)

IsParked(name) == name \notin LinkedNames(cfg) /\ router.sites[name] # None
IsProxy(name) == name \notin LinkedNames(cfg) /\ router.sites[name] = None /\ name \in ProxyNames(cfg)

Pin(s, name, field) ==
    [i \in DOMAIN s |-> IF s[i].name = name THEN [s[i] EXCEPT !.set = @ \cup {field}] ELSE s[i]]

SetField(name, field) ==
    \/ /\ name \in LinkedNames(cfg)
       /\ Commit([cfg EXCEPT !.linked = Pin(@, name, field)])
    \/ /\ IsParked(name)
       /\ Commit([cfg EXCEPT !.overrides[router.sites[name].root] = @ \cup {field}])
    \/ /\ field = "secure" /\ IsProxy(name)
       /\ Commit([cfg EXCEPT !.proxies = Pin(@, name, field)])

\* SetWebRoot without a path on a parked site: back to auto-detection.
ResetWebRoot(name) ==
    /\ IsParked(name)
    /\ LET root == router.sites[name].root
           ov == cfg.overrides[root]
       IN  Commit([cfg EXCEPT !.overrides[root] =
                     IF ov \cap {"php", "secure"} = {} THEN {} ELSE ov \ {"web_root"}])

-----------------------------------------------------------------------------
(* Domains.  A delta is kept with the linked name, the parked docroot or the  *)
(* proxy name.                                                               *)

resolve_domain_target(name) ==
    CASE name \in LinkedNames(cfg) -> [map |-> "linked", key |-> name]
      [] IsParked(name) -> [map |-> "parked", key |-> router.sites[name].root]
      [] IsProxy(name) -> [map |-> "proxy", key |-> name]
      [] OTHER -> None

OldDelta(name) == LET t == resolve_domain_target(name) IN cfg.domains[t.map][t.key]

PutDelta(name, delta) ==
    LET t == resolve_domain_target(name)
    IN  Commit([cfg EXCEPT !.domains[t.map][t.key] = delta])

Known(name) == resolve_domain_target(name) # None
reject_if_claimed_elsewhere(name, dom) == domain_owner(router, dom) \in {None, name}

AddDomain(name, dom) ==
    /\ Known(name) /\ reject_if_claimed_elsewhere(name, dom)
    /\ LET d == OldDelta(name)
       IN  PutDelta(name,
             CASE dom = apex(name) -> [d EXCEPT !.suppressed = @ \ {dom}]
               [] dom # apex(name) /\ ~Contains(d.added, dom) -> [d EXCEPT !.added = Append(@, dom)]
               [] OTHER -> d)

exact_count(name, d) ==
    Cardinality({apex(name)} \ d.suppressed)
      + Len(SelectSeq(d.added, LAMBDA x : ~is_wildcard(x)))

RemoveDomain(name, dom) ==
    /\ Known(name)
    /\ LET d == OldDelta(name)
           new == IF Contains(d.added, dom)
                  THEN [d EXCEPT !.added = SelectSeq(@, LAMBDA x : x # dom)]
                  ELSE [d EXCEPT !.suppressed = @ \cup {dom}]
       IN  /\ Contains(d.added, dom) \/ dom = apex(name)
           /\ exact_count(name, new) > 0
           /\ PutDelta(name, IF new.primary = dom THEN [new EXCEPT !.primary = None] ELSE new)

SetPrimaryDomain(name, dom) ==
    /\ Known(name) /\ ~is_wildcard(dom) /\ reject_if_claimed_elsewhere(name, dom)
    /\ LET d == OldDelta(name)
       IN  PutDelta(name,
             IF dom = apex(name)
             THEN [d EXCEPT !.suppressed = @ \ {dom}, !.primary = None]
             ELSE [d EXCEPT !.added = IF Contains(@, dom) THEN @ ELSE Append(@, dom),
                            !.primary = dom])

ResetDomains(name) == Known(name) /\ PutDelta(name, NoDelta)

-----------------------------------------------------------------------------
(* Whole-host proxies and path rules.  site_rule_key takes the site's kind    *)
(* from the router.                                                          *)

AddProxy(name) ==
    /\ router.sites[name] = None /\ name \notin ProxyNames(cfg)
    /\ domain_owner(router, apex(name)) = None
    /\ Commit([cfg EXCEPT !.proxies = Append(@, [name |-> name, set |-> {}])])

RemoveProxy(name) ==
    /\ name \in ProxyNames(cfg)
    /\ Commit([cfg EXCEPT !.proxies = SelectSeq(@, LAMBDA p : p.name # name),
                          !.domains.proxy[name] = NoDelta])

\* One prefix per kind: a key has a rule or has none.
SetRules(kind, name, rules) ==
    /\ router.sites[name] # None
    /\ LET site == router.sites[name]
       IN  IF site.kind = "Linked"
           THEN /\ (name \in cfg.rules[kind].linked) # rules
                /\ Commit([cfg EXCEPT !.rules[kind].linked = IF rules THEN @ \cup {name} ELSE @ \ {name}])
           ELSE /\ (site.root \in cfg.rules[kind].parked) # rules
                /\ Commit([cfg EXCEPT !.rules[kind].parked = IF rules THEN @ \cup {site.root} ELSE @ \ {site.root}])

AddRule(kind, name) == SetRules(kind, name, TRUE)
RemoveRule(kind, name) == SetRules(kind, name, FALSE)

-----------------------------------------------------------------------------
(* The disk changes under the daemon; the watcher rebuilds the router.        *)

DirChanges(root) ==
    /\ left > 0 /\ left' = left - 1
    /\ dirs' = IF root \in dirs THEN dirs \ {root} ELSE dirs \cup {root}
    /\ UNCHANGED <<cfg, router>>

Rebuild ==
    /\ router' \in build_router(cfg, dirs)
    /\ UNCHANGED <<cfg, dirs, left>>

RootMutation ==
    \/ \E root \in Roots : Park(root) \/ Unpark(root)
    \/ \E name \in Names, root \in Docroots : Link(name, root)
    \/ \E name \in Names : Unlink(name)

SiteMutation ==
    \E name \in Names :
        \/ \E field \in Fields : SetField(name, field)
        \/ ResetWebRoot(name)
        \/ \E dom \in Domains :
             AddDomain(name, dom) \/ RemoveDomain(name, dom) \/ SetPrimaryDomain(name, dom)
        \/ ResetDomains(name)
        \/ AddProxy(name) \/ RemoveProxy(name)
        \/ \E kind \in RuleKinds : AddRule(kind, name) \/ RemoveRule(kind, name)

SitesNext ==
    \/ RootMutation \/ SiteMutation
    \/ \E root \in Docroots : DirChanges(root)
    \/ Rebuild

SitesSpec == SitesInit /\ [][SitesNext]_sitesvars

-----------------------------------------------------------------------------
(* Properties.                                                               *)

\* The saved configuration passes the validation of the next boot, whatever
\* sequence of accepted mutations produced it: load_or_default_config refuses
\* to start on one that does not.
Bootable == validate(cfg)

\* Customisations live exactly as long as what they customise: after any
\* sequence of mutations on a fresh configuration, a linked delta or rule has a
\* linked site, a proxy delta has its proxy, and a parked delta or rule belongs
\* to a directory whose root is still parked, so a later link, proxy or park of
\* the same name starts from the defaults.
NothingStale ==
    /\ \A n \in Names : cfg.domains.linked[n] # NoDelta => n \in LinkedNames(cfg)
    /\ \A n \in Names : cfg.domains.proxy[n] # NoDelta => n \in ProxyNames(cfg)
    /\ \A r \in Docroots :
         cfg.domains.parked[r] # NoDelta \/ (\E k \in RuleKinds : r \in cfg.rules[k].parked)
           => ParentOf(r) \in cfg.parked

\* The address a site is advertised under (WordPress URL sync, tunnel origin)
\* routes to that site whenever the site answers any exact domain at all.
PrimaryRoutes ==
    \A n \in Names :
        (\E i \in DOMAIN router.domains[n] : ~is_wildcard(router.domains[n][i]))
          => router.index[router.primaries[n]] = n

\* The claimant a domain belongs to, by definition rather than by the pass of
\* build_claims: an explicit claim beats an apex, and the earlier claimant wins
\* among equals.
ReferenceOwner(cs, d) ==
    LET want == {i \in DOMAIN cs : cs[i].eligible /\ Contains(cs[i].effective, d)}
        explicit == {i \in want : d # apex(cs[i].name)}
        First(S) == cs[CHOOSE i \in S : \A j \in S : i <= j].name
    IN  CASE explicit # {} -> First(explicit)
          [] explicit = {} /\ want # {} -> First(want)
          [] OTHER -> None

AnyClaimants == {claimants(cfg.domains, sites, OnlyNames(cfg.proxies)) : sites \in scan_sites(cfg, dirs)}

\* Every domain is routed to the claimant the rules name, and to nobody only if
\* no claimant that can be routed wants it; a host is answered by the owner of
\* its exact domain, and only if there is none by that of its wildcard.  So it
\* is for every order in which the disk may list the directories.
RoutesAreRight ==
    \A cs \in AnyClaimants : \A r \in {build_from(cs)} :
        LET Owner(d) == IF d = None THEN None ELSE ReferenceOwner(cs, d)
        IN  /\ \A d \in Domains : r.index[d] = Owner(d)
            /\ \A h \in Exact : resolve_route(r, h) = IF Owner(h) # None THEN Owner(h) ELSE Owner(WildcardOf(h))

\* Every domain a claimant wants and does not route is reported to the doctor,
\* unless nobody routes it (a name-shadowed proxy's own).
LossesReported ==
    \A cs \in AnyClaimants : \A r \in {build_from(cs)} :
        \A i \in DOMAIN cs : \A d \in Domains :
            Contains(cs[i].effective, d) /\ r.index[d] # None
              => (r.index[d] = cs[i].name /\ cs[i].eligible) \/ <<d, i>> \in collisions(cs)
=============================================================================
