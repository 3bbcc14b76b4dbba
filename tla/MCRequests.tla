---------------------------- MODULE MCRequests -----------------------------
(* What the daemon's handlers change, one component to a behaviour: the sites  *)
(* and their routes (SiteConfig), PHP settings and extensions (PhpSettings),   *)
(* PHP versions (PhpVersions).                                                 *)
EXTENDS SiteConfig, PhpSettings, PhpVersions, TLC

CONSTANT Parts      \* the components of this run

-----------------------------------------------------------------------------
(* Sites.  Directory d1 is the site a of root r1; d2 (site b) and d3 (a second *)
(* site a) are in r2; "x" is a subdomain of a, matched by the wildcard "w".    *)
(* The daemon starts on a fresh configuration, which is then mutated, or on a  *)
(* hand-edited one, where any claimant may ask for any domain and the router   *)
(* build has to settle every collision.                                        *)
MCWildcardOf(d) == IF d = "x" THEN "w" ELSE None

MCSlugOf(r) == IF r = "d2" THEN "b" ELSE "a"

\* Two separate roots.
MCParentOf(r) == IF r = "d1" THEN "r1" ELSE "r2"
MCUnder(r, root) == MCParentOf(r) = root

SmallDeltas(name) ==
    LET others == {"a", "b", "x"} \ {name}
    IN  [added : {<<>>} \cup {<<o>> : o \in others} \cup {<<"w", o>> : o \in others},
         suppressed : {{}, {name}}, primary : {None, "x"}]

\* Two roots parked, a proxy, b perhaps linked, and any small delta on each.
HandEdited ==
    {[EmptyConfig EXCEPT
        !.parked = {"r1", "r2"},
        !.linked = IF link THEN <<[name |-> "b", root |-> "d2", set |-> {}]>> ELSE <<>>,
        !.proxies = <<[name |-> proxy, set |-> {}]>>,
        !.domains.parked = ("d1" :> a) @@ ("d2" :> IF link THEN NoDelta ELSE b) @@ ("d3" :> NoDelta),
        !.domains.linked["b"] = IF link THEN b ELSE NoDelta,
        !.domains.proxy[proxy] = p]
     : link \in BOOLEAN, proxy \in {"a", "p"},
       a \in SmallDeltas("a"), b \in SmallDeltas("b"),
       p \in {NoDelta, [NoDelta EXCEPT !.added = <<"b">>], [NoDelta EXCEPT !.added = <<"x", "w">>]}}

Parked(roots) == [EmptyConfig EXCEPT !.parked = roots]
Linked == [EmptyConfig EXCEPT !.linked = <<[name |-> "b", root |-> "d2", set |-> {}]>>]

SiteStarts ==
    [config : {EmptyConfig, Linked, Parked(Roots)}, dirs : {Docroots}, mutations : {2}]
      \cup [config : {Parked({"r2"})}, dirs : {Docroots}, mutations : {3}]
      \cup [config : HandEdited, dirs : {Docroots, {"d2", "d3"}, {"d1", "d3"}}, mutations : {0}]

-----------------------------------------------------------------------------
VARIABLE part       \* the component of this behaviour
parts == <<part, sitesvars, vars, versionsvars>>

\* The components that a behaviour is not of stay in one of their first states.
MCInit ==
  /\ part \in Parts
  /\ Init /\ VersionsInit
  /\ part # "versions" =>
       /\ patch = [v \in Minors |-> 1] /\ default = CHOOSE v \in Minors \ Legacy : TRUE
       /\ DOMAIN versionOf = Sites
  /\ \/ part = "sites" /\ SitesInit
     \/ part # "sites" /\ cfg = EmptyConfig /\ dirs = {} /\ left = 0 /\ router \in build_router(cfg, dirs)
MCNext ==
  /\ part' = part
  /\ \/ part = "sites" /\ SitesNext /\ UNCHANGED <<vars, versionsvars>>
     \/ part = "settings" /\ Next /\ UNCHANGED <<sitesvars, versionsvars>>
     \/ part = "versions" /\ VersionsNext /\ UNCHANGED <<sitesvars, vars>>
MCSpec == MCInit /\ [][MCNext]_parts

-----------------------------------------------------------------------------
\* The saved configuration boots and routes right: it passes the validation of
\* the next start (Bootable), no customisation outlives what it customises
\* (NothingStale), the advertised domain leads to its site (PrimaryRoutes),
\* every domain goes to the claimant the rules name in whatever order the disk
\* lists the directories (RoutesAreRight), and every domain lost is reported to
\* the doctor (LossesReported; SitesTypeOK).
SitesAreRight ==
  part = "sites" =>
    SitesTypeOK /\ Bootable /\ NothingStale /\ PrimaryRoutes /\ RoutesAreRight /\ LossesReported

Symmetry == Permutations(SetTasks) \cup Permutations(ExtTasks)
=============================================================================
