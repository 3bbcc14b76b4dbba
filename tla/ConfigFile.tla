----------------------------- MODULE ConfigFile -----------------------------
(***************************************************************************)
(* config.toml from the request that changes it to the next start that     *)
(* reads it: the validators of yerd-core, the handlers that accept a       *)
(* value, to_toml, the migrations, parse_toml with its strict and lenient  *)
(* sections, and the renderers that turn settings into PHP and service     *)
(* configuration.  SiteConfig has the mutations of sites, ConfigStore the  *)
(* locks and crashes around a save; here a request is one step.            *)
(*                                                                         *)
(* A text is the word it spells, a number (its length, or its value when   *)
(* it is a port) and the marks the validators look for:                    *)
(*   upper, digit (first), hyphen (first), dot, under, sp (inner space),   *)
(*   ctl, hash (; or #), brk ([ ] =), quote, odd, star (first label),      *)
(*   pad (blanks around it), zeros (leading), swap (- and _ exchanged),    *)
(*   slash (first), tail (trailing slash), up (a .. component), dollar,    *)
(*   so (the suffix), site (a service id with a site).                     *)
(* A section is a set of entries; one spelling of a PHP version is used.   *)
(***************************************************************************)
EXTENDS Integers, FiniteSets, Sequences

CONSTANTS
    Requests,    \* entries clients ask the daemon to set
    HandLines,   \* entries a user may write into the file
    OldFiles,    \* files an earlier version, or nobody, has left behind
    MaxOps       \* requests, hand edits and starts

T(w, n, m) == [w |-> w, n |-> n, m |-> m]
None == T("none", 0, {})
Entry(sec, at, key, val) == [sec |-> sec, at |-> at, key |-> key, val |-> val]
Of(c, sec) == {e \in c : e.sec = sec}
Without(t, marks) == [t EXCEPT !.m = @ \ marks]
Lower(t) == Without(t, {"upper"})
Trim(t) == Without(t, {"pad"})
IsEmpty(t) == t.n = 0
\* A text has these marks at most.
Only(t, marks) == t.m \subseteq marks

-----------------------------------------------------------------------------
(* The validators of yerd-core. *)

SiteNameOk(t) == t.n \in 1 .. 63 /\ Only(t, {"upper", "digit"})
IsValidSiteLabel(t) == t.n \in 1 .. 63 /\ Only(t, {"digit"})
\* Domain::parse_subpart.
SubpartOk(t) == t.n \in 1 .. 253 /\ Only(t, {"upper", "digit", "dot", "star"})
                /\ ("star" \in t.m => "dot" \in t.m)
IsWildcard(t) == "star" \in t.m
ProxyNameOk(t) == SubpartOk(t) /\ ~IsWildcard(t)
TldOk(t) == t.n \in 1 .. 253 /\ Only(t, {"upper", "digit", "dot"})
PhpVersionOk(t) == t.w \in {"8.2", "8.3"}

\* UpstreamTarget: the parsed target has its scheme and host in lower case
\* and its port spelled out.
UpstreamOk(t) == t.n > 0 /\ t.w \in {"up:80", "up:9000", "site.test"} /\ Only(t, {"upper", "pad"})
Upstream(t) == Without(t, {"upper", "pad"})
IsLoop(t) == t.w = "site.test"

PrefixOk(t) == t.n > 0 /\ "slash" \in t.m /\ Only(t, {"slash", "tail", "upper", "dot", "quote", "brk"})
NormalizePrefix(t) == Without(t, {"tail"})
IsSafeRelative(t) == t.m \cap {"slash", "up"} = {}
RouteTargetOk(t) == t.n > 0 /\ "ctl" \notin t.m /\ IsSafeRelative(t)

Settings == {"memory_limit", "display_errors", "error_reporting", "max_input_time"}
CliSettings == {"memory_limit", "display_errors", "error_reporting"}
Integral == {"0", "16", "2000"}
IsByteSize(t, unlimited) == t.w \in Integral \cup {"512M"} \/ (unlimited /\ t.w = "-1")
ParseFlag(t) == CASE t.w \in {"on", "1"} -> "on" [] t.w \in {"off", "0"} -> "off" [] OTHER -> "no"
IsErrorReporting(t) == t.n > 0 /\ t.m \cap {"dot", "quote", "odd", "slash"} = {}
ValueCharsOk(t, size, illegal) == t.n \in 1 .. size /\ t.w # "blank" /\ t.m \cap illegal = {}
SettingOk(key, t) ==
    /\ key.w \in Settings /\ Only(key, {})
    /\ ValueCharsOk(t, 256, {"ctl", "hash", "brk"})
    /\ CASE key.w = "memory_limit" -> IsByteSize(t, TRUE)
         [] key.w = "display_errors" -> ParseFlag(t) # "no"
         [] key.w = "max_input_time" -> t.w \in Integral
         [] OTHER -> IsErrorReporting(Trim(t))
CanonicalValue(key, t) ==
    IF key.w = "display_errors" /\ ParseFlag(t) # "no" THEN T(ParseFlag(t), 3, {}) ELSE Trim(t)

DirectiveNameOk(t) == t.n \in 1 .. 128 /\ Only(t, {"upper", "dot", "under", "swap"})
DirectiveValueOk(t) == ValueCharsOk(t, 256, {"ctl", "hash", "brk"})
DirectiveReserved(t) ==
    Only(t, {"dot", "under"}) /\ t.w \in Settings \cup {"pm.", "extension", "zend_extension", "openssl.cafile"}

PoolNameOk(t) == t.w = "max_children" /\ Only(t, {})
PoolValueOk(t) == t.w = "16" /\ Only(t, {"pad", "zeros"})
ParsedPool(t) == Without(t, {"pad", "zeros"})

ExtNameOk(t) == t.n \in 1 .. 64 /\ Only(t, {"upper", "digit", "under", "hyphen"})
ExtPathOk(t) ==
    t.n \in 1 .. 4096 /\ {"slash", "so"} \subseteq t.m /\ t.m \cap {"ctl", "quote", "dollar"} = {}
DefaultNameFromPath(path) == T(path.w, path.n, {})
ExtEntryOk(name, path) == ExtPathOk(path) /\ ExtNameOk(name)

DialectFor(type) ==
    CASE type \in {"mysql", "mariadb"} -> "MyCnf" [] type = "postgres" -> "PostgresConf"
      [] type = "redis" -> "RedisConf" [] OTHER -> "none"
ReservedMyCnf == {"port", "datadir", "log-error", "bind-address"}
ReservedPostgresConf == {"port", "listen_addresses", "include", "data_directory"}
ReservedRedisConf == {"port", "bind", "dir", "include"}
ReservedOf ==
    [MyCnf |-> ReservedMyCnf, PostgresConf |-> ReservedPostgresConf, RedisConf |-> ReservedRedisConf]
\* Option files read - and _ alike; the two other dialects do not.
OverrideReserved(d, t) == t.w \in ReservedOf[d] /\ (d = "MyCnf" \/ "swap" \notin t.m)
OverrideNameOk(t) == t.n \in 1 .. 128 /\ Only(t, {"upper", "dot", "under", "swap"})
OverrideValueOk(d, t) ==
    /\ ValueCharsOk(t, 512, {"ctl", "hash"})
    /\ (d = "PostgresConf" \/ "quote" \notin t.m)

-----------------------------------------------------------------------------
(* What the file may hold (schema.rs, the wire structs of parse.rs). *)

CURRENT_VERSION == 23
SingleServices == {"mysql", "mariadb", "meilisearch", "postgres", "redis"}
PerSiteServices == {"reverb"}
\* A wire id "type:site" is the key of its type at that site.
DefaultAutostart(e) == IF e.key.w \in PerSiteServices THEN T("false", 1, {}) ELSE T("true", 1, {})

Scalar(sec, key, w, n) == Entry(sec, None, T(key, 1, {}), T(w, n, {}))
Defaults ==
    {Scalar("ports", "http", "p80", 80), Scalar("ports", "https", "p443", 443),
     Scalar("ports", "fallback_http", "p8080", 8080), Scalar("ports", "fallback_https", "p8443", 8443),
     Scalar("top", "tld", "test", 4), Scalar("top", "update_channel", "stable", 6),
     Scalar("top", "dns_port", "p1053", 1053), Scalar("top", "lan_setup_port", "p7073", 7073),
     Scalar("mail", "port", "p2525", 2525), Scalar("mail", "enabled", "true", 1),
     Scalar("dumps", "port", "p2304", 2304), Scalar("top", "mcp_enabled", "false", 1)}
DefaultSettings ==
    {Entry("settings", None, T("memory_limit", 12, {}), T("512M", 4, {})),
     Entry("settings", None, T("display_errors", 14, {}), T("on", 3, {}))}
DefaultConfig == Defaults \cup DefaultSettings
Filled(es) == es \cup {d \in Defaults : \A e \in es : <<e.sec, e.key>> # <<d.sec, d.key>>}
ValueOf(c, sec, key) == (CHOOSE e \in c : e.sec = sec /\ e.key.w = key).val
Sections == {"top", "ports", "mail", "dumps", "settings", "version_settings", "directives",
             "pool", "extensions", "linked", "overrides", "services", "service_overrides",
             "added", "primary", "proxies", "proxy_rules", "route_rules",
             "groups", "members", "tunnel_named", "tunnel_sites"}
PerVersion == {"version_settings", "directives", "pool"}
\* Sections whose bad entries are dropped at a load.
IsLenient(e) == e.sec = "service_overrides" \/ (e.sec \in PerVersion /\ PhpVersionOk(e.at))

NoFile == [ver |-> -1, lines |-> {}]

Bad == Entry("bad", None, None, None)
Dropped == Entry("dropped", None, None, None)
OrBad(ok, e) == IF ok THEN e ELSE Bad

-----------------------------------------------------------------------------
(* Migrations: read_version, up. *)

ReadVersion(f) == IF f.ver \in Nat THEN f.ver ELSE CURRENT_VERSION + 1
\* v2 listed its enabled services; v3 gives each one a table.
MigrateV2ToV3(lines) ==
    {e \in lines : e.sec # "services_enabled"}
      \cup {Entry("services", None, e.key, T("true", 1, {})) : e \in Of(lines, "services_enabled")}
\* Until v15 every installed engine was started: keep that.
MigrateV14ToV15(lines) ==
    {e \in lines : e.sec # "services" \/ e.at # None}
      \cup {[e EXCEPT !.val = T("true", 1, {})] : e \in {x \in Of(lines, "services") : x.at = None}}
\* Every other step only writes the new version.
MigrateV3ToV14(lines) == lines
MigrateV15ToV23(lines) == lines
Up_Always(f) == MigrateV14ToV15(IF f.ver <= 2 THEN MigrateV2ToV3(f.lines) ELSE f.lines)
Up(f) ==
    LET v3 == IF f.ver <= 2 THEN MigrateV2ToV3(f.lines) ELSE f.lines
        v14 == MigrateV3ToV14(v3)
    IN MigrateV15ToV23(IF f.ver <= 14 THEN MigrateV14ToV15(v14) ELSE v14)

-----------------------------------------------------------------------------
(* TryFrom<Wire>: one entry of the file to one of the configuration. *)

ConvertTop(e) ==
    IF e.key.w = "tld" THEN OrBad(TldOk(e.val), [e EXCEPT !.val = Lower(@)]) ELSE e
KeepIf(e, ok) == IF ~PhpVersionOk(e.at) THEN Bad ELSE IF ok THEN e ELSE Dropped
ConvertVersionSettings(e) == KeepIf(e, SettingOk(e.key, e.val))
ConvertDirectives(e) ==
    KeepIf(e, DirectiveNameOk(e.key) /\ DirectiveValueOk(e.val) /\ ~DirectiveReserved(e.key))
ConvertPool(e) == KeepIf(e, PoolNameOk(e.key) /\ PoolValueOk(e.val))
ConvertExtensions(e) ==
    OrBad(PhpVersionOk(e.at), IF e.key = None THEN [e EXCEPT !.key = DefaultNameFromPath(e.val)] ELSE e)
ConvertServiceOverrides(e) ==
    LET d == DialectFor(e.at.w)
    IN IF d # "none" /\ OverrideNameOk(e.key) /\ OverrideValueOk(d, e.val) /\ ~OverrideReserved(d, e.key)
       THEN e ELSE Dropped
ConvertServices(e) == IF e.val = None THEN [e EXCEPT !.val = DefaultAutostart(e)] ELSE e
ConvertLinked(e) == OrBad(SiteNameOk(e.key), [e EXCEPT !.key = Lower(@)])
ConvertDomainDeltas(e) == OrBad(SubpartOk(e.key), [e EXCEPT !.key = Lower(@)])
ConvertProxies(e) ==
    OrBad(UpstreamOk(e.val) /\ ProxyNameOk(e.key), [e EXCEPT !.key = Lower(@), !.val = Upstream(@)])
ConvertProxyRules(e) ==
    OrBad(UpstreamOk(e.val) /\ PrefixOk(e.key), [e EXCEPT !.key = NormalizePrefix(@), !.val = Upstream(@)])
ConvertRouteRules(e) ==
    OrBad(PrefixOk(e.key) /\ RouteTargetOk(e.val), [e EXCEPT !.key = NormalizePrefix(@)])
Convert(e) ==
    CASE e.sec = "top" -> ConvertTop(e)
      [] e.sec = "version_settings" -> ConvertVersionSettings(e)
      [] e.sec = "directives" -> ConvertDirectives(e)
      [] e.sec = "pool" -> ConvertPool(e)
      [] e.sec = "extensions" -> ConvertExtensions(e)
      [] e.sec = "service_overrides" -> ConvertServiceOverrides(e)
      [] e.sec = "services" -> ConvertServices(e)
      [] e.sec = "linked" -> ConvertLinked(e)
      [] e.sec \in {"added", "primary"} -> ConvertDomainDeltas(e)
      [] e.sec = "proxies" -> ConvertProxies(e)
      [] e.sec = "proxy_rules" -> ConvertProxyRules(e)
      [] e.sec = "route_rules" -> ConvertRouteRules(e)
      [] e.sec \in Sections -> e
      [] OTHER -> Bad        \* deny_unknown_fields

-----------------------------------------------------------------------------
(* validate: before every save and after every parse. *)

\* Two entries of a list with one key.
Twice(c, sec) ==
    \E a, b \in Of(c, sec) : a # b /\ a.at = b.at /\ a.key = b.key
LinkedNames(c) == {e.key : e \in Of(c, "linked")}
ValidatePorts(c) ==
    LET p(k) == ValueOf(c, "ports", k).n
    IN /\ p("http") # 0 /\ p("https") # 0 /\ p("http") # p("https")
       /\ p("fallback_http") >= 1024 /\ p("fallback_https") >= 1024
       /\ p("fallback_http") # p("fallback_https")
       /\ ValueOf(c, "mail", "port").n # 0 /\ ValueOf(c, "dumps", "port").n # 0
       /\ ValueOf(c, "top", "lan_setup_port").n >= 1024
ValidateUniqueLinked(c) == ~Twice(c, "linked")
ValidateNonemptyPaths(c) == \A e \in Of(c, "overrides") : ~IsEmpty(e.key)
WebRootEscapes(t) == ~IsSafeRelative(t)
ValidateWebRoots(c) == \A e \in Of(c, "linked") \cup Of(c, "overrides") : ~WebRootEscapes(e.val)
\* An id with a site is for the per-site types only; the engines that take
\* overrides are not.
ValidateKnownServices(c) ==
    /\ \A e \in Of(c, "services") :
         \/ e.key.w \in SingleServices /\ e.at = None
         \/ e.key.w \in PerSiteServices /\ e.at # None /\ IsValidSiteLabel(e.at)
    /\ \A e \in Of(c, "service_overrides") : "site" \notin e.at.m
ValidatePhpSettings(c) == \A e \in Of(c, "settings") : SettingOk(e.key, e.val)
ValidatePhpExtensions(c) ==
    ~Twice(c, "extensions") /\ \A e \in Of(c, "extensions") : ExtEntryOk(e.key, e.val)
ValidateUpdateChannel(c) == ValueOf(c, "top", "update_channel").w \in {"stable", "edge"}
IsSafeKey(t) == t.n \in 1 .. 64 /\ Only(t, {"upper", "digit", "hyphen", "dot", "under"})
IsPlausibleHostname(t) == t.n \in 1 .. 253 /\ "dot" \in t.m /\ Only(t, {"upper", "digit", "dot"})
ValidateTunnel(c) ==
    /\ Cardinality(Of(c, "tunnel_named")) <= 1
    /\ \A e \in Of(c, "tunnel_named") : IsSafeKey(e.key) /\ IsSafeKey(e.val)
    /\ \A e \in Of(c, "tunnel_sites") : IsSafeKey(e.key) /\ IsPlausibleHostname(e.val)
    /\ \A a, b \in Of(c, "tunnel_sites") : a # b => a.val # b.val
ReservedGroup(t) == t.w = "unallocated"
ValidateGroups(c) ==
    /\ \A e \in Of(c, "groups") : ~IsEmpty(e.key) /\ ~ReservedGroup(e.key)
    /\ \A a, b \in Of(c, "groups") : a # b => Lower(a.key) # Lower(b.key)
    /\ \A e \in Of(c, "members") : \E g \in Of(c, "groups") : Lower(g.key) = Lower(e.val)
ValidateDomains(c) ==
    ~Twice(c, "added") /\ \A e \in Of(c, "primary") : ~IsWildcard(e.key)
ValidateProxies(c) ==
    /\ ~Twice(c, "proxies") /\ \A e \in Of(c, "proxies") : e.key \notin LinkedNames(c) /\ ~IsLoop(e.val)
    /\ \A e \in Of(c, "proxy_rules") : e.at \in LinkedNames(c)
ValidateRuleSet(c) == ~Twice(c, "proxy_rules") /\ \A e \in Of(c, "proxy_rules") : ~IsLoop(e.val)
ValidateRouteRules(c) ==
    ~Twice(c, "route_rules") /\ \A e \in Of(c, "route_rules") : e.at \in LinkedNames(c)
Validate(c) ==
    /\ ValidatePorts(c) /\ ValidateUniqueLinked(c) /\ ValidateNonemptyPaths(c)
    /\ ValidateWebRoots(c) /\ ValidateKnownServices(c) /\ ValidatePhpSettings(c)
    /\ ValidatePhpExtensions(c) /\ ValidateUpdateChannel(c) /\ ValidateTunnel(c)
    /\ ValidateGroups(c) /\ ValidateDomains(c) /\ ValidateProxies(c) /\ ValidateRuleSet(c)
    /\ ValidateRouteRules(c)

-----------------------------------------------------------------------------
(* to_toml and parse_toml. *)

IsDefaultSection(c, sec) == Of(c, sec) = Of(Defaults, sec)
\* The mail and dumps sections are written only when they differ.
ToToml_OldVersion(c) == [ver |-> 14, lines |-> c]
ToToml(c) ==
    [ver |-> CURRENT_VERSION,
     lines |-> {e \in c : e.sec \in {"mail", "dumps"} => ~IsDefaultSection(c, e.sec)}]

\* A [ports] table has at least http and https.
PortsComplete(lines) ==
    Of(lines, "ports") = {} \/ {"http", "https"} \subseteq {e.key.w : e \in Of(lines, "ports")}
\* The configuration, or {Bad}.
FromLines(lines) ==
    LET converted == {Convert(e) : e \in lines}
        c == Filled(converted \ {Dropped})
    IN IF Bad \in converted \/ ~PortsComplete(lines) THEN {Bad}
       ELSE IF Validate(c) THEN c ELSE {Bad}
ParseToml(f) ==
    IF ReadVersion(f) > CURRENT_VERSION THEN {Bad} ELSE FromLines(Up(f))
\* load_or_default: no file is the default configuration.
Load(f) == IF f = NoFile THEN DefaultConfig ELSE ParseToml(f)

-----------------------------------------------------------------------------
(* The handlers: the configuration a request asks for, or {Bad}. *)

SameKey(a, b) == a.sec = b.sec /\ a.at = b.at /\ a.key = b.key
Drop(c, e) == {x \in c : ~SameKey(x, e)}
Put(c, e) == Drop(c, e) \cup {e}
Refuse == {Bad}
\* An empty value takes the entry out.
PutOrDrop(c, e, ok, stored) ==
    IF IsEmpty(e.val) THEN Drop(c, e) ELSE IF ok THEN Put(c, stored) ELSE Refuse

SetPhpSettings(c, e) ==
    PutOrDrop(c, e, SettingOk(e.key, e.val), [e EXCEPT !.val = CanonicalValue(e.key, @)])
SetPhpVersionSettings(c, e) ==
    PutOrDrop(c, e, SettingOk(e.key, e.val), [e EXCEPT !.val = CanonicalValue(e.key, @)])
SetPhpDirectives(c, e) ==
    IF ~DirectiveNameOk(e.key) \/ DirectiveReserved(e.key) THEN Refuse
    ELSE PutOrDrop(c, e, DirectiveValueOk(e.val), [e EXCEPT !.val = Trim(@)])
SetPhpPoolSettings(c, e) ==
    IF ~PoolNameOk(e.key) THEN Refuse
    ELSE PutOrDrop(c, e, PoolValueOk(e.val), [e EXCEPT !.val = ParsedPool(@)])
AddPhpExtension(c, e) ==
    LET x == IF e.key = None THEN [e EXCEPT !.key = DefaultNameFromPath(e.val)] ELSE e
    IN IF ~ExtEntryOk(x.key, x.val) \/ (\E y \in c : SameKey(x, y)) THEN Refuse ELSE c \cup {x}
RemovePhpExtension(c, e) == IF \E y \in c : SameKey(e, y) THEN Drop(c, e) ELSE Refuse
SetServiceOverrides(c, e) ==
    LET d == DialectFor(e.at.w)
    IN IF d = "none" \/ ~OverrideNameOk(e.key) \/ OverrideReserved(d, e.key) THEN Refuse
       ELSE PutOrDrop(c, e, OverrideValueOk(d, Trim(e.val)), [e EXCEPT !.val = Trim(@)])
\* No check of the id: persist_instance makes the instance.
SetServiceAutostart(c, e) == Put(c, e)
SetMailPort(c, e) == Put(c, e)
SetMailEnabled(c, e) == Put(c, e)
SetMcpEnabled(c, e) == Put(c, e)
SetFallbackPorts(c, e) ==
    Put(Put(c, Entry("ports", None, T("fallback_http", 1, {}), e.key)),
        Entry("ports", None, T("fallback_https", 1, {}), e.val))
SetDnsPort(c, e) == IF e.val.n = 0 THEN Refuse ELSE Put(c, e)

GroupNamed(c, t) == {g \in Of(c, "groups") : Lower(g.key) = Lower(t)}
ApplyCreateGroup(c, e) ==
    LET t == Trim(e.key)
    IN IF IsEmpty(t) \/ ReservedGroup(t) \/ GroupNamed(c, t) # {} THEN Refuse
       ELSE c \cup {[e EXCEPT !.key = t]}
ApplyDeleteGroup(c, e) ==
    {x \in c : ~(x.sec = "members" /\ Lower(x.val) = Lower(e.key))} \ GroupNamed(c, e.key)
ApplySetSiteGroup(c, e) ==
    LET m == [e EXCEPT !.key = Lower(@)]
    IN IF IsEmpty(e.val) THEN Drop(c, m)
       ELSE IF GroupNamed(c, e.val) = {} THEN Refuse
       ELSE Put(c, [m EXCEPT !.val = (CHOOSE g \in GroupNamed(c, e.val) : TRUE).key])
ApplyRenameGroup(c, e) ==
    LET to == Trim(e.val)
        old == GroupNamed(c, e.key)
    IN IF IsEmpty(to) \/ ReservedGroup(to) \/ old = {} \/ GroupNamed(c, to) \ old # {} THEN Refuse
       ELSE {IF x.sec = "members" /\ Lower(x.val) = Lower(e.key) THEN [x EXCEPT !.val = to] ELSE x :
               x \in c \ old} \cup {Entry("groups", None, to, None)}

\* The mutations of sites that SiteConfig has, as far as they check a text.
ApplyLink(c, e) ==
    IF ~SiteNameOk(e.key) \/ Lower(e.key) \in LinkedNames(c) THEN Refuse
    ELSE c \cup {[e EXCEPT !.key = Lower(@)]}
ApplyAddDomain(c, e) ==
    IF ~SubpartOk(e.key) \/ e.at \notin LinkedNames(c) THEN Refuse ELSE Put(c, [e EXCEPT !.key = Lower(@)])
ApplySetPrimary(c, e) ==
    IF ~SubpartOk(e.key) \/ IsWildcard(e.key)
         \/ (\A x \in Of(c, "added") : x.at # e.at \/ x.key # Lower(e.key)) THEN Refuse
    ELSE Put({x \in c : ~(x.sec = "primary" /\ x.at = e.at)}, [e EXCEPT !.key = Lower(@)])
ApplyAddProxy(c, e) ==
    IF ~UpstreamOk(e.val) \/ ~ProxyNameOk(e.key) \/ IsLoop(e.val) \/ Lower(e.key) \in LinkedNames(c) THEN Refuse
    ELSE Put(c, [e EXCEPT !.key = Lower(@), !.val = Upstream(@)])
ApplyAddProxyRule(c, e) ==
    IF ~UpstreamOk(e.val) \/ ~PrefixOk(e.key) \/ IsLoop(e.val) \/ e.at \notin LinkedNames(c) THEN Refuse
    ELSE Put(c, [e EXCEPT !.key = NormalizePrefix(@), !.val = Upstream(@)])
ApplyAddRouteRule(c, e) ==
    IF ~PrefixOk(e.key) \/ ~RouteTargetOk(e.val) \/ e.at \notin LinkedNames(c) THEN Refuse
    ELSE Put(c, [e EXCEPT !.key = NormalizePrefix(@)])
IsValidTunnelName(t) == t.n \in 1 .. 64 /\ Only(t, {"upper", "digit", "dot", "under"})
CreateNamedTunnel(c, e) ==
    IF ~IsValidTunnelName(e.key) \/ Of(c, "tunnel_named") # {} THEN Refuse ELSE c \cup {e}
SetSiteHostname(c, e) == PutOrDrop(c, e, TRUE, e)

Handle(c, e) ==
    CASE e.sec = "settings" -> SetPhpSettings(c, e)
      [] e.sec = "version_settings" -> SetPhpVersionSettings(c, e)
      [] e.sec = "directives" -> SetPhpDirectives(c, e)
      [] e.sec = "pool" -> SetPhpPoolSettings(c, e)
      [] e.sec = "extensions" -> IF e.val = None THEN RemovePhpExtension(c, e) ELSE AddPhpExtension(c, e)
      [] e.sec = "service_overrides" -> SetServiceOverrides(c, e)
      [] e.sec = "services" -> SetServiceAutostart(c, e)
      [] e.sec = "mail" -> IF e.key.w = "port" THEN SetMailPort(c, e) ELSE SetMailEnabled(c, e)
      [] e.sec = "ports" -> SetFallbackPorts(c, e)
      [] e.sec = "top" -> IF e.key.w = "dns_port" THEN SetDnsPort(c, e) ELSE SetMcpEnabled(c, e)
      [] e.sec = "groups" -> ApplyCreateGroup(c, e)
      [] e.sec = "delete_group" -> ApplyDeleteGroup(c, e)
      [] e.sec = "rename_group" -> ApplyRenameGroup(c, e)
      [] e.sec = "members" -> ApplySetSiteGroup(c, e)
      [] e.sec = "linked" -> ApplyLink(c, e)
      [] e.sec = "added" -> ApplyAddDomain(c, e)
      [] e.sec = "primary" -> ApplySetPrimary(c, e)
      [] e.sec = "proxies" -> ApplyAddProxy(c, e)
      [] e.sec = "proxy_rules" -> ApplyAddProxyRule(c, e)
      [] e.sec = "route_rules" -> ApplyAddRouteRule(c, e)
      [] e.sec = "tunnel_named" -> CreateNamedTunnel(c, e)
      [] e.sec = "tunnel_sites" -> SetSiteHostname(c, e)

-----------------------------------------------------------------------------
(* The renderers. *)

MergeEffective(c, v) ==
    LET own == {e \in Of(c, "version_settings") : e.at = v}
    IN {e \in own \cup {g \in Of(c, "settings") : \A o \in own : o.key # g.key} : e.key.w \in Settings}
Line(kind, e) == [kind |-> kind, key |-> e.key, val |-> e.val]
DirectivesOf(c, v) ==
    {e \in Of(c, "directives") : e.at = v /\ DirectiveNameOk(e.key) /\ DirectiveValueOk(e.val)
                                  /\ ~DirectiveReserved(e.key)}
RenderIniLines(c, v) == {Line("ini", [e EXCEPT !.val = Trim(@)]) : e \in DirectivesOf(c, v)}
OverrideMaxChildren(c, v) ==
    {ParsedPool(e.val) : e \in {x \in Of(c, "pool") : x.at = v /\ PoolValueOk(x.val)}}
RenderFpmConf(c, v) ==
    {Line(IF e.key.w = "display_errors" THEN "flag" ELSE "value", e) :
       e \in {x \in MergeEffective(c, v) : SettingOk(x.key, x.val)}}
      \cup {Line("value", e) : e \in DirectivesOf(c, v)}
      \cup {[kind |-> "pm.max_children", key |-> None, val |-> n] : n \in OverrideMaxChildren(c, v)}
RenderCliIni(c, v) ==
    {Line("ini", [e EXCEPT !.val = CanonicalValue(e.key, @)]) :
       e \in {x \in MergeEffective(c, v) : x.key.w \in CliSettings /\ SettingOk(x.key, x.val)}}
RenderCliIniWithExt(c, v) ==
    RenderCliIni(c, v)
      \cup {[kind |-> "extension", key |-> None, val |-> e.val] :
              e \in {x \in Of(c, "extensions") : x.at = v /\ x.val.m \cap {"ctl", "quote"} = {}}}
\* 10-yerd.<ext> of one engine.
RenderManaged(c, type) ==
    LET d == DialectFor(type)
    IN {Line(d, [e EXCEPT !.val = Trim(@)]) :
          e \in {x \in Of(c, "service_overrides") :
                   x.at.w = type /\ OverrideNameOk(x.key) /\ OverrideValueOk(d, x.val)
                   /\ ~OverrideReserved(d, x.key)}}

-----------------------------------------------------------------------------
VARIABLES
    file,    \* config.toml
    cfg,     \* the daemon's configuration
    pc,      \* "down", "up" or "refused" (it would not start on this file)
    want,    \* what was acknowledged last, or read first
    edited,  \* the file has lines the daemon has not read or written
    reply,   \* to the last request
    ops

vars == <<file, cfg, pc, want, edited, reply, ops>>

TypeOK ==
    /\ file.ver \in Int /\ pc \in {"down", "up", "refused"} /\ edited \in BOOLEAN
    /\ reply \in {"none", "ok", "refused"} /\ ops \in 0 .. MaxOps
    /\ \A e \in cfg \cup want : e.sec \in Sections

Init ==
    /\ file \in OldFiles \cup {NoFile} /\ edited = TRUE
    /\ cfg = {} /\ want = {} /\ pc = "down" /\ reply = "none" /\ ops = 0

Start ==
    /\ pc = "down"
    /\ \E c \in {Load(file)} :
         IF c = Refuse THEN pc' = "refused" /\ UNCHANGED <<cfg, want, edited>>
         ELSE /\ pc' = "up" /\ cfg' = c /\ edited' = FALSE
              /\ want' = IF edited THEN c ELSE want
    /\ reply' = "none" /\ UNCHANGED <<file, ops>>

Stop ==
    /\ pc = "up" /\ pc' = "down" /\ cfg' = {} /\ reply' = "none"
    /\ UNCHANGED <<file, want, edited, ops>>

\* Most handlers build a new configuration, validate, save and then keep it;
\* persist_instance changes the one in memory before it validates.
Saves(new) ==
    /\ file' = ToToml(new) /\ cfg' = new /\ want' = new /\ edited' = FALSE /\ reply' = "ok"
KeptUnsaved(new, e) == new # Refuse /\ e.sec \in {"services", "service_overrides"}
Request(e) ==
    /\ pc = "up" /\ ops < MaxOps /\ ops' = ops + 1
    /\ \E new \in {Handle(cfg, e)} :
         IF new # Refuse /\ Validate(new) THEN Saves(new)
         ELSE /\ reply' = "refused" /\ UNCHANGED <<file, want, edited>>
              /\ cfg' = IF KeptUnsaved(new, e) THEN new ELSE cfg
    /\ UNCHANGED pc

\* The user writes a line, or takes one out; a daemon that is up goes on with
\* what it has, and its next save replaces the file.
HandEdit ==
    /\ ops < MaxOps /\ ops' = ops + 1 /\ file # NoFile
    /\ \/ \E e \in HandLines : file' = [file EXCEPT !.lines = Put(@, e)]
       \/ \E e \in file.lines \cap HandLines : file' = [file EXCEPT !.lines = @ \ {e}]
    /\ edited' = TRUE /\ pc' = IF pc = "refused" THEN "down" ELSE pc
    /\ UNCHANGED <<cfg, want, reply>>

Next == Start \/ Stop \/ (\E e \in Requests : Request(e)) \/ HandEdit
Spec == Init /\ [][Next]_vars

-----------------------------------------------------------------------------
\* What the daemon acknowledged is what its next start reads, down to the
\* spelling of each value, unless a user edited the file in between: the
\* handlers' validators, to_toml and parse_toml agree.  So a start that is
\* refused has an edit, or a foreign file, to blame.
StartReadsBack == (pc = "down" /\ pc' # "down" /\ ~edited) => (pc' = "up" /\ cfg' = want)

\* Lines of the per-version and the service sections never keep the daemon
\* down: "so a bad entry can never stop the daemon" (convert_version_settings).
LenientNeverRefused ==
    (pc = "refused" /\ ReadVersion(file) <= CURRENT_VERSION)
       => Load([file EXCEPT !.lines = {e \in @ : ~IsLenient(e)}]) = Refuse

\* Every PHP setting, directive, pool size, extension and service override the
\* daemon holds is in the file rendered from it, a version's own value over
\* the global one: nothing accepted at the set or the load is skipped by the
\* renderers' own checks.
AcceptedIsRendered ==
    pc = "up" =>
      /\ \A e \in cfg : e.sec \in {"version_settings", "directives"} =>
           \E l \in RenderFpmConf(cfg, e.at) : l.key = e.key /\ l.val = e.val
      /\ \A e \in Of(cfg, "settings"), v \in {x.at : x \in {y \in cfg : y.sec \in PerVersion}} :
           (\A o \in Of(cfg, "version_settings") : o.at = v => o.key # e.key) =>
             \E l \in RenderFpmConf(cfg, v) : l.key = e.key /\ l.val = e.val
      /\ \A e \in Of(cfg, "pool") : OverrideMaxChildren(cfg, e.at) # {}
      /\ \A e \in Of(cfg, "extensions") :
           \E l \in RenderCliIniWithExt(cfg, e.at) : l.kind = "extension" /\ l.val = e.val
      /\ \A e \in Of(cfg, "directives") : \E l \in RenderIniLines(cfg, e.at) : l.key = e.key
      /\ \A e \in Of(cfg, "service_overrides") :
           \E l \in RenderManaged(cfg, e.at.w) : l.key = e.key /\ l.val = Trim(e.val)

\* An upgrade keeps every service the old file names, and starts the engines
\* it used to start; an autostart turned off since stays off.
MigratesAll ==
    (pc = "down" /\ pc' = "up" /\ file # NoFile) =>
      /\ \A e \in Of(file.lines, "services") \cup Of(file.lines, "services_enabled") :
           \E x \in Of(cfg', "services") : x.key = e.key /\ x.at = e.at
      /\ \A x \in Of(cfg', "services") :
           LET old == {e \in file.lines : SameKey(e, x)}
           IN /\ (file.ver <= 14 /\ x.at = None) => x.val.w = "true"
              /\ file.ver > 14 => \A e \in old : e.val # None => x.val = e.val
=============================================================================
