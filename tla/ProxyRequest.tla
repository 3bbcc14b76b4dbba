---------------------------- MODULE ProxyRequest ----------------------------
(***************************************************************************)
(* What the reverse proxy does with a request (yerd-proxy server.rs,       *)
(* forward/static_file.rs, script_file.rs, proxy.rs, upgrade.rs and the    *)
(* pure helpers), followed by a browser: redirects are followed, the pin   *)
(* cookie of the loopback picker is kept and cleared, a one-click login    *)
(* link (yerdd wordpress_login.rs) is opened, by two browsers if need be.  *)
(* Between the steps of a request, each an await of the handler, sites,     *)
(* files and login tokens change.                                          *)
(*                                                                         *)
(* A URL is [host, tls, segs, slash, tok]: the segments of the path, its    *)
(* trailing slash and the login token of its query, 0 for none.  A tree    *)
(* maps the paths that exist to [dir, php, out]: is it a directory, is the  *)
(* file it resolves to PHP source, is that outside the document root.      *)
(***************************************************************************)
EXTENDS Naturals, Sequences, FiniteSets, SequencesExt

CONSTANTS Browsers, Sites, Trees, Starts, Configs,
          PhpNames,   \* segment names with the extension of PHP source
          BadNames,   \* segments resolve_segments refuses
          Switches,   \* [segment |-> site]: "~name", with the clear switch
          PeerFilter, \* LAN mode: only LAN peers are served
          MaxHops, MaxTokens, MaxChanges

VARIABLES
  cfg,     \* [site |-> [on, secure, front, upstream, target, backend]], from Configs
  tree,    \* the served root, the same for every site
  protect, \* symlink_protection
  req,     \* what each browser is doing
  tokens,  \* LoginTokenRegistry: token |-> [site, fresh]
  minted,  \* tokens minted so far
  logins,  \* logins honoured: [tok, site, own, fresh]
  changes  \* changes made so far, a bound

vars == <<cfg, tree, protect, req, tokens, minted, logins, changes>>

NoSite == "none"
NoConfig == [on |-> FALSE, secure |-> FALSE, front |-> FALSE, upstream |-> FALSE, target |-> <<>>]
Idle == [pc |-> "idle", hops |-> 0, pin |-> NoSite]
Loopback == "localhost"
Redirects == {"redirect", "see other"}

Init ==
  /\ cfg \in Configs /\ tree \in Trees /\ protect \in BOOLEAN
  /\ req = [b \in Browsers |-> Idle]
  /\ tokens = [t \in {} |-> 0] /\ minted = [t \in {} |-> NoSite] /\ logins = <<>> /\ changes = 0

-----------------------------------------------------------------------------
(* pure/try_files.rs *)
IsPhpSource(name) == name \in PhpNames
ResolveSegments(segs) == \A i \in DOMAIN segs : segs[i] \notin BadNames
None == <<"?">>
StaticCandidate(u) == IF u.slash \/ u.segs = <<>> \/ ~ResolveSegments(u.segs) THEN None ELSE u.segs
DirectoryCandidate(u) ==
  IF (u.slash \/ u.segs = <<>>) /\ ResolveSegments(u.segs) THEN u.segs ELSE None
(* The script is the first component with a PHP name, the last excepted,    *)
(* which is empty after a trailing slash; what follows may hold dots.       *)
PhpSplitCandidate(u) ==
  LET last == IF u.slash THEN Len(u.segs) ELSE Len(u.segs) - 1
      php  == {i \in 1..last : IsPhpSource(u.segs[i])}
      i    == CHOOSE n \in php : \A k \in php : n <= k
  IN IF php = {} THEN None
     ELSE IF ResolveSegments(SubSeq(u.segs, 1, i)) THEN SubSeq(u.segs, 1, i) ELSE None

(* canonical_within, with what a caller makes of an escape. *)
CanonicalWithin(rel) ==
  IF rel \notin DOMAIN tree THEN "missing" ELSE IF tree[rel].out THEN "escaped" ELSE "ok"
Usable(rel) == CanonicalWithin(rel) = "ok" \/ (CanonicalWithin(rel) = "escaped" /\ ~protect)
Refused(rel) == CanonicalWithin(rel) = "escaped" /\ protect

(* forward/static_file.rs.  An outcome is "not found", "escape" or the path *)
(* of the file served.                                                      *)
NotFound == [is |-> "not found"]
Escape == [is |-> "escape"]
RespondWithFile(rel) == [is |-> "file", php |-> tree[rel].php, out |-> tree[rel].out]
(* Mutant: the name asked for decides what is PHP source. *)
ServeContainedFile_Name(get, rel) ==
  IF ~get THEN NotFound
  ELSE IF Refused(rel) THEN Escape
  ELSE IF Usable(rel) /\ ~IsPhpSource(Last(rel)) /\ ~tree[rel].dir THEN RespondWithFile(rel)
  ELSE NotFound
ServeContainedFile(get, rel) ==
  IF ~get THEN NotFound
  ELSE IF Refused(rel) THEN Escape
  ELSE IF Usable(rel) /\ ~tree[rel].php /\ ~tree[rel].dir THEN RespondWithFile(rel)
  ELSE NotFound
TryServe(get, u) ==
  IF StaticCandidate(u) = None THEN NotFound ELSE ServeContainedFile(get, StaticCandidate(u))
ServeTargetFile(get, target) == ServeContainedFile(get, target)

IndexNames == <<"index.html", "index.htm">>
(* Mutant: an index document is served wherever it leads. *)
TryServeIndex(get, dir) ==
  IF ~get \/ dir = None THEN NotFound
  ELSE IF Refused(dir) THEN Escape
  ELSE IF ~Usable(dir) \/ ~tree[dir].dir \/ Append(dir, "index.php") \in DOMAIN tree THEN NotFound
  ELSE LET found == SelectSeq(IndexNames, LAMBDA n : Usable(Append(dir, n))
                                /\ ~tree[Append(dir, n)].php /\ ~tree[Append(dir, n)].dir)
       IN IF found # <<>> THEN RespondWithFile(Append(dir, Head(found)))
          ELSE IF \E i \in DOMAIN IndexNames : Refused(Append(dir, IndexNames[i])) THEN Escape
          ELSE NotFound

(* forward/script_file.rs *)
ExistingPhpFile(rel) == IsPhpSource(Last(rel)) /\ Usable(rel) /\ ~tree[rel].dir
ResolveRuleTarget(target) == IF ExistingPhpFile(target) THEN target ELSE None
IsExistingDirectory(rel) == Usable(rel) /\ tree[rel].dir
Script(rel) == [is |-> "script", rel |-> rel]
FrontController == [is |-> "fallback", rel |-> <<"index.php">>]
SplitPathInfo(u) ==
  IF PhpSplitCandidate(u) # None /\ ExistingPhpFile(PhpSplitCandidate(u))
  THEN Script(PhpSplitCandidate(u)) ELSE FrontController
ResolveScript(u) ==
  IF StaticCandidate(u) # None
  THEN IF ExistingPhpFile(StaticCandidate(u)) THEN Script(StaticCandidate(u))
       ELSE IF IsExistingDirectory(StaticCandidate(u)) THEN [is |-> "directory"]
       ELSE SplitPathInfo(u)
  ELSE IF DirectoryCandidate(u) # None
          /\ ExistingPhpFile(Append(DirectoryCandidate(u), "index.php"))
       THEN Script(Append(DirectoryCandidate(u), "index.php"))
       ELSE SplitPathInfo(u)
ResolveScriptIfAllowed(site, u) ==
  IF site.front THEN FrontController ELSE ResolveScript(u)

-----------------------------------------------------------------------------
(* Responses.  A browser holds what it asked for and what it got. *)
Get(r) == r.method = "GET"
(* The request was answered: a redirect is followed, the rest is shown.     *)
(* Browsers give up after MaxHops redirects.                                *)
Answer(b, resp) ==
  req' = [req EXCEPT ![b] = [@ EXCEPT !.pc = "answered", !.resp = resp,
    !.pin = IF "pin" \in DOMAIN resp THEN resp.pin ELSE @]]
Respond(kind) == [is |-> kind]
HttpsRedirect(u) == [is |-> "redirect", to |-> [u EXCEPT !.tls = TRUE]]
TrailingSlashRedirect(u) == [is |-> "redirect", to |-> [u EXCEPT !.slash = TRUE]]
SwitchResponse(u, name) ==
  [is |-> "see other", pin |-> name, to |-> [u EXCEPT !.segs = Tail(u.segs),
     !.slash = @ \/ Len(u.segs) = 1]]
ClearResponse(u) == [is |-> "see other", pin |-> NoSite,
                     to |-> [u EXCEPT !.segs = <<>>, !.slash = TRUE, !.tok = 0]]
(* decide_picker with picker_response and unbound_not_found. *)
DecidePicker(r, clear) ==
  LET page == Respond(IF Get(r) /\ r.html THEN "picker" ELSE "not found page")
  IN IF clear THEN page @@ [pin |-> NoSite] ELSE page

(* pure/unbound.rs: the loopback names, and the switch in a path. *)
IsLoopbackHost(h) == h = Loopback
IsClearSwitch(u) == Len(u.segs) = 1 /\ u.segs[1] = "~"
ParseSwitch(u) ==
  IF u.segs # <<>> /\ u.segs[1] \in DOMAIN Switches THEN Switches[u.segs[1]] ELSE NoSite
(* classify_unbound, for a request to a loopback name. *)
Known(name) == name \in Sites /\ cfg[name].on
ClassifyUnbound(r) ==
  IF r.header # NoSite
  THEN IF Known(r.header) THEN [serve |-> r.header] ELSE [respond |-> Respond("not found page")]
  ELSE IF IsClearSwitch(r.url) THEN [respond |-> ClearResponse(r.url)]
  ELSE IF ParseSwitch(r.url) # NoSite
  THEN [respond |-> IF Known(ParseSwitch(r.url)) THEN SwitchResponse(r.url, ParseSwitch(r.url))
                    ELSE DecidePicker(r, FALSE)]
  ELSE IF r.pin = NoSite THEN [respond |-> DecidePicker(r, FALSE)]
  ELSE IF Known(r.pin) THEN [serve |-> r.pin]
  ELSE [respond |-> DecidePicker(r, TRUE)]

(* resolve_request, under the router's lock. *)
ResolveRequest(r) ==
  IF Known(r.url.host) THEN [serve |-> r.url.host]
  ELSE IF ~IsLoopbackHost(r.url.host) THEN [respond |-> Respond("not found page")]
  ELSE ClassifyUnbound(r)

-----------------------------------------------------------------------------
(* forward/proxy.rs: the upstream may be down; an upgrade the upstream       *)
(* accepts becomes a tunnel, any other answer passes through.               *)
ProxyForward(b) == \E resp \in {"bad gateway", "upstream"} : Answer(b, Respond(resp))
ProxyUpgrade(b) == \E resp \in {"bad gateway", "tunnel", "upstream", "error"} : Answer(b, Respond(resp))
ToUpstream(b, upgrade) == IF upgrade THEN ProxyUpgrade(b) ELSE ProxyForward(b)

(* The accept loops: a peer that is not of the LAN is dropped, in LAN mode.  *)
(* A handshake may fail: no certificate for the name, or a client that does *)
(* not want it.                                                             *)
Dropped(b) == req' = [req EXCEPT ![b] = [Idle EXCEPT !.pin = req[b].pin]]
ServeHttpConnection(b) == ~req[b].url.tls /\ req' = [req EXCEPT ![b].pc = "sent"]
ServeHttpsConnection(b) ==
  req[b].url.tls /\ (req' = [req EXCEPT ![b].pc = "sent"] \/ Dropped(b))
Accept(b) ==
  /\ req[b].pc = "connecting"
  /\ IF PeerFilter /\ ~req[b].lan THEN Dropped(b)
     ELSE ServeHttpConnection(b) \/ ServeHttpsConnection(b)
  /\ UNCHANGED <<cfg, tree, protect, tokens, minted, logins, changes>>

(* dispatch up to the backend: the site is copied out of the router. *)
(* Mutant: the TLS listener redirects as the plain one does. *)
Dispatch_Always(b) ==
  /\ req[b].pc = "sent"
  /\ LET r == req[b]
         routed == ResolveRequest(r)
     IN IF "respond" \in DOMAIN routed THEN Answer(b, routed.respond)
        ELSE LET site == cfg[routed.serve]
             IN IF ~IsLoopbackHost(r.url.host) /\ site.secure THEN Answer(b, HttpsRedirect(r.url))
                ELSE IF site.upstream THEN ToUpstream(b, r.upgrade)
                ELSE req' = [req EXCEPT ![b] = [@ EXCEPT !.pc = "backend", !.site = site,
                                                       !.name = routed.serve]]
  /\ UNCHANGED <<cfg, tree, protect, tokens, minted, logins, changes>>
Dispatch(b) ==
  /\ req[b].pc = "sent"
  /\ LET r == req[b]
         routed == ResolveRequest(r)
     IN IF "respond" \in DOMAIN routed THEN Answer(b, routed.respond)
        ELSE LET site == cfg[routed.serve]
             IN IF ~r.url.tls /\ ~IsLoopbackHost(r.url.host) /\ site.secure
                THEN Answer(b, HttpsRedirect(r.url))
                ELSE IF site.upstream THEN ToUpstream(b, r.upgrade)
                ELSE req' = [req EXCEPT ![b] = [@ EXCEPT !.pc = "backend", !.site = site,
                                                       !.name = routed.serve]]
  /\ UNCHANGED <<cfg, tree, protect, tokens, minted, logins, changes>>

(* backend_for: the pool is started if it has to be, or cannot be.          *)
BackendFor(b) ==
  /\ req[b].pc = "backend"
  /\ \/ Answer(b, Respond("error"))
     \/ /\ req[b].upgrade
        /\ Answer(b, Respond("not implemented"))
     \/ /\ ~req[b].upgrade
        /\ req' = [req EXCEPT ![b].pc = "static"]
  /\ UNCHANGED <<cfg, tree, protect, tokens, minted, logins, changes>>

(* resolve_static_outcome: served, refused, or the next step. *)
StaticOutcome(b, outcome, next) ==
  CASE outcome.is = "file" -> Answer(b, outcome)
    [] outcome.is = "escape" -> Answer(b, Respond("forbidden"))
    [] OTHER -> req' = [req EXCEPT ![b].pc = next]
(* serve_php_fpm *)
ServeStatic(b) ==
  /\ req[b].pc = "static"
  /\ StaticOutcome(b, TryServe(Get(req[b]), req[b].url), "index")
  /\ UNCHANGED <<cfg, tree, protect, tokens, minted, logins, changes>>
ServeIndex(b) ==
  /\ req[b].pc = "index"
  /\ StaticOutcome(b, TryServeIndex(Get(req[b]), DirectoryCandidate(req[b].url)), "script")
  /\ UNCHANGED <<cfg, tree, protect, tokens, minted, logins, changes>>
ServeScript(b) ==
  /\ req[b].pc = "script"
  /\ LET res == ResolveScriptIfAllowed(req[b].site, req[b].url)
     IN CASE res.is = "script" ->
               req' = [req EXCEPT ![b] = [@ EXCEPT !.pc = "login", !.script = res.rel]]
          [] res.is = "directory" /\ Get(req[b]) -> Answer(b, TrailingSlashRedirect(req[b].url))
          [] OTHER -> req' = [req EXCEPT ![b].pc = "rule"]
  /\ UNCHANGED <<cfg, tree, protect, tokens, minted, logins, changes>>
(* apply_route: the site's routing rule, or the root's index document.       *)
Run(b, rel) == req' = [req EXCEPT ![b] = [@ EXCEPT !.pc = "login", !.script = rel]]
ApplyRoute(b) ==
  /\ req[b].pc = "rule"
  /\ LET target == req[b].site.target
     IN CASE target = None ->
               LET root == TryServeIndex(Get(req[b]), <<>>)
               IN IF root.is = "not found" THEN Run(b, FrontController.rel)
                  ELSE StaticOutcome(b, root, "login")
          [] target # None /\ IsPhpSource(Last(target)) ->
               Run(b, IF ResolveRuleTarget(target) = None THEN FrontController.rel ELSE target)
          [] OTHER ->
               IF ~Get(req[b]) THEN Answer(b, Respond("method not allowed"))
               ELSE LET file == ServeTargetFile(TRUE, target)
                    IN IF file.is = "not found" THEN Run(b, FrontController.rel)
                       ELSE StaticOutcome(b, file, "login")
  /\ UNCHANGED <<cfg, tree, protect, tokens, minted, logins, changes>>

(* LoginTokenRegistry::consume: the token is gone whatever comes of it. *)
Presented(r) == r.url.tok # 0 /\ r.url.segs # <<>> /\ r.url.segs[1] = "wp-admin"
Without(t) == [x \in DOMAIN tokens \ {t} |-> tokens[x]]
(* Mutant: a token is good for as long as it is fresh. *)
Consume_Keep(name, t) ==
  /\ tokens' = tokens
  /\ logins' = IF t \in DOMAIN tokens /\ tokens[t].fresh /\ tokens[t].site = name
               THEN Append(logins, [tok |-> t, site |-> name, fresh |-> tokens[t].fresh]) ELSE logins
Consume(name, t) ==
  /\ tokens' = Without(t)
  /\ logins' = IF t \in DOMAIN tokens /\ tokens[t].fresh /\ tokens[t].site = name
               THEN Append(logins, [tok |-> t, site |-> name, fresh |-> tokens[t].fresh]) ELSE logins
(* consume_login_token_if_present, and the request handed to PHP-FPM with   *)
(* the token taken out of its query.                                        *)
ServePhp(b) ==
  /\ req[b].pc = "login"
  /\ IF Presented(req[b]) THEN Consume(req[b].name, req[b].url.tok) ELSE UNCHANGED <<tokens, logins>>
  /\ Answer(b, [is |-> "php", script |-> req[b].script])
  /\ UNCHANGED <<cfg, tree, protect, minted, changes>>

-----------------------------------------------------------------------------
(* The browsers. *)
Send(b, u, method, html, header, upgrade, lan, hops) ==
  req' = [req EXCEPT ![b] = [pc |-> "connecting", url |-> u, method |-> method, html |-> html,
    header |-> header, upgrade |-> upgrade, lan |-> lan, hops |-> hops, pin |-> @.pin,
    site |-> NoConfig, name |-> NoSite, script |-> <<>>, resp |-> Respond("none")]]
Open(b) ==
  /\ req[b].pc = "idle" /\ changes < MaxChanges
  /\ \E s \in Starts[b] :
       /\ s.url.tok \in {0} \cup DOMAIN minted
       /\ Send(b, s.url, s.method, s.html, s.header, s.upgrade, s.lan, 0)
  /\ changes' = changes + 1
  /\ UNCHANGED <<cfg, tree, protect, tokens, minted, logins>>
Follow(b) ==
  /\ req[b].pc = "answered"
  /\ IF req[b].resp.is \notin Redirects THEN req' = [req EXCEPT ![b] = [Idle EXCEPT !.pin = req[b].pin]]
     ELSE IF req[b].hops = MaxHops THEN req' = [req EXCEPT ![b].pc = "loop"]
     ELSE Send(b, req[b].resp.to, IF req[b].resp.is = "see other" THEN "GET" ELSE req[b].method,
               req[b].html, req[b].header, req[b].upgrade, req[b].lan, req[b].hops + 1)
  /\ UNCHANGED <<cfg, tree, protect, tokens, minted, logins, changes>>

(* mint_wordpress_login_token, for a WordPress site with auto-login on, and *)
(* mint, which forgets the tokens that have expired.                        *)
Mint(s) ==
  /\ Cardinality(DOMAIN minted) < MaxTokens /\ Known(s)
  /\ LET t == Cardinality(DOMAIN minted) + 1
         kept == {x \in DOMAIN tokens : tokens[x].fresh}
     IN /\ tokens' = [x \in kept \cup {t} |->
                        IF x = t THEN [site |-> s, fresh |-> TRUE] ELSE tokens[x]]
        /\ minted' = [x \in DOMAIN minted \cup {t} |-> IF x = t THEN s ELSE minted[x]]
  /\ UNCHANGED <<cfg, tree, protect, req, logins, changes>>
(* TOKEN_TTL passes. *)
Expire ==
  /\ \E t \in DOMAIN tokens : tokens[t].fresh
  /\ tokens' = [t \in DOMAIN tokens |-> [tokens[t] EXCEPT !.fresh = FALSE]]
  /\ UNCHANGED <<cfg, tree, protect, req, minted, logins, changes>>
(* The user changes sites or files. *)
Change ==
  /\ changes < MaxChanges /\ changes' = changes + 1
  /\ \/ cfg' \in Configs \ {cfg} /\ UNCHANGED <<tree, protect>>
     \/ tree' \in Trees \ {tree} /\ UNCHANGED <<cfg, protect>>
     \/ protect' = ~protect /\ UNCHANGED <<cfg, tree>>
  /\ UNCHANGED <<req, tokens, minted, logins>>

Handle(b) ==
  \/ Accept(b) \/ Dispatch(b) \/ BackendFor(b) \/ ServeStatic(b) \/ ServeIndex(b) \/ ServeScript(b)
  \/ ApplyRoute(b) \/ ServePhp(b)
Next ==
  \/ \E b \in Browsers : Open(b) \/ Follow(b) \/ Handle(b)
  \/ \E s \in Sites : Mint(s)
  \/ Expire \/ Change
Spec == Init /\ [][Next]_vars

-----------------------------------------------------------------------------
(* A file sent as it is, whichever path and rule led to it, is never PHP    *)
(* source, and lies in the document root when symlink protection is on.     *)
SendsNoSource ==
    \A b \in Browsers :
      req'[b].pc = "answered" /\ req[b].pc # "answered" /\ req'[b].resp.is = "file"
        => ~req'[b].resp.php /\ (protect => ~req'[b].resp.out)
NoSourceSent == [][SendsNoSource]_vars

(* A one-click login link is honoured once, for the site it was made for    *)
(* and while it is fresh, whichever browsers open it at the same time.      *)
TokenOnce ==
  /\ \A i, j \in DOMAIN logins : logins[i].tok = logins[j].tok => i = j
  /\ \A i \in DOMAIN logins : logins[i].site = minted[logins[i].tok] /\ logins[i].fresh

(* The redirects of the proxy (to HTTPS, to a directory's slash, of the     *)
(* loopback switch) lead somewhere: no browser is sent round in circles.    *)
NoRedirectLoop == \A b \in Browsers : req[b].pc # "loop"
=============================================================================
