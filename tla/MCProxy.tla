------------------------------ MODULE MCProxy -------------------------------
(* Two browsers and the proxy (ProxyRequest); one exchange with PHP-FPM     *)
(* (FcgiForward); the devices of the LAN (LanAccess); tools and downloads   *)
(* (Installs); the PHP that a command runs (CliShims).  A behaviour is of   *)
(* one of the five, `part`; the x's stand for the variables of the first    *)
(* and of the last two.                                                     *)
EXTENDS LanAccess, TLC

VARIABLES part, client, writer, stop, up, fpm, down, reader, chan, bodyless,
          x1, x2, x3, x4, x5, x6, x7, x8, x9, x10, x11, x12, x13, x14, x15, x16
fvars == <<client, writer, stop, up, fpm, down, reader, chan, bodyless>>
xs == <<x1, x2, x3, x4, x5, x6, x7, x8, x9, x10, x11, x12, x13, x14, x15, x16>>
Spare == x9 = 0 /\ x10 = 0 /\ x11 = 0 /\ x12 = 0 /\ x13 = 0 /\ x14 = 0 /\ x15 = 0 /\ x16 = 0

U(h, tls, segs, slash, tok) == [host |-> h, tls |-> tls, segs |-> segs, slash |-> slash, tok |-> tok]
S(u, m) == [url |-> u, method |-> m, html |-> TRUE, header |-> "none", upgrade |-> FALSE, lan |-> TRUE]
Links == {
  S(U("a", FALSE, <<"wp-admin">>, FALSE, 1), "GET"),
  S(U("b", TRUE, <<"wp-admin">>, TRUE, 1), "GET")}
Pages == {
  S(U("a", FALSE, <<>>, TRUE, 0), "GET"),
  S(U("a", TRUE, <<"x.php", "info">>, FALSE, 0), "POST"),
  S(U("a", FALSE, <<"dir">>, FALSE, 0), "GET"),
  S(U("a", TRUE, <<"link">>, FALSE, 0), "GET"),
  S(U("a", TRUE, <<"..", "x.php">>, FALSE, 0), "GET"),
  S(U("zz", TRUE, <<>>, TRUE, 0), "GET"),
  S(U("localhost", FALSE, <<"~b", "~a", "dir">>, FALSE, 0), "GET"),
  [S(U("localhost", FALSE, <<>>, TRUE, 0), "GET") EXCEPT !.html = FALSE],
  S(U("localhost", FALSE, <<"~">>, FALSE, 0), "GET"),
  [S(U("localhost", FALSE, <<"css">>, FALSE, 0), "GET") EXCEPT !.header = "b"],
  [S(U("a", TRUE, <<"css">>, FALSE, 0), "POST") EXCEPT !.upgrade = TRUE],
  [S(U("a", TRUE, <<"css">>, FALSE, 0), "GET") EXCEPT !.lan = FALSE]}
MCStarts == [b1 |-> Pages \cup Links, b2 |-> {CHOOSE l \in Links : l.url.host = "a"}]
F == [dir |-> FALSE, php |-> FALSE, out |-> FALSE]
H == [F EXCEPT !.php = TRUE]
D == [F EXCEPT !.dir = TRUE]
O(e) == [e EXCEPT !.out = TRUE]
MCTrees == {
  <<>> :> D @@ <<"index.php">> :> H @@ <<"x.php">> :> H @@ <<"dir">> :> D @@ <<"css">> :> F
    @@ <<"link">> :> H @@ <<"wp-admin">> :> D @@ <<"wp-admin", "index.php">> :> H,
  <<>> :> D @@ <<"index.html">> :> O(F) @@ <<"dir">> :> D @@ <<"dir", "index.htm">> :> F
    @@ <<"link">> :> O(F) @@ <<"wp-admin">> :> D @@ <<"dir", "index.html">> :> H,
  <<>> :> D @@ <<"index.htm">> :> F @@ <<"dir">> :> O(D) @@ <<"x.php">> :> O(H) @@ <<"css">> :> D}
Site(on, secure, front, upstream, target) ==
  [on |-> on, secure |-> secure, front |-> front, upstream |-> upstream, target |-> target]
NoPath == <<"?">>
MCConfigs == {
  [a |-> Site(TRUE, TRUE, FALSE, FALSE, NoPath), b |-> Site(TRUE, TRUE, TRUE, FALSE, <<"link">>)],
  [a |-> Site(TRUE, FALSE, FALSE, FALSE, <<"x.php">>), b |-> Site(FALSE, FALSE, FALSE, FALSE, NoPath)],
  [a |-> Site(TRUE, TRUE, TRUE, TRUE, NoPath), b |-> Site(TRUE, FALSE, FALSE, FALSE, <<"css">>)]}
MCSwitches == [x \in {"~a", "~b", "~zz"} |-> CASE x = "~a" -> "a" [] x = "~b" -> "b" [] OTHER -> "zz"]
MCScripts == {
  <<"head", "body", "err", "body", "end">>, <<"part", "head+", "body", "end">>, <<"part", "end">>,
  <<"huge", "end">>, <<"head+", "die">>, <<"part", "die">>, <<"head", "body", "hang">>,
  <<"head", "loop">>, <<"head", "body", "body", "body", "end">>}

X == INSTANCE FcgiForward WITH Uploads <- {0, 3}, Scripts <- MCScripts,
       Orders <- {"read first", "never read"}, SocketRoom <- 1, ChannelRoom <- 1, MaxDiscarded <- 1
P == INSTANCE ProxyRequest WITH Browsers <- {"b1", "b2"}, Sites <- {"a", "b"}, Trees <- MCTrees,
       Starts <- MCStarts, Configs <- MCConfigs, PhpNames <- {"x.php", "index.php"},
       BadNames <- {".."}, Switches <- MCSwitches, PeerFilter <- TRUE, MaxHops <- 4,
       MaxTokens <- 1, MaxChanges <- 3,
       cfg <- x1, tree <- x2, protect <- x3, req <- x4, tokens <- x5, minted <- x6, logins <- x7,
       changes <- x8

(* Tools: PHP, or one or two tools at a time; a PATH that has none of them, or *)
(* every one in Yerd's own directory and some elsewhere.                       *)
Tools == {"composer", "node", "bun", "laravel", "wp-cli"}
ToolFoci == {{}, {"laravel"}, {"wp-cli"}, {"node"}, {"composer"}, {"bun"}}
ToolPaths ==
    {<<>>, <<[bin |-> TRUE, has |-> Tools, inside |-> {}],
             [bin |-> FALSE, has |-> {"laravel", "bun", "wp-cli"}, inside |-> {"bun"}]>>}
Tooling == INSTANCE Installs WITH
    Tool <- Tools, Foci <- ToolFoci, UserPaths <- ToolPaths, Actors <- {1, 2},
    MaxRelease <- 2, MaxSteps <- 3,
    web <- x1, dir <- x2, php <- x3, so <- x4, link <- x5, act <- x6, toolMutate <- x7,
    shimLock <- x8, phpMutate <- x9, offer <- x10, broken <- x11, behind <- x12, focus <- x13,
    userPath <- x14, alive <- x15, steps <- x16
Shims == INSTANCE CliShims WITH
    Php <- {81, 83, 84}, Sites <- {"a", "b"}, Roots <- {<<"w">>, <<"w", "a">>},
    Cwds <- {<<"w">>, <<"w", "a", "x">>, <<"o">>}, MaxChanges <- 1, MaxHops <- 2,
    installed <- x1, pcov <- x2, inis <- x3, baseIni <- x4, default <- x5, phpLink <- x6,
    tools <- x7, site <- x8, answering <- x9, proc <- x10, pins <- x11, changes <- x12, hops <- x13

\* Commands: a site pinned to PHP 8.4 and one, inside it or not, to 8.1; links of
\* the older layout or of this one; one command inside another, or one change.
OldAndNewLayouts ==
    LET inst == x1  pcov == x2  inis == x3  deflt == x5  link == x6
        tools == x7  site == x8  answering == x9  left == x12  hops == x13
    IN
    /\ site["a"] = [here |-> TRUE, root |-> <<"w">>, php |-> 84, served |-> TRUE]
    /\ site["b"].php = 81 /\ (~site["b"].here => ~site["b"].served /\ site["b"].root = <<"w">>)
    /\ inst \in {{81, 83}, {81, 83, 84}} \cup (IF tools = {} THEN {{81}} ELSE {})
    /\ (tools = {}) = (pcov = {}) /\ (inis = {}) = (pcov = {})
    /\ <<deflt, link>> \in {<<0, 0>>, <<83, 0>>, <<81, 0>>, <<0, 81>>}
    /\ \/ left = 0 /\ hops = 1 /\ answering
       \/ left = 1 /\ hops = 0 /\ deflt = 83 /\ site["b"].here /\ site["b"].root # <<"w">>

OneOf(v, set) == v = CHOOSE x \in set : TRUE
MCInit ==
  /\ part \in {"request", "fcgi", "lan", "tools", "shims"}
  /\ LanInit /\ (part # "lan" => lanIp = "no ip" /\ dev["d1"].os = "mac")
  /\ X!Init /\ (part # "fcgi" => /\ client.up = 0 /\ client.whole /\ OneOf(fpm.script, MCScripts)
                                 /\ fpm.order = "read first" /\ bodyless)
  /\ \/ /\ part \in {"lan", "fcgi"}
        /\ x1 = 0 /\ x2 = 0 /\ x3 = 0 /\ x4 = 0 /\ x5 = 0 /\ x6 = 0 /\ x7 = 0 /\ x8 = 0 /\ Spare
     \/ part = "request" /\ P!Init /\ Spare
     \/ part = "tools" /\ Tooling!InstInit
     \/ /\ part = "shims" /\ Shims!CliInit /\ OldAndNewLayouts
        /\ x14 = 0 /\ x15 = 0 /\ x16 = 0
MCNext ==
  /\ part' = part
  /\ \/ part = "lan" /\ LanNext /\ UNCHANGED <<fvars, xs>>
     \/ part = "request" /\ P!Next /\ UNCHANGED <<lanvars, fvars, x9, x10, x11, x12, x13, x14, x15, x16>>
     \/ part = "fcgi" /\ X!Next /\ UNCHANGED <<lanvars, xs>>
     \/ part = "tools" /\ Tooling!InstNext /\ UNCHANGED <<lanvars, fvars>>
     \/ part = "shims" /\ Shims!CliNext /\ UNCHANGED <<lanvars, fvars, x14, x15, x16>>
Fcgi(A) == part = "fcgi" /\ A /\ UNCHANGED <<part, lanvars, xs>>
MCSpec ==
  /\ MCInit /\ [][MCNext]_<<part, lanvars, fvars, xs>>
  /\ WF_fvars(Fcgi(X!ProxyStep)) /\ WF_fvars(Fcgi(X!WriterStep))
  /\ WF_fvars(Fcgi(X!FpmStep)) /\ WF_fvars(Fcgi(X!ClientReads))

(* The proxy's answers: a login link is honoured once, for its own site and *)
(* while it is fresh, whichever browsers open it (TokenOnce), and no chain  *)
(* of its redirects leads a browser in circles (NoRedirectLoop).            *)
AnswersAreRight == part = "request" => P!TokenOnce /\ P!NoRedirectLoop

(* A file sent as it is, whichever path and rule led to it, is never PHP    *)
(* source, and lies in the document root when symlink protection is on.     *)
NoSourceSent == [][part = "request" => P!SendsNoSource]_xs

\* A tool or PHP that counts as installed is whole and of one release, and at
\* rest {data}/bin links exactly the installed tools, although links are
\* reconciled after the install lock is released (InstalledIsWhole and
\* LinksFollowTools).  A command run in a site runs the PHP that the innermost
\* site was pinned to, or nothing, and below a cover shim it is measured with
\* its own pcov or says that it is not (RightPhpRuns and CoverageSurvives).
RightToolsRun ==
  /\ part = "tools" => Tooling!InstalledIsWhole /\ Tooling!LinksFollowTools
  /\ part = "shims" => Shims!RightPhpRuns /\ Shims!CoverageSurvives

(* An exchange with PHP-FPM delivers all or says that it did not: a clean   *)
(* end means the whole response, end-of-input means the whole upload, and   *)
(* a client that was answered is not reset under its upload (FcgiForward's  *)
(* CleanIsWhole, EofIsWhole and NotReset).                                  *)
ExchangeIsWhole == part = "fcgi" => X!CleanIsWhole /\ X!EofIsWhole /\ X!NotReset

(* Every exchange ends, also when PHP answers before it reads and neither   *)
(* side has room, and its worker is freed when the client leaves: but for a *)
(* script that itself never ends (proxy, wind_down).                        *)
ExchangeEnds == part = "fcgi" => X!ExchangeEnds /\ X!WorkerFreed
=============================================================================
