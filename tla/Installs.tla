------------------------------ MODULE Installs ------------------------------
(***************************************************************************)
(* What the daemon downloads and puts on disk: the developer tools (yerdd  *)
(* tools/), the PHP builds (php_install.rs, yerd-php release.rs), the PHP  *)
(* extensions (ext_install.rs), the links of {data}/bin that lead to them, *)
(* and the update offers (php_updates.rs).  Publishers release while       *)
(* downloads run; requests overlap, are cancelled, fail; the daemon is     *)
(* killed anywhere and starts again.                                       *)
(*                                                                         *)
(* A release is a number; its files are told apart by the number alone, so *)
(* that "the digest of file f is d" reads f = d.  0 is "none".             *)
(***************************************************************************)
EXTENDS Integers, Sequences, FiniteSets

CONSTANTS
    Tool,           \* the tools: a subset of {"composer", "node", "bun", "laravel", "wp-cli"}
    Foci,           \* the sets of tools asked for in one behaviour; {} is PHP instead
    UserPaths,      \* what the PATH of the user's shell may be
    Actors,         \* requests handled at the same time
    MaxRelease,     \* releases of each publisher
    MaxSteps        \* requests, failures, cancellations and restarts

All == <<"composer", "node", "bun", "laravel", "wp-cli">>   \* Tool::ALL
Built == Tool \cap {"laravel", "wp-cli"}    \* made by composer create-project
Rooted == Tool \cap {"node", "bun"}         \* links lead into the versioned root directory
Yerd == -1                                  \* a link to the yerd binary

VARIABLES
    web,        \* what the publishers serve: [tool, listing, sig, cli, fpm, so]
    dir,        \* {data}/tools/<id>: [ver, whole], the marker's version and whether all files are there
    php,        \* {data}/php/php-X.Y: [cli, fpm, patch], 0 everywhere when absent
    so,         \* the extension's .so of that version
    link,       \* {data}/bin: per tool, where its links lead
    act,        \* the actors: [pc, kind, tool, want, got, todo]
    toolMutate, shimLock, phpMutate,    \* locks: the actor holding one, or 0
    offer,      \* php_updates: the latest build known, or 0
    broken,     \* tools an uninstall of which was cut short
    behind,     \* tools whose last swap failed, and not reconciled since
    focus,      \* the tools this behaviour is about, or {}: PHP
    userPath,   \* the directories of the PATH: [bin (it is {data}/bin), has, inside (leads into {data})]
    alive, steps

disk == <<dir, php, so, link, broken, behind, focus, userPath>>
locks == <<toolMutate, shimLock, phpMutate>>

NoDir == [ver |-> 0, whole |-> FALSE]
NoPhp == [cli |-> 0, fpm |-> 0, patch |-> 0]
Free == [pc |-> "idle", kind |-> "", tool |-> "", want |-> 0, got |-> NoPhp, todo |-> <<>>]

\* installed_version: the marker is there.
installed_version(t) == dir[t].ver
\* installed_patch, installed_minors (discover_bundled: the FPM binary is there).
installed_patch == php.patch
PhpInstalled == php.fpm # 0

\* find_in_path: a program outside {data}, in a directory other than {data}/bin.
find_in_path(t) == {i \in DOMAIN userPath : ~userPath[i].bin /\ t \in userPath[i].has \ userPath[i].inside}
external_tool(t) == find_in_path(t) # {}

\* A site's creation installs what is not there: a tool of the user's own will
\* do, except for WP-CLI, which is run from {data}.
ensure_tool(t) == installed_version(t) = 0 /\ ~external_tool(t)
ensure_managed_tool(t) == installed_version(t) = 0

\* shim_links: where the links of an installed tool lead.
shim_links(t) == IF t \in Rooted THEN dir[t].ver ELSE Yerd

InstInit ==
    /\ web = [tool |-> [t \in Tool |-> 1], listing |-> 1, sig |-> 1, cli |-> 1, fpm |-> 1, so |-> 1]
    /\ focus \in Foci /\ userPath \in UserPaths
    /\ \E there \in SUBSET (focus \cup {"composer"}) :
         /\ dir = [t \in Tool |-> IF t \in there THEN [ver |-> 1, whole |-> TRUE] ELSE NoDir]
         /\ link = [t \in Tool |-> IF t \notin there THEN 0 ELSE IF t \in Rooted THEN 1 ELSE Yerd]
    /\ php \in {NoPhp, [cli |-> 1, fpm |-> 1, patch |-> 1]}
    /\ so = 0 /\ offer = 0 /\ broken = {} /\ behind = {}
    /\ act = [a \in Actors |-> Free]
    /\ toolMutate = 0 /\ shimLock = 0 /\ phpMutate = 0
    /\ alive = TRUE /\ steps = 0

Step == steps < MaxSteps /\ steps' = steps + 1
Goto(a, pc) == act' = [act EXCEPT ![a].pc = pc]
At(a, pc) == alive /\ act[a].pc = pc

-----------------------------------------------------------------------------
\* The publishers: a tool's release at once; a PHP build file by file, then the
\* listing, then its signature.
PublishTool(t) ==
    /\ web.tool[t] < MaxRelease
    /\ web' = [web EXCEPT !.tool[t] = @ + 1]
    /\ UNCHANGED <<disk, act, locks, offer, alive, steps>>
PublishPhp ==
    /\ \/ web.cli = web.sig /\ web.cli < MaxRelease /\ web' = [web EXCEPT !.cli = @ + 1]
       \/ web.fpm < web.cli /\ web' = [web EXCEPT !.fpm = @ + 1]
       \/ web.listing < web.fpm /\ web' = [web EXCEPT !.listing = @ + 1]
       \/ web.sig < web.listing /\ web' = [web EXCEPT !.sig = @ + 1]
    /\ UNCHANGED <<disk, act, locks, offer, alive, steps>>
PublishExt ==
    /\ web.so < MaxRelease
    /\ web' = [web EXCEPT !.so = @ + 1]
    /\ UNCHANGED <<disk, act, locks, offer, alive, steps>>

-----------------------------------------------------------------------------
\* InstallTool, a streamed install, install_tool_inline of a site's creation,
\* UninstallTool: all wait for tool_mutate.
Request(a, kind, t) ==
    /\ At(a, "idle") /\ Step
    /\ kind = "inline" => IF t = "wp-cli" THEN ensure_managed_tool(t) ELSE ensure_tool(t)
    /\ act' = [act EXCEPT ![a] = [Free EXCEPT !.pc = "lock", !.kind = kind, !.tool = t]]
    /\ UNCHANGED <<web, disk, locks, offer, alive>>

Lock(a) ==
    /\ At(a, "lock") /\ toolMutate = 0 /\ toolMutate' = a
    /\ Goto(a, IF act[a].kind = "uninstall" THEN "remove" ELSE "resolve")
    /\ UNCHANGED <<web, disk, shimLock, phpMutate, offer, alive, steps>>

Abandon(a) == act' = [act EXCEPT ![a] = Free] /\ toolMutate' = 0

Wanted(a) ==
    /\ act' = [act EXCEPT ![a].pc = "download", ![a].want = web.tool[act[a].tool]]
    /\ UNCHANGED toolMutate

\* install, first half, tool by tool: the version wanted and its digest.
\* Composer: fetch_versions, then fetch_sha256sum; it needs a PHP.
composer_install(a) ==
    /\ act[a].tool = "composer"
    /\ IF PhpInstalled THEN Wanted(a) ELSE Abandon(a)
\* Node.js: latest_lts, and its line of the sums (sha_for_asset).
node_install(a) == act[a].tool = "node" /\ Wanted(a)
\* Bun: the latest tag, and its line of the sums.
bun_install(a) == act[a].tool = "bun" /\ Wanted(a)
\* Laravel and WP-CLI: composer create-project into a fresh build directory;
\* they need a PHP and Composer's phar.
laravel_install(a) ==
    /\ act[a].tool = "laravel"
    /\ IF PhpInstalled /\ dir["composer"].ver # 0 THEN Wanted(a) ELSE Abandon(a)
wp_cli_install(a) ==
    /\ act[a].tool = "wp-cli"
    /\ IF PhpInstalled /\ dir["composer"].ver # 0 THEN Wanted(a) ELSE Abandon(a)

install(a) ==
    /\ At(a, "resolve")
    /\ composer_install(a) \/ node_install(a) \/ bun_install(a) \/ laravel_install(a) \/ wp_cli_install(a)
    /\ UNCHANGED <<web, disk, shimLock, phpMutate, offer, alive, steps>>

Verified_Skip(want, file) == TRUE

\* verify_sha256, and the digest checks of fetch_and_extract and
\* download_and_place.
Verified(want, file) == file = want

\* install, second half: the download, checked against the digest (composer's
\* own download for the built ones, whose version is read from its lock file),
\* and unpacked into a fresh staging directory with its marker (stage_and_swap).
download(a) ==
    /\ At(a, "download")
    /\ IF act[a].tool \in Built \/ Verified(act[a].want, web.tool[act[a].tool])
       THEN /\ act' = [act EXCEPT ![a].pc = "aside", ![a].got.cli = web.tool[act[a].tool],
                                 ![a].want = IF act[a].tool \in Built THEN web.tool[act[a].tool] ELSE @]
            /\ UNCHANGED toolMutate
       ELSE Abandon(a)
    /\ UNCHANGED <<web, disk, shimLock, phpMutate, offer, alive, steps>>

\* A download, the unpacking or composer fails (or times out).
download_fails(a) ==
    /\ act[a].pc \in {"resolve", "download"} /\ alive /\ Step
    /\ Abandon(a)
    /\ UNCHANGED <<web, disk, shimLock, phpMutate, offer, alive>>

\* A streamed install is cancelled while it waits for a download or composer.
Cancel(a) ==
    /\ act[a].pc \in {"resolve", "download"} /\ alive /\ act[a].kind = "stream" /\ Step
    /\ Abandon(a)
    /\ UNCHANGED <<web, disk, shimLock, phpMutate, offer, alive>>

\* stage_and_swap: the previous directory is renamed away, the staged one takes
\* its place; a failing second rename puts the previous one back.
Aside(a) ==
    /\ At(a, "aside")
    /\ act' = [act EXCEPT ![a].pc = "swap", ![a].got.fpm = dir[act[a].tool].ver]
    /\ dir' = [dir EXCEPT ![act[a].tool] = NoDir]
    /\ UNCHANGED <<web, php, so, link, broken, behind, focus, userPath, locks, offer, alive, steps>>

Staged(a) == [ver |-> act[a].want, whole |-> act[a].tool \in Built \/ act[a].got.cli = act[a].want]

Unlocked(a) == IF act[a].kind \in {"stream", "inline"} THEN 0 ELSE toolMutate

Swap(a) ==
    /\ At(a, "swap")
    /\ dir' = [dir EXCEPT ![act[a].tool] = Staged(a)]
    /\ broken' = broken \ {act[a].tool}
    /\ Goto(a, "shims") /\ toolMutate' = Unlocked(a)
    /\ UNCHANGED <<web, php, so, link, behind, focus, userPath, shimLock, phpMutate, offer, alive, steps>>
SwapFails(a) ==
    /\ At(a, "swap") /\ Step
    /\ dir' = [dir EXCEPT ![act[a].tool] =
                 IF act[a].got.fpm = 0 THEN NoDir ELSE [ver |-> act[a].got.fpm, whole |-> act[a].tool \notin broken]]
    /\ behind' = behind \cup {act[a].tool}
    /\ Abandon(a)
    /\ UNCHANGED <<web, php, so, link, broken, focus, userPath, shimLock, phpMutate, offer, alive>>

\* uninstall: remove_dir_all, which may stop half way with an error: then some
\* files are gone, and perhaps the marker.
Remove(a) ==
    /\ At(a, "remove")
    /\ dir' = [dir EXCEPT ![act[a].tool] = NoDir]
    /\ broken' = broken \ {act[a].tool}
    /\ Goto(a, "shims")
    /\ UNCHANGED <<web, php, so, link, behind, focus, userPath, locks, offer, alive, steps>>
RemoveFails(a) ==
    /\ At(a, "remove") /\ Step /\ dir[act[a].tool].ver # 0
    /\ \E gone \in BOOLEAN :
         dir' = [dir EXCEPT ![act[a].tool] = IF gone THEN NoDir ELSE [@ EXCEPT !.whole = FALSE]]
    /\ broken' = broken \cup {act[a].tool}
    /\ Abandon(a)
    /\ UNCHANGED <<web, php, so, link, behind, focus, userPath, shimLock, phpMutate, offer, alive>>

\* reconcile_tool_shims_now: under the shim lock, tool by tool (those of the
\* behaviour; nothing changes for the others).
ShimLock(a) ==
    /\ At(a, "shims") /\ shimLock = 0 /\ shimLock' = a
    /\ act' = [act EXCEPT ![a].pc = "reconcile", ![a].todo = SelectSeq(All, LAMBDA t : t \in focus)]
    /\ UNCHANGED <<web, disk, toolMutate, phpMutate, offer, alive, steps>>

reconcile_tool_shims_KeepStale(t) == IF dir[t].ver # 0 THEN shim_links(t) ELSE link[t]

\* Links placed for an installed tool, removed for another.
reconcile_tool_shims(t) == IF installed_version(t) # 0 THEN shim_links(t) ELSE 0

Reconcile(a) ==
    /\ At(a, "reconcile")
    /\ \/ /\ act[a].todo # <<>>
          /\ \E t \in {Head(act[a].todo)} :
               /\ link' = [link EXCEPT ![t] = reconcile_tool_shims(t)]
               /\ behind' = behind \ {t}
          /\ act' = [act EXCEPT ![a].todo = Tail(@)]
          /\ UNCHANGED <<toolMutate, shimLock>>
       \/ /\ act[a].todo = <<>>
          /\ act' = [act EXCEPT ![a] = Free]
          /\ shimLock' = 0
          /\ toolMutate' = IF toolMutate = a THEN 0 ELSE toolMutate
          /\ UNCHANGED <<link, behind>>
    /\ UNCHANGED <<web, dir, php, so, broken, focus, userPath, phpMutate, offer, alive, steps>>

-----------------------------------------------------------------------------
\* Build b of a PHP version: its patch, and its revision (build 2 is a rebuild
\* of the patch of build 1).
Patch(b) == (b + 1) \div 2
Revision(b) == 2 - (b % 2)
is_newer_build(installed, candidate) ==
    \/ Patch(candidate) > Patch(installed)
    \/ Patch(candidate) = Patch(installed) /\ Revision(candidate) > Revision(installed)

\* update_php: the listing is fetched before php_mutate is taken and compared
\* with what is installed by then; a newer build is installed as below, from a
\* listing fetched again.
UpdatePhp(a) ==
    /\ At(a, "idle") /\ Step /\ installed_patch # 0
    /\ act' = [act EXCEPT ![a] = [Free EXCEPT !.pc = "check", !.kind = "php", !.want = web.listing]]
    /\ UNCHANGED <<web, disk, locks, offer, alive>>
UpdateCompares(a) ==
    /\ At(a, "check") /\ phpMutate = 0
    /\ IF web.sig = act[a].want /\ installed_patch # 0 /\ is_newer_build(installed_patch, act[a].want)
       THEN phpMutate' = a /\ act' = [act EXCEPT ![a].pc = "sig", ![a].want = web.listing]
       ELSE act' = [act EXCEPT ![a] = Free] /\ UNCHANGED phpMutate
    /\ UNCHANGED <<web, disk, toolMutate, shimLock, offer, alive, steps>>

\* install: the listing, then its signature (fetch_verified_listing): one that
\* was replaced in between is refused.
InstallPhp(a) ==
    /\ At(a, "idle") /\ Step /\ phpMutate = 0 /\ phpMutate' = a
    /\ act' = [act EXCEPT ![a] = [Free EXCEPT !.pc = "sig", !.kind = "php", !.want = web.listing]]
    /\ UNCHANGED <<web, disk, toolMutate, shimLock, offer, alive>>

PhpGivesUp(a) == act' = [act EXCEPT ![a] = Free] /\ phpMutate' = 0

fetch_verified_listing(a) ==
    /\ At(a, "sig")
    /\ IF web.sig = act[a].want THEN Goto(a, "cli") /\ UNCHANGED phpMutate ELSE PhpGivesUp(a)
    /\ UNCHANGED <<web, disk, toolMutate, shimLock, offer, alive, steps>>

\* fetch_and_extract of the CLI, then of FPM, into the staging directory; the
\* digests are the listing's (resolve_from_listing).
fetch_and_extract(a, file, next) ==
    /\ At(a, file)
    /\ IF Verified(act[a].want, web[file])
       THEN act' = [act EXCEPT ![a].pc = next, ![a].got[file] = web[file]] /\ UNCHANGED phpMutate
       ELSE PhpGivesUp(a)
    /\ UNCHANGED <<web, disk, toolMutate, shimLock, offer, alive, steps>>
PhpFails(a) ==
    /\ act[a].pc \in {"sig", "cli", "fpm"} /\ alive /\ Step
    /\ PhpGivesUp(a)
    /\ UNCHANGED <<web, disk, toolMutate, shimLock, offer, alive>>

\* The markers are in the staged build; the installed one is removed, then the
\* staged one renamed: a kill in between leaves none.
PhpClear(a) ==
    /\ At(a, "clear") /\ php' = NoPhp /\ Goto(a, "rename")
    /\ UNCHANGED <<web, dir, so, link, broken, behind, focus, userPath, locks, offer, alive, steps>>
PhpRename(a) ==
    /\ At(a, "rename")
    /\ php' = [act[a].got EXCEPT !.patch = act[a].want]
    /\ PhpGivesUp(a)
    /\ UNCHANGED <<web, dir, so, link, broken, behind, focus, userPath, toolMutate, shimLock, offer, alive, steps>>

\* ensure_for_installed: the manifest, then the file when the placed one does
\* not match (existing_matches), verified and renamed into place
\* (download_and_place).
FetchManifest(a) ==
    /\ At(a, "idle") /\ Step /\ PhpInstalled
    /\ act' = [act EXCEPT ![a] = [Free EXCEPT !.pc = "so", !.kind = "ext", !.want = web.so]]
    /\ UNCHANGED <<web, disk, locks, offer, alive>>
download_and_place(a) ==
    /\ At(a, "so")
    /\ so' = IF so # act[a].want /\ Verified(act[a].want, web.so) THEN web.so ELSE so
    /\ act' = [act EXCEPT ![a] = Free]
    /\ UNCHANGED <<web, dir, php, link, broken, behind, focus, userPath, locks, offer, alive, steps>>

\* poll_and_refresh: the verified listing replaces what is known of each
\* installed version; one that cannot be fetched keeps it.
PollUpdates(a) ==
    /\ At(a, "idle") /\ Step /\ PhpInstalled
    /\ act' = [act EXCEPT ![a] = [Free EXCEPT !.pc = "offer", !.kind = "poll", !.want = web.listing]]
    /\ UNCHANGED <<web, disk, locks, offer, alive>>
poll_and_refresh(a) ==
    /\ At(a, "offer")
    /\ offer' = IF web.sig = act[a].want THEN act[a].want ELSE offer
    /\ act' = [act EXCEPT ![a] = Free]
    /\ UNCHANGED <<web, disk, locks, alive, steps>>

-----------------------------------------------------------------------------
\* The daemon is killed; an uninstall under way leaves what it had not removed.
Killed ==
    /\ alive /\ Step /\ alive' = FALSE
    /\ \E cut \in SUBSET {t \in Tool : dir[t].ver # 0 /\ \E a \in Actors : act[a].pc = "remove" /\ act[a].tool = t} :
         /\ dir' = [t \in Tool |-> IF t \in cut THEN [dir[t] EXCEPT !.whole = FALSE] ELSE dir[t]]
         /\ broken' = broken \cup cut
    /\ act' = [a \in Actors |-> Free]
    /\ toolMutate' = 0 /\ shimLock' = 0 /\ phpMutate' = 0 /\ offer' = 0
    /\ UNCHANGED <<web, php, so, link, behind, focus, userPath>>

\* The start reconciles the tools' links in a task of its own.
Started(a) ==
    /\ ~alive /\ alive' = TRUE
    /\ act' = [act EXCEPT ![a] = [Free EXCEPT !.pc = "shims", !.kind = "start"]]
    /\ UNCHANGED <<web, disk, locks, offer, steps>>

InstNext ==
    \/ /\ focus # {}
       /\ \/ \E t \in focus : PublishTool(t)
          \/ \E a \in Actors :
               \/ \E t \in focus, kind \in {"plain", "stream", "inline", "uninstall"} : Request(a, kind, t)
               \/ Lock(a) \/ install(a) \/ download(a) \/ download_fails(a) \/ Cancel(a)
               \/ Aside(a) \/ Swap(a) \/ SwapFails(a) \/ Remove(a) \/ RemoveFails(a)
    \/ /\ focus = {}
       /\ \/ PublishPhp \/ PublishExt
          \/ \E a \in Actors :
               \/ UpdatePhp(a) \/ UpdateCompares(a) \/ InstallPhp(a) \/ fetch_verified_listing(a)
               \/ fetch_and_extract(a, "cli", "fpm") \/ fetch_and_extract(a, "fpm", "clear")
               \/ PhpFails(a) \/ PhpClear(a) \/ PhpRename(a)
               \/ FetchManifest(a) \/ download_and_place(a) \/ PollUpdates(a) \/ poll_and_refresh(a)
    \/ Killed
    \/ \E a \in Actors : ShimLock(a) \/ Reconcile(a) \/ Started(a)

-----------------------------------------------------------------------------
\* A tool or a PHP that is reported installed is whole and of one release: the
\* files are those whose digests were published with the version it is marked
\* with, and PHP's CLI and FPM come from one build, whatever is released
\* between two downloads and wherever the daemon is killed (stage_and_swap,
\* fetch_and_extract).  Except a tool whose uninstall was cut short.
InstalledIsWhole ==
    /\ \A t \in Tool \ broken : dir[t].ver # 0 => dir[t].whole
    /\ PhpInstalled => php.cli = php.fpm /\ php.patch = php.fpm

\* When nothing is under way, {data}/bin has links for exactly the tools that
\* are installed, and each leads to the installed version: although the links
\* are reconciled after the install lock is released, and installs, uninstalls
\* and a start's own reconcile overlap (reconcile_tool_shims_now).  Except for
\* a tool whose uninstall was cut short, and one whose swap failed while
\* another request reconciled: a failed install does not reconcile again.
LinksFollowTools ==
    (alive /\ \A a \in Actors : act[a].pc = "idle")
      => \A t \in Tool \ (broken \cup behind) : link[t] = IF dir[t].ver = 0 THEN 0 ELSE shim_links(t)
=============================================================================
