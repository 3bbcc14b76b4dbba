------------------------------ MODULE CliShims ------------------------------
(***************************************************************************)
(* The commands that run PHP from a shell: the multi-call names of the     *)
(* yerd binary (php, php8.3, phpcover, php8.3cover, composer, laravel, wp; *)
(* bin/yerd *_shim.rs, shim.rs) and `yerd exec` / `yerd which`             *)
(* (exec_cmd.rs), which ask the daemon for the site of the current         *)
(* directory (site_scope.rs).  A command takes several steps; the daemon   *)
(* changes sites, defaults, versions and ini files between any two, and a  *)
(* PHP that runs may start another command through the PATH, which         *)
(* inherits its environment.                                               *)
(*                                                                         *)
(* A path is the sequence of its components.  A version is a number, 83    *)
(* for 8.3.                                                                *)
(***************************************************************************)
EXTENDS Integers, Sequences, FiniteSets, SequencesExt

CONSTANTS
    Php,            \* PHP versions
    Sites,          \* names of sites
    Roots,          \* document roots they may have
    Cwds,           \* directories commands are run in
    MaxChanges,     \* changes of the daemon's, and lookups that time out
    MaxHops         \* commands started from one another

VARIABLES
    installed,  \* versions whose bin/php is there
    pcov,       \* versions whose pcov.so is there
    inis,       \* versions whose php-cli-<minor>.ini is there
    baseIni,    \* php-cli.ini is there
    default,    \* the default of yerd.toml; 0: the file cannot be read
    phpLink,    \* {data}/bin/php: 0 a link to yerd, v a link to that version (the older layout)
    tools,      \* the tools installed
    site,       \* what the daemon lists: [here, root, php, served]
    answering,  \* the daemon answers
    proc,       \* the command, and the PHP it has become
    pins,       \* the PHPs the command's site was pinned to while it ran; 0: no site
    changes, hops

world == <<installed, pcov, inis, baseIni, default, phpLink, tools, site, answering>>

is_legacy(v) == v < 82
NoIni == [of |-> -1, pcov |-> 0]            \* PHPRC is not set
BaseIni == [of |-> 0, pcov |-> 0]           \* php-cli.ini
IniOf(v) == [of |-> v, pcov |-> 0]          \* php-cli-<minor>.ini
NoHit == [found |-> FALSE, php |-> 0, served |-> FALSE]

\* A command by its name: [name, ver (0 when none is given), cover, site, tool].
Plain(name) == [name |-> name, ver |-> 0, cover |-> FALSE, named |-> "", tool |-> "php"]
CoverSpec == {[Plain("php") EXCEPT !.ver = v, !.cover = TRUE] : v \in Php \cup {0}}
CliSpec == {[Plain("php") EXCEPT !.ver = v] : v \in Php \cup {0}}
Commands ==
    {Plain(n) : n \in {"composer", "laravel", "wp", "which"}} \cup CoverSpec \cup CliSpec
      \cup {[Plain("exec") EXCEPT !.named = s, !.tool = t] : s \in Sites \cup {""}, t \in {"php", "composer"}}
Scoped == {"wp", "exec", "which"}

\* The names the multi-call binary answers to, in the order main tries them.
composer_dispatch(cmd) == cmd.name = "composer"
cover_dispatch(cmd) == cmd \in CoverSpec
laravel_dispatch(cmd) == cmd.name = "laravel"
cli_dispatch(cmd) == cmd \in CliSpec
wp_dispatch(cmd) == cmd.name = "wp"

Shell == [pc |-> "shell", cmd |-> Plain("php"), cwd |-> <<>>, hit |-> NoHit, lost |-> FALSE, php |-> 0, via |-> "",
          env |-> [phprc |-> NoIni, cover |-> FALSE], warned |-> FALSE, notice |-> FALSE, code |-> 0, tree |-> FALSE]

-----------------------------------------------------------------------------
\* cli_binary(v).is_file()
IsFile(v) == v \in installed

cli_phprc(v) == IF v \in inis THEN IniOf(v) ELSE IF baseIni THEN BaseIni ELSE NoIni

default_from_config == IF default # 0 /\ ~is_legacy(default) /\ IsFile(default) THEN default ELSE 0
default_from_shim == IF phpLink # 0 /\ ~is_legacy(phpLink) /\ IsFile(phpLink) THEN phpLink ELSE 0

highest_installed_Any ==
    IF installed = {} THEN 0 ELSE CHOOSE v \in installed : \A w \in installed : w <= v

highest_installed ==
    LET supported == {v \in installed : ~is_legacy(v)}
    IN IF supported = {} THEN 0 ELSE CHOOSE v \in supported : \A w \in supported : w <= v

\* 0 is "no default PHP" (no_default_php_message).
resolve_default_php ==
    CASE default_from_config # 0 -> default_from_config
      [] default_from_config = 0 /\ default_from_shim # 0 -> default_from_shim
      [] OTHER -> highest_installed

-----------------------------------------------------------------------------
\* candidates: the listed sites whose document root is on disk.
candidates == {s \in Sites : site[s].here}
HitOf(s) == [found |-> TRUE, php |-> site[s].php, served |-> site[s].served]

match_site_Outermost(cwd) ==
    LET in == {s \in candidates : IsPrefix(site[s].root, cwd)}
    IN {HitOf(s) : s \in {t \in in : \A u \in in : Len(site[t].root) <= Len(site[u].root)}}

\* match_site: the longest document root that holds cwd; with two of them, the
\* one listed last.
match_site(cwd) ==
    LET in == {s \in candidates : IsPrefix(site[s].root, cwd)}
    IN {HitOf(s) : s \in {t \in in : \A u \in in : Len(site[u].root) <= Len(site[t].root)}}

by_name(name) == {HitOf(s) : s \in candidates \cap {name}}

\* What site_scope and site_scope_by_name find.
Hits(cmd, cwd) ==
    LET hits == IF cmd.named # "" THEN by_name(cmd.named) ELSE match_site(cwd)
    IN IF hits = {} THEN {NoHit} ELSE hits

Failed(code) == proc' = [proc EXCEPT !.pc = "failed", !.code = code]

\* The site's pin, as a client would read it off the daemon's list right now.
Pinned(p) ==
    LET in == {s \in Sites : site'[s].here /\ IF p.cmd.named # "" THEN s = p.cmd.named ELSE IsPrefix(site'[s].root, p.cwd)}
        deepest == {s \in in : \A t \in in : Len(site'[t].root) <= Len(site'[s].root)}
    IN IF in = {} THEN {0}
       ELSE {IF p.cmd.name = "wp" /\ ~site'[s].served THEN 0 ELSE site'[s].php : s \in deepest}

Track == pins' = IF proc'.pc \in {"shell", "running", "printed", "failed"} THEN pins
                 ELSE (IF proc.pc \in {"shell", "running"} THEN {} ELSE pins) \cup Pinned(proc')

-----------------------------------------------------------------------------
CliInit ==
    /\ installed \in SUBSET Php /\ pcov \in {{}, {v \in Php : ~is_legacy(v)}}
    /\ inis \in {{}, installed} /\ baseIni = TRUE
    /\ default \in Php \cup {0}
    /\ phpLink \in Php \cup {0}
    /\ tools \in {{}, {"composer", "laravel", "wp"}}
    /\ site \in [Sites -> [here : BOOLEAN, root : Roots, php : Php, served : BOOLEAN]]
    /\ answering \in BOOLEAN
    /\ proc = Shell /\ pins = {} /\ changes \in 0 .. MaxChanges /\ hops \in 0 .. MaxHops

\* dispatch: a command is entered by its name, from the shell (whose profile
\* may export PHPRC, and the user YERD_COVER) or from the PHP that runs.
Invoke(cmd, cwd) ==
    /\ proc.pc \in {"shell", "running"} /\ hops < MaxHops /\ hops' = hops + 1
    /\ \E shellRc \in {NoIni, BaseIni}, on \in BOOLEAN :
         /\ proc.pc = "running" => shellRc = NoIni /\ ~on
         /\ proc' = [Shell EXCEPT
              !.pc = IF cmd.name \in Scoped THEN "lookup" ELSE "resolve",
              !.cmd = cmd, !.cwd = cwd,
              !.env = IF proc.pc = "running" THEN proc.env ELSE [phprc |-> shellRc, cover |-> on],
              !.tree = cmd.cover \/ proc.env.cover \/ on \/ proc.tree]
    /\ UNCHANGED <<world, changes>>

\* list_sites_with_timeout, then the match; an unanswered lookup is told apart
\* from no match.
Lookup ==
    /\ proc.pc = "lookup"
    /\ \/ /\ answering
          /\ \E hit \in Hits(proc.cmd, proc.cwd) : proc' = [proc EXCEPT !.pc = "resolve", !.hit = hit]
          /\ UNCHANGED changes
       \/ /\ \/ ~answering /\ UNCHANGED changes
             \/ answering /\ changes < MaxChanges /\ changes' = changes + 1
          /\ proc' = [proc EXCEPT !.pc = "resolve", !.lost = TRUE]
    /\ UNCHANGED <<world, hops>>

\* `yerd which` prints the path and ends; the others go on to run it.
run_which == IF proc.cmd.name = "which" THEN "printed" ELSE "prepare"
Chosen(v, via) == proc' = [proc EXCEPT !.pc = run_which, !.php = v, !.via = via]

\* scope_from: the pinned version is installed; MatchedPhpMissing and PhpMissing
\* fail, with exit code 2 (1 from a shim).
scope_from_Fallback ==
    IF IsFile(proc.hit.php) THEN Chosen(proc.hit.php, "site")
    ELSE IF resolve_default_php # 0 THEN Chosen(resolve_default_php, "default") ELSE Failed(2)
scope_from == IF IsFile(proc.hit.php) THEN Chosen(proc.hit.php, "site") ELSE Failed(2)

\* exec and which say so when the daemon did not answer.
warn_daemon_unavailable == proc.lost /\ proc.cmd.name # "wp"

\* The default PHP, if there is one.
Default ==
    IF resolve_default_php = 0 THEN Failed(2)
    ELSE proc' = [proc EXCEPT !.pc = run_which, !.php = resolve_default_php, !.via = "default",
                              !.warned = warn_daemon_unavailable]

\* select_php: a named site never falls back (69: no daemon, 2: no such site);
\* wp falls back too for a site without a served root.
select_php ==
    IF proc.cmd.named # ""
    THEN CASE proc.lost -> Failed(69)
           [] ~proc.lost /\ ~proc.hit.found -> Failed(2)
           [] OTHER -> scope_from
    ELSE CASE proc.lost \/ ~proc.hit.found -> Default
           [] OTHER -> IF proc.cmd.name = "wp" /\ IsFile(proc.hit.php) /\ ~proc.hit.served THEN Default ELSE scope_from

\* resolve_target of php<ver>, and of php<ver>cover, which legacy versions do not have.
cli_target == IF IsFile(proc.cmd.ver) THEN Chosen(proc.cmd.ver, "version") ELSE Failed(1)
cover_target == IF is_legacy(proc.cmd.ver) THEN Failed(1) ELSE cli_target

Resolve ==
    /\ proc.pc = "resolve"
    /\ CASE proc.cmd.name \in Scoped -> select_php
         [] cover_dispatch(proc.cmd) /\ proc.cmd.ver # 0 -> cover_target
         [] cli_dispatch(proc.cmd) /\ proc.cmd.ver # 0 -> cli_target
         [] OTHER -> Default
    /\ UNCHANGED <<world, changes, hops>>

\* prepare_cover_ini: the version's own ini, with its pcov.so.
prepare_cover_ini(v) == [of |-> cli_phprc(v).of, pcov |-> v]

Ready(phprc, cover) ==
    proc' = [proc EXCEPT !.pc = "exec", !.env.cover = cover,
                         !.env.phprc = IF phprc = NoIni THEN @ ELSE phprc]

\* run of the cover shims: pcov or an error; YERD_COVER=1 for what it starts.
cover_run ==
    IF proc.php \in pcov THEN Ready(prepare_cover_ini(proc.php), TRUE) ELSE Failed(1)

cli_run_Clean == Ready(cli_phprc(proc.php), proc.env.cover)

\* run of php and php<ver>: under YERD_COVER=1 the cover ini of the version it
\* resolved, or a notice and the clean one.
cover_env_enabled == proc.env.cover
cli_run ==
    IF cover_env_enabled /\ proc.php \in pcov THEN Ready(prepare_cover_ini(proc.php), TRUE)
    ELSE proc' = [proc EXCEPT !.pc = "exec", !.notice = cover_env_enabled,
                              !.env.phprc = IF cli_phprc(proc.php) = NoIni THEN @ ELSE cli_phprc(proc.php)]

\* composer and laravel set no PHPRC; wp and exec the clean ini.
composer_phar == "composer" \in tools
composer_run == IF composer_phar THEN Ready(NoIni, proc.env.cover) ELSE Failed(1)
laravel_run == IF "laravel" \in tools THEN Ready(NoIni, proc.env.cover) ELSE Failed(1)
wp_run == IF "wp" \in tools THEN Ready(cli_phprc(proc.php), proc.env.cover) ELSE Failed(1)
run_exec ==
    IF proc.cmd.tool = "composer" /\ ~composer_phar THEN Failed(2)
    ELSE Ready(cli_phprc(proc.php), proc.env.cover)

Prepare ==
    /\ proc.pc = "prepare"
    /\ CASE composer_dispatch(proc.cmd) -> composer_run
         [] cover_dispatch(proc.cmd) -> cover_run
         [] laravel_dispatch(proc.cmd) -> laravel_run
         [] cli_dispatch(proc.cmd) -> cli_run
         [] wp_dispatch(proc.cmd) -> wp_run
         [] proc.cmd.name = "exec" -> run_exec
    /\ UNCHANGED <<world, changes, hops>>

\* The exec: NotFound when the version was uninstalled meanwhile.
Exec ==
    /\ proc.pc = "exec"
    /\ IF IsFile(proc.php) THEN proc' = [proc EXCEPT !.pc = "running"] ELSE Failed(2)
    /\ UNCHANGED <<world, changes, hops>>

Return ==
    /\ proc.pc \in {"running", "printed", "failed"}
    /\ proc' = Shell
    /\ UNCHANGED <<world, changes, hops>>

-----------------------------------------------------------------------------
\* What the daemon changes meanwhile (external to these commands).
Change ==
    /\ proc.pc \in {"lookup", "resolve", "prepare", "exec"}
    /\ changes < MaxChanges /\ changes' = changes + 1
    /\ \/ \E s \in Sites, v \in Php : site' = [site EXCEPT ![s].php = v] /\ UNCHANGED <<installed, default, answering>>
       \/ \E s \in Sites : site' = [site EXCEPT ![s].here = ~@] /\ UNCHANGED <<installed, default, answering>>
       \/ /\ \E v \in Php : installed' \in {installed \ {v}, installed \cup {v}}
          /\ UNCHANGED <<site, default, answering>>
       \/ \E v \in Php : default' = v /\ UNCHANGED <<site, installed, answering>>
       \/ answering' = ~answering /\ UNCHANGED <<site, installed, default>>
    /\ UNCHANGED <<pcov, inis, baseIni, phpLink, tools, proc, hops>>

CliNext ==
    /\ \/ \E cmd \in Commands : \E cwd \in IF cmd.name \in Scoped THEN Cwds ELSE {<<>>} : Invoke(cmd, cwd)
       \/ Lookup \/ Resolve \/ Prepare \/ Exec \/ Return \/ Change
    /\ Track

-----------------------------------------------------------------------------
\* A command run inside a site runs the PHP its innermost site was pinned to at
\* some moment of the command, or nothing: it never falls back because that
\* version is not installed, and a named site never falls back at all.  The
\* default PHP runs only outside any site or when the daemon did not answer
\* (which exec and which say), and it is never a legacy version (select_php,
\* site_scope, match_site, resolve_default_php).
RightPhpRuns ==
    proc.pc \in {"running", "printed"} =>
      /\ proc.via = "site" => proc.php \in pins
      /\ proc.via = "default" =>
           /\ ~is_legacy(proc.php) /\ proc.cmd.named = ""
           /\ proc.cmd.name \in Scoped /\ ~proc.lost => 0 \in pins
           /\ proc.cmd.name \in {"exec", "which"} /\ proc.lost => proc.warned

\* Below a cover shim (or with YERD_COVER=1 in the shell) every PHP started
\* through php or php<ver> is measured with the pcov of its own version, or a
\* notice says that it is not: through any chain of composer, laravel, wp and
\* exec.  And no command but composer and laravel, which keep the caller's ini,
\* ever runs a PHP with the ini or the pcov of another version (cover_shim run,
\* cli_shim run, prepare_cover_ini).
CoverageSurvives ==
    proc.pc = "running" /\ proc.cmd.name \notin {"composer", "laravel"} =>
      /\ proc.env.phprc.of \in {0, proc.php} /\ proc.env.phprc.pcov \in {0, proc.php}
      /\ proc.tree /\ proc.cmd.name = "php" => proc.env.phprc.pcov = proc.php \/ proc.notice
=============================================================================
