------------------------------ MODULE Clients ------------------------------
(***************************************************************************)
(* The CLI's commands as programs of exchanges with a daemon that restarts *)
(* under them (bin/yerd lib.rs and transport.rs; bin/yerdd ipc_server.rs,  *)
(* jobs.rs, main.rs).  One exchange is a connection of its own: connect,   *)
(* one request, one reply.  The daemon accepts a connection, handles it,   *)
(* writes the reply and only then looks at the restart flag, which another *)
(* connection may have set meanwhile; a stopping daemon accepts nothing    *)
(* more, and its exit closes whatever is unanswered.                       *)
(*                                                                         *)
(* The config is reduced to a version number, one more for each save of   *)
(* `yerd lan`, the command that applies a setting by restarting the daemon; *)
(* ConfigStore.tla has the rest.                                           *)
(*                                                                         *)
(* The request/response protocol (crates/yerd-ipc) is reduced to the KIND  *)
(* of each message: the requests a client can send, the kinds of reply the *)
(* dispatcher can answer each with, the request every command of the three *)
(* clients (the CLI, the desktop app, the MCP server) sends, and the       *)
(* replies each client knows how to show.                                  *)
(***************************************************************************)
EXTENDS TLC, Naturals, Sequences

-----------------------------------------------------------------------------
(* The protocol. *)

(* enum Request, section by section. *)
SiteRequests == {"Ping", "ListSites", "Park", "Link", "Unlink", "ListParked",
  "Unpark", "SetPhp", "SetSecure", "SetWebRoot", "AddDomain", "RemoveDomain",
  "SetPrimaryDomain", "ResetDomains", "AddProxy", "RemoveProxy",
  "AddProxyRule", "RemoveProxyRule", "ListProxies"}
PhpRequests == {"DaemonInfo", "InstallPhp", "InstallPhpStreamed",
  "SetDefaultPhp", "ListPhp", "UpdatePhp", "CheckPhpUpdates", "AvailablePhp",
  "SetPhpSettings", "SetPhpVersionSettings", "SetPhpDirectives",
  "SetPhpPoolSettings", "AddPhpExtension", "RemovePhpExtension",
  "ListPhpExtensions", "RestartPhp", "RestartAllPhp", "UninstallPhp"}
StatusRequests == {"Status", "Diagnose", "DoctorFix", "RestartDaemon",
  "ListServices", "AvailableServices", "AvailableWordpressVersions",
  "MintWordpressLoginToken", "SetWordpressAutoLogin", "WordpressAdminUsers"}
ServiceRequests == {"InstallService", "UninstallService", "StartService",
  "StopService", "RestartService", "SetServicePort", "SetServiceOverrides",
  "ServiceOverrides", "ServiceLogs", "AddService", "RemoveService",
  "SetServiceAutostart", "SetServiceSite", "AddableServiceTypes"}
DatabaseRequests == {"CreateDatabase", "ListDatabases", "DropDatabase",
  "BackupDatabase", "RestoreDatabase", "ChangeServiceVersion"}
DumpRequests == {"ListDumps", "ClearDumps", "DeleteDump", "SetDumpsEnabled",
  "SetDumpsPort", "SetDumpFeature", "SetDumpsPersist", "DumpsStatus"}
MailRequests == {"ListMails", "GetMail", "ClearMails", "DeleteMails",
  "MarkMailsRead", "SetMailPort", "SetFallbackPorts", "SetDnsPort",
  "SetMailEnabled"}
ToolRequests == {"ListTools", "InstallTool", "UninstallTool",
  "InstallToolStreamed", "CreateSite", "JobStatus", "JobCancel",
  "CheckUpdate", "CachedUpdateStatus", "SetUpdateChannel", "StageUpdate"}
TunnelRequests == {"InstallCloudflaredStreamed", "StartQuickTunnel",
  "StopTunnel", "TunnelStatus", "CloudflaredLogin", "CreateNamedTunnel",
  "ListNamedTunnels", "RouteTunnelDns", "SetSiteTunnel", "StartNamedTunnel",
  "StopNamedTunnel", "DeleteNamedTunnel"}
GroupRequests == {"ListGroups", "CreateGroup", "DeleteGroup", "SetGroupOrder",
  "SetSiteGroup", "RenameGroup"}
SettingRequests == {"SetSymlinkProtection", "SetFrontController",
  "SetMcpEnabled", "SetLanEnabled", "MintRemoteSetupCode", "TrustBrowsers"}
RouteRequests == {"AddRouteRule", "RemoveRouteRule", "ListRoutes"}

Requests == UNION {SiteRequests, PhpRequests, StatusRequests, ServiceRequests,
  DatabaseRequests, DumpRequests, MailRequests, ToolRequests, TunnelRequests,
  GroupRequests, SettingRequests, RouteRequests}

(* enum Response. *)
CoreResponses == {"Pong", "Sites", "Ok", "Proxies", "Error", "Parked", "Info",
  "RemoteSetup", "PhpVersions", "AvailablePhp"}
ServiceResponses == {"PhpExtensions", "Status", "Diagnoses", "DoctorFix",
  "Services", "AvailableServices", "AddableServices", "ServiceInstanceId",
  "WordpressVersions", "WordpressLoginToken", "WordpressAdminUsers",
  "ServiceOverrides", "ServiceLogs", "Databases", "Dumps", "DumpsStatus",
  "Mails", "Mail", "Tools", "JobStarted", "JobProgress"}
UpdateResponses == {"UpdateStatus", "Staged", "Tunnels", "NamedTunnels",
  "Groups", "BrowserTrust", "Routes"}

Responses == UNION {CoreResponses, ServiceResponses, UpdateResponses}

-----------------------------------------------------------------------------
(* The replies the daemon answers each request with. *)
OkOrError == {"Ok", "Error"}

(* ipc_server::handle_client answers the requests that outlive the exchange. *)
StreamedReplies ==
  [r \in {"CreateSite", "InstallToolStreamed", "InstallCloudflaredStreamed",
          "CloudflaredLogin", "InstallPhpStreamed"} |-> {"JobStarted", "Error"}]
  @@ ("JobStatus" :> {"JobProgress", "Error"}) @@ ("JobCancel" :> OkOrError)

(* ipc_server::dispatch, first arms: sites, proxies, routes, groups, PHP. *)
SiteReplies ==
  ("Ping" :> {"Pong"}) @@ ("ListSites" :> {"Sites"})
  @@ ("ListParked" :> {"Parked"}) @@ ("ListProxies" :> {"Proxies"})
  @@ ("ListRoutes" :> {"Routes"}) @@ ("ListGroups" :> {"Groups"})
  @@ [r \in SiteRequests \cup GroupRequests \cup RouteRequests |-> OkOrError]
PhpReplies ==
  ("DaemonInfo" :> {"Info"}) @@ ("AvailablePhp" :> {"AvailablePhp", "Error"})
  @@ ("RestartAllPhp" :> {"Ok"}) @@ ("ListPhpExtensions" :> {"PhpExtensions"})
  @@ [r \in {"ListPhp", "CheckPhpUpdates"} |-> {"PhpVersions"}]
  @@ [r \in {"InstallPhp", "SetDefaultPhp", "RestartPhp"} |-> OkOrError]
  @@ [r \in {"AddPhpExtension", "RemovePhpExtension"} |->
        {"PhpExtensions", "Error"}]
  @@ [r \in PhpRequests \ {"InstallPhpStreamed"} |-> {"PhpVersions", "Error"}]

(* ... middle arms: status, services, databases, WordPress. *)
StatusReplies ==
  ("Status" :> {"Status"}) @@ ("Diagnose" :> {"Diagnoses"})
  @@ ("DoctorFix" :> {"DoctorFix"}) @@ ("RestartDaemon" :> {"Ok"})
  @@ ("ListServices" :> {"Services"})
  @@ ("AvailableServices" :> {"AvailableServices", "Error"})
  @@ ("AvailableWordpressVersions" :> {"WordpressVersions"})
  @@ ("MintWordpressLoginToken" :> {"WordpressLoginToken", "Error"})
  @@ ("WordpressAdminUsers" :> {"WordpressAdminUsers", "Error"})
  @@ ("ServiceOverrides" :> {"ServiceOverrides", "Error"})
  @@ ("ServiceLogs" :> {"ServiceLogs", "Error"})
  @@ ("AddableServiceTypes" :> {"AddableServices"})
  @@ [r \in {"AddService", "SetServiceSite"} |-> {"ServiceInstanceId", "Error"}]
  @@ ("ListDatabases" :> {"Databases", "Error"})
  @@ [r \in StatusRequests \cup ServiceRequests \cup DatabaseRequests |-> OkOrError]

(* ... last arms: dumps, mail, settings, tools, updates, tunnels. *)
OtherReplies ==
  ("ListDumps" :> {"Dumps"}) @@ ("DumpsStatus" :> {"DumpsStatus"})
  @@ [r \in {"ClearDumps", "DeleteDump"} |-> {"Ok"}]
  @@ ("ListMails" :> {"Mails"}) @@ ("GetMail" :> {"Mail", "Error"})
  @@ ("MintRemoteSetupCode" :> {"RemoteSetup", "Error"})
  @@ ("TrustBrowsers" :> {"BrowserTrust", "Error"})
  @@ ("ListTools" :> {"Tools"}) @@ ("StageUpdate" :> {"Staged", "Error"})
  @@ [r \in {"CheckUpdate", "CachedUpdateStatus"} |-> {"UpdateStatus"}]
  @@ ("TunnelStatus" :> {"Tunnels"}) @@ ("ListNamedTunnels" :> {"NamedTunnels"})
  @@ [r \in {"StartQuickTunnel", "StopTunnel", "StartNamedTunnel",
             "StopNamedTunnel"} |-> {"Tunnels", "Error"}]
  @@ [r \in UNION {DumpRequests, MailRequests, SettingRequests, ToolRequests,
                   TunnelRequests} \ DOMAIN StreamedReplies |-> OkOrError]

(* A request outside every arm is "unsupported": an Error. *)
Replies == StreamedReplies @@ SiteReplies @@ PhpReplies @@ StatusReplies
           @@ OtherReplies

-----------------------------------------------------------------------------
(* The CLI (bin/yerd).  A command is named by its words.  Its grammar        *)
(* (cli.rs): *)
TopCommands == {"ping", "sites", "park", "link", "unlink", "unpark", "use", "use site",
  "uninstall", "update", "update --yes", "update --yes --edge", "services", "tools"}
MoreCommands == {"status", "secure", "unsecure", "root", "front-controller",
  "coverage", "exec", "which", "mcp", "remote-setup"}
LanAction == {"lan enable", "lan disable", "lan status"}
PathAction == {"path install", "path uninstall", "path print"}
ProxyAction == {"proxy add", "proxy add rule", "proxy remove", "proxy remove rule",
  "proxy list"}
RouteAction == {"route add", "route remove", "route list", "route list site"}
DomainAction == {"domain list", "domain add", "domain remove", "domain primary",
  "domain reset"}
ServiceAction == {"service available", "service install", "service change-version",
  "service uninstall", "service start", "service stop", "service restart",
  "service set-port", "service set", "service unset", "service overrides",
  "service logs", "service add", "service remove", "service set-autostart",
  "service set-site"}
TunnelAction == {"tunnel install", "tunnel share", "tunnel stop", "tunnel status",
  "tunnel login", "tunnel create", "tunnel delete", "tunnel list", "tunnel route",
  "tunnel set-host", "tunnel publish", "tunnel unpublish"}
DbAction == {"db list", "db create", "db drop", "db backup", "db restore"}
MailAction == {"mail list", "mail show", "mail clear"}
DoctorAction == {"doctor", "doctor fix"}
PhpPoolAction == {"php pool set", "php pool unset", "php pool list"}
PhpIniAction == {"php ini set", "php ini unset", "php ini list"}
PhpExtAction == {"php ext add", "php ext remove", "php ext list"}
SetTarget == {"set php", "set php --only"}
UnsetTarget == {"unset php", "unset php --only"}
RestartTarget == {"restart php", "restart php version", "restart daemon"}
UninstallTarget == {"uninstall php", "uninstall tool"}
InstallTarget == {"install php", "install tool"}
ListTarget == {"list php", "list php --check", "list php --available", "list parked"}
UpdateTarget == {"update php"}
ElevateTarget == {"elevate", "elevate trust", "elevate resolver", "elevate ports",
  "elevate lan", "unelevate", "unelevate trust", "unelevate resolver",
  "unelevate ports", "unelevate lan"}

Grammar == UNION {TopCommands, MoreCommands, LanAction, PathAction, ProxyAction,
  RouteAction, DomainAction, ServiceAction, TunnelAction, DbAction, MailAction,
  DoctorAction, PhpPoolAction, PhpIniAction, PhpExtAction, SetTarget, UnsetTarget,
  RestartTarget, UninstallTarget, InstallTarget, ListTarget, UpdateTarget, ElevateTarget}

(* lib::run: commands that never speak to the daemon through to_request. *)
LocalCommands == {"uninstall", "coverage", "exec", "which", "mcp"}
  \cup PathAction \cup ElevateTarget

(* map::to_request and its parts: the request a command sends once its      *)
(* arguments pass the local validation. *)
SiteCommands ==
  ("ping" :> "Ping") @@ ("sites" :> "ListSites") @@ ("park" :> "Park")
  @@ ("unlink" :> "Unlink") @@ ("unpark" :> "Unpark")
  @@ ("use" :> "SetDefaultPhp") @@ ("use site" :> "SetPhp")
  @@ ("secure" :> "SetSecure") @@ ("unsecure" :> "SetSecure")
  @@ ("root" :> "SetWebRoot") @@ ("front-controller" :> "SetFrontController")
  @@ ("list parked" :> "ListParked")
PhpSetCommands ==
  ("set php" :> "SetPhpSettings") @@ ("unset php" :> "SetPhpSettings")
  @@ ("set php --only" :> "SetPhpVersionSettings")
  @@ ("unset php --only" :> "SetPhpVersionSettings")
InstallCommands ==
  ("install php" :> "InstallPhp") @@ ("install tool" :> "InstallTool")
  @@ ("uninstall php" :> "UninstallPhp") @@ ("uninstall tool" :> "UninstallTool")
  @@ ("list php" :> "ListPhp") @@ ("list php --check" :> "CheckPhpUpdates")
  @@ ("list php --available" :> "AvailablePhp") @@ ("tools" :> "ListTools")
  @@ ("update php" :> "UpdatePhp") @@ ("update" :> "CheckUpdate")
StatusCommands ==
  ("restart php" :> "RestartAllPhp") @@ ("restart php version" :> "RestartPhp")
  @@ ("restart daemon" :> "RestartDaemon") @@ ("services" :> "ListServices")
  @@ ("status" :> "Status") @@ ("doctor" :> "Diagnose")
  @@ ("doctor fix" :> "DoctorFix") @@ ("remote-setup" :> "MintRemoteSetupCode")
MailCommands ==
  ("mail list" :> "ListMails") @@ ("mail show" :> "GetMail")
  @@ ("mail clear" :> "ClearMails")

(* map::service_request, behind service_override_to_request's validation. *)
ServiceCommands ==
  ("service available" :> "AvailableServices")
  @@ ("service install" :> "InstallService")
  @@ ("service change-version" :> "ChangeServiceVersion")
  @@ ("service uninstall" :> "UninstallService")
  @@ ("service start" :> "StartService") @@ ("service stop" :> "StopService")
  @@ ("service restart" :> "RestartService")
  @@ ("service set-port" :> "SetServicePort")
  @@ ("service logs" :> "ServiceLogs") @@ ("service add" :> "AddService")
  @@ ("service remove" :> "RemoveService")
  @@ ("service set-autostart" :> "SetServiceAutostart")
  @@ ("service set-site" :> "SetServiceSite")
  @@ ("service set" :> "SetServiceOverrides")
  @@ ("service unset" :> "SetServiceOverrides")
  @@ ("service overrides" :> "ServiceOverrides")
DomainCommands ==
  ("domain add" :> "AddDomain") @@ ("domain remove" :> "RemoveDomain")
  @@ ("domain primary" :> "SetPrimaryDomain") @@ ("domain reset" :> "ResetDomains")
ProxyCommands ==
  ("proxy list" :> "ListProxies") @@ ("proxy add" :> "AddProxy")
  @@ ("proxy add rule" :> "AddProxyRule") @@ ("proxy remove" :> "RemoveProxy")
  @@ ("proxy remove rule" :> "RemoveProxyRule")
RouteCommands ==
  ("route list" :> "ListRoutes") @@ ("route add" :> "AddRouteRule")
  @@ ("route remove" :> "RemoveRouteRule")
TunnelCommands ==
  ("tunnel share" :> "StartQuickTunnel") @@ ("tunnel stop" :> "StopTunnel")
  @@ ("tunnel status" :> "TunnelStatus") @@ ("tunnel create" :> "CreateNamedTunnel")
  @@ ("tunnel delete" :> "DeleteNamedTunnel") @@ ("tunnel list" :> "ListNamedTunnels")
  @@ ("tunnel route" :> "RouteTunnelDns") @@ ("tunnel set-host" :> "SetSiteTunnel")
  @@ ("tunnel publish" :> "StartNamedTunnel")
  @@ ("tunnel unpublish" :> "StopNamedTunnel")
  @@ ("tunnel install" :> "InstallCloudflaredStreamed")
  @@ ("tunnel login" :> "CloudflaredLogin")
DbCommands ==
  ("db list" :> "ListDatabases") @@ ("db create" :> "CreateDatabase")
  @@ ("db drop" :> "DropDatabase") @@ ("db backup" :> "BackupDatabase")
  @@ ("db restore" :> "RestoreDatabase")
PhpExtCommands ==
  ("php ext add" :> "AddPhpExtension") @@ ("php ext remove" :> "RemovePhpExtension")
  @@ ("php ext list" :> "ListPhpExtensions")
PhpIniCommands ==
  [c \in {"php ini set", "php ini unset"} |-> "SetPhpDirectives"]
  @@ ("php ini list" :> "ListPhp")
PhpPoolCommands ==
  [c \in {"php pool set", "php pool unset"} |-> "SetPhpPoolSettings"]
  @@ ("php pool list" :> "ListPhp")
(* lib::resolve_link builds the request of `yerd link` itself. *)
LinkCommand == "link" :> "Link"

ToRequest == SiteCommands @@ PhpSetCommands @@ InstallCommands @@ StatusCommands
  @@ MailCommands @@ ServiceCommands @@ DomainCommands @@ ProxyCommands
  @@ RouteCommands @@ TunnelCommands @@ DbCommands @@ PhpExtCommands
  @@ PhpIniCommands @@ PhpPoolCommands @@ LinkCommand

(* Commands whose arguments the CLI validates before it connects: site and  *)
(* target names, domains, prefixes, PHP versions, settings, directives,     *)
(* extension entries and paths.  A refusal is a usage error (exit code 2).  *)
ValidatedCommands ==
  {"unlink", "use", "use site", "secure", "unsecure", "root", "front-controller",
   "install php", "uninstall php", "restart php version", "update php", "park",
   "link", "service set", "service unset", "proxy add", "proxy add rule",
   "proxy remove", "proxy remove rule", "route add", "route remove", "db backup",
   "db restore", "php ext add", "php ext remove", "php ini set",
   "php ini unset", "php pool set", "php pool unset"}
  \cup DOMAIN DomainCommands \cup DOMAIN PhpSetCommands

(* Mutant: render has no arm for the route list. *)
Rendered_NoRoutes == Responses \
  {"Info", "WordpressVersions", "WordpressLoginToken", "WordpressAdminUsers",
   "Dumps", "DumpsStatus", "JobStarted", "JobProgress", "Staged", "Groups",
   "BrowserTrust", "Routes"}
(* map::render without --json: the replies it has an arm for. *)
Rendered == Responses \
  {"Info", "WordpressVersions", "WordpressLoginToken", "WordpressAdminUsers",
   "Dumps", "DumpsStatus", "JobStarted", "JobProgress", "Staged", "Groups",
   "BrowserTrust"}

(* The exit code of a rendered reply: doctor_exit_code for the two reports. *)
ExitCodes(reply) ==
  CASE reply = "Error" -> {1}
    [] reply \in {"Diagnoses", "DoctorFix"} -> {0, 1}
    [] OTHER -> {0}

-----------------------------------------------------------------------------
(* The desktop app (apps/yerd-gui commands.rs): one command per request,    *)
(* named after it; every reply but Error goes to the web view.             *)
GuiSites == SiteRequests \cup RouteRequests
GuiGroups == GroupRequests
GuiPhp == {"ListPhp", "CheckPhpUpdates", "AvailablePhp", "InstallPhp",
  "InstallPhpStreamed", "SetDefaultPhp", "UpdatePhp"}
GuiUpdates == {"CheckUpdate", "CachedUpdateStatus", "SetUpdateChannel", "StageUpdate"}
GuiPhpSettings == (PhpRequests \ (GuiPhp \cup {"DaemonInfo"})) \cup {"RestartDaemon"}
GuiServices == (StatusRequests \ {"Status", "Diagnose", "DoctorFix", "RestartDaemon"})
  \cup ServiceRequests \cup {"ChangeServiceVersion", "SetFrontController"}
GuiDatabases == DatabaseRequests \ {"ChangeServiceVersion"}
GuiMail == MailRequests \cup {"SetSymlinkProtection", "SetMcpEnabled"}
GuiStatus == {"Status", "Diagnose", "DoctorFix", "DaemonInfo"}
GuiTrust == {"TrustBrowsers"}
GuiDumps == DumpRequests
GuiTools == {"ListTools", "InstallTool", "UninstallTool", "InstallToolStreamed"}
GuiTunnels == TunnelRequests
GuiJobs == {"CreateSite", "JobStatus", "JobCancel"}

GuiRequests == UNION {GuiSites, GuiGroups, GuiPhp, GuiUpdates, GuiPhpSettings,
  GuiServices, GuiDatabases, GuiMail, GuiStatus, GuiTrust, GuiDumps, GuiTools,
  GuiTunnels, GuiJobs}

-----------------------------------------------------------------------------
(* The MCP server (crates/yerd-mcp tools.rs): the tools it offers and the   *)
(* request build_request makes of a call with well-formed arguments.       *)
Tools == {"list_sites", "create_site", "link_site", "park_directory",
  "list_parked", "set_site_php", "set_site_secure", "add_domain",
  "remove_domain", "add_proxy", "remove_proxy", "add_proxy_rule",
  "remove_proxy_rule", "list_proxies", "list_php", "list_available_php",
  "install_php", "set_default_php", "set_php_setting", "list_services",
  "list_databases", "create_database", "set_mail_enabled", "list_mails",
  "get_mail", "set_dumps_enabled", "dumps_status", "list_dumps", "status",
  "diagnose", "job_status"}
BuildRequest ==
  ("list_sites" :> "ListSites") @@ ("create_site" :> "CreateSite")
  @@ ("link_site" :> "Link") @@ ("park_directory" :> "Park")
  @@ ("list_parked" :> "ListParked") @@ ("set_site_php" :> "SetPhp")
  @@ ("set_site_secure" :> "SetSecure") @@ ("add_domain" :> "AddDomain")
  @@ ("remove_domain" :> "RemoveDomain") @@ ("add_proxy" :> "AddProxy")
  @@ ("remove_proxy" :> "RemoveProxy") @@ ("add_proxy_rule" :> "AddProxyRule")
  @@ ("remove_proxy_rule" :> "RemoveProxyRule") @@ ("list_proxies" :> "ListProxies")
  @@ ("list_php" :> "ListPhp") @@ ("list_available_php" :> "AvailablePhp")
  @@ ("install_php" :> "InstallPhpStreamed") @@ ("set_default_php" :> "SetDefaultPhp")
  @@ ("set_php_setting" :> "SetPhpSettings") @@ ("list_services" :> "ListServices")
  @@ ("list_databases" :> "ListDatabases") @@ ("create_database" :> "CreateDatabase")
  @@ ("set_mail_enabled" :> "SetMailEnabled") @@ ("list_mails" :> "ListMails")
  @@ ("get_mail" :> "GetMail") @@ ("set_dumps_enabled" :> "SetDumpsEnabled")
  @@ ("dumps_status" :> "DumpsStatus") @@ ("list_dumps" :> "ListDumps")
  @@ ("status" :> "Status") @@ ("diagnose" :> "Diagnose")
  @@ ("job_status" :> "JobStatus")

(* Every request the desktop app and the MCP tools send is one the daemon    *)
(* knows, and every tool that is offered has its request.                    *)
ASSUME SpeaksTheProtocol ==
  /\ GuiRequests \subseteq Requests
  /\ DOMAIN BuildRequest = Tools
  /\ \A t \in Tools : BuildRequest[t] \in Requests

-----------------------------------------------------------------------------
(* The clients and the daemon. *)

CONSTANTS Clients,    \* concurrent CLI (or desktop app) processes
          Plans,      \* the command line of each client: functions to [cmd, json]
          MaxBoots,   \* bound: daemon processes
          MaxPolls,   \* bound: Status polls before the LAN toggle gives up
          MaxJobs     \* bound: jobs one daemon process starts

VARIABLES
  daemon,  \* the daemon: phase, boot id, config it started with, restart flag
  disk,    \* the version of the saved config
  jobs,    \* the daemon's job registry: job n-1 is jobs[n]
  conn,    \* conn[c]: the connection of c's current exchange
  client   \* client[c]: the command it runs and how far it is

cvars == <<daemon, disk, jobs, conn, client>>

(* Streamed commands: without --json they poll their job to the end. *)
StreamCommands == ("install tool" :> "InstallToolStreamed")
  @@ ("tunnel install" :> "InstallCloudflaredStreamed")
  @@ ("tunnel login" :> "CloudflaredLogin")

(* The command lines that talk to the daemon. *)
Commands == Grammar \ LocalCommands

JobStates == {"Running", "Succeeded", "Failed", "Cancelled"}
NoInfo == [boot |-> 0, config |-> 0, job |-> 0, state |-> "Running", available |-> FALSE]
NoConn == [st |-> "none", req |-> "Ping", reply |-> "none", info |-> NoInfo]

Idle == [cmd |-> "none", json |-> FALSE, pc |-> "idle", before |-> 0, setIn |-> 0,
         saved |-> 0, seen |-> 0, job |-> 0, jobIn |-> 0, polls |-> 0,
         exit |-> 0, unexpected |-> FALSE, foreign |-> FALSE]

Init ==
  /\ disk = 0
  /\ daemon = [phase |-> "serving", boot |-> 1, config |-> 0, restart |-> FALSE,
               answered |-> FALSE]
  /\ jobs = <<>>
  /\ conn = [c \in Clients |-> NoConn]
  /\ \E plan \in Plans :
       client = [c \in Clients |-> [Idle EXCEPT !.cmd = plan[c].cmd,
                                                       !.json = plan[c].json]]

-----------------------------------------------------------------------------
(* lib::run: which flow a command line takes. *)
FirstStep(cmd, json) ==
  CASE cmd \in {"lan enable", "lan disable"} -> "boot"
    [] cmd = "lan status" -> "lan status"
    [] cmd = "domain list" -> "info"
    [] cmd = "route list site" -> "routes"
    [] cmd = "update --yes --edge" -> "channel"
    [] cmd = "update --yes" -> "check"
    [] cmd \in DOMAIN StreamCommands /\ ~json -> "start"
    [] OTHER -> "simple"

(* The request each step of a flow sends. *)
RequestAt(s) ==
  CASE s.pc = "simple" -> ToRequest[s.cmd]
    [] s.pc \in {"boot", "poll", "lan status"} -> "Status"
    [] s.pc = "set" -> "SetLanEnabled"
    [] s.pc = "restart" -> "RestartDaemon"
    [] s.pc = "info" -> "DaemonInfo"
    [] s.pc = "sites" -> "ListSites"
    [] s.pc = "routes" -> "ListRoutes"
    [] s.pc = "channel" -> "SetUpdateChannel"
    [] s.pc = "check" -> "CheckUpdate"
    [] s.pc = "stage" -> "StageUpdate"
    [] s.pc = "start" -> StreamCommands[s.cmd]
    [] s.pc = "watch" -> "JobStatus"

Sending == {"simple", "boot", "poll", "lan status", "set", "restart", "info",
            "sites", "routes", "channel", "check", "stage", "start", "watch"}

Done(s, code) == [s EXCEPT !.pc = "done", !.exit = code]
Unexpected(s, code) == [Done(s, code) EXCEPT !.unexpected = TRUE]

(* Err(e): is_daemon_down is a refused connect or an end of stream. *)
Down == {"refused", "closed"}
Failed == Down \cup {"reset"}
IpcError(s, r) == Done(s, IF r \in Down THEN 69 ELSE 74)

(* lib::run's tail and render: a reply without an arm is unexpected; doctor  *)
(* renders a diagnosis of its own when there is no daemon.                   *)
AfterSimple(s, r, code) ==
  CASE r \in Down /\ s.cmd \in {"doctor", "doctor fix"} -> Done(s, 1)
    [] r \in Failed -> IpcError(s, r)
    [] ~s.json /\ r \notin Rendered -> Unexpected(s, 1)
    [] OTHER -> Done(s, code)

(* run_lan_toggle, fetch_boot_id. *)
AfterBoot(s, r, i) ==
  IF r = "Status" THEN [s EXCEPT !.pc = "set", !.before = i.boot]
  ELSE IF r \in Failed THEN Done(s, 69) ELSE Unexpected(s, 69)
AfterSet(s, r, i) ==
  CASE r = "Ok" -> [s EXCEPT !.pc = "restart", !.setIn = i.boot, !.saved = i.config]
    [] r = "Error" -> Done(s, 1)
    [] r \in Failed -> Done(s, 69)
    [] OTHER -> Unexpected(s, 1)
(* restart_and_await_boot_change: the answer to RestartDaemon is ignored. *)
AfterRestart(s) == [s EXCEPT !.pc = "sleep"]
(* run_lan_toggle reports the restart. *)
Confirmed(s, i) == [Done(s, 0) EXCEPT !.seen = i.config]
(* Mutant: any daemon's Status confirms the restart. *)
AfterPoll_AnyBoot(s, r, i) ==
  CASE r = "Status" -> Confirmed(s, i)
    [] s.polls + 1 >= MaxPolls -> Done(s, 74)
    [] OTHER -> [s EXCEPT !.pc = "sleep", !.polls = @ + 1]
(* Mutant: the deadline never comes. *)
AfterPoll_Forever(s, r, i) ==
  CASE r = "Status" /\ i.boot # s.before -> Confirmed(s, i)
    [] OTHER -> [s EXCEPT !.pc = "sleep"]
AfterPoll(s, r, i) ==
  CASE r = "Status" /\ i.boot # s.before -> Confirmed(s, i)
    [] s.polls + 1 >= MaxPolls -> Done(s, 74)
    [] OTHER -> [s EXCEPT !.pc = "sleep", !.polls = @ + 1]
(* run_lan_status, run_route_list, run_domain_list. *)
AfterLanStatus(s, r) ==
  IF r = "Status" THEN Done(s, 0)
  ELSE IF r \in Failed THEN Done(s, 69) ELSE Unexpected(s, 1)
AfterRoutes(s, r) ==
  IF r = "Routes" THEN Done(s, 0) ELSE AfterSimple(s, r, 1)
AfterInfo(s, r) ==
  CASE r = "Info" -> [s EXCEPT !.pc = "sites"]
    [] r \in Failed -> IpcError(s, r)
    [] OTHER -> Unexpected(s, 74)
AfterSites(s, r) ==
  IF r = "Sites" THEN Done(s, 0) ELSE AfterSimple(s, r, 1)

(* run_self_update_apply: [SetUpdateChannel,] CheckUpdate, StageUpdate, then *)
(* the applier (SelfUpdate.tla).  i.available: an update was offered.        *)
AfterUpdateStep(s, r, want, next) ==
  CASE r = want -> next
    [] r = "Error" -> Done(s, 1)
    [] r \in Failed -> IpcError(s, r)
    [] OTHER -> Unexpected(s, 74)
AfterUpdate(s, r, i) ==
  CASE s.pc = "channel" -> AfterUpdateStep(s, r, "Ok", [s EXCEPT !.pc = "check"])
    [] s.pc = "check" -> AfterUpdateStep(s, r, "UpdateStatus",
          IF i.available THEN [s EXCEPT !.pc = "stage"] ELSE Done(s, 0))
    [] s.pc = "stage" -> AfterUpdateStep(s, r, "Staged", Done(s, 0))

(* stream_install_tool and stream_tunnel_job. *)
AfterStart(s, r, i) ==
  CASE r = "JobStarted" -> [s EXCEPT !.pc = "watch", !.job = i.job, !.jobIn = i.boot]
    [] r = "Error" -> Done(s, 1)
    [] r \in Failed -> IpcError(s, r)
    [] OTHER -> Unexpected(s, 74)
AfterWatch(s, r, i) ==
  CASE r = "JobProgress" ->
         LET seen == [s EXCEPT !.foreign = @ \/ i.boot # s.jobIn]
         IN CASE i.state = "Running" -> [seen EXCEPT !.pc = "nap"]
              [] i.state = "Succeeded" -> Done(seen, 0)
              [] OTHER -> Done(seen, 1)
    [] r = "Error" -> Done(s, 1)
    [] r \in Failed -> IpcError(s, r)
    [] OTHER -> Unexpected(s, 74)

After(s, r, i, code) ==
  CASE s.pc = "simple" -> AfterSimple(s, r, code)
    [] s.pc = "boot" -> AfterBoot(s, r, i)
    [] s.pc = "set" -> AfterSet(s, r, i)
    [] s.pc = "restart" -> AfterRestart(s)
    [] s.pc = "poll" -> AfterPoll(s, r, i)
    [] s.pc = "lan status" -> AfterLanStatus(s, r)
    [] s.pc = "routes" -> AfterRoutes(s, r)
    [] s.pc = "info" -> AfterInfo(s, r)
    [] s.pc = "sites" -> AfterSites(s, r)
    [] s.pc \in {"channel", "check", "stage"} -> AfterUpdate(s, r, i)
    [] s.pc = "start" -> AfterStart(s, r, i)
    [] s.pc = "watch" -> AfterWatch(s, r, i)

-----------------------------------------------------------------------------
(* A command line is given: a refused argument, or --json with an apply, is *)
(* a usage error before any connection.                                     *)
Begin(c) ==
  /\ client[c].pc = "idle"
  /\ \E refused \in BOOLEAN :
       LET cmd == client[c].cmd
           json == client[c].json
           s == client[c]
       IN /\ refused => \/ cmd \in ValidatedCommands
                        \/ json /\ cmd \in {"update --yes", "update --yes --edge"}
          /\ json /\ cmd \in {"update --yes", "update --yes --edge"} => refused
          /\ client' = [client EXCEPT ![c] =
               IF refused THEN Done(s, 2) ELSE [s EXCEPT !.pc = FirstStep(cmd, json)]]
  /\ UNCHANGED <<daemon, disk, jobs, conn>>

(* transport::exchange_at: connect and send.  A stopping daemon's socket    *)
(* still takes the connection, into a backlog nobody will accept from.      *)
Connect(c) ==
  /\ client[c].pc \in Sending
  /\ conn[c].st = "none"
  /\ IF daemon.phase = "down"
     THEN /\ client' = [client EXCEPT ![c] = After(@, "refused", NoInfo, 1)]
          /\ UNCHANGED conn
     ELSE /\ conn' = [conn EXCEPT ![c] = [NoConn EXCEPT !.st = "backlog",
                                                       !.req = RequestAt(client[c])]]
          /\ UNCHANGED client
  /\ UNCHANGED <<daemon, disk, jobs>>

(* ... and read one reply, or see the connection end. *)
Receive(c) ==
  /\ \/ /\ conn[c].st = "written"
        /\ \E code \in ExitCodes(conn[c].reply) :
             client' = [client EXCEPT ![c] =
               After(@, conn[c].reply, conn[c].info, code)]
     \/ /\ conn[c].st = "dropped"
        /\ \E r \in {"closed", "reset"} :
             client' = [client EXCEPT ![c] = After(@, r, NoInfo, 1)]
  /\ conn' = [conn EXCEPT ![c] = NoConn]
  /\ UNCHANGED <<daemon, disk, jobs>>

(* tokio::time::sleep between two polls. *)
Wake(c) ==
  /\ client[c].pc \in {"sleep", "nap"}
  /\ client' = [client EXCEPT ![c].pc = IF @ = "sleep" THEN "poll" ELSE "watch"]
  /\ UNCHANGED <<daemon, disk, jobs, conn>>

-----------------------------------------------------------------------------
(* ipc_server::run: the accept loop, which a shutdown ends. *)
Accept(c) ==
  /\ daemon.phase = "serving"
  /\ conn[c].st = "backlog"
  /\ conn' = [conn EXCEPT ![c].st = "accepted"]
  /\ UNCHANGED <<daemon, disk, jobs, client>>

(* handle_client: the request is answered.  set_lan_enabled saves before it *)
(* answers Ok; JobRegistry::create numbers jobs from 0 in every process and *)
(* poll looks the number up in this one's.                                  *)
Poll(i) ==
  IF i < Len(jobs)
  THEN {<<"JobProgress", [NoInfo EXCEPT !.boot = daemon.boot, !.state = jobs[i + 1]]>>}
  ELSE {<<"Error", NoInfo>>}

Infos(req, k) ==
  LET here == [NoInfo EXCEPT !.boot = daemon.boot, !.config = daemon.config]
  IN CASE k = "JobStarted" ->
            {[here EXCEPT !.job = n] : n \in {Len(jobs)} \cap 0..(MaxJobs - 1)}
       [] k = "UpdateStatus" -> {[here EXCEPT !.available = a] : a \in BOOLEAN}
       [] req = "SetLanEnabled" -> {[here EXCEPT !.config = disk + 1]}
       [] OTHER -> {here}

Answers(c) ==
  IF conn[c].req = "JobStatus" THEN Poll(client[c].job)
  ELSE UNION {{<<k, i>> : i \in Infos(conn[c].req, k)} : k \in Replies[conn[c].req]}

Handle(c) ==
  /\ daemon.phase \in {"serving", "stopping"}
  /\ conn[c].st = "accepted"
  /\ \E a \in Answers(c) :
       /\ conn' = [conn EXCEPT ![c].st = "handled", ![c].reply = a[1], ![c].info = a[2]]
       /\ jobs' = IF a[1] = "JobStarted" THEN Append(jobs, "Running") ELSE jobs
       /\ disk' = IF conn[c].req = "SetLanEnabled" /\ a[1] = "Ok" THEN disk + 1 ELSE disk
  /\ daemon' = [daemon EXCEPT !.restart = @ \/ conn[c].req = "RestartDaemon"]
  /\ UNCHANGED client

Write(c) ==
  /\ daemon.phase \in {"serving", "stopping"}
  /\ conn[c].st = "handled"
  /\ conn' = [conn EXCEPT ![c].st = "written"]
  /\ daemon' = [daemon EXCEPT !.answered = TRUE]
  /\ UNCHANGED <<disk, jobs, client>>

(* A handler that has written its reply finds the restart flag set, whoever *)
(* set it, and starts the shutdown.                                         *)
SendShutdown ==
  /\ daemon.phase = "serving" /\ daemon.restart /\ daemon.answered
  /\ daemon' = [daemon EXCEPT !.phase = "stopping"]
  /\ UNCHANGED <<disk, jobs, conn, client>>

(* signals::wait: a termination signal starts it too. *)
Signal ==
  /\ daemon.phase = "serving" /\ daemon.boot < MaxBoots
  /\ daemon' = [daemon EXCEPT !.phase = "stopping"]
  /\ UNCHANGED <<disk, jobs, conn, client>>

(* The process ends, and with it the handlers, the backlog and the jobs. *)
Exit ==
  /\ daemon.phase = "stopping"
  /\ daemon' = [daemon EXCEPT !.phase = "down"]
  /\ conn' = [c \in Clients |->
       IF conn[c].st \in {"backlog", "accepted", "handled"}
       THEN [conn[c] EXCEPT !.st = "dropped"] ELSE conn[c]]
  /\ jobs' = <<>>
  /\ UNCHANGED <<disk, client>>

(* main: Outcome::Restart re-executes the binary; after a plain exit someone *)
(* may start the daemon again.  A new process has a boot id of its own.      *)
Boot ==
  /\ daemon.phase = "down" /\ daemon.boot < MaxBoots
  /\ daemon' = [phase |-> "serving", boot |-> daemon.boot + 1, config |-> disk,
                restart |-> FALSE, answered |-> FALSE]
  /\ UNCHANGED <<disk, jobs, conn, client>>

(* A job's task finishes (Jobs.tla). *)
Finish(i) ==
  /\ jobs[i] = "Running"
  /\ \E st \in JobStates \ {"Running"} : jobs' = [jobs EXCEPT ![i] = st]
  /\ UNCHANGED <<daemon, disk, conn, client>>

ClientStep(c) == Connect(c) \/ Receive(c) \/ Wake(c)
ServerStep(c) == Accept(c) \/ Handle(c) \/ Write(c)

(* Every command has ended and the daemon rests. *)
Rest ==
  /\ \A c \in Clients : client[c].pc = "done"
  /\ UNCHANGED cvars

Next ==
  \/ \E c \in Clients :
       Begin(c) \/ ClientStep(c) \/ ServerStep(c)
  \/ SendShutdown \/ Signal \/ Exit \/ Boot
  \/ \E i \in DOMAIN jobs : Finish(i)
  \/ Rest

(* Tokio runs every ready task, the daemon's and the client's; a job's task *)
(* ends.  Nobody owes the daemon a signal, nor a start after a plain exit.  *)
Fairness ==
  /\ \A c \in Clients : WF_cvars(ClientStep(c)) /\ WF_cvars(ServerStep(c))
  /\ WF_cvars(SendShutdown) /\ WF_cvars(Exit)
  /\ WF_cvars(daemon.restart /\ Boot)
  /\ WF_cvars(\E i \in DOMAIN jobs : Finish(i))

Spec == Init /\ [][Next]_cvars
FairSpec == Spec /\ Fairness

-----------------------------------------------------------------------------
TypeOK ==
  /\ daemon.phase \in {"serving", "stopping", "down"} /\ daemon.boot \in 1..MaxBoots
  /\ \A c \in Clients :
       /\ conn[c].req \in Requests /\ conn[c].reply \in Responses \cup {"none"}
       /\ client[c].cmd \in Commands
       /\ client[c].exit \in {0, 1, 2, 69, 74}

(* No command ends in the "unexpected response" arm of its flow: whatever   *)
(* kind the dispatcher answers a request with, the command that sent it has *)
(* a rendering for, in every flow and however restarts cut into it.         *)
NoUnexpectedReply == \A c \in Clients : ~client[c].unexpected

(* run_lan_toggle "enforces the daemon restart": when `yerd lan` reports     *)
(* success, the daemon that answered its last poll started from a config at *)
(* least as new as the one the command saved.  Left out is the toggle whose *)
(* flag was saved by another process than the one whose boot id it read: a  *)
(* restart by someone else came in between.                                 *)
RestartEnforced ==
  \A c \in Clients :
    client[c].cmd \in {"lan enable", "lan disable"} /\ client[c].pc = "done"
    /\ client[c].exit = 0 /\ client[c].setIn = client[c].before
      => client[c].seen >= client[c].saved

(* "If the daemon restarts mid-job, the id is gone": a poll by job id never  *)
(* shows the progress of a job that another daemon process numbered alike.  *)
(* Every command ends with an exit code, through restarts and failures. *)
EveryCommandEnds ==
  \A c \in Clients : client[c].pc # "idle" ~> client[c].pc = "done"
-----------------------------------------------------------------------------
(***************************************************************************)
(* One `yerd mcp` session (bin/yerd mcp_cmd.rs over crates/yerd-mcp): a     *)
(* JSON-RPC server that reads a line at a time from an agent, gates tool   *)
(* calls on the daemon's MCP setting as last seen, asks the daemon under a *)
(* timeout, and writes at most one reply per line.  The daemon may be down,*)
(* be stuck, or carry a call out after the session stopped waiting for it. *)
(***************************************************************************)
CONSTANTS CalledTools, \* the tools the agent calls
          MaxLines,    \* bound: lines the agent sends
          MaxFlips     \* bound: changes of the daemon's state by others

VARIABLES
  world,   \* the daemon: up, its MCP setting, and the changes left
  server,  \* Server: initialized, availability
  session, \* run_loop: where it is, the pending call, the lines left
  owed,    \* ids of the lines that are owed a reply, in order
  wrote,   \* the replies written, in order
  running, \* calls sent and not yet carried out by the daemon
  log      \* history: carried-out calls; whether a Status ever said enabled

mvars == <<world, server, session, owed, wrote, running, log>>

(* What handle_line tells apart in a line. *)
Malformed == {"too long", "not json", "batch", "not an object"}
Silent == {"a response", "no method, no id", "notification", "tools/call notification"}
Methods == {"no method", "initialize", "ping", "tools/list", "unknown method"}
(* ArgError: what create_site_spec and the req_/opt_ parsers refuse. *)
BadArguments == {"argument missing", "not a string", "not a boolean", "not a number",
                 "not a local url", "not a version", "not one of the choices"}
BadCalls == {"no tool name", "unknown tool"} \cup BadArguments
Lines == UNION {Malformed, Silent, Methods, BadCalls, CalledTools}

Availability == {"Enabled", "Disabled", "Unknown"}

(* availability_from, for an answered and for a failed probe. *)
AvailabilityFrom(answered) ==
  IF ~answered THEN "Unknown" ELSE IF world.mcp THEN "Enabled" ELSE "Disabled"

SessionInit ==
  /\ \E up, mcp \in BOOLEAN : world = [up |-> up, mcp |-> mcp, flips |-> MaxFlips]
  /\ server = [initialized |-> FALSE, availability |-> "Unknown"]
  /\ session = [pc |-> "probe", call |-> "none", line |-> 0, reply |-> "none"]
  /\ owed = <<>> /\ wrote = <<>> /\ running = {}
  /\ log = [done |-> <<>>, seen |-> FALSE]

(* A probe is answered only by a daemon that is up; it may time out anyway. *)
Probe(ok) ==
  /\ ok => world.up
  /\ log' = [log EXCEPT !.seen = @ \/ (ok /\ world.mcp)]

(* mcp_cmd::run. *)
Start ==
  /\ session.pc = "probe" /\ session.line = 0
  /\ \E ok \in BOOLEAN :
       /\ Probe(ok)
       /\ server' = [server EXCEPT !.availability = AvailabilityFrom(ok)]
  /\ session' = [session EXCEPT !.pc = "read"]
  /\ UNCHANGED <<world, owed, wrote, running>>

(* read_line and discard_to_newline; handle_line, dispatch, tools_call.  The *)
(* line's number stands for its id.                                          *)
(* Mutant: an unknown setting lets calls through. *)
AfterLine_Open(kind) ==
  CASE kind \in Silent -> "read"
    [] kind \in CalledTools /\ server.initialized ->
         IF server.availability # "Disabled" THEN "call" ELSE "repoll"
    [] OTHER -> "write"
(* Mutant: a notification is answered like a request. *)
AfterLine_Chatty(kind) ==
  CASE kind \in Silent \ {"notification"} -> "read"
    [] kind \in CalledTools /\ server.initialized ->
         IF server.availability = "Enabled" THEN "call" ELSE "repoll"
    [] OTHER -> "write"
AfterLine(kind) ==
  CASE kind \in Silent -> "read"
    [] kind \in CalledTools /\ server.initialized ->
         IF server.availability = "Enabled" THEN "call" ELSE "repoll"
    [] OTHER -> "write"

(* result_reply or error_reply, for a line answered on the spot. *)
ReplyTo(kind) ==
  IF kind \in {"initialize", "ping"} \/ (kind = "tools/list" /\ server.initialized)
  THEN "result" ELSE "rpc error"

ReadLine(kind) ==
  /\ session.pc = "read" /\ session.line < MaxLines
  /\ session' = [pc |-> AfterLine(kind), line |-> session.line + 1,
                 call |-> IF AfterLine(kind) \in {"call", "repoll"} THEN kind ELSE "none",
                 reply |-> ReplyTo(kind)]
  /\ server' = [server EXCEPT !.initialized = @ \/ kind = "initialize"]
  /\ owed' = IF kind \in Silent THEN owed ELSE Append(owed, session.line + 1)
  /\ UNCHANGED <<world, wrote, running, log>>

(* Outgoing::PolicyBlocked: the setting is read again, and an answer kept;  *)
(* the call goes ahead only if it now says enabled, else gate_reply.        *)
Repoll ==
  /\ session.pc = "repoll"
  /\ \E ok \in BOOLEAN :
       /\ Probe(ok)
       /\ LET now == IF ok THEN AvailabilityFrom(TRUE) ELSE server.availability
          IN /\ server' = [server EXCEPT !.availability = now]
             /\ session' = [session EXCEPT
                  !.pc = IF now = "Enabled" THEN "call" ELSE "write",
                  !.reply = "tool error"]
  /\ UNCHANGED <<world, owed, wrote, running>>

(* Outgoing::CallDaemon, exchange: the request is sent if the daemon is up. *)
Call ==
  /\ session.pc = "call"
  /\ IF world.up
     THEN /\ running' = running \cup {[line |-> session.line, req |-> BuildRequest[session.call]]}
          /\ session' = [session EXCEPT !.pc = "wait"]
     ELSE /\ session' = [session EXCEPT !.pc = "write", !.reply = "tool error"]
          /\ UNCHANGED running
  /\ UNCHANGED <<world, server, owed, wrote, log>>

(* The daemon carries a call out, waited for or not. *)
CarryOut(r) ==
  /\ world.up /\ r \in running
  /\ running' = running \ {r}
  /\ log' = [log EXCEPT !.done = Append(@, r.line)]
  /\ UNCHANGED <<world, server, session, owed, wrote>>

(* render: an Error is a tool error, every other reply a result. *)
Render(reply) == IF reply = "Error" THEN "tool error" ELSE "result"

(* PendingCall::complete: the daemon's answer, once it has carried the call *)
(* out, or describe's text when the exchange failed or ran into             *)
(* TOOL_EXCHANGE_TIMEOUT.                                                   *)
Complete(kind) ==
  /\ session.pc = "wait"
  /\ session' = [session EXCEPT !.pc = "write", !.reply = kind]
  /\ UNCHANGED <<world, server, owed, wrote, running, log>>
Answered ==
  /\ session.pc = "wait"
  /\ \E i \in DOMAIN log.done : log.done[i] = session.line
  /\ \E reply \in Replies[BuildRequest[session.call]] : Complete(Render(reply))
(* Mutant: the session waits for the daemon's answer without a timeout. *)
TimedOut_Never == session.pc = "wait" /\ UNCHANGED mvars
(* Mutant: a call that ran out of time is reported as done. *)
TimedOut_AsDone == Complete("result")
TimedOut == Complete("tool error")

WriteLine ==
  /\ session.pc = "write"
  /\ wrote' = Append(wrote, [line |-> session.line, reply |-> session.reply,
                             call |-> session.call])
  /\ session' = [session EXCEPT !.pc = "read", !.call = "none"]
  /\ UNCHANGED <<world, server, owed, running, log>>

(* Someone flips the setting, stops the daemon (its unfinished calls with   *)
(* it) or starts it.                                                        *)
Flip ==
  /\ world.flips > 0
  /\ \/ world' = [world EXCEPT !.mcp = ~@, !.flips = @ - 1] /\ UNCHANGED running
     \/ /\ world' = [world EXCEPT !.up = ~@, !.flips = @ - 1]
        /\ running' = {}
  /\ UNCHANGED <<server, session, owed, wrote, log>>

(* Input::Eof. *)
Eof ==
  /\ session.pc = "read" /\ session.line = MaxLines
  /\ UNCHANGED mvars

SessionStep == Start \/ Repoll \/ Call \/ Answered \/ TimedOut \/ WriteLine
SessionNext ==
  \/ SessionStep
  \/ \E kind \in Lines : ReadLine(kind)
  \/ \E r \in running : CarryOut(r)
  \/ Flip \/ Eof

SessionSpec == SessionInit /\ [][SessionNext]_mvars
(* Only the session's own steps are fair: a timeout ends every exchange, so *)
(* nothing is asked of the daemon.                                          *)
FairSessionSpec == SessionSpec /\ WF_mvars(SessionStep)

-----------------------------------------------------------------------------
SessionTypeOK ==
  /\ server.availability \in Availability
  /\ session.pc \in {"probe", "read", "repoll", "call", "wait", "write"}

(* A tool call reaches the daemon only in a session that was initialised and *)
(* in which some Status answer said the MCP setting was on.                  *)
CallsAreGated ==
  running # {} \/ log.done # <<>> => log.seen /\ server.initialized

(* One line in, at most one reply out, in order: between two lines exactly   *)
(* the lines that are owed a reply have had it, and no call is carried out  *)
(* twice, late answers and lost ones included.                              *)
RepliesMatchLines ==
  /\ session.pc = "read" => [i \in DOMAIN wrote |-> wrote[i].line] = owed
  /\ \A i, j \in DOMAIN log.done : i # j => log.done[i] # log.done[j]

(* A tool call is reported as done only if the daemon carried it out; one    *)
(* that timed out is never reported so, though the daemon may do it later.  *)
NoFalseSuccess ==
  \A i \in DOMAIN wrote :
    wrote[i].call # "none" /\ wrote[i].reply = "result" =>
      \E j \in DOMAIN log.done : log.done[j] = wrote[i].line
=============================================================================
