------------------------------- MODULE CliState --------------------------------
(* The settings goyais-cli keeps in files: the state of the project, its MCP   *)
(* servers and the user's global configuration. A command is a process of its  *)
(* own: it reads the whole file, works on what it read, and writes the whole   *)
(* file, and nothing keeps two of them apart. Writing empties the file first:  *)
(* a process that reads, or dies, then leaves the defaults. A file that breaks *)
(* off in the middle is refused by every command from then on.                 *)
(* One name per kind of setting stands for the many; what an entry says beyond *)
(* whether it is there, on or off is left out.                                 *)
EXTENDS Naturals, FiniteSets, TLC

CONSTANTS Shells,      \* the terminals, each runs one command at a time
          MaxCommands, \* bound on the commands
          MaxKills     \* bound on commands killed, or out of disk, while they write

ASSUME CliAssumption == MaxCommands \in Nat /\ MaxKills \in Nat

VARIABLES stored,   \* per file: its form, and the entries written
          shell,    \* per terminal: the command it runs and what that worked out
          used,     \* did the files have settings to begin with
          asked,    \* per entry: what the last command about it that succeeded asked for
          disturbed,\* the files a write of which overtook another, or broke off
          issued, kills

cliVars == <<stored, shell, used, asked, disturbed, issued, kills>>

PluginScopes == {"user", "project", "local"}
ServerScopes == {"local", "user", "project", "mcprc"}

\* commandState: what a key of it may say.
StateKeys ==
  {<<"config">>, <<"context">>, <<"tool">>, <<"main">>, <<"quick">>, <<"profiles">>,
   <<"market">>, <<"skill">>, <<"project::skill">>, <<"session">>, <<"choices">>}
  \cup {<<sc, "plugin">> : sc \in PluginScopes}

\* mcpServerState: one server name, one entry per scope it was added to.
ServerKeys == {<<sc, "server">> : sc \in ServerScopes}

FileNames == {"state", "servers", "global"}
KeysOf(f) == CASE f = "state" -> StateKeys [] f = "servers" -> ServerKeys
               [] f = "global" -> {<<"global">>}
Keys == UNION {KeysOf(f) : f \in FileNames}

\* defaultCommandState: what a command starts from where there is no file.
Default(k) == IF k \in {<<"tool">>, <<"main">>, <<"quick">>, <<"profiles">>}
              THEN "default" ELSE "none"
Defaults(f) == [k \in KeysOf(f) |-> Default(k)]

\* loadCommandState, loadMCPState, loadGlobalConfig: the file is laid over the defaults,
\* so a model pointer that is not in it is the default one again. {} is an error.
Loaded(f, d) ==
  CASE d.form = "torn"  -> {}
    [] d.form = "empty" -> {Defaults(f)}
    [] OTHER -> {[k \in KeysOf(f) |->
                   IF k \in {<<"main">>, <<"quick">>} /\ d.has[k] = "none"
                   THEN Default(k) ELSE d.has[k]]}
-------------------------------------------------------------------------------
(* The commands. Each is given the entries it read and says what they become; *)
(* {} is a command that refuses. c is the command: what it does, its scope    *)
(* ("none": not said) and what the file it imports, if it does, contains.     *)

Set(s, k, v) == {[s EXCEPT ![k] = v]}
Unset(s, k) == IF s[k] = "none" THEN {} ELSE Set(s, k, "none")

configKey(c) == IF c.scope = "global" THEN <<"global">> ELSE <<"config">>
ConfigSet(c, s) == Set(s, configKey(c), "on")
ConfigRemove(c, s) == Set(s, configKey(c), "none")
ContextSet(c, s) == Set(s, <<"context">>, "on")
ContextRemove(c, s) == Set(s, <<"context">>, "none")

\* The pointers of the import replace all; profiles are kept when it has none, unless
\* --replace dropped them, and then a placeholder stands in.
ModelsImport(c, s) ==
  LET replace == c.scope = "replace"
      pointer(k) == IF k[1] \in c.imports THEN "imported"
                    ELSE IF replace \/ c.imports \cap {"main", "quick"} # {} THEN "none"
                    ELSE s[k]
      profiles == IF "profiles" \in c.imports THEN "imported"
                  ELSE IF replace THEN "placeholder" ELSE s[<<"profiles">>]
  IN  {[s EXCEPT ![<<"main">>] = pointer(<<"main">>), ![<<"quick">>] = pointer(<<"quick">>),
                 ![<<"profiles">>] = profiles]}

MarketplaceAdd(c, s) == Set(s, <<"market">>, "on")
MarketplaceRemove(c, s) == Unset(s, <<"market">>)
\* One, or all there are: only the time of the update changes.
MarketplaceUpdate(c, s) == IF s[<<"market">>] = "none" THEN {} ELSE {s}

pluginKey(scope) == <<IF scope = "none" THEN "user" ELSE scope, "plugin">>
PluginInstall(c, s) == Set(s, pluginKey(c.scope), "on")
PluginUninstall(c, s) == Unset(s, pluginKey(c.scope))
PluginToggle(c, s) ==
  IF s[pluginKey(c.scope)] = "none" THEN {}
  ELSE Set(s, pluginKey(c.scope), IF c.do = "plugin enable" THEN "on" ELSE "off")

skillKey(c) == IF c.scope = "project" THEN <<"project::skill">> ELSE <<"skill">>
SkillsInstall(c, s) == Set(s, skillKey(c), "on")

SkillsUninstall_OneKey(c, s) == Unset(s, <<"skill">>)
SkillsUninstall(c, s) == Unset(s, skillKey(c))

ApprovedToolsRemove(c, s) == Unset(s, <<"tool">>)

\* persistSessionID: every command has an engine of its own, the first session of which is
\* sess_1; an identifier the file has is not written again.
persistSessionID(s) == Set(s, <<"session">>, "on")
SessionStart(c, s) == persistSessionID(s)
Resume(c, s) == persistSessionID(s)
ResetChoices(c, s) == Set(s, <<"choices">>, "none")

mcpServerKey(scope, default) == <<IF scope = "none" THEN default ELSE scope, "server">>
transport(c) == IF "url" \in c.imports THEN "url" ELSE "command"
MCPAddURLTransport(c, s) == Set(s, mcpServerKey(c.scope, "local"), "url")
MCPAdd(c, s) == \* an URL with variables, or a command with headers, is refused
  CASE c.imports \in {{"url", "env"}, {"command", "headers"}} -> {}
    [] OTHER -> Set(s, mcpServerKey(c.scope, "local"), transport(c))
MCPAddInteractive(c, s) == \* the file is read after the last answer
  IF c.imports = {"wizard"} THEN {} ELSE Set(s, mcpServerKey(c.scope, "local"), transport(c))
MCPAddJSON(c, s) == \* a type with no URL, or no command, to go with it is refused
  IF c.imports = {} THEN {} ELSE Set(s, mcpServerKey(c.scope, "project"), transport(c))
\* A desktop entry is taken as it is; where it has no type it keeps none.
MCPAddFromClaudeDesktop(c, s) ==
  IF c.imports = {} THEN {} ELSE Set(s, mcpServerKey(c.scope, "project"), "desktop")

MCPRemove(c, s) ==
  LET found == {k \in ServerKeys : s[k] # "none"}
  IN  IF c.scope # "none" THEN Unset(s, mcpServerKey(c.scope, "none"))
      ELSE UNION {Set(s, k, "none") : k \in IF Cardinality(found) = 1 THEN found ELSE {}}

\* executeLeafCommand: the handler of a command.
executeLeafCommand(c, s) ==
  CASE c.do = "config set" -> ConfigSet(c, s)
    [] c.do = "config remove" -> ConfigRemove(c, s)
    [] c.do = "context set" -> ContextSet(c, s)
    [] c.do = "context remove" -> ContextRemove(c, s)
    [] c.do = "models import" -> ModelsImport(c, s)
    [] c.do = "plugin marketplace add" -> MarketplaceAdd(c, s)
    [] c.do = "plugin marketplace remove" -> MarketplaceRemove(c, s)
    [] c.do = "plugin marketplace update" -> MarketplaceUpdate(c, s)
    [] c.do = "plugin install" -> PluginInstall(c, s)
    [] c.do = "plugin uninstall" -> PluginUninstall(c, s)
    [] c.do \in {"plugin enable", "plugin disable"} -> PluginToggle(c, s)
    [] c.do = "skills install" -> SkillsInstall(c, s)
    [] c.do = "skills uninstall" -> SkillsUninstall(c, s)
    [] c.do = "approved-tools remove" -> ApprovedToolsRemove(c, s)
    [] c.do = "session start" -> SessionStart(c, s)
    [] c.do = "resume" -> Resume(c, s)
    [] c.do = "mcp reset-project-choices" -> ResetChoices(c, s)
    [] c.do = "mcp add-http" -> MCPAddURLTransport(c, s)
    [] c.do = "mcp add" /\ "wizard" \notin c.imports -> MCPAdd(c, s)
    [] c.do = "mcp add" /\ "wizard" \in c.imports -> MCPAddInteractive(c, s)
    [] c.do = "mcp add-json" -> MCPAddJSON(c, s)
    [] c.do = "mcp add-from-claude-desktop" -> MCPAddFromClaudeDesktop(c, s)
    [] c.do = "mcp remove" -> MCPRemove(c, s)
-------------------------------------------------------------------------------
\* The commands of the instance, each with what its user means by it: wants gives the
\* entries it is about and what they are to be.
Command(do, file, scope, imports, wants) ==
  [do |-> do, file |-> file, scope |-> scope, imports |-> imports, wants |-> wants]
Plain(do, k, v) == Command(do, "state", "none", {}, {<<k, v>>})
Server(do, scope, imports, in) ==
  Command(do, "servers", scope, imports,
          {<<<<in, "server">>, IF "url" \in imports THEN "url" ELSE "command">>})

PlainCommands ==
  {Plain("config set", <<"config">>, "on"), Plain("config remove", <<"config">>, "none"),
   Command("config set", "global", "global", {}, {<<<<"global">>, "on">>}),
   Command("config remove", "global", "global", {}, {<<<<"global">>, "none">>}),
   Plain("context set", <<"context">>, "on"), Plain("context remove", <<"context">>, "none"),
   Plain("plugin marketplace add", <<"market">>, "on"),
   Plain("plugin marketplace remove", <<"market">>, "none"),
   Command("plugin marketplace update", "state", "none", {}, {}),
   Plain("approved-tools remove", <<"tool">>, "none"),
   Plain("session start", <<"session">>, "on"), Plain("resume", <<"session">>, "on"),
   Plain("mcp reset-project-choices", <<"choices">>, "none")}
PluginCommand(do, scope) ==
  Command(do, "state", scope, {},
          {<<pluginKey(scope), CASE do = "plugin uninstall" -> "none"
                                 [] do = "plugin disable" -> "off"
                                 [] OTHER -> "on">>})
SkillCommand(do, scope) ==
  Command(do, "state", scope, {},
          {<<IF scope = "none" THEN <<"skill">> ELSE <<"project::skill">>,
             IF do = "skills install" THEN "on" ELSE "none">>})
ScopedCommands ==
  UNION {{PluginCommand(d, sc) :
            d \in {"plugin install", "plugin uninstall", "plugin enable", "plugin disable"}}
         \cup {SkillCommand(d, sc) : d \in {"skills install", "skills uninstall"}} :
           sc \in {"none", "project"}}
Import(scope, imports) ==
  Command("models import", "state", scope, imports,
          {<<k, IF k[1] \in imports THEN "imported" ELSE "none">> :
             k \in IF scope = "replace" \/ "main" \in imports
                   THEN {<<"main">>, <<"quick">>} ELSE {}}
          \cup {<<<<"profiles">>, IF "profiles" \in imports THEN "imported" ELSE "placeholder">> :
                  x \in IF scope = "replace" \/ "profiles" \in imports THEN {1} ELSE {}})
Imports ==
  {Import(sc, i) : sc \in {"none", "replace"}, i \in {{}, {"main"}, {"main", "profiles"}}}
ServerCommands ==
  {Server("mcp add-http", "none", {"url"}, "local"),
   Server("mcp add-http", "user", {"url"}, "user"),
   Server("mcp add", "none", {"command"}, "local"),
   Server("mcp add", "mcprc", {"url"}, "mcprc"),
   Server("mcp add", "none", {"url", "env"}, "local"),
   Server("mcp add", "none", {"wizard"}, "local"),
   Server("mcp add", "user", {"wizard", "url"}, "user"),
   Server("mcp add-json", "none", {"url"}, "project"),
   Server("mcp add-json", "none", {}, "project"),
   Command("mcp add-from-claude-desktop", "servers", "none", {"all"},
           {<<<<"project", "server">>, "desktop">>}),
   Command("mcp remove", "servers", "none", {}, {<<k, "none">> : k \in ServerKeys}),
   Command("mcp remove", "servers", "user", {}, {<<<<"user", "server">>, "none">>})}
Commands == PlainCommands \cup ScopedCommands \cup Imports \cup ServerCommands

Wanted(c) == {w[1] : w \in c.wants}
Asked(a, c) ==
  [k \in Wanted(c) \cup DOMAIN a |->
     IF k \in Wanted(c) THEN (CHOOSE w \in c.wants : w[1] = k)[2] ELSE a[k]]
-------------------------------------------------------------------------------
Idle == [step |-> "idle"]

\* Files nobody wrote yet, or ones in which every kind of setting was put.
First(k) == IF ~used \/ k = <<"mcprc", "server">> THEN Default(k) ELSE "on"

CliInit ==
  /\ used \in BOOLEAN
  /\ stored = [f \in FileNames |->
                 IF used THEN [form |-> "whole", has |-> [k \in KeysOf(f) |-> First(k)]]
                 ELSE [form |-> "empty", has |-> <<>>]]
  /\ asked = <<>>
  /\ shell = [t \in Shells |-> Idle]
  /\ disturbed = {} /\ issued = 0 /\ kills = 0

\* persistSessionID and resume write nothing when the file has the identifier.
NothingToSave(c, s) == c.do \in {"session start", "resume"} /\ s[<<"session">>] = "on"

\* A command reads its file and works out what to write. One that refuses, or has nothing
\* to write, ends here.
Run(t, c) ==
  /\ shell[t].step = "idle" /\ issued < MaxCommands
  /\ issued' = issued + 1
  /\ LET loaded == {l \in Loaded(c.file, stored[c.file]) : ~NothingToSave(c, l)}
         results == UNION {executeLeafCommand(c, l) : l \in loaded}
     IN  \/ /\ results = {}
            /\ UNCHANGED shell
         \/ \E s \in results :
              shell' = [shell EXCEPT ![t] = [step |-> "read", command |-> c, result |-> s,
                                             fresh |-> TRUE]]
  /\ UNCHANGED <<stored, used, asked, disturbed, kills>>

\* What a write to f does to the others that work on it: what they read is old.
Outdated(t, f) ==
  [u \in Shells |-> IF u # t /\ shell[u].step # "idle" /\ shell[u].command.file = f
                    THEN [shell[u] EXCEPT !.fresh = FALSE] ELSE shell[u]]

\* os.WriteFile empties the file, ...
Truncate(t) ==
  /\ shell[t].step = "read"
  /\ LET f == shell[t].command.file
     IN  /\ stored' = [stored EXCEPT ![f] = [form |-> "empty", has |-> <<>>]]
         /\ shell' = [Outdated(t, f) EXCEPT ![t].step = "emptied"]
         /\ disturbed' = disturbed \cup {g \in {f} : ~shell[t].fresh}
  /\ UNCHANGED <<used, asked, issued, kills>>

\* ... and writes. Over the text of another the longer one shows at the end.
saveState(t) ==
  /\ shell[t].step = "emptied"
  /\ LET f == shell[t].command.file
     IN  /\ \E form \in IF stored[f].form = "empty" THEN {"whole"} ELSE {"whole", "torn"} :
              stored' = [stored EXCEPT ![f] = [form |-> form,
                         has |-> IF form = "torn" THEN <<>> ELSE shell[t].result]]
         /\ shell' = [Outdated(t, f) EXCEPT ![t] = Idle]
         /\ disturbed' = disturbed \cup {g \in {f} : ~shell[t].fresh}
         /\ asked' = Asked(asked, shell[t].command)
  /\ UNCHANGED <<used, issued, kills>>

\* The command is killed, or the disk is full, while it writes.
BreakOff(t) ==
  /\ shell[t].step = "emptied" /\ kills < MaxKills
  /\ kills' = kills + 1
  /\ LET f == shell[t].command.file
     IN  /\ \/ UNCHANGED stored
            \/ stored' = [stored EXCEPT ![f] = [form |-> "torn", has |-> <<>>]]
         /\ shell' = [Outdated(t, f) EXCEPT ![t] = Idle]
         /\ disturbed' = disturbed \cup {f}
  /\ UNCHANGED <<used, asked, issued>>

CliNext ==
  \E t \in Shells : \/ \E c \in Commands : Run(t, c)
                    \/ Truncate(t) \/ saveState(t) \/ BreakOff(t)

CliSpec == CliInit /\ [][CliNext]_cliVars
-------------------------------------------------------------------------------
\* A file in which no write overtook another or broke off says, of every entry, what the
\* last command about that entry asked for: no command touches the settings of another
\* kind or scope, and none it refuses is half done. (handlers.go: what two commands at
\* once may lose is whatever one of them read before the other wrote.)
SettingsAreKept ==
  \A f \in FileNames \ disturbed :
    (\A t \in Shells : shell[t].step = "emptied" => shell[t].command.file # f)
      => LET meant == [form |-> "whole",
                   has |-> [k \in KeysOf(f) |->
                              IF k \in DOMAIN asked THEN asked[k] ELSE First(k)]]
         IN  \A s \in Loaded(f, meant) :
               \E l \in Loaded(f, stored[f]) : \A k \in KeysOf(f) : l[k] = s[k]
===============================================================================
