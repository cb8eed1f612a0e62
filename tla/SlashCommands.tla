---------------------------- MODULE SlashCommands ----------------------------
(* The slash commands of a session and the assets they come from: prompt files *)
(* (extensions/slash/registry.go), skills (skills/loader.go), output styles    *)
(* (outputstyles/loader.go), prompts of MCP servers (mcp/prompts.go), each     *)
(* looked for in the project, in the plugins (plugins/manager.go, assets.go),  *)
(* at the user's and in what comes with the program, by a loader of its own;   *)
(* then the registry and its dispatch (context/composer/dispatch.go).          *)
(*                                                                             *)
(* A registry is built once, one kind after the other, while files change; a   *)
(* prompt file's text is kept in it, a skill is looked for and read again by   *)
(* every command. A file's text is the number of the edit that made it.        *)
EXTENDS Naturals, Sequences

CONSTANTS
  Assets,        \* what may be there: files, and the directories of skills
  PluginNames,   \* the names plugins may have are 1 to this, in the order of names
  Plugins,       \* the plugins, in the order of discovery: the home's, the project's
  Installations, \* the sets of plugins that may be there to begin with
  MaxAssetEdits, MaxDispatches \* bounds

Kinds == {"command", "skill", "style"}

\* An asset has the name of its file and the one its frontmatter gives it, if any.
Asset(kind, place, file, title) ==
  [kind |-> kind, place |-> place, file |-> file, title |-> title]

\* A plugin has a name, a place, and the kinds its manifest has something of to
\* offer; a path is one asset.
ASSUME SlashAssumption ==
  /\ {PluginNames, MaxAssetEdits, MaxDispatches} \subseteq Nat
  /\ Plugins \in Seq([id : 1..PluginNames, root : STRING, offers : SUBSET Kinds])
  /\ \A i, j \in 1..Len(Plugins) : Plugins[i].root = Plugins[j].root => i = j
  /\ \A i \in 1..Len(Plugins) : Plugins[i].root \notin {"project", "user", "builtin"}
  /\ \A S \in Installations : S \subseteq 1..Len(Plugins)
  /\ Assets \subseteq [kind : Kinds, place : STRING, file : STRING, title : STRING]
  /\ \A a \in Assets : \/ a.place \in {"project", "user"}
                       \/ \E i \in 1..Len(Plugins) : a.place = Plugins[i].root
  /\ \A a, b \in Assets :
       a.kind = b.kind /\ a.place = b.place /\ a.file = b.file => a = b

NoAsset == Asset("none", "none", "none", "")

VARIABLES
  disk,      \* asset -> its text, 0 when it is not there
  installed, \* the plugins that are there
  answers,   \* whether the MCP server answers
  gathered,  \* the registry under construction: name -> entry
  building,  \* what is gathered next
  registry,  \* name -> entry
  atWork,    \* the command under way
  style,     \* the style in slash-state.json
  ran,       \* ghost: what the last command ran
  changed,   \* ghost: the assets that changed since the registry was begun
  assetEdits, dispatches \* counts

slashVars == <<disk, installed, answers, gathered, building, registry, atWork, style, ran,
               changed, assetEdits, dispatches>>

NotAtWork == [name |-> "", asset |-> NoAsset]
NothingRan == [what |-> "none", name |-> "", asset |-> NoAsset, text |-> 0]
NoEntries == [name \in {} |-> NotAtWork]

SlashInit ==
  /\ disk \in [Assets -> {0, 1}]
  /\ installed \in Installations /\ answers = TRUE
  /\ gathered = NoEntries /\ building = "none" /\ registry = NoEntries
  /\ atWork = NotAtWork /\ style = "" /\ ran = NothingRan
  /\ changed = {} /\ assetEdits = 0 /\ dispatches = 0

There(kind, places) == {a \in Assets : a.kind = kind /\ a.place \in places /\ disk[a] # 0}

\* Manager.Discover: of two plugins with one id the first found, the home's, counts.
FoundPlugins ==
  {i \in installed : \A j \in installed : j < i => Plugins[j].id # Plugins[i].id}

\* DiscoverAssetRoots, one id after the other: what offers nothing of the kind has
\* no directory for it.
AssetRoots(kind) ==
  [id \in 1..PluginNames |->
     LET offering == {i \in FoundPlugins : Plugins[i].id = id /\ kind \in Plugins[i].offers}
     IN {Plugins[i].root : i \in offering}]

\* Where a loader looks first, where last, and in between the plugins.
PluginsBetween(first, kind, last) == <<{first}>> \o AssetRoots(kind) \o <<{last}>>

(* Prompt files and skills: the places in order, the first of a name is kept.  *)
(* Neither looks at the title of a skill for this.                             *)
Unseen(kept, found) == {a \in found : \A b \in kept : b.file # a.file}

FirstOfAName(kind, places) ==
  LET kept[n \in 0..Len(places)] ==
        IF n = 0 THEN {}
        ELSE kept[n - 1] \cup Unseen(kept[n - 1], There(kind, places[n]))
  IN kept[Len(places)]

\* Mutant: the user's commands before those of the plugins.
CommandFiles_UserFirst ==
  FirstOfAName("command", <<{"project"}, {"user"}>> \o AssetRoots("command"))
\* loadCustomPromptCommands
CommandFiles == FirstOfAName("command", PluginsBetween("project", "command", "user"))

\* Loader.discover of the skills
Skills == FirstOfAName("skill", PluginsBetween("project", "skill", "user"))

TitleOf(a) == IF a.title = "" THEN a.file ELSE a.title

(* Output styles: every place has a priority, and a style replaces one of a    *)
(* lower priority only; the plugins come last. The first style comes with the  *)
(* program. Of two with one title in one place, either may be the first.       *)
BuiltinStyle == Asset("style", "builtin", "default", "")
Priority(a) == CASE a.place = "builtin" -> 10
                 [] a.place = "user" -> 20
                 [] a.place = "project" -> 40
                 [] OTHER -> 30

Replaced(kept, found) ==
  LET better == {a \in found : kept # NoAsset => Priority(kept) < Priority(a)}
  IN IF better = {} THEN kept ELSE CHOOSE a \in better : TRUE

StylePlaces == <<{"user"}, {"project"}>> \o AssetRoots("style")

StyleOf(name) ==
  LET Called(places) == {a \in There("style", places) : TitleOf(a) = name}
      kept[n \in 0..Len(StylePlaces)] ==
        IF n = 0 THEN IF name = TitleOf(BuiltinStyle) THEN BuiltinStyle ELSE NoAsset
        ELSE Replaced(kept[n - 1], Called(StylePlaces[n]))
  IN kept[Len(StylePlaces)]

\* The names one may ask for a style by.
StyleNames ==
  {BuiltinStyle.file} \cup UNION {{a.file, TitleOf(a)} : a \in {b \in Assets : b.kind = "style"}}
-------------------------------------------------------------------------------
(* Files, plugins and the server change.                                       *)

Edits(which) ==
  /\ building # "none" \/ registry # NoEntries
  /\ assetEdits < MaxAssetEdits /\ assetEdits' = assetEdits + 1
  /\ changed' = changed \cup which
  /\ UNCHANGED <<gathered, building, registry, atWork, style, ran, dispatches>>

EditAsset(a, removes) ==
  /\ removes => disk[a] # 0
  /\ disk' = [disk EXCEPT ![a] = IF removes THEN 0 ELSE assetEdits + 2]
  /\ Edits({a}) /\ UNCHANGED <<installed, answers>>

Uninstall(i) ==
  /\ i \in installed /\ installed' = installed \ {i}
  /\ Edits(Assets) /\ UNCHANGED <<disk, answers>>

ServerStops == answers /\ answers' = FALSE /\ Edits({}) /\ UNCHANGED <<disk, installed>>
-------------------------------------------------------------------------------
(* BuildComposerRegistry: the kinds one after the other.                       *)

Entry(what, asset, text) == [what |-> what, asset |-> asset, text |-> text]

\* NewStaticRegistry: of two entries with one name the first is kept.
KeepFirst(old, new) ==
  [name \in DOMAIN old \cup DOMAIN new |-> IF name \in DOMAIN old THEN old[name] ELSE new[name]]

BuildRegistry ==
  /\ building = "none" /\ registry = NoEntries
  /\ building' = "files" /\ changed' = {}
  /\ UNCHANGED <<disk, installed, answers, gathered, registry, atWork, style, ran, assetEdits,
                 dispatches>>

GatherCommandFiles ==
  LET Named(name) == CHOOSE a \in CommandFiles : a.file = name
  IN /\ building = "files" /\ building' = "skills"
     /\ gathered' = [name \in {a.file : a \in CommandFiles} |->
                       Entry("prompt", Named(name), disk[Named(name)])]
     /\ UNCHANGED <<disk, installed, answers, registry, atWork, style, ran, changed, assetEdits,
                    dispatches>>

\* A skill goes by its title here; of two with one title, the one with the first
\* path, which either may have.
GatherSkills ==
  /\ building = "skills" /\ building' = "servers"
  /\ \E first \in [{TitleOf(a) : a \in Skills} -> Skills] :
       /\ \A title \in DOMAIN first : TitleOf(first[title]) = title
       /\ gathered' = KeepFirst(gathered,
                                [title \in DOMAIN first |-> Entry("skill", first[title], 0)])
  /\ UNCHANGED <<disk, installed, answers, registry, atWork, style, ran, changed, assetEdits,
                 dispatches>>

\* DiscoverPromptCommands, and the two commands that come with the program.
GatherPrompts ==
  LET prompts == [name \in IF answers THEN {"srv:fix"} ELSE {} |-> Entry("remote", NoAsset, 0)]
      own == [name \in {"output-style", "help"} |->
                Entry(IF name = "help" THEN "help" ELSE "style", NoAsset, 0)]
  IN /\ building = "servers" /\ building' = "none" /\ gathered' = NoEntries
     /\ registry' = KeepFirst(KeepFirst(gathered, prompts), own)
     /\ UNCHANGED <<disk, installed, answers, atWork, style, ran, changed, assetEdits, dispatches>>
-------------------------------------------------------------------------------
(* DispatchCommand.                                                            *)

Ran(what, name, asset, text) ==
  ran' = [what |-> what, name |-> name, asset |-> asset, text |-> text]

Dispatched(name) ==
  /\ name \in DOMAIN registry /\ atWork = NotAtWork
  /\ dispatches < MaxDispatches /\ dispatches' = dispatches + 1
  /\ UNCHANGED <<disk, installed, answers, gathered, building, registry, changed, assetEdits>>

\* A prompt file as it was read; the help as it is; a prompt from the server, if
\* it still answers.
DispatchPrompt(name) ==
  /\ Dispatched(name) /\ registry[name].what \in {"prompt", "help", "remote"}
  /\ IF registry[name].what = "remote" /\ ~answers THEN Ran("error", name, NoAsset, 0)
     ELSE Ran(registry[name].what, name, registry[name].asset, registry[name].text)
  /\ UNCHANGED <<atWork, style>>

\* handleOutputStyleCommand: the style must be there when it is set.
DispatchStyle(target) ==
  /\ Dispatched("output-style") /\ registry["output-style"].what = "style"
  /\ IF StyleOf(target) = NoAsset THEN style' = style /\ Ran("error", "output-style", NoAsset, 0)
     ELSE style' = target /\ Ran("style", "output-style", NoAsset, 0)
  /\ UNCHANGED atWork

\* Loader.Resolve: the skill whose directory is named as the entry's skill is titled ...
FindSkill(name) ==
  /\ Dispatched(name) /\ registry[name].what = "skill"
  /\ LET found == {a \in Skills : a.file = TitleOf(registry[name].asset)}
     IN \/ found = {} /\ Ran("error", name, NoAsset, 0) /\ UNCHANGED atWork
        \/ \E a \in found : atWork' = [name |-> name, asset |-> a] /\ UNCHANGED ran
  /\ UNCHANGED style

\* ... is read once more, and its commands are run.
ReadSkill ==
  /\ atWork # NotAtWork /\ atWork' = NotAtWork
  /\ \/ /\ disk[atWork.asset] # 0
        /\ Ran("skill", atWork.name, atWork.asset, disk[atWork.asset])
     \/ Ran("error", atWork.name, NoAsset, 0)
  /\ UNCHANGED <<disk, installed, answers, gathered, building, registry, style, changed,
                 assetEdits, dispatches>>

SlashNext ==
  \/ \E a \in Assets, removes \in BOOLEAN : EditAsset(a, removes)
  \/ \E i \in 1..Len(Plugins) : Uninstall(i)
  \/ ServerStops
  \/ BuildRegistry \/ GatherCommandFiles \/ GatherSkills \/ GatherPrompts
  \/ \E name \in DOMAIN registry : DispatchPrompt(name) \/ FindSkill(name)
  \/ \E target \in StyleNames : DispatchStyle(target)
  \/ ReadSkill

SlashSpec == SlashInit /\ [][SlashNext]_slashVars
-------------------------------------------------------------------------------
\* Where an asset stands: the project, the plugins by id, the user, the program.
Rank(a) ==
  CASE a.place = "project" -> 0
    [] a.place = "user" -> PluginNames + 1
    [] a.place = "builtin" -> PluginNames + 2
    [] OTHER -> LET i == CHOOSE j \in 1..Len(Plugins) : Plugins[j].root = a.place IN Plugins[i].id

\* What is there and may be seen: of a plugin, what it offers, and nothing where
\* another one hides it.
Visible(kind) ==
  {a \in Assets : /\ a.kind = kind /\ disk[a] # 0
                  /\ \/ a.place \in {"project", "user"}
                     \/ \E i \in FoundPlugins :
                          kind \in Plugins[i].offers /\ a.place = Plugins[i].root}

Foremost(among) == {a \in among : \A b \in among : Rank(a) <= Rank(b)}

\* Of the assets of a kind, the foremost with its file's name, for every name.
ForemostByFile(kind) ==
  {a \in Visible(kind) : a \in Foremost({b \in Visible(kind) : b.file = a.file})}

StylesCalled(name) == {a \in Visible("style") \cup {BuiltinStyle} : TitleOf(a) = name}

(* The three loaders, each with an order of its own making, come to one order: *)
(* whatever is installed, the asset that gets a name is the foremost with it,  *)
(* and there is no second one of that name.                                    *)
OneOrder ==
  /\ CommandFiles = ForemostByFile("command") /\ Skills = ForemostByFile("skill")
  /\ \A a, b \in CommandFiles : a.file = b.file => a = b
  /\ \A a, b \in Skills : a.file = b.file => a = b
  /\ \A name \in StyleNames :
       IF StylesCalled(name) = {} THEN StyleOf(name) = NoAsset
       ELSE StyleOf(name) \in Foremost(StylesCalled(name))

\* A skill command runs the skill it stands for, in its present text, unless
\* something changed since or the skill's title is not its directory's name.
RunsWhatItNames ==
  LET entry == registry[ran.name]
  IN /\ ran.what = "prompt" => ran.asset = entry.asset /\ ran.text = entry.text
     /\ ran.what = "skill" => \/ ran.asset = entry.asset \/ changed # {}
                              \/ entry.asset.title # ""

(* Commands keep their promise: while a registry is built, names go to the     *)
(* foremost asset, and a command runs what it was listed for.                  *)
CommandsKeepTheirNames ==
  /\ building # "none" => OneOrder
  /\ ran.what # "none" => RunsWhatItNames
===============================================================================
