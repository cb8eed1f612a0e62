----------------------------- MODULE PromptContext -----------------------------
(* The building of a run's system prompt: the layers of settings and their    *)
(* merge (context/settings/merge.go), the instruction files from the git root *)
(* to the working directory and of an additional directory, under a budget of *)
(* bytes, the rules (context/prompt/context.go, rules.go), and the sections   *)
(* (context/prompt/builder.go). The builder reads one file after the other and*)
(* looks at no file again, so that each read may find anything: what a file   *)
(* holds is chosen when it is read, the documents are first looked for and    *)
(* then read.                                                                 *)
(*                                                                            *)
(* Of the settings there is one top-level key, absent, a text, or a map of an *)
(* allow/deny list, "deny", and of another list, the "excludes" by which the  *)
(* builder leaves out instruction files.                                      *)
EXTENDS Naturals, Sequences

CONSTANTS Depth,            \* directories from the git root to the working directory
          DocMaxBytes,      \* ResolveProjectDocMaxBytes
          Separator, Suffix, \* the bytes between two documents, of the truncation mark
          DocSizes,         \* bound: sizes of a document, 0 when it is blank
          MaxSettingsFiles  \* bound: sources of settings that are not empty

ASSUME PromptAssumption ==
  /\ {Depth, DocMaxBytes, Separator, Suffix} \subseteq Nat \ {0}
  /\ MaxSettingsFiles \in Nat /\ DocSizes \subseteq Nat

ItemsOf(s) == {s[i] : i \in 1..Len(s)}
LastOf(s) == s[Len(s)]
Lowest(S) == CHOOSE i \in S : \A j \in S : i <= j
Highest(S) == IF S = {} THEN 0 ELSE CHOOSE i \in S : \A j \in S : j <= i

\* In ascending precedence, with the sources of each: files, the environment, options.
Layers == <<"user", "project", "local", "cli", "managed">>
SourcesOf(l) == IF l = "cli" THEN 1 ELSE 2

NoValue == [kind |-> "none", items |-> <<>>]
AText == [kind |-> "text", items |-> <<>>]
AList(items) == [kind |-> "list", items |-> items]

NoNode == [kind |-> "none", deny |-> NoValue, excludes |-> NoValue]
TextNode == [NoNode EXCEPT !.kind = "text"]
MapNode(deny, excludes) == [kind |-> "map", deny |-> deny, excludes |-> excludes]

\* What a source may hold; no list says a thing twice.
SettingsValues ==
  {NoNode, TextNode, MapNode(NoValue, AList(<<>>)), MapNode(NoValue, AList(<<"override">>)),
   MapNode(AText, NoValue), MapNode(AList(<<1, 2>>), AList(<<"agents">>)),
   MapNode(AList(<<2>>), NoValue), MapNode(AList(<<3, 1>>), NoValue)}

Names == <<"override", "agents", "claude">> \* candidates, the first one found counts
Places == <<"project", "additional">>       \* the directories whose documents are read

VARIABLES
  stage,     \* "settings", "merged", "documents", "rules", "sections", "done", "failed"
  layered,   \* the layers read so far; the last one may lack sources
  sources,   \* the number of sources read of the layer at work
  filled,    \* count: sources that were not empty
  merged,    \* Effective with its Source
  picked,    \* the documents found in the place at work: one of each directory at most
  looked,    \* directories looked at there
  readDocs,  \* documents read there
  docs,      \* place -> its blocks and their bytes
  rules,     \* the rules that count
  prompt     \* the sections of the prompt, in order, with where each came from

promptVars == <<stage, layered, sources, filled, merged, picked, looked, readDocs, docs,
                rules, prompt>>

NothingMerged == [value |-> NoNode, top |-> <<>>, deny |-> <<>>, excludes |-> <<>>]

PromptInit ==
  /\ stage = "settings" /\ layered = <<NoNode>> /\ sources = 0 /\ filled = 0
  /\ merged = NothingMerged
  /\ picked = <<>> /\ looked = 0 /\ readDocs = 0
  /\ docs = <<>> /\ rules = {} /\ prompt = <<>>
-------------------------------------------------------------------------------
(* The merge.                                                                 *)

\* mergeUniqueSlice, which also drops what one list says twice.
UniquelyJoined(s, t) ==
  LET all == s \o t
      out[i \in 0..Len(all)] == IF i = 0 THEN <<>>
                                ELSE IF all[i] \in ItemsOf(out[i - 1]) THEN out[i - 1]
                                ELSE Append(out[i - 1], all[i])
  IN out[Len(all)]

\* recordSource: the last of the contributing layers is the winning one.
Recorded(trace, l) == IF l \in ItemsOf(trace) THEN trace ELSE Append(trace, l)

\* Mutant: the list of the higher layer replaces the lower one's.
MergedDeny_Override(old, new) == IF new.kind = "none" THEN old ELSE new
MergedDeny(old, new) ==
  CASE new.kind = "none" -> old
    [] new.kind = "list" /\ old.kind = "list" -> AList(UniquelyJoined(old.items, new.items))
    [] OTHER -> new
MergedOther(old, new) == IF new.kind = "none" THEN old ELSE new

\* mergeMap for the one key: m with what layer l says, with the trace of each path.
MergeMap(m, l, v) ==
  LET child(trace, value) == IF value.kind # "none" THEN Recorded(trace, l) ELSE trace
      deep == v.kind = "map" /\ m.value.kind = "map"
  IN IF v.kind = "none" THEN m
     ELSE [value |-> IF deep THEN MapNode(MergedDeny(m.value.deny, v.deny),
                                          MergedOther(m.value.excludes, v.excludes))
                     ELSE v,
           top |-> Recorded(m.top, l),
           deny |-> child(m.deny, v.deny), excludes |-> child(m.excludes, v.excludes)]

\* loadLayerFromCandidates: one source after the other, merged within its layer;
\* one that cannot be read or decoded ends the Build.
ReadSource(v) ==
  LET l == Layers[Len(layered)]
      layer == MergeMap([NothingMerged EXCEPT !.value = LastOf(layered)], l, v).value
  IN /\ stage = "settings" /\ sources < SourcesOf(l)
     /\ v # NoNode => filled < MaxSettingsFiles
     /\ filled' = IF v = NoNode THEN filled ELSE filled + 1
     /\ layered' = [layered EXCEPT ![Len(layered)] = layer]
     /\ sources' = sources + 1
     /\ UNCHANGED <<stage, merged, picked, looked, readDocs, docs, rules, prompt>>

NextLayer ==
  /\ stage = "settings" /\ sources = SourcesOf(Layers[Len(layered)])
  /\ Len(layered) < Len(Layers)
  /\ layered' = Append(layered, NoNode) /\ sources' = 0
  /\ UNCHANGED <<stage, filled, merged, picked, looked, readDocs, docs, rules, prompt>>

\* Merge: what the first layers make, one after the other; once all are there.
MergeOf(layers) ==
  LET m[n \in 0..Len(layers)] ==
        IF n = 0 THEN NothingMerged ELSE MergeMap(m[n - 1], Layers[n], layers[n])
  IN m[Len(layers)]

MergeLayers ==
  /\ stage = "settings" /\ Len(layered) = Len(Layers) /\ sources = SourcesOf(LastOf(Layers))
  /\ merged' = MergeOf(layered) /\ stage' = "merged"
  /\ UNCHANGED <<layered, sources, filled, picked, looked, readDocs, docs, rules, prompt>>

\* What the builder looks up in the effective settings is kept.
UseSettings ==
  /\ stage = "merged" /\ stage' = "documents"
  /\ merged' = [NothingMerged EXCEPT !.value.excludes = merged.value.excludes]
  /\ layered' = <<>> /\ sources' = 0 /\ filled' = 0
  /\ UNCHANGED <<picked, looked, readDocs, docs, rules, prompt>>
-------------------------------------------------------------------------------
(* The instruction documents.                                                 *)

Excludes == ItemsOf(merged.value.excludes.items)

\* dirsFromGitRootToCWD: from the git root, or the working directory alone, downwards.
Directories == 1..Depth

\* DiscoverInstructionFiles for one directory: the first name that is there and
\* not excluded.
PickDocument(there) ==
  LET free == {k \in 1..Len(Names) : Names[k] \in there \ Excludes}
  IN /\ stage = "documents" /\ Len(docs) < Len(Places) /\ looked + 1 \in Directories
     /\ looked' = looked + 1
     /\ picked' = IF free = {} THEN picked
                  ELSE Append(picked, [dir |-> looked', name |-> Names[Lowest(free)]])
     /\ UNCHANGED <<stage, layered, sources, filled, merged, readDocs, docs, rules, prompt>>

NoDocs == [blocks |-> <<>>, used |-> 0, ended |-> FALSE]

\* One document more: whole, cut to what remains, or not at all. One that is cut
\* ends with the mark, of which there may be room for a part only.
WithDocument(d, i, size) ==
  LET separator == IF i > 1 \/ d.blocks # <<>> THEN Separator ELSE 0
      remaining == DocMaxBytes - d.used - separator
      mark == IF Suffix >= remaining THEN remaining ELSE Suffix
      told == IF size <= remaining THEN size ELSE remaining - mark
      block == [doc |-> picked[i], told |-> told, whole |-> size <= remaining]
  IN IF d.used >= DocMaxBytes THEN [d EXCEPT !.ended = TRUE]
     ELSE IF size = 0 THEN d
     ELSE IF d.used + separator >= DocMaxBytes THEN [d EXCEPT !.ended = TRUE]
     ELSE [blocks |-> Append(d.blocks, block),
           used |-> d.used + separator + told + (IF size <= remaining THEN 0 ELSE mark),
           ended |-> size > remaining]

\* ReadAndConcatInstructionFiles: the place at work is the last of docs once the
\* directories were looked at.
BeginDocuments ==
  /\ stage = "documents" /\ looked = Depth
  /\ looked' = Depth + 1 /\ readDocs' = 0
  /\ docs' = Append(docs, NoDocs)
  /\ UNCHANGED <<stage, layered, sources, filled, merged, picked, rules, prompt>>

Reading == stage = "documents" /\ looked = Depth + 1

ReadDocument(size) ==
  /\ Reading /\ readDocs < Len(picked) /\ ~LastOf(docs).ended
  /\ readDocs' = readDocs + 1
  /\ docs' = [docs EXCEPT ![Len(docs)] = WithDocument(@, readDocs', size)]
  /\ UNCHANGED <<stage, layered, sources, filled, merged, picked, looked, rules, prompt>>

\* The working directory first, then the additional ones.
EndDocuments ==
  /\ Reading /\ (readDocs = Len(picked) \/ LastOf(docs).ended)
  /\ looked' = 0 /\ picked' = <<>> /\ readDocs' = 0
  /\ stage' = IF Len(docs) = Len(Places) THEN "rules" ELSE "documents"
  /\ UNCHANGED <<layered, sources, filled, merged, docs, rules, prompt>>
-------------------------------------------------------------------------------
(* The rules and the sections.                                                *)

\* LoadProjectRulesForPath: what a rule file is - blank, for all paths, for the path
\* of the target, or for another one. Without a target, all rules count; the user's
\* input is taken for one.
RuleFiles == {1, 2}
LoadRules(kinds, target) ==
  /\ stage = "rules" /\ stage' = "sections"
  /\ rules' = {i \in RuleFiles : \/ kinds[i] \in {"all", "matching"}
                                 \/ kinds[i] = "other" /\ ~target}
  /\ UNCHANGED <<layered, sources, filled, merged, picked, looked, readDocs, docs, prompt>>

\* The sections in the order of the prompt, and those that are told by default: the
\* user's and the local files, the memory, skills and prompts found.
Sections == <<"managed", "user", "userRules", "project", "projectRules", "local", "memory",
              "skills", "mcp", "imports", "additional">>
ByDefault == {"user", "userRules", "local", "memory", "skills", "mcp"}
\* What the settings may say.
Settable == {"managed", "user", "userRules", "local", "memory"}

(* Where a section comes from, if it is there: the options, else the settings,*)
(* else what is found; the documents of the additional directories are among  *)
(* the imports, whatever the options say of these, and told once more.        *)
Origin(s, given, set, found) ==
  CASE s = "project" -> IF docs[1].used > 0 THEN "documents" ELSE "none"
    [] s = "additional" -> IF docs[2].used > 0 THEN "documents" ELSE "none"
    [] s = "projectRules" -> IF rules # {} THEN "rules" ELSE "none"
    [] OTHER -> IF s \in given THEN "options"
                ELSE IF s = "imports" /\ docs[2].used > 0 THEN "documents"
                ELSE IF s \in set \cap Settable THEN "settings"
                ELSE IF s \in found \cap ByDefault THEN "default" ELSE "none"

Assemble(given, set, found) ==
  LET all == [i \in DOMAIN Sections |->
                [section |-> Sections[i], from |-> Origin(Sections[i], given, set, found)]]
  IN /\ stage = "sections" /\ stage' = "done"
     /\ prompt' = SelectSeq(all, LAMBDA p : p.from # "none")
     /\ UNCHANGED <<layered, sources, filled, merged, picked, looked, readDocs, docs, rules>>

\* A file that cannot be read, or a context that was cancelled.
FailBuild ==
  /\ \/ stage \in {"settings", "rules", "sections"}
     \/ Reading /\ readDocs < Len(picked) /\ ~LastOf(docs).ended
  /\ stage' = "failed"
  /\ UNCHANGED <<layered, sources, filled, merged, picked, looked, readDocs, docs, rules, prompt>>

PromptNext ==
  \/ \E v \in SettingsValues : ReadSource(v)
  \/ NextLayer \/ MergeLayers \/ UseSettings
  \/ \E there \in SUBSET ItemsOf(Names) : PickDocument(there)
  \/ BeginDocuments \/ EndDocuments
  \/ \E size \in DocSizes \cup {0} : ReadDocument(size)
  \/ \E kinds \in [RuleFiles -> {"blank", "all", "matching", "other"}], target \in BOOLEAN :
       LoadRules(kinds, target)
  \/ \E given, set, found \in SUBSET {"user", "imports"} : Assemble(given, set, found)
  \/ FailBuild

PromptSpec == PromptInit /\ [][PromptNext]_promptVars
-------------------------------------------------------------------------------
(* What the settings of the first layers amount to, layer by layer.            *)

\* The layers whose maps count: those above the last text.
Counting(n) == LET text == Highest({i \in 1..n : layered[i].kind = "text"})
               IN {i \in 1..n : i > text /\ layered[i].kind = "map"}
Excluding(n) == {i \in Counting(n) : layered[i].excludes.kind # "none"}
SayingDeny(n) == {i \in Counting(n) : layered[i].deny.kind # "none"}

\* The layers whose deny lists count: those above the last one that is no list.
Denying(n) == LET text == Highest({i \in SayingDeny(n) : layered[i].deny.kind = "text"})
              IN {i \in SayingDeny(n) : i > text}
\* Where an item was first denied.
FirstSaid(n, x) == Lowest({i \in Denying(n) : x \in ItemsOf(layered[i].deny.items)})

(* Every rule of the merge holds of the result, whatever the layers say: no   *)
(* denied item of a layer that counts is lost, none comes from one that does  *)
(* not, each is there once and they stand in the order of their layers; the   *)
(* other list is that of the highest layer that has one; and the trace names, *)
(* for each path that is there, the highest layer that says it as the winning *)
(* one.                                                                       *)
SettingsAreLayered ==
  stage = "merged" =>
    LET value == merged.value
        denied == value.deny.items
        n == Len(layered)
    IN
    /\ value.kind = "map" <=> Counting(n) # {}
    /\ value.kind = "map" =>
         /\ Excluding(n) # {} =>
              /\ value.excludes = layered[Highest(Excluding(n))].excludes
              /\ LastOf(merged.excludes) = Layers[Highest(Excluding(n))]
         /\ SayingDeny(n) # {} => LastOf(merged.deny) = Layers[Highest(SayingDeny(n))]
         /\ ItemsOf(denied) = UNION {ItemsOf(layered[i].deny.items) : i \in Denying(n)}
         /\ \A i, j \in 1..Len(denied) :
              i < j => /\ denied[i] # denied[j]
                       /\ FirstSaid(n, denied[i]) <= FirstSaid(n, denied[j])
    /\ value.kind # "none" =>
         LastOf(merged.top) = Layers[Highest({i \in 1..n : layered[i].kind # "none"})]

(* The documents of a place keep to its budget, from the root down: only the  *)
(* last may be cut, none is told that the settings exclude, and if the reading*)
(* ended early, then with the mark or with no room for a separator.           *)
DocumentsKeepBudget ==
  \A p \in 1..Len(docs) :
    LET blocks == docs[p].blocks IN
    /\ docs[p].used <= DocMaxBytes
    /\ \A i \in 1..Len(blocks) :
         /\ blocks[i].doc.name \notin Excludes
         /\ i < Len(blocks) => blocks[i].whole /\ blocks[i].doc.dir < blocks[i + 1].doc.dir
    /\ docs[p].ended => \/ blocks # <<>> /\ ~LastOf(blocks).whole
                        \/ docs[p].used + Separator >= DocMaxBytes

(* What a run is told is what its settings and documents say, in order of     *)
(* precedence and within the budget, whatever is found at each read.          *)
PromptIsAsConfigured == SettingsAreLayered /\ DocumentsKeepBudget
===============================================================================
