------------------------------- MODULE HookRules -------------------------------
(* The engine's own hook dispatcher (extensions/hooks/dispatcher.go) with its *)
(* scopes (policy/hookscope/resolver.go). A dispatcher holds a list of rules  *)
(* that does not change; here it grows by one rule at a time, so that what a  *)
(* rule more does to every event can be told. (The hub decides on its hook    *)
(* policies by an order of its own, see Decisions.)                           *)
EXTENDS Naturals, Sequences

CONSTANT MaxHookRules \* bound: rules of a dispatcher

ASSUME HookAssumption == MaxHookRules \in Nat

VARIABLE hookRules \* the rules, in the order they were given

\* hookscope.ScopeOrder and decisionPriority: an unknown decision comes last.
HookScopes == <<"global", "workspace", "project", "session", "plugin">>
HookDecisions == <<"deny", "ask", "allow", "unknown">>
PositionIn(x, order) == CHOOSE i \in 1..Len(order) : order[i] = x

\* What a rule is bound to besides its scope: nothing, the event's own project or
\* session, or another one, or another workspace.
Bindings ==
  {<<"global", "none">>, <<"global", "project">>, <<"workspace", "none">>,
   <<"workspace", "otherWorkspace">>, <<"project", "none">>, <<"project", "project">>,
   <<"project", "otherProject">>, <<"session", "session">>, <<"session", "otherSession">>,
   <<"plugin", "none">>}
\* The patterns for the event's type and for the tool: for any, the first type or the
\* plugin's tool exactly or by a glob (a regular expression ranks behind it and is left
\* out), or one that cannot be compiled.
Patterns ==
  {<<"any", "any">>, <<"exact", "any">>, <<"glob", "exact">>, <<"any", "broken">>,
   <<"broken", "any">>, <<"exact", "broken">>}

\* The events: their type, whether a plugin's tool is about to run, and what is known
\* of where they come from.
HookOccasions ==
  [type : {1, 2}, plugin : BOOLEAN,
   knows : {{}, {"workspace", "project"}, {"workspace", "project", "session"}}]

HookInit == hookRules = <<>>

\* A rule that is not enabled is none.
AddHookRule(binding, pattern, decision) ==
  /\ Len(hookRules) < MaxHookRules
  /\ hookRules' = Append(hookRules,
       [id |-> Len(hookRules) + 1, scope |-> binding[1], bound |-> binding[2],
        typePattern |-> pattern[1], toolPattern |-> pattern[2], decision |-> decision])

HookNext ==
  \E b \in Bindings, p \in Patterns, k \in 1..Len(HookDecisions) :
    AddHookRule(b, p, HookDecisions[k])

HookSpec == HookInit /\ [][HookNext]_hookRules
-------------------------------------------------------------------------------
\* Resolver.Match
InScope(r, x) ==
  /\ r.bound # "otherWorkspace"
  /\ CASE r.scope = "global" -> r.bound = "none"
       [] r.scope = "plugin" -> r.bound = "none" /\ x.plugin
       [] r.scope = "workspace" -> r.bound = "none" /\ "workspace" \in x.knows
       [] OTHER -> r.bound \in {"none", r.scope} /\ r.scope \in x.knows

\* match: a pattern is broken, or it fits or not, the less narrowly the higher its rank.
Fits(pattern, hit) == pattern = "any" \/ (pattern \in {"exact", "glob"} /\ hit)
Breadth(pattern) == CASE pattern = "any" -> 30 [] pattern = "glob" -> 10 [] OTHER -> 0
TypeFits(r, x) == Fits(r.typePattern, x.type = 1)
ToolFits(r, x) == Fits(r.toolPattern, x.plugin)

\* The event's pattern is looked at first, the tool's only if that one fits.
Breaks(r, x) ==
  InScope(r, x) /\ (r.typePattern = "broken" \/ (TypeFits(r, x) /\ r.toolPattern = "broken"))
RulesOf(rs) == {rs[i] : i \in 1..Len(rs)}
Matched(rs, x) == {r \in RulesOf(rs) : InScope(r, x) /\ TypeFits(r, x) /\ ToolFits(r, x)}

Precedes(k, l) == \E i \in 1..4 : k[i] < l[i] /\ \A j \in 1..(i - 1) : k[j] = l[j]
Specificity(r) == Breadth(r.typePattern) + Breadth(r.toolPattern)
\* Mutant: the widest scope decides, as it does in the hub.
SortKey_ScopeFirst(r) ==
  <<PositionIn(r.scope, HookScopes), PositionIn(r.decision, HookDecisions), Specificity(r), r.id>>
SortKey(r) ==
  <<PositionIn(r.decision, HookDecisions), PositionIn(r.scope, HookScopes), Specificity(r), r.id>>

\* The rule that decides, what it says, and Dispatch: the decision and the rule it is
\* from, 0 for none.
Decisive(rules) ==
  CHOOSE r \in rules : \A q \in rules : q = r \/ Precedes(SortKey(r), SortKey(q))
Says(r) == [decision |-> IF r.decision = "unknown" THEN "allow" ELSE r.decision, rule |-> r.id]

Dispatch(rs, x) ==
  IF \E r \in RulesOf(rs) : Breaks(r, x) THEN [decision |-> "error", rule |-> 0]
  ELSE IF Matched(rs, x) = {} THEN [decision |-> "allow", rule |-> 0]
  ELSE Says(Decisive(Matched(rs, x)))
-------------------------------------------------------------------------------
Strictness(decision) == PositionIn(decision, <<"allow", "ask", "deny", "error">>)

Backwards(rs) == [i \in 1..Len(rs) |-> rs[Len(rs) + 1 - i]]

\* What the rules that speak of an occasion say of it, each taken alone.
Voices(x) == {Dispatch(<<hookRules[i]>>, x).decision : i \in 1..Len(hookRules)}

(* For every occasion: the decision is the strictest of those the rules come  *)
(* to one by one, whatever their scopes, patterns and order; the rule that is *)
(* named is one that came to it; and a rule more loosens nothing.             *)
RulesOnlyTighten ==
  hookRules # <<>> => \A x \in HookOccasions :
    LET d == Dispatch(hookRules, x)
        fewer == Dispatch(SubSeq(hookRules, 1, Len(hookRules) - 1), x)
    IN /\ \A v \in Voices(x) : Strictness(v) <= Strictness(d.decision)
       /\ d.decision \in Voices(x) \cup {"allow"}
       /\ d = Dispatch(Backwards(hookRules), x)
       /\ d.rule # 0 => Dispatch(<<hookRules[d.rule]>>, x) = d
       /\ Strictness(fewer.decision) <= Strictness(d.decision)
===============================================================================
