------------------------------- MODULE Decisions -------------------------------
(* Who decides whether something may be done, and from what:                  *)
(*  - the sandbox (agent/policy/sandbox/evaluator.go) and the permission gate *)
(*    (agent/policy/gate.go over agent/policy/rulesdsl/dsl.go) for the tool   *)
(*    calls of a run, asked in this order by the tool pipeline;               *)
(*  - the hook policies of the hub for the events of an execution             *)
(*    (controlplane/policy/hook_scope.go, runtime/hooks/evaluator.go);        *)
(*  - roles and policies for the requests to a workspace of the hub           *)
(*    (httpapi/authorization_engine.go).                                      *)
(*                                                                            *)
(* Each keeps a book of rules that people change while the program runs. What *)
(* a rule is about is the set of things it matches: patterns, expressions and *)
(* bindings stand for it, and two rules that differ in their names only are   *)
(* one. A policy that is not enabled is one that is not there.                *)
EXTENDS Naturals, FiniteSets

CONSTANTS
  ToolCalls, Risk, Heuristic, \* a call's risk level; what the sandbox makes of it unruled
  HookEvents,
  ApiRequests, Permission,    \* the permission key a request needs
  PolicyBound,                \* the requests whose action has ABACRequired
  MaxRules                    \* bound: rules in all books together

Verdicts == {"allow", "ask", "deny"}
Levels == {"low", "medium", "high", "critical"}

ASSUME DecisionAssumption ==
  /\ Risk \in [ToolCalls -> Levels] /\ Heuristic \in [ToolCalls -> Verdicts]
  /\ PolicyBound \subseteq ApiRequests /\ DOMAIN Permission = ApiRequests
  /\ MaxRules \in Nat

VARIABLES
  mode,        \* the permission mode of the session
  rules,       \* the rules of all books
  roleEnabled, \* the role of the user who asks ...
  permissions, \* ... and its grants
  saving       \* how far a save of the role has come

decisionVars == <<mode, rules, roleEnabled, permissions, saving>>
roleVars == <<roleEnabled, permissions, saving>>

Modes == {"bypassPermissions", "acceptEdits", "default", "plan", "dontAsk"}
Scopes == {"global", "project", "local"}
PermissionKeys == {Permission[a] : a \in ApiRequests}
ToolRules == [book : {"gate", "sandbox"}, effect : Verdicts, scope : {"global"},
              matches : SUBSET ToolCalls]
HookPolicies == [book : {"hooks"}, effect : Verdicts, scope : Scopes,
                 matches : SUBSET HookEvents]
AbacPolicies == [book : {"abac"}, effect : {"allow", "deny"}, scope : {"global"},
                 matches : SUBSET ApiRequests]
Rules == ToolRules \cup HookPolicies \cup AbacPolicies
SaveStages == {"idle", "clear", "insert"}
NotSaving == [stage |-> "idle", grants |-> {}]

DecisionTypeOK ==
  /\ mode \in Modes
  /\ rules \subseteq Rules
  /\ roleEnabled \in BOOLEAN /\ permissions \subseteq PermissionKeys
  /\ saving \in [stage : SaveStages, grants : SUBSET PermissionKeys]

DecisionInit ==
  /\ mode = "default" /\ rules = {}
  /\ roleEnabled = TRUE /\ permissions = {}
  /\ saving = NotSaving
-------------------------------------------------------------------------------
\* How strict a verdict is, and a mode.
Rank == [v \in Verdicts |-> CASE v = "allow" -> 0 [] v = "ask" -> 1 [] v = "deny" -> 2]
ModeRank ==
  [m \in Modes |-> CASE m = "bypassPermissions" -> 0 [] m = "acceptEdits" -> 1
                     [] m = "default" -> 2 [] m = "plan" -> 3 [] m = "dontAsk" -> 4]
ScopeOrder ==
  [s \in Scopes |-> CASE s = "global" -> 0 [] s = "project" -> 1 [] s = "local" -> 2]

Strictest_AskFirst(effects) ==
  IF "ask" \in effects THEN "ask" ELSE IF "deny" \in effects THEN "deny" ELSE "allow"
\* A deny before an ask, an ask before an allow.
Strictest(effects) ==
  IF "deny" \in effects THEN "deny" ELSE IF "ask" \in effects THEN "ask" ELSE "allow"

Matching(book, x) == {r \in rules : r.book = book /\ x \in r.matches}
Effects(rs) == {r.effect : r \in rs}

\* evaluateModeMatrix.
ModeMatrix(m, risk) ==
  CASE m = "bypassPermissions" -> "allow"
    [] m \in {"dontAsk", "plan"} -> IF risk = "low" THEN "allow" ELSE "deny"
    [] m = "acceptEdits" -> IF risk = "critical" THEN "deny"
                            ELSE IF risk = "high" THEN "ask" ELSE "allow"
    [] m = "default" -> IF risk = "low" THEN "allow"
                        ELSE IF risk = "critical" THEN "deny" ELSE "ask"

\* Gate.Evaluate: a rule goes before the mode, but nobody is asked in dontAsk.
GateVerdict(c) ==
  IF Matching("gate", c) = {} THEN ModeMatrix(mode, Risk[c])
  ELSE IF mode = "dontAsk" /\ Strictest(Effects(Matching("gate", c))) = "ask" THEN "deny"
  ELSE Strictest(Effects(Matching("gate", c)))

\* Evaluator.Evaluate of the sandbox.
SandboxVerdict(c) ==
  IF Matching("sandbox", c) = {} THEN Heuristic[c]
  ELSE Strictest(Effects(Matching("sandbox", c)))

\* Pipeline.ExecuteSingle: the call passes both, and each may ask.
ToolVerdict(c) == Strictest({SandboxVerdict(c), GateVerdict(c)})

\* ResolveHookPolicies and Evaluate of runtime/hooks: the policies of the widest
\* scope decide. The hub names no tool, so that no policy for a tool matches.
Foremost(rs) == {r \in rs : \A q \in rs : ScopeOrder[r.scope] <= ScopeOrder[q.scope]}
HookVerdict(e) == Strictest(Effects(Foremost(Matching("hooks", e))))

\* authorizeAction behind the checks of the session: the role's permission, and for
\* what needs it, a policy that allows and none that denies.
RequestVerdict(a) ==
  IF /\ roleEnabled /\ Permission[a] \in permissions
     /\ a \in PolicyBound =>
          Matching("abac", a) # {} /\ "deny" \notin Effects(Matching("abac", a))
  THEN "allow" ELSE "deny"
-------------------------------------------------------------------------------
(* The changes.                                                               *)

ChangeMode(m) == mode' = m /\ UNCHANGED <<rules, roleVars>>

\* A rule is added, taken away or disabled, or its effect is edited.
AddRule(r) ==
  /\ Cardinality(rules) < MaxRules
  /\ rules' = rules \cup {r}
  /\ UNCHANGED <<mode, roleVars>>
RemoveRule(r) == r \in rules /\ rules' = rules \ {r} /\ UNCHANGED <<mode, roleVars>>
EditRule(r, q) ==
  /\ r \in rules /\ q.book = r.book /\ q.scope = r.scope /\ q.matches = r.matches
  /\ rules' = (rules \ {r}) \cup {q}
  /\ UNCHANGED <<mode, roleVars>>

SetRoleEnabled(b) == roleEnabled' = b /\ UNCHANGED <<mode, rules, permissions, saving>>

\* upsertRole runs its statements without a transaction: the role, then its grants
\* deleted and inserted one by one. Any of them may fail and end it.
BeginSave(b, grants) ==
  /\ saving = NotSaving
  /\ roleEnabled' = b /\ saving' = [stage |-> "clear", grants |-> grants]
  /\ UNCHANGED <<mode, rules, permissions>>
ClearGrants ==
  /\ saving.stage = "clear"
  /\ permissions' = {} /\ saving' = [saving EXCEPT !.stage = "insert"]
  /\ UNCHANGED <<mode, rules, roleEnabled>>
InsertGrant(p) ==
  /\ saving.stage = "insert" /\ p \in saving.grants
  /\ permissions' = permissions \cup {p}
  /\ saving' = [saving EXCEPT !.grants = @ \ {p}]
  /\ UNCHANGED <<mode, rules, roleEnabled>>
EndSave ==
  /\ saving.stage # "idle" /\ saving' = NotSaving
  /\ UNCHANGED <<mode, rules, roleEnabled, permissions>>

\* deleteRole; its statements only take away.
DeleteRole ==
  /\ permissions' = {} /\ roleEnabled' = FALSE
  /\ UNCHANGED <<mode, rules, saving>>

DecisionNext ==
  \/ \E m \in Modes : ChangeMode(m)
  \/ \E r \in Rules : AddRule(r)
  \/ \E r \in rules : RemoveRule(r)
  \/ \E r \in rules, q \in Rules : EditRule(r, q)
  \/ \E b \in BOOLEAN : SetRoleEnabled(b)
  \/ \E b \in BOOLEAN, grants \in SUBSET PermissionKeys : BeginSave(b, grants)
  \/ ClearGrants \/ EndSave \/ DeleteRole
  \/ \E p \in PermissionKeys : InsertGrant(p)

DecisionSpec == DecisionInit /\ [][DecisionNext]_decisionVars
-------------------------------------------------------------------------------
\* A change only tightens: the mode gets stricter or stays, what goes is an allow or
\* gives way to a rule at least as strict in its place, what comes is a deny or takes
\* such a place, and no role gains.
Raises(r, q) ==
  /\ q.book = r.book /\ q.scope = r.scope /\ q.matches = r.matches
  /\ Rank[q.effect] >= Rank[r.effect]
Tightens ==
  /\ decisionVars' # decisionVars
  /\ ModeRank[mode'] >= ModeRank[mode]
  /\ \A r \in rules \ rules' :
       r.effect = "allow" \/ \E q \in rules' : Raises(r, q)
  /\ \A q \in rules' \ rules : q.effect = "deny" \/ \E r \in rules \ rules' : Raises(r, q)
  /\ roleEnabled' => roleEnabled
  /\ permissions' \subseteq permissions

\* No decision gets looser by a change that only tightens, though rules shadow each
\* other: by effect, by scope, before the mode and before the heuristics.
TighteningNeverLoosens ==
  [][Tightens =>
       /\ \A c \in ToolCalls : Rank[ToolVerdict(c)'] >= Rank[ToolVerdict(c)]
       /\ \A e \in HookEvents : Rank[HookVerdict(e)'] >= Rank[HookVerdict(e)]
       /\ \A a \in ApiRequests : Rank[RequestVerdict(a)'] >= Rank[RequestVerdict(a)]
    ]_decisionVars
===============================================================================
