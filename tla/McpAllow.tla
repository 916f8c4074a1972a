------------------------------ MODULE McpAllow ------------------------------
(***************************************************************************)
(* The list of commands `bb mcp serve` may run (mcp_serve.go: `bb mcp      *)
(* allow`).  A rule is known by its command and argument prefix, here one  *)
(* sequence of words; it may be bound to services and presets, and may     *)
(* refuse an argument.  Every change rewrites the file under its lock, so  *)
(* that it is one step.                                                    *)
(***************************************************************************)
EXTENDS Naturals, Sequences, SequencesExt

CONSTANTS
    McpPrefixes,  \* commands, alone or with an argument prefix
    McpArgvs,     \* what a client may ask to run
    McpRefused,   \* the argument that DenyArgs refuses
    McpServices, McpPresets,
    NoRule

McpTools == {"sec_exec", "wenv_exec"}
McpTargets(tool) == IF tool = "wenv_exec" THEN McpPresets ELSE McpServices
McpBindings == [services : SUBSET McpServices, presets : SUBSET McpPresets, deny : BOOLEAN]

ASSUME McpAllowAssumption ==
    /\ \A w \in McpPrefixes \cup McpArgvs : w \in Seq(STRING) /\ Len(w) > 0
    /\ NoRule \notin McpBindings

VARIABLES
    maRules,   \* the rule of each prefix, if there is one
    maScope    \* ExecServices and ExecPresets

allowVars == <<maRules, maScope>>

AllowTypeOK ==
    /\ maRules \in [McpPrefixes -> McpBindings \cup {NoRule}]
    /\ maScope \in [services : SUBSET McpServices, presets : SUBSET McpPresets]

AllowInit ==
    /\ maRules = [w \in McpPrefixes |-> NoRule]
    /\ maScope = [services |-> {}, presets |-> {}]

-----------------------------------------------------------------------------
(* What is permitted *)

RuleBound(b) == b.services # {} \/ b.presets # {}
HasRule(rules, w) == rules[w] # NoRule

\* permits and deniesArgument: the prefix, and nothing refused after it.
RulePermits(rules, w, argv) ==
    /\ HasRule(rules, w) /\ IsPrefix(w, argv)
    /\ rules[w].deny => \A i \in (Len(w) + 1)..Len(argv) : argv[i] # McpRefused

\* permitsTarget
PermitsTarget(b, tool, target) ==
    \/ ~RuleBound(b)
    \/ target \in (IF tool = "wenv_exec" THEN b.presets ELSE b.services)

Permits(rules, tool, target, argv) ==
    \E w \in McpPrefixes : RulePermits(rules, w, argv) /\ PermitsTarget(rules[w], tool, target)

InScope(scope, tool, target) ==
    LET names == IF tool = "wenv_exec" THEN scope.presets ELSE scope.services
    IN  names # {} => target \in names

\* What authorizeMCPExec lets run.
Allowed(rules, scope, tool, target, argv) ==
    Permits(rules, tool, target, argv) /\ InScope(scope, tool, target)
AllowedRuns(rules, scope) ==
    {r \in {<<tool, target, argv>> : tool \in McpTools, target \in McpServices \cup McpPresets,
                                     argv \in McpArgvs} :
        r[2] \in McpTargets(r[1]) /\ Allowed(rules, scope, r[1], r[2], r[3])}

\* masks, and validateMCPRuleOverlaps
Masks(short, long) ==
    \/ ~RuleBound(short) /\ RuleBound(long)
    \/ RuleBound(short) /\ RuleBound(long)
       /\ (~ short.services \subseteq long.services \/ ~ short.presets \subseteq long.presets)

\* A bug of NoOverlaps: a rule bound to nothing is not looked at.
NoOverlaps_BoundOnly(rules) ==
    \A v, w \in McpPrefixes :
        HasRule(rules, v) /\ HasRule(rules, w) /\ v # w /\ IsPrefix(v, w) /\ RuleBound(rules[v])
        => ~Masks(rules[v], rules[w])

NoOverlaps(rules) ==
    \A v, w \in McpPrefixes :
        HasRule(rules, v) /\ HasRule(rules, w) /\ v # w /\ IsPrefix(v, w)
        => ~Masks(rules[v], rules[w])

-----------------------------------------------------------------------------
(* Changes *)

Command(w) == w[1]
Restricted(w) == Len(w) > 1
ListedRules == {w \in McpPrefixes : HasRule(maRules, w)}

\* mcpAllowAddRules with the rules of one bundle or one command.  A broad rule and
\* a narrow one of the same command exclude each other, and an existing rule keeps
\* being bound or not; else the bindings are added to it.
AllowAdd(new, binding) ==
    /\ \A w \in new, v \in ListedRules \cup new :
          Command(v) = Command(w) => (Restricted(v) <=> Restricted(w))
    /\ \A w \in new \cap ListedRules : RuleBound(maRules[w]) <=> RuleBound(binding)
    /\ LET added == [w \in McpPrefixes |->
                        IF w \notin new THEN maRules[w]
                        ELSE IF ~HasRule(maRules, w) THEN binding
                        ELSE [services |-> maRules[w].services \cup binding.services,
                              presets |-> maRules[w].presets \cup binding.presets,
                              deny |-> maRules[w].deny \/ binding.deny]]
       IN  NoOverlaps(added) /\ maRules' = added
    /\ UNCHANGED maScope

\* mcpAllowRemove: one rule, or every rule of a command.
AllowRemove(dropped) ==
    /\ dropped \cap ListedRules # {}
    /\ maRules' = [w \in McpPrefixes |-> IF w \in dropped THEN NoRule ELSE maRules[w]]
    /\ UNCHANGED maScope

\* A bug of Unbound: a rule that has lost its last target is kept.
Unbound_Kept(b, services, presets) ==
    [b EXCEPT !.services = @ \ services, !.presets = @ \ presets]

\* A rule without its last target is removed, for an unbound one would permit more.
Unbound(b, services, presets) ==
    LET rest == [b EXCEPT !.services = @ \ services, !.presets = @ \ presets]
    IN  IF RuleBound(rest) THEN rest ELSE NoRule

\* mcpAllowUnbind
AllowUnbind(matched, services, presets) ==
    LET changed == {w \in matched \cap ListedRules :
                       \/ maRules[w].services \cap services # {}
                       \/ maRules[w].presets \cap presets # {}}
        rules == [w \in McpPrefixes |->
                     IF w \in changed THEN Unbound(maRules[w], services, presets) ELSE maRules[w]]
    IN  /\ changed # {} /\ NoOverlaps(rules) /\ maRules' = rules
        /\ UNCHANGED maScope

\* mcpAllowScope
ScopeAdd(kind, name) == maScope' = [maScope EXCEPT ![kind] = @ \cup {name}] /\ UNCHANGED maRules
ScopeRemove(kind, name) ==
    /\ name \in maScope[kind]
    /\ maScope' = [maScope EXCEPT ![kind] = @ \ {name}] /\ UNCHANGED maRules

\* The rules a command line names: one rule, or all of a command.
NamedRules == {{w} : w \in McpPrefixes}
              \cup {{w \in McpPrefixes : Command(w) = Command(v)} : v \in McpPrefixes}
\* A bundle is rules with argument prefixes, which also refuse arguments.
Bundle == {w \in McpPrefixes : Restricted(w)}
ScopeNames(kind) == IF kind = "services" THEN McpServices ELSE McpPresets

AllowNext ==
    \/ \E binding \in McpBindings :
          \/ binding.deny /\ RuleBound(binding) /\ AllowAdd(Bundle, binding)
          \/ ~binding.deny /\ \E w \in McpPrefixes : AllowAdd({w}, binding)
    \/ \E named \in NamedRules :
          \/ AllowRemove(named)
          \/ \E services \in SUBSET McpServices, presets \in SUBSET McpPresets :
                AllowUnbind(named, services, presets)
    \/ \E kind \in {"services", "presets"} : \E name \in ScopeNames(kind) :
          ScopeAdd(kind, name) \/ ScopeRemove(kind, name)

-----------------------------------------------------------------------------
(* Properties *)

\* A rule's listing tells the truth: what it covers, no broader rule lets run with
\* a target that it is not bound to (validateMCPRuleOverlaps, mcp_serve.go:176),
\* whatever rules were added, merged and unbound.
ListedBindingsHold ==
    \A w \in ListedRules, argv \in McpArgvs, tool \in McpTools :
        \A target \in McpTargets(tool) :
            \/ PermitsTarget(maRules[w], tool, target)
            \/ ~RulePermits(maRules, w, argv)
            \/ \E v \in ListedRules : v # w /\ IsPrefix(w, v) /\ RulePermits(maRules, v, argv)
            \/ ~Permits(maRules, tool, target, argv)

Revokes(before, after) ==
    /\ before # after
    /\ \A w \in McpPrefixes :
          \/ after[w] \in {before[w], NoRule}
          \/ /\ HasRule(before, w) /\ after[w].deny = before[w].deny
             /\ after[w].services \subseteq before[w].services
             /\ after[w].presets \subseteq before[w].presets

\* Taking a rule or a target away never lets anything more run ("taking away the
\* last service must never widen access", mcp_serve.go:542).
RevokingNeverWidens ==
    [][Revokes(maRules, maRules') /\ maScope' = maScope
       => AllowedRuns(maRules', maScope') \subseteq AllowedRuns(maRules, maScope)]_allowVars

\* The list of permitted commands means what it lists, and revoking from it never lets
\* anything more run (mcp_serve.go:176, 542).
AllowListHolds == []ListedBindingsHold /\ RevokingNeverWidens
=============================================================================
