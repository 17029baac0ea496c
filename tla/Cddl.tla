---------------------------------- MODULE Cddl ----------------------------------
\* A parsed CDDL schema as src/src/cbor reads it, its rules by name, the generic
\* parameters in scope, and the checks made of a schema before data is held against
\* it (validation.rs).
\*
\* A schema is a sequence of rules, in document order:
\*   rule   [kind, name, params, body]   kind "type" or "group", a rule extended by
\*                                       /= or //= being there several times
\*   type   [span, choices]              alternatives, operators left out
\*   type2  [kind, span, ...]            "name" (name, args), "paren" and "tag" (type),
\*                                       "map" and "array" (group), "data" (any other)
\*   group  choices, each a sequence of entries
\*   entry  [kind, ...]                  "member" (key, occur, type),
\*                                       "name" (span, name, args, occur),
\*                                       "inline" (group, occur)
\* A name is its socket prefix and its identifier. A span is where in the document a
\* node is written: the steps down to it from its rule; a type of one alternative is
\* written where the alternative is.
EXTENDS Integers, SequencesExt

NoSpan == <<>>
\* occur_bounds: no indicator is once.
Unbounded == -1
Bounds(occur) == IF occur = <<>> THEN <<1, 1>> ELSE occur

\* ---- RuleIndex ----

RulesNamed(rules, kind, name) == SelectSeq(rules, LAMBDA r : r.kind = kind /\ r.name = name)
DefinesType(rules, name) == RulesNamed(rules, "type", name) # <<>>
DefinesGroup(rules, name) == RulesNamed(rules, "group", name) # <<>>
GroupRule(rules, name) == RulesNamed(rules, "group", name)[1].body
ParamsOf(rules, name) ==
  LET with == SelectSeq(rules, LAMBDA r : r.name = name /\ r.params # <<>>)
  IN IF with = <<>> THEN <<>> ELSE with[1].params
\* type_alts, Alts: the one body of a rule, or the bodies of an extended one as a choice
\* written where the rule is referred to.
TypeAlts(rules, name, reference) ==
  LET bodies == RulesNamed(rules, "type", name) IN
  IF Len(bodies) = 1 THEN bodies[1].body
  ELSE [span |-> reference, choices |-> FlattenSeq([i \in DOMAIN bodies |-> bodies[i].body.choices])]

\* Where a rule is first named.
NamedAt(rules, name) == <<SelectInSeq(rules, LAMBDA r : r.kind = "type" /\ r.name = name), 0>>

\* ---- Scope ----

\* What each parameter stands for, and the scope that is read in: the caller's, not the
\* rule's. A parameter bound twice is the last.
EmptyScope == <<>>
\* Slip: arguments are read in the scope of no rule, the caller's parameters forgotten.
EnterScope_Forgotten(caller, params, args) ==
  [p \in Range(SubSeq(params, 1, IF Len(params) < Len(args) THEN Len(params) ELSE Len(args))) |->
     [arg |-> args[CHOOSE i \in DOMAIN args : params[i] = p], scope |-> EmptyScope]]
EnterScope(caller, params, args) ==
  LET bound == IF Len(params) < Len(args) THEN Len(params) ELSE Len(args)
      last(p) == CHOOSE i \in 1..bound : params[i] = p /\ \A j \in (i + 1)..bound : params[j] # p
  IN [p \in {params[i] : i \in 1..bound} |-> [arg |-> args[last(p)], scope |-> caller]]
EnterRule(rules, caller, name, args) == EnterScope(caller, ParamsOf(rules, name), args)
Substituted(scope, t) == t.args = <<>> /\ t.name[2] \in DOMAIN scope

\* ---- find_root_rule, resolve_root_rule ----

\* The rule a name written by the caller is the root of: the rule of that name, or the
\* socket of that identifier; a type rule before a group rule.
RootCandidates(rules, written) ==
  IF \E i \in DOMAIN rules : rules[i].name = written THEN {written}
  ELSE IF written[1] = "" THEN {r.name : r \in {rules[i] : i \in DOMAIN rules}} \cap {<<"$", written[2]>>, <<"$$", written[2]>>}
  ELSE {}
RootRule(rules, written) ==
  LET candidates == RootCandidates(rules, written)
      types == {n \in candidates : DefinesType(rules, n)}
  IN IF candidates = {} THEN [kind |-> "missing_rule", name |-> written]
     ELSE IF types = {} THEN [kind |-> "group_rule_root", name |-> written]
     ELSE [kind |-> "type", name |-> CHOOSE n \in types : TRUE]

\* ---- unproductive_rules ----

Rest(kind, names) == [data |-> kind, names |-> names]
Join(facts) == [data |-> \E f \in facts : f.data, names |-> UNION {f.names : f \in facts}]
RECURSIVE TypeFacts(_, _, _), EntryFacts(_, _, _)
\* BodyFacts: does a body reach data on its own, and which names may stand for it. A
\* socket's identifier is compared without its prefix.
NameFacts(defined, bound, name) ==
  IF name[2] \in bound \/ name[2] \notin defined THEN Rest(TRUE, {}) ELSE Rest(FALSE, {name[2]})
Type2Facts(defined, bound, t) ==
  CASE t.kind = "name" -> NameFacts(defined, bound, t.name)
    [] t.kind = "paren" -> TypeFacts(defined, bound, t.type)
    [] OTHER -> Rest(TRUE, {})
TypeFacts(defined, bound, type) == Join({Type2Facts(defined, bound, t) : t \in Range(type.choices)})
EntryFacts(defined, bound, e) ==
  CASE e.kind = "member" -> IF e.key # <<>> THEN Rest(TRUE, {}) ELSE TypeFacts(defined, bound, e.type)
    [] e.kind = "name" -> NameFacts(defined, bound, e.name)
    [] e.kind = "inline" ->
         Join({Rest(TRUE, {}) : c \in {x \in Range(e.group) : x = <<>>}}
              \cup UNION {{EntryFacts(defined, bound, f) : f \in Range(c)} : c \in Range(e.group)})
RuleFacts(defined, r) ==
  IF r.kind = "type" THEN TypeFacts(defined, Range(r.params), r.body)
  ELSE EntryFacts(defined, Range(r.params), r.body)
\* The rules of a name count together; data is reached backwards from those that have it.
Unproductive(rules) ==
  LET defined == {r.name[2] : r \in Range(rules)}
      facts == [n \in defined |-> Join({RuleFacts(defined, r) : r \in {x \in Range(rules) : x.name[2] = n}})]
      productive[step \in 0..Cardinality(defined)] ==
        IF step = 0 THEN {n \in defined : facts[n].data}
        ELSE LET before == productive[step - 1]
             IN before \cup {n \in defined : facts[n].names \cap before # {}}
  IN defined \ productive[Cardinality(defined)]
=============================================================================
