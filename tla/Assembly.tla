------------------------------ MODULE Assembly ------------------------------
(***************************************************************************)
(* How the specification of an agent comes about: the generation pipeline  *)
(* (engine/source.py, select.py, compose.py), the expansion of a roster    *)
(* template into its request (engine/teammates.py), and the specification  *)
(* and key that acquire_capability derives (engine/acquire_tool.py).       *)
(*                                                                         *)
(* The scores of BM25 are a ranking: the order of the catalog's entries    *)
(* for a task, and how many of them, from the best down, are relevant (a   *)
(* score is the raw score over the best one, so both thresholds of         *)
(* _is_relevant cut the ranking once).  Texts and models are left out.     *)
(***************************************************************************)
EXTENDS Naturals, FiniteSets, SequencesExt

CONSTANTS Skill, Server,  \* refs of skills and of MCP servers
          Tool,           \* refs of tools
          Builtin,        \* the built-in ones: DEFAULT_TOOLS
          Name,           \* display names
          Hook,           \* declarative hooks a spec may carry
          SkillBudget,    \* DEFAULT_SKILL_BUDGET
          RecallLimit,    \* DEFAULT_RECALL_LIMIT
          KeyMax,         \* the longest AgentKey
          Separators      \* the symbols -._ of a key

ASSUME DefaultsAssumption == Builtin \subseteq Tool
ASSUME LimitsAssumption   == SkillBudget \in Nat /\ RecallLimit \in Nat /\ KeyMax \in Nat

Entry   == [kind : {"skill"}, ref : Skill] \cup [kind : {"mcp"}, ref : Server]
           \cup [kind : {"tool"}, ref : Builtin]
Ranking == [entries : Seq(Entry), relevant : Nat]
Request == [name : Name, pinned : SUBSET Entry, tools : SUBSET Tool,
            auto : BOOLEAN,              \* skills left out: choose for me
            skills : SUBSET Skill]
Spec    == [name : Name, tools : SUBSET Tool, denied : SUBSET Tool, skills : SUBSET Skill,
            servers : SUBSET Server, hooks : SUBSET Hook]

SkillEntry(ref)  == [kind |-> "skill", ref |-> ref]
ServerEntry(ref) == [kind |-> "mcp", ref |-> ref]

-----------------------------------------------------------------------------
\* InMemoryCatalogSource.recall: the best of the ranking.
Recall(ranking) ==
    SubSeq(ranking.entries, 1,
           IF Len(ranking.entries) < RecallLimit THEN Len(ranking.entries) ELSE RecallLimit)

\* Where the recalled entries are that select equips: relevant or pinned.
Considered(ranking, request) ==
    LET found == Recall(ranking)
    IN  {i \in DOMAIN found : i <= ranking.relevant \/ found[i] \in request.pinned}

\* _equip, take_skill and add_server: no duplicates, a budget for skills alone.
Equip(sel, entry) ==
    IF entry.kind = "skill"
    THEN IF Cardinality(sel.skills) < SkillBudget
         THEN [sel EXCEPT !.skills = @ \cup {entry.ref}] ELSE sel
    ELSE [sel EXCEPT !.servers = @ \cup {entry.ref}]

\* An entry of any other kind that is to be equipped is a TypeError.
SelectRaises(ranking, request) ==
    \E i \in Considered(ranking, request) : Recall(ranking)[i].kind = "tool"

\* select's walk, best first: what is selected after the first i entries.
Walk(ranking, request) ==
    LET found == Recall(ranking)
        sel[i \in 0 .. Len(found)] ==
            IF i = 0 THEN [skills |-> {}, servers |-> {}]
            ELSE IF i \in Considered(ranking, request) THEN Equip(sel[i - 1], found[i])
            ELSE sel[i - 1]
    IN  sel

Select(ranking, request) == Walk(ranking, request)[Len(Recall(ranking))]

\* Mutant: the selection wins over the skills that were asked for.
Compose_Selected(request, selection) ==
    [name |-> request.name, tools |-> Builtin \cup request.tools, denied |-> {},
     skills |-> selection.skills, servers |-> selection.servers, hooks |-> {}]

\* compose: the default grant and the extras; the skills asked for, if any were.
Compose(request, selection) ==
    [name |-> request.name, tools |-> Builtin \cup request.tools, denied |-> {},
     skills |-> IF request.auto THEN selection.skills ELSE request.skills,
     servers |-> selection.servers, hooks |-> {}]

\* pipeline.assemble.
Assemble(ranking, request) == Compose(request, Select(ranking, request))

-----------------------------------------------------------------------------
(***************************************************************************)
(* The roster.  A toolkit is [skills, servers, tools, agents], a template  *)
(* [name, kits]; the kits are names of the roster's toolkits.              *)
(***************************************************************************)
\* Toolkit._grants_something and RosterFile._references_resolve; names are the
\* keys of two functions and so are no duplicates.
RosterAccepts(roster) ==
    /\ \A kit \in DOMAIN roster.toolkits :
          LET toolkit == roster.toolkits[kit]
          IN  /\ toolkit.skills \cup toolkit.servers \cup toolkit.tools \cup toolkit.agents # {}
              /\ toolkit.agents \subseteq DOMAIN roster.teammates
    /\ \A mate \in DOMAIN roster.teammates : roster.teammates[mate] \subseteq DOMAIN roster.toolkits

\* build_teammate: what one template's toolkits ask for, and the agents they wire.
BuildTeammate(mate, roster) ==
    LET kits    == {roster.toolkits[kit] : kit \in roster.teammates[mate]}
        skills  == UNION {kit.skills : kit \in kits}
        servers == UNION {kit.servers : kit \in kits}
    IN  [request |-> [name   |-> mate,
                      pinned |-> {SkillEntry(ref) : ref \in skills}
                                 \cup {ServerEntry(ref) : ref \in servers},
                      tools  |-> UNION {kit.tools : kit \in kits},
                      auto   |-> skills = {},
                      skills |-> skills],
         agents  |-> UNION {kit.agents : kit \in kits}]

-----------------------------------------------------------------------------
(***************************************************************************)
(* Acquired agents.  A key is a sequence of symbols; a need counts by the  *)
(* suffix "-acquire-<slug>" it leads to.                                   *)
(***************************************************************************)
\* The slates of the router are taken whole: no threshold, no default grant.
AcquiredSpec(name, tools, skills, servers) ==
    [name |-> name, tools |-> tools, denied |-> {}, skills |-> skills,
     servers |-> servers, hooks |-> {}]

\* base.rstrip("-._")
StripRight(base) ==
    LET kept == {i \in DOMAIN base : base[i] \notin Separators}
    IN  IF kept = {} THEN << >> ELSE SubSeq(base, 1, CHOOSE i \in kept : \A j \in kept : j <= i)

\* Mutant: the composed key is cut at its end.
DerivedKey_CutAtEnd(key, suffix) ==
    SubSeq(key \o suffix, 1,
           IF Len(key) + Len(suffix) <= KeyMax THEN Len(key) + Len(suffix) ELSE KeyMax)

\* acquired_agent_key: the base is cut, the suffix stays whole.
DerivedKey(key, suffix) ==
    LET room == KeyMax - Len(suffix)
    IN  StripRight(SubSeq(key, 1, IF Len(key) < room THEN Len(key) ELSE room)) \o suffix
=============================================================================
