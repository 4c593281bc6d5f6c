---------------------------- MODULE MCRunWiring -----------------------------
(* Two agents that may share a display name, three skills for a budget of  *)
(* two, two servers; a roster whose lead pins more than that.              *)
EXTENDS RunWiring, TLC

CONSTANTS s1, s2, s3, m1, m2, read, bash, extra, lead, helper, h1, h2, a, b, dash

Main    == <<a, a, a>>
Other   == <<b, b>>
MCSuffix == {<<dash, a>>}
Derived(keys) == keys \cup {DerivedKey(k, s) : k \in keys, s \in MCSuffix}
MCKey   == Derived(Derived(Derived({Main, Other})))

MCToolkit == [skills |-> {}, servers |-> {}, tools |-> {}, agents |-> {}]
MCRoster ==
    [toolkits  |-> [x \in {"docs", "crew"} |->
                       IF x = "docs" THEN [MCToolkit EXCEPT !.skills = {s1, s2, s3}, !.servers = {m2}]
                       ELSE [MCToolkit EXCEPT !.tools = {extra}, !.servers = {m1},
                                              !.agents = {helper}]],
     teammates |-> [x \in {lead, helper} |-> IF x = lead THEN {"docs", "crew"} ELSE {"crew"}]]
ASSUME RosterAssumption == RosterAccepts(MCRoster)

Plain(name) == [name |-> name, pinned |-> {}, tools |-> {}, auto |-> TRUE, skills |-> {}]
MCRequests == [k \in {Main} |->
    {BuildTeammate(lead, MCRoster).request,
     [Plain(lead) EXCEPT !.pinned = {SkillEntry(s3), ServerEntry(m2)}],
     [Plain(lead) EXCEPT !.auto = FALSE]}]

Order1 == <<ServerEntry(m1), SkillEntry(s1), SkillEntry(s2), SkillEntry(s3), ServerEntry(m2)>>
Order2 == <<SkillEntry(s3), SkillEntry(s2), [kind |-> "tool", ref |-> read], SkillEntry(s2),
            ServerEntry(m1), SkillEntry(s1)>>
MCRankings == {[entries |-> Order1, relevant |-> 1], [entries |-> Order1, relevant |-> 4],
               [entries |-> Order2, relevant |-> 3]}
MCSubs     == {{}, {Other}}
MCSymmetry == Permutations(Caller)

Bare == [name |-> lead, tools |-> {read}, denied |-> {}, skills |-> {}, servers |-> {},
         hooks |-> {h1}]
MCSpecs  == [k \in {Main, Other} |-> IF k = Main THEN {Bare}
             ELSE {[Bare EXCEPT !.tools = {bash, extra}, !.denied = {bash}, !.hooks = {h2}]}]
MCSlates == {[name |-> lead, tools |-> {read}, skills |-> {s1}, servers |-> {m1}]}
=============================================================================
