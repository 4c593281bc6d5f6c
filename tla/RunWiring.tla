----------------------------- MODULE RunWiring ------------------------------
(***************************************************************************)
(* From a stored specification to the options of a live run: prepare_run   *)
(* (engine/dispatch.py) and the wrappers it chains (engine/render.py,      *)
(* codex_tool.py, findings_tool.py, acquire_tool.py), for callers of       *)
(* several processes that share one pool directory, and so the entries and *)
(* the settings files.  The specifications change meanwhile: they are      *)
(* assembled (Assembly), stored by a library user or the orchestrator, or  *)
(* acquired.  Rows and sessions are DirectRuns' and TeammateServer's.      *)
(*                                                                         *)
(* A server in a tool grant stands for its wildcard mcp__<server>__*.      *)
(***************************************************************************)
EXTENDS Assembly, Functions

CONSTANTS Key,       \* agent keys, as sequences of symbols
          Suffix,    \* "-acquire-<slug>" of the needs
          Caller,    \* calls to prepare_run under way
          Requests,  \* Requests[k]: what an agent is assembled from under key k
          Rankings,  \* rankings of the catalog
          Specs,     \* Specs[k]: specifications stored as they are under key k
          Slates,    \* what the router finds for a need: [name, tools, skills, servers]
          Subs,      \* sets of keys a run may be asked to wire in
          Notify,    \* hooks a caller adds to the run (extra_hooks)
          NoFile,    \* options.settings left out
          MaxSaves   \* bound: saves of an entry

ASSUME KeyAssumption ==
    /\ Key \subseteq Seq(UNION {ToSet(k) : k \in Key}) /\ Key # {}
    /\ \A k \in Key : \A s \in Suffix : DerivedKey(k, s) \in Key
\* A suffix is "-acquire-" and a slug of at most 64 symbols.
ASSUME SuffixAssumption ==
    \A s \in Suffix : /\ s \in Seq(UNION {ToSet(k) : k \in Key})
                      /\ Len(s) \in 2 .. KeyMax /\ s[2] \notin Separators
ASSUME InputAssumption ==
    /\ MaxSaves \in Nat /\ Rankings \subseteq Ranking /\ NoFile \notin Key
    /\ Slates \subseteq [name : Name, tools : SUBSET Tool, skills : SUBSET Skill,
                         servers : SUBSET Server]
    /\ DOMAIN Requests \subseteq Key
    /\ \A k \in DOMAIN Requests : Requests[k] \subseteq Request
    /\ DOMAIN Specs \subseteq Key /\ \A k \in DOMAIN Specs : Specs[k] \subseteq Spec
    /\ Subs \subseteq SUBSET Key /\ Notify \subseteq Hook

VARIABLES specs,   \* table agents: the specification stored under a key
          orders,  \* the request and ranking it was assembled from (history)
          saves,   \* saves so far, bounded
          files,   \* <stem>.hooks.json of the pool directory
          calls    \* what each caller is doing

vars == <<specs, orders, saves, files, calls>>

\* The harness's tools and the servers this package mounts in the process.
SUBAGENT_TOOL     == "Agent"
SEND_MESSAGE_TOOL == "SendMessage"
ToolOf    == [findings |-> "write_finding", acquire |-> "acquire_capability",
              codex    |-> "codex_run"]
InProcess == DOMAIN ToolOf

\* A specification names the catalog's tools and servers, none of these (which
\* nothing refuses: an agent that denies itself one of them does not reach it).
ASSUME ReservedAssumption ==
    /\ Server \cap InProcess = {}
    /\ (Tool \cup Server) \cap ({SUBAGENT_TOOL, SEND_MESSAGE_TOOL}
                               \cup {ToolOf[s] : s \in InProcess}) = {}

NoAgents == [k \in {} |-> k]
Options  == [allowed |-> {}, denied |-> {}, servers |-> {}, agents |-> NoAgents,
             settings |-> NoFile]
Nothing  == [key |-> << >>, by |-> NoFile, hooks |-> {}]
Idle     == [at |-> "idle", key |-> << >>, resume |-> FALSE, declared |-> {},
             options |-> Options, loaded |-> Nothing]

WiringTypeOK ==
    /\ DOMAIN specs \subseteq Key /\ \A k \in DOMAIN specs : specs[k] \in Spec
    /\ DOMAIN orders \subseteq DOMAIN specs
    /\ saves \in 0 .. MaxSaves
    /\ DOMAIN files \subseteq Key
    /\ \A c \in Caller :
          /\ calls[c].at \in {"idle", "subagents", "hooks", "mount", "query", "live"}
          /\ DOMAIN calls[c].options.agents \subseteq Key
          /\ calls[c].options.servers \subseteq InProcess
          /\ calls[c].options.settings \in Key \cup {NoFile}
          /\ calls[c].declared \subseteq Hook

WiringInit ==
    /\ specs = [k \in {} |-> {}] /\ orders = [k \in {} |-> {}] /\ saves = 0
    /\ files = [k \in {} |-> {}]
    /\ calls = [c \in Caller |-> Idle]

Put(f, x, y)  == [z \in DOMAIN f \cup {x} |-> IF z = x THEN y ELSE f[z]]
Goes(c, call) == calls' = [calls EXCEPT ![c] = call]

-----------------------------------------------------------------------------
Stored(k, spec) ==
    /\ saves' = saves + 1
    /\ specs' = Put(specs, k, spec)
    /\ UNCHANGED <<files, calls>>

\* pool.create_agent; nothing is stored when select raises.
CreateAgent(k, request, ranking) ==
    /\ saves < MaxSaves
    /\ k \in DOMAIN Requests /\ request \in Requests[k]
    /\ ~SelectRaises(ranking, request)
    /\ Stored(k, Assemble(ranking, request))
    /\ orders' = Put(orders, k, [request |-> request, ranking |-> ranking])

\* AgentPool.save of a specification made elsewhere (spawn, a library user).
StoreSpec(k, spec) ==
    /\ saves < MaxSaves
    /\ k \in DOMAIN Specs /\ spec \in Specs[k]
    /\ Stored(k, spec)
    /\ orders' = Restrict(orders, DOMAIN orders \ {k})

\* acquire_capability in a run of k.
AcquireCapability(k, suffix, slate) ==
    LET derived == DerivedKey(k, suffix)
    IN  /\ saves < MaxSaves
        /\ k \in DOMAIN specs
        /\ Stored(derived, AcquiredSpec(slate.name, slate.tools, slate.skills, slate.servers))
        /\ orders' = Restrict(orders, DOMAIN orders \ {derived})

-----------------------------------------------------------------------------
(***************************************************************************)
(* The mapping of a specification to the SDK's records.                    *)
(***************************************************************************)
\* tool_grant
ToolGrant(spec) == spec.tools \cup spec.servers

\* withheld_tools: what is denied, and every built-in that is not granted.
WithheldTools(spec) == spec.denied \cup (Builtin \ spec.tools)

\* to_options
ToOptions(spec) == [Options EXCEPT !.allowed = ToolGrant(spec), !.denied = WithheldTools(spec)]

\* to_agent_definition
ToAgentDefinition(spec) ==
    [tools |-> ToolGrant(spec), denied |-> spec.denied, servers |-> spec.servers]

\* with_subagents
WithSubagents(options, subs) ==
    [options EXCEPT !.agents  = [k \in subs |-> ToAgentDefinition(specs[k])],
                    !.allowed = @ \cup {SUBAGENT_TOOL}]

\* with_codex_tool, with_findings_tool and with_acquire_tool: the options that
\* prepare_run hands them have no server of another kind.
WithServers(options, servers) ==
    [options EXCEPT !.servers = @ \cup servers, !.allowed = @ \cup {ToolOf[s] : s \in servers}]

\* grant_codex_, grant_findings_ and grant_acquire_to_subagent.  The tools of a
\* definition made by to_agent_definition are never None.
GrantServers(definition, servers) ==
    [definition EXCEPT !.servers = @ \cup servers, !.tools = @ \cup {ToolOf[s] : s \in servers}]

-----------------------------------------------------------------------------
(***************************************************************************)
(* prepare_run.                                                            *)
(***************************************************************************)
\* get_by_key, and the options begin_run builds from the entry.
Lookup(c, k) ==
    /\ calls[c].at = "idle" /\ k \in DOMAIN specs
    /\ Goes(c, [Idle EXCEPT !.at = "subagents", !.key = k, !.declared = specs[k].hooks,
                            !.options = ToOptions(specs[k])])
    /\ UNCHANGED <<specs, orders, saves, files>>

\* The subagents' entries; a missing one is a KeyError.  No keys, no wrapper.
\* What the caller asked for is chosen where it is used.
WireSubagents(c, subs) ==
    LET call == calls[c]
    IN  /\ call.at = "subagents"
        /\ IF subs = {} THEN Goes(c, [call EXCEPT !.at = "hooks"])
           ELSE IF subs \subseteq DOMAIN specs
           THEN Goes(c, [call EXCEPT !.at = "hooks",
                              !.declared = @ \cup UNION {specs[k].hooks : k \in subs},
                              !.options  = WithSubagents(@, subs)])
           ELSE Goes(c, Idle)
        /\ UNCHANGED <<specs, orders, saves, files>>

\* Mutant: the file is named after the display name.
WithHooks_ByName(c, extra) ==
    LET call  == calls[c]
        hooks == call.declared \cup extra
        name  == specs[call.key].name
    IN  /\ call.at = "hooks"
        /\ IF hooks = {} THEN Goes(c, [call EXCEPT !.at = "mount"]) /\ UNCHANGED files
           ELSE /\ files' = Put(files, name, [key |-> call.key, by |-> c, hooks |-> hooks])
                /\ Goes(c, [call EXCEPT !.at = "mount", !.declared = hooks,
                                        !.options.settings = name])
        /\ UNCHANGED <<specs, orders, saves>>

\* with_hooks: one file for the run, named after the key of its entry.
WithHooks(c, extra) ==
    LET call  == calls[c]
        hooks == call.declared \cup extra
    IN  /\ call.at = "hooks"
        /\ IF hooks = {} THEN Goes(c, [call EXCEPT !.at = "mount"]) /\ UNCHANGED files
           ELSE /\ files' = Put(files, call.key, [key |-> call.key, by |-> c, hooks |-> hooks])
                /\ Goes(c, [call EXCEPT !.at = "mount", !.declared = hooks,
                                        !.options.settings = call.key])
        /\ UNCHANGED <<specs, orders, saves>>

\* Mutant: the subagents are granted codex whether or not it is mounted.
Mounted_CodexAnyway(options, codex) ==
    LET servers == {"findings", "acquire"} \cup (IF codex THEN {"codex"} ELSE {})
    IN  [WithServers(options, servers) EXCEPT
            !.agents = [k \in DOMAIN @ |-> GrantServers(@[k], InProcess)]]

\* The servers, and their grants to every subagent.
Mounted(options, codex) ==
    LET servers == {"findings", "acquire"} \cup (IF codex THEN {"codex"} ELSE {})
    IN  [WithServers(options, servers) EXCEPT
            !.agents = [k \in DOMAIN @ |-> GrantServers(@[k], servers)]]

\* with_agent_resume
WithAgentResume(options) == [options EXCEPT !.allowed = @ \cup {SEND_MESSAGE_TOOL}]

\* The rest of prepare_run, in which nothing is shared.
Mount(c, codex, resume) ==
    LET call    == calls[c]
        options == Mounted(call.options, codex)
    IN  /\ call.at = "mount"
        /\ Goes(c, [call EXCEPT !.at = "query", !.resume = resume,
                        !.options = IF resume THEN WithAgentResume(options) ELSE options])
        /\ UNCHANGED <<specs, orders, saves, files>>

\* The query opens: the SDK takes the options, and the CLI reads the settings
\* file (external).
Opens(c) ==
    LET call == calls[c]
    IN  /\ call.at = "query"
        /\ Goes(c, [Idle EXCEPT !.at = "live", !.key = call.key, !.declared = call.declared,
                        !.loaded = IF call.options.settings = NoFile THEN Nothing
                                   ELSE files[call.options.settings]])
        /\ UNCHANGED <<specs, orders, saves, files>>

Ends(c) ==
    /\ calls[c].at = "live"
    /\ Goes(c, Idle)
    /\ UNCHANGED <<specs, orders, saves, files>>

WiringNext ==
    \/ \E k \in DOMAIN Requests, ranking \in Rankings :
          \E request \in Requests[k] : CreateAgent(k, request, ranking)
    \/ \E k \in DOMAIN Specs : \E spec \in Specs[k] : StoreSpec(k, spec)
    \/ \E k \in Key, suffix \in Suffix, slate \in Slates : AcquireCapability(k, suffix, slate)
    \/ \E c \in Caller :
         \/ \E k \in Key : Lookup(c, k)
         \/ \E subs \in Subs : WireSubagents(c, subs)
         \/ \E extra \in {{}, Notify} : WithHooks(c, extra)
         \/ \E codex, resume \in BOOLEAN : Mount(c, codex, resume)
         \/ Opens(c) \/ Ends(c)

WiringSpec == WiringInit /\ [][WiringNext]_vars

-----------------------------------------------------------------------------
(***************************************************************************)
(* An assembled agent is what was asked for: the default tools and every   *)
(* extra one, exactly the skills that were named, and exactly the servers  *)
(* that were recalled and are relevant or pinned, however many; skills     *)
(* nobody named are chosen within their budget, best first, and none is    *)
(* left out while there is room (select, compose, and the toolkits of      *)
(* models/agent/teammate.py:43-52, whose pins pass the relevance filter).  *)
(* A pinned entry that the recall did not reach is not among them.         *)
(***************************************************************************)
AgentIsWhatWasAskedFor ==
    \A k \in DOMAIN orders :
        LET request    == orders[k].request
            found      == Recall(orders[k].ranking)
            candidates == {i \in DOMAIN found :
                              i <= orders[k].ranking.relevant \/ found[i] \in request.pinned}
            refs(kind, end) ==
                {found[i].ref : i \in {j \in candidates : j < end /\ found[j].kind = kind}}
            all        == Len(found) + 1
            chosen     == specs[k].skills
        IN  /\ Builtin \cup request.tools \subseteq specs[k].tools
            /\ specs[k].servers = refs("mcp", all)
            /\ IF ~request.auto THEN chosen = request.skills
               ELSE /\ chosen \subseteq refs("skill", all)
                    /\ Cardinality(chosen) <= SkillBudget
                    /\ \A i \in candidates : found[i].kind = "skill" /\ found[i].ref \notin chosen =>
                          /\ Cardinality(chosen) = SkillBudget
                          /\ chosen \subseteq refs("skill", i)

(***************************************************************************)
(* No run loads the hooks of another agent, whatever else is prepared in   *)
(* the same directory, be it under the same display name                   *)
(* (render.py:243-248, dispatch.py:298-300).  It loads the file of a       *)
(* preparation of its own entry; if that is its own preparation, every     *)
(* hook of the agent, its subagents and the caller is in it; and a run     *)
(* without hooks loads none.  (Another run of the same entry may rewrite   *)
(* the file before the query opens.)                                       *)
(***************************************************************************)
RunsLoadTheirOwnHooks ==
    \A c \in Caller : calls[c].at = "live" =>
        IF calls[c].declared = {} THEN calls[c].loaded = Nothing
        ELSE /\ calls[c].loaded.key = calls[c].key
             /\ calls[c].loaded.by = c => calls[c].loaded.hooks = calls[c].declared

(***************************************************************************)
(* Every agent of a run reaches every server the run mounts, and none      *)
(* names a server of ours that is not mounted (prepare_run's docstring,    *)
(* dispatch.py:249-252: the writer and the acquire tool go "to main agent  *)
(* and to every subagent definition").  The run can delegate exactly when  *)
(* it has subagents, and can continue one only when it was asked to.       *)
(***************************************************************************)
EveryAgentReachesTheServers ==
    \A c \in Caller : calls[c].at = "query" =>
        LET options == calls[c].options
            tools   == {ToolOf[s] : s \in options.servers}
        IN  /\ {"findings", "acquire"} \subseteq options.servers
            /\ tools \subseteq options.allowed \ options.denied
            /\ \A k \in DOMAIN options.agents :
                  /\ options.agents[k].servers \cap InProcess = options.servers
                  /\ tools \subseteq options.agents[k].tools \ options.agents[k].denied
            /\ SUBAGENT_TOOL \in options.allowed <=> DOMAIN options.agents # {}
            /\ SEND_MESSAGE_TOOL \in options.allowed <=> calls[c].resume

(***************************************************************************)
(* An acquired agent is not its caller: the derived key keeps the whole    *)
(* suffix, is a key the pool accepts, and is another key than the          *)
(* caller's, except where acquired_agent_key's docstring                   *)
(* (acquire_tool.py:71-73, "never collapses to the caller's own            *)
(* agent_key") overlooks a caller that was itself acquired for this need   *)
(* and is of the greatest length or one short of it (the base is then cut  *)
(* after the suffix's first dash, which is stripped again): that one is    *)
(* overwritten by what it acquires.                                        *)
(***************************************************************************)
AcquiredAgentIsAnother ==
    \A k \in DOMAIN specs : \A suffix \in Suffix :
        LET derived == DerivedKey(k, suffix)
        IN  /\ Len(derived) <= KeyMax
            /\ IsSuffix(suffix, derived)
            /\ derived # k \/ (Len(k) >= KeyMax - 1 /\ IsSuffix(suffix, k))
=============================================================================
