---------------------------- MODULE PraktorPack ----------------------------
(***************************************************************************)
(* praktor_tools: each reviewed workflow becomes one tool of the pack's    *)
(* registry (turbo_praktor_tool_pack_add_workflow) or an inline plan       *)
(* (turbo_praktor_inline_plan_compile); executing it runs the bound plan   *)
(* in the Praktor engine, which calls back into the approved host tools    *)
(* (turbo_praktor_host_invoke).                                            *)
(*                                                                         *)
(* The Praktor engine is external: it compiles, describes and runs plans,  *)
(* and may fail at each.  A plan description is the record the adapter     *)
(* reads out of the engine's JSON.  Time is a small clock.                 *)
(***************************************************************************)
EXTENDS Naturals, Sequences, FiniteSets

CONSTANTS
  Configs,        \* workflow configurations offered for registration
  HostTools,      \* names of host tools
  HostCaps,       \* [HostTools -> SUBSET capabilities]: their requirements
  Contexts,       \* execution contexts: [given, deadline, token, observed]
  PlanIds,        \* identities of compiled plans
  MaxWorkflows,   \* max_workflows of the pack
  MaxTime,        \* the clock runs 0..MaxTime
  MaxRetries,     \* PRAKTOR_HOST_TOOL_MAX_RETRIES
  MaxHostCalls    \* bound on the host calls of one execution

VARIABLES
  approved,   \* the approved host tool projection: a set of host tools
  released,   \* [PlanIds -> 0..2]: times a compiled plan was released
  compiled,   \* plans the engine has handed out
  tools,      \* the registry: bindings by tool name
  inline,     \* the inline plan, a binding or NoBinding
  call,       \* the registration in progress
  exec,       \* the execution in progress
  now, cancelled

packVars == <<approved, released, compiled, tools, inline, call, exec, now, cancelled>>

NoPlan    == 0
NoBinding == [plan |-> NoPlan, cfg |-> 0, hosts |-> FALSE, project |-> FALSE,
              authority |-> FALSE, caps |-> {}]
Idle      == [pc |-> "idle", cfg |-> 0, plan |-> NoPlan, bound |-> FALSE,
              binding |-> NoBinding, caps |-> {}, result |-> "none"]
NoExec    == [pc |-> "idle", of |-> NoBinding, ctx |-> 0, start |-> 0,
              host |-> "none", until |-> 0, calls |-> 0, result |-> "none"]

Conservative == {"network", "shell", "patch", "outside_workspace"}
Names == {Configs[c].name : c \in DOMAIN Configs}
Cfg(c) == Configs[c]
Desc(c) == Configs[c].desc

----------------------------------------------------------------------------
(* What the adapter reads out of a plan's description.                      *)

\* abi_version tells which fields of the configuration may be read.
require_harness_safe(c) == Cfg(c).abi >= 2 /\ Cfg(c).safe
approved_host_tools(c)  == Cfg(c).abi >= 3 /\ Cfg(c).authority

Approved(auth, t) == auth /\ t \in approved

plan_has_host_tools(d) == d.hostsGiven /\ d.hosts # <<>>

manifest_contains(d, t) ==
  d.hostsGiven /\ \E i \in DOMAIN d.hosts : d.hosts[i].tool = t

host_tools_resolved(d, auth) ==
  /\ d.hostsGiven
  /\ \A i \in DOMAIN d.hosts : Approved(auth, d.hosts[i].tool)

\* Every unknown effect is a host tool of the plan that is approved, and the
\* profile has no other objection.
host_tool_unknowns_only(d, auth) ==
  /\ host_tools_resolved(d, auth) /\ plan_has_host_tools(d)
  /\ d.manifest /\ d.unknown
  /\ d.reasons # <<>>
  /\ \A i \in DOMAIN d.reasons :
       /\ d.reasons[i] # "other"
       /\ manifest_contains(d, d.reasons[i])
       /\ Approved(auth, d.reasons[i])
  /\ d.profile /\ d.objections # <<>>
  /\ \A i \in DOMAIN d.objections : d.objections[i] = "unknown effects"

plan_metadata_valid(d, safe, auth) ==
  /\ d.object /\ d.schema
  /\ host_tools_resolved(d, auth)
  /\ safe => /\ d.profile
             /\ d.qualified \/ host_tool_unknowns_only(d, auth)

inline_description_valid(d, auth) ==
  /\ d.object /\ d.source = "inline"
  /\ plan_metadata_valid(d, TRUE, auth)
  /\ plan_has_host_tools(d)
  /\ \A i \in DOMAIN d.hosts : d.hosts[i].retries \in 0..MaxRetries

capability_from_effect(e) ==
  CASE e = "network" -> {"network"}
    [] e \in {"process", "system_control"} -> {"shell"}
    [] e = "filesystem_write" -> {"patch"}
    [] e = "outside_workspace" -> {"outside_workspace"}
    [] e \in {"plugin", "native_extension", "model_api"} -> {"custom_tools"}
    [] e = "filesystem_read" -> {}
    [] OTHER -> {"custom_tools"} \cup Conservative

host_tool_capabilities(d) ==
  UNION {IF HostCaps[d.hosts[i].tool] = {} THEN {"custom_tools"}
         ELSE HostCaps[d.hosts[i].tool] : i \in DOMAIN d.hosts}

\* The effects up to the first that is no string; that one widens the set.
effect_capabilities(d, auth) ==
  LET resolved == d.unknown /\ host_tool_unknowns_only(d, auth)
      bad  == {i \in DOMAIN d.effects : d.effects[i] = "not a string"}
      upto == IF bad = {} THEN Len(d.effects)
              ELSE (CHOOSE i \in bad : \A j \in bad : i <= j) - 1
      mapped == UNION {IF resolved /\ d.effects[i] = "host_tool" THEN {}
                       ELSE capability_from_effect(d.effects[i]) : i \in 1..upto}
  IN  IF ~d.manifest THEN Conservative
      ELSE IF d.unknown /\ ~resolved THEN {"custom_tools"} \cup Conservative
      ELSE IF ~d.effectsGiven THEN Conservative
      ELSE IF bad # {} THEN mapped \cup Conservative
      ELSE mapped \cup IF plan_has_host_tools(d) THEN host_tool_capabilities(d) ELSE {}

effective_capabilities(c, bound) ==
  {"runtime_tools"}
    \cup (IF bound THEN effect_capabilities(Desc(c), approved_host_tools(c)) ELSE Conservative)
    \cup (IF bound /\ ~require_harness_safe(c) /\ Cfg(c).requested = <<>>
          THEN Conservative ELSE {})
    \cup {Cfg(c).requested[i] : i \in DOMAIN Cfg(c).requested}

capabilities_valid(s) ==
  \A i, j \in DOMAIN s : s[i] # "" /\ (i # j => s[i] # s[j])

----------------------------------------------------------------------------
(* Registration: one call at a time on a pack; each step may fail, and      *)
(* Cleanup releases what the call still owns.                               *)

NewPlan == CHOOSE p \in PlanIds \ compiled : TRUE

Release(r, p) == IF p = NoPlan THEN r ELSE [r EXCEPT ![p] = @ + 1]

FinishPlan(res) == call' = [call EXCEPT !.pc = "cleanup", !.result = res]

AddWorkflow(c) ==
  /\ call.pc = "idle"
  /\ Cfg(c).wellFormed
  /\ Cardinality({n \in Names : tools[n] # NoBinding}) < MaxWorkflows
  /\ call' = [Idle EXCEPT !.cfg = c, !.pc = IF Cfg(c).abi >= 2 THEN "compile" ELSE "caps"]
  /\ UNCHANGED <<approved, released, compiled, tools, inline, exec, now, cancelled>>

\* compile_plan: on any failure after the compilation the plan is released
\* here and the call returns without cleanup.
CompilePlan ==
  /\ call.pc = "compile" /\ compiled # PlanIds
  /\ compiled' = compiled \cup {NewPlan}
  /\ \/ /\ Desc(call.cfg).object
        /\ call' = [call EXCEPT !.plan = NewPlan, !.bound = TRUE, !.pc = "metadata"]
        /\ released' = released
     \/ /\ released' = Release(released, NewPlan)       \* not described, or no object
        /\ call' = Idle
  /\ UNCHANGED <<approved, tools, inline, exec, now, cancelled>>

CompileFails ==
  /\ call.pc = "compile" /\ call' = Idle
  /\ UNCHANGED <<approved, released, compiled, tools, inline, exec, now, cancelled>>

\* Variant: a refused plan is left to nobody.
MetadataLeaks ==
  /\ call.pc = "metadata"
  /\ IF plan_metadata_valid(Desc(call.cfg), require_harness_safe(call.cfg),
                            approved_host_tools(call.cfg))
     THEN call' = [call EXCEPT !.pc = "caps"] /\ released' = released
     ELSE call' = Idle /\ released' = released
  /\ UNCHANGED <<approved, compiled, tools, inline, exec, now, cancelled>>

Metadata ==
  /\ call.pc = "metadata"
  /\ IF plan_metadata_valid(Desc(call.cfg), require_harness_safe(call.cfg),
                            approved_host_tools(call.cfg))
     THEN call' = [call EXCEPT !.pc = "caps"] /\ released' = released
     ELSE call' = Idle /\ released' = Release(released, call.plan)
  /\ UNCHANGED <<approved, compiled, tools, inline, exec, now, cancelled>>

Capabilities ==
  /\ call.pc = "caps"
  /\ \/ /\ capabilities_valid(Cfg(call.cfg).requested)
        /\ call' = [call EXCEPT !.caps = effective_capabilities(call.cfg, call.bound), !.pc = "bind"]
     \/ /\ ~capabilities_valid(Cfg(call.cfg).requested)
        /\ FinishPlan("invalid argument")
     \/ FinishPlan("out of memory")
  /\ UNCHANGED <<approved, released, compiled, tools, inline, exec, now, cancelled>>

\* The binding takes the plan over: from here on destroying the binding
\* releases it.
Bind ==
  /\ call.pc = "bind"
  /\ \/ FinishPlan("out of memory")                     \* schema or binding
     \/ \E ok \in BOOLEAN :                         \* the copy of the path
          call' = [call EXCEPT
            !.plan = NoPlan,
            !.binding = [plan |-> call.plan, cfg |-> call.cfg,
                         hosts |-> call.bound /\ plan_has_host_tools(Desc(call.cfg)),
                         project |-> call.bound /\ require_harness_safe(call.cfg),
                         authority |-> approved_host_tools(call.cfg),
                         caps |-> call.caps],
            !.pc = IF ok THEN "register" ELSE "cleanup",
            !.result = IF ok THEN "none" ELSE "out of memory"]
  /\ UNCHANGED <<approved, released, compiled, tools, inline, exec, now, cancelled>>

\* The registry refuses a name it has and may refuse for lack of memory.
Register ==
  /\ call.pc = "register"
  /\ LET n == Cfg(call.cfg).name IN
     \/ /\ tools[n] = NoBinding
        /\ tools' = [tools EXCEPT ![n] = call.binding]
        /\ call' = [call EXCEPT !.binding = NoBinding, !.pc = "cleanup", !.result = "ok"]
     \/ /\ FinishPlan("refused") /\ UNCHANGED tools
  /\ UNCHANGED <<approved, released, compiled, inline, exec, now, cancelled>>

Cleanup ==
  /\ call.pc = "cleanup"
  /\ released' = Release(Release(released, call.binding.plan), call.plan)
  /\ call' = Idle
  /\ UNCHANGED <<approved, compiled, tools, inline, exec, now, cancelled>>

----------------------------------------------------------------------------
(* Inline plans.                                                            *)

InlineCompile(c) ==
  /\ call.pc = "idle" /\ inline = NoBinding /\ compiled # PlanIds
  /\ Cfg(c).wellFormed /\ Cfg(c).authority
  /\ compiled' = compiled \cup {NewPlan}
  /\ \/ /\ inline_description_valid(Desc(c), TRUE)
        /\ inline' = [NoBinding EXCEPT !.plan = NewPlan, !.cfg = c, !.hosts = TRUE,
                                       !.authority = TRUE]
        /\ released' = released
     \/ released' = Release(released, NewPlan) /\ inline' = inline
  /\ UNCHANGED <<approved, tools, call, exec, now, cancelled>>

InlineDestroy ==
  /\ inline # NoBinding /\ exec.of # inline
  /\ released' = Release(released, inline.plan)
  /\ inline' = NoBinding
  /\ UNCHANGED <<approved, compiled, tools, call, exec, now, cancelled>>

\* turbo_praktor_tool_pack_destroy: the registry destroys its bindings.
PackDestroy ==
  /\ call.pc = "idle" /\ \E n \in Names : tools[n] # NoBinding
  /\ \A n \in Names : exec.of # tools[n] \/ tools[n] = NoBinding
  /\ released' = [p \in PlanIds |->
       released[p] + Cardinality({n \in Names : tools[n].plan = p})]
  /\ tools' = [n \in Names |-> NoBinding]
  /\ UNCHANGED <<approved, compiled, inline, call, exec, now, cancelled>>

\* The host takes a tool out of the registry it lent (external); not while a
\* call of its own on the pack is reading that registry.
HostRemoves(t) ==
  /\ call.pc = "idle" /\ t \in approved /\ approved' = approved \ {t}
  /\ UNCHANGED <<released, compiled, tools, inline, call, exec, now, cancelled>>

----------------------------------------------------------------------------
(* Execution.                                                               *)

Ctx(x) == Contexts[x]

min_deadline(a, b) == IF a = 0 THEN b ELSE IF b = 0 THEN a ELSE IF a < b THEN a ELSE b

TokenExpired(x) == Ctx(x).token # 0 /\ now >= Ctx(x).token

\* context_status: the token first, then the context's own deadline.  A token
\* past its deadline reads as a deadline unless it was cancelled before.
context_status(x, deadline) ==
  IF Ctx(x).given /\ cancelled THEN "cancelled"
  ELSE IF Ctx(x).given /\ TokenExpired(x) THEN "deadline"
  ELSE IF Ctx(x).given /\ deadline # 0 /\ now >= deadline THEN "deadline"
  ELSE "ok"

\* control_from_context: the timeout the engine is given, as an instant.
control_deadline(x) ==
  IF ~Ctx(x).given THEN 0
  ELSE LET d == IF Ctx(x).deadline # 0 THEN Ctx(x).deadline ELSE Ctx(x).token
       IN  IF d = 0 THEN 0 ELSE IF d > now THEN d ELSE now + 1

Executed(res) == exec' = [NoExec EXCEPT !.result = res]

ExecBegin(b, x) ==
  /\ exec.pc = "idle" /\ exec.result = "none" /\ b # NoBinding
  /\ IF context_status(x, Ctx(x).deadline) # "ok" THEN Executed(context_status(x, Ctx(x).deadline))
     ELSE exec' = [NoExec EXCEPT !.pc = "engine", !.of = b, !.ctx = x,
                                 !.start = control_deadline(x)]
  /\ UNCHANGED <<approved, released, compiled, tools, inline, call, now, cancelled>>

\* execute_json_common: the tool's arguments become the workflow's input; what
\* the execution returns is the tool's result.
ToolExecute(n, x) == ExecBegin(tools[n], x)

\* inline_plan_execute: a binding made for this execution, without projection.
InlineExecute(x) == ExecBegin(inline, x)

\* host_context: the earliest of the context's and the token's deadline and of
\* the engine's remaining time.
host_context(x, engine) ==
  min_deadline(IF Ctx(x).given THEN min_deadline(Ctx(x).deadline, Ctx(x).token) ELSE 0,
               engine)

\* host_invoke, up to the call of the tool: the registry is asked again, the
\* cancellation probe, the resolved arguments against the schema, the context.
HostInvoke(t) ==
  /\ exec.pc = "engine" /\ exec.of.hosts /\ exec.calls < MaxHostCalls
  /\ manifest_contains(Desc(exec.of.cfg), t)
  /\ \E argsValid \in BOOLEAN :
     LET until == host_context(exec.ctx, exec.start)
         admit == /\ Approved(exec.of.authority, t)
                  /\ ~(Ctx(exec.ctx).given /\ cancelled)
                  /\ argsValid
                  /\ context_status(exec.ctx, until) = "ok"
     IN  exec' = IF admit
                 THEN [exec EXCEPT !.pc = "host", !.host = t, !.until = until, !.calls = @ + 1]
                 ELSE [exec EXCEPT !.calls = @ + 1]
  /\ UNCHANGED <<approved, released, compiled, tools, inline, call, now, cancelled>>

\* The host tool answers; a result past the bound is a failed call.
HostReturn ==
  /\ exec.pc = "host"
  /\ exec' = [exec EXCEPT !.pc = "engine", !.host = "none", !.until = 0]
  /\ UNCHANGED <<approved, released, compiled, tools, inline, call, now, cancelled>>

EngineResults ==
  {"success", "execution failed", "host tool rejected", "request error"}
    \cup (IF Ctx(exec.ctx).given /\ cancelled THEN {"engine cancelled"} ELSE {})
    \cup (IF exec.start # 0 /\ now >= exec.start THEN {"engine timed out"} ELSE {})

\* The tail of execute_text: what the engine's result becomes.
Mapped(r, oversized, object, projected) ==
  CASE r = "engine cancelled" -> "cancelled"
    [] r = "engine timed out" -> "deadline"
    [] r = "host tool rejected" -> "error"
    [] OTHER ->
         IF oversized THEN "error"
         ELSE IF r = "request error" THEN "error object"
         ELSE IF ~object THEN "error"
         ELSE IF projected THEN "agent output" ELSE "full result"

EngineReturn ==
  /\ exec.pc = "engine"
  /\ \E r \in EngineResults, oversized, object, public \in BOOLEAN :
       Executed(Mapped(r, oversized, object, exec.of.project /\ public))
  /\ UNCHANGED <<approved, released, compiled, tools, inline, call, now, cancelled>>

ExecDone ==
  /\ exec.pc = "idle" /\ exec.result # "none" /\ exec' = NoExec
  /\ UNCHANGED <<approved, released, compiled, tools, inline, call, now, cancelled>>

PackTick ==
  /\ exec.pc # "idle" /\ now < MaxTime /\ now' = now + 1
  /\ UNCHANGED <<approved, released, compiled, tools, inline, call, exec, cancelled>>

CancelRun ==
  /\ exec.pc # "idle" /\ ~cancelled /\ cancelled' = TRUE
  /\ UNCHANGED <<approved, released, compiled, tools, inline, call, exec, now>>

----------------------------------------------------------------------------
PackInit ==
  /\ approved = HostTools
  /\ released = [p \in PlanIds |-> 0] /\ compiled = {}
  /\ tools = [n \in Names |-> NoBinding] /\ inline = NoBinding
  /\ call = Idle /\ exec = NoExec /\ now = 0 /\ cancelled = FALSE

PackNext ==
  \/ \E c \in DOMAIN Configs : AddWorkflow(c) \/ InlineCompile(c)
  \/ CompilePlan \/ CompileFails \/ Metadata \/ Capabilities \/ Bind \/ Register \/ Cleanup
  \/ InlineDestroy \/ PackDestroy
  \/ \E t \in HostTools : HostRemoves(t) \/ HostInvoke(t)
  \/ \E x \in DOMAIN Contexts :
       \/ \E n \in Names : ToolExecute(n, x)
       \/ InlineExecute(x)
  \/ HostReturn \/ EngineReturn \/ ExecDone \/ PackTick \/ CancelRun

PackSpec == PackInit /\ [][PackNext]_packVars

----------------------------------------------------------------------------
Owners(p) ==
  Cardinality({n \in Names : tools[n].plan = p})
    + (IF inline.plan = p THEN 1 ELSE 0)
    + (IF call.plan = p THEN 1 ELSE 0)
    + (IF call.binding.plan = p THEN 1 ELSE 0)

\* Whatever step of a registration fails, a plan the engine handed out has
\* exactly one owner until it is released, is released once, and is not
\* released while an execution runs on it.
PlansAccounted ==
  /\ \A p \in compiled : Owners(p) + released[p] = 1
  /\ exec.of.plan # NoPlan => released[exec.of.plan] = 0

Known == {"network", "process", "system_control", "filesystem_write",
          "outside_workspace", "plugin", "native_extension", "model_api", "filesystem_read"}

\* A registered workflow requires what its plan can do: the capability of each
\* effect it declares and of each host tool it calls, and what the host asked
\* for; where anything in the description is unknown for another reason than an
\* approved host tool, it requires the whole conservative set.
CapabilitiesCover ==
  \A n \in Names : LET b == tools[n] IN b # NoBinding =>
    LET d == Desc(b.cfg)
        vague == \/ b.plan = NoPlan \/ ~d.manifest \/ ~d.effectsGiven
                 \/ d.unknown /\ \/ "other" \in {d.reasons[i] : i \in DOMAIN d.reasons}
                                 \/ "other" \in {d.objections[i] : i \in DOMAIN d.objections}
                 \/ ~d.unknown /\ \E i \in DOMAIN d.effects : d.effects[i] \notin Known
    IN  /\ {"runtime_tools"} \cup {Cfg(b.cfg).requested[i] : i \in DOMAIN Cfg(b.cfg).requested}
             \subseteq b.caps
        /\ vague => Conservative \subseteq b.caps
        /\ ~vague => \A i \in DOMAIN d.effects :
                       d.effects[i] \in Known => capability_from_effect(d.effects[i]) \subseteq b.caps
        /\ ~vague /\ b.hosts => \A i \in DOMAIN d.hosts :
             /\ HostCaps[d.hosts[i].tool] \subseteq b.caps
             /\ HostCaps[d.hosts[i].tool] = {} => "custom_tools" \in b.caps

\* A host tool starts only while the registry still approves it and the run is
\* neither cancelled nor past any of its deadlines, and it never gets a later
\* deadline than the workflow that calls it.
HostCallsAdmittedStep ==
     (exec.pc = "engine" /\ exec'.pc = "host") =>
       LET c == Ctx(exec.ctx) IN
         /\ exec'.host \in approved
         /\ c.given => /\ ~cancelled
                       /\ \A d \in {c.deadline, c.token, exec.start} \ {0} :
                            now < d /\ exec'.until # 0 /\ exec'.until <= d
HostCallsAdmitted == [][HostCallsAdmittedStep]_packVars
=============================================================================
