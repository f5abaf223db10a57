------------------------------- MODULE WorkApis -------------------------------
(***************************************************************************)
(* Tasks, workflows, agents and what agents use: the clients of task.ts,   *)
(* workflow.ts, marketplace.ts, agent.ts, skill.ts, tool.ts, memory.ts,    *)
(* resources-and-mcp.ts, capital.ts, insurance.ts, sla.ts, the receipts    *)
(* and the seed agents.                                                    *)
(***************************************************************************)
EXTENDS Methods

\* quoteTask, assignTask and completeTask are a provider's answers to a task
\* that it names; updateTask is the poster's.
Task ==
  Make({"postTask"}, {}, "task")
  \cup List({"listTasks"}, {}, "task")
  \cup Use({"getTask", "quoteTask", "assignTask", "completeTask", "updateTask"}, {"task"})
  \cup End({"cancelTask"}, {}, "task")

\* workflow_id and intent_id are optional: the payload may name the object.
Workflow ==
  Make({"open"}, {}, "workflow") \cup Named({"open"}, {}, "workflow")
  \cup Use({"stepExecute", "stepVerify", "stepCompensate", "get", "getSaga", "getLifecycle",
            "getReceipt", "getOperationalMetrics", "mirrorToCanton"}, {"workflow"})
  \cup List({"listByCreator", "listByParticipant", "listByStatus"}, {}, "workflow")
  \cup Use({"listReceipts", "verifyDidEnvelope"}, {})
  \cup End({"finalize"}, {}, "workflow")

Capital ==
  Make({"open"}, {}, "intent") \cup Named({"open"}, {}, "intent")
  \cup Use({"quote", "assign", "execute", "verify", "get"}, {"intent"})
  \cup End({"settle", "compensate"}, {}, "intent")
  \cup Use({"submitReserveAttestation", "getReserve", "attestedMint"}, {})

\* template_id is optional as well.
Marketplace ==
  Make({"registerAgentTemplate"}, {}, "template")
  \cup Named({"registerAgentTemplate"}, {}, "template")
  \cup List({"listAgentTemplates", "searchAgentTemplates"}, {}, "template")
  \cup Use({"runAgentTemplate", "getAgentTemplate", "updateAgentTemplate", "rateAgentTemplate",
            "getAgentTemplateStats"}, {"template"})
  \cup Make({"spawnAgentFromTemplate"}, {"template"}, "templateAgent")

\* Registered, spawned and swarm agents; delegateTask sends its task to the
\* node's /a2a under a random id and does not name the agent it is given.
AgentMakers ==
  Make({"register", "registerWithKeys", "spawnAgent"}, {}, "agent")
  \cup Make({"sendMessage", "sendMessageSigned"}, {"agent"}, "message")
  \cup Make({"delegateTask"}, {}, "a2aTask")
  \cup List({"listAgents"}, {}, "agent")
  \cup Use({"runAgentTask"}, {"agent"})
  \cup Make({"createSwarm"}, {"agent"}, "swarm")
  \cup Use({"getSwarmStatus"}, {"swarm"})
  \cup End({"terminateSwarm"}, {}, "swarm")

AgentTemplates ==
  Make({"spawnAgentTemplate"}, {}, "agent")
  \cup Use({"downloadAgentTemplate", "updateAgentTemplate", "discoverModels"}, {})
  \cup List({"discoverAgents"}, {}, "agent")
  \cup Make({"spawnAgentWithSkill"}, {"agent"}, "agent")
  \cup Use({"runAgentTemplate", "fundAgent", "swapToken"}, {"agent"})

\* agent.ts is one client; its three parts share the agents.
AgentControl ==
  Use({"agentPayForInference", "setGasPolicy", "getGasPolicy", "suspendAgent", "resumeAgent",
       "agentHeartbeat", "getAgentCapabilityAttestations"}, {"agent"})
  \cup Use({"listCapabilities", "getCapabilityAttestations", "findBestAgentForCapability"}, {})

Agent == AgentMakers \cup AgentTemplates \cup AgentControl

Skill ==
  Make({"registerSkill"}, {}, "skill")
  \cup List({"listSkills", "searchSkills"}, {}, "skill")
  \cup Use({"useSkill", "getSkill", "updateSkill", "getSkillUsage"}, {"skill"})

Tool ==
  Make({"registerTool"}, {}, "tool")
  \cup List({"listTools", "searchTools"}, {}, "tool")
  \cup Use({"useTool", "getTool", "updateTool", "getToolUsage"}, {"tool"})

Memory ==
  Make({"grant"}, {}, "memory")
  \cup List({"recall", "listRecords"}, {}, "memory")
  \cup End({"archive"}, {}, "memory")

Resources ==
  Use({"list", "use"}, {})
  \cup Make({"spawnChildAgent"}, {}, "childAgent")

Knowledge ==
  Make({"register"}, {}, "knowledge")
  \cup List({"list", "search"}, {}, "knowledge")
  \cup Use({"get", "use"}, {"knowledge"})

\* storeSecret is given the reference it seals the plaintext under.
McpHost ==
  Named({"storeSecret"}, {}, "secret")
  \cup End({"forgetSecret"}, {}, "secret")
  \cup Use({"evictSubprocess"}, {})

\* The nonce in FileClaimParams makes the claim's id.
Insurance ==
  Named({"fileInsuranceClaim"}, {}, "claim")
  \cup List({"listInsuranceClaims"}, {}, "claim")
  \cup Use({"getInsuranceClaim"}, {"claim"})
  \cup Use({"getInsurancePoolBalance"}, {})

Sla ==
  Make({"issueProbe"}, {}, "probe")
  \cup List({"listOutstandingProbes"}, {}, "probe") \cup Use({"getParams"}, {})

PrincipalChain ==
  Use({"getReceiptPrincipalChain", "listReceiptsByActor", "listReceiptsByController",
       "summarizeController"}, {})

Lifecycle ==
  Use({"getAgentLifecycle", "listKillSwitchByAgent", "listKillSwitchByController",
       "getKillSwitchReceipt"}, {})

SeedAgent ==
  Use({"getTreasuryEarmark", "getSeedAgentCharter", "listSeedAgentCharters", "listSeedAgents",
       "getNetworkActivity"}, {})
=============================================================================
