------------------------------- MODULE ModelApis ------------------------------
(***************************************************************************)
(* What providers run and keep: the clients of provider.ts, inference.ts,  *)
(* multimodal.ts, media-gen.ts, cortex.ts, training.ts, compute.ts,        *)
(* hosting.ts, database.ts, storage.ts, files.ts, iroh.ts, snapshot.ts,    *)
(* device.ts and discovery.ts.                                             *)
(***************************************************************************)
EXTENDS Methods

\* A download and a served model are named by the model id.
ProviderModels ==
  Make({"participate"}, {}, "participant")
  \cup Named({"downloadModel"}, {}, "download")
  \cup Use({"getDownloadProgress"}, {"download"})
  \cup Named({"serveModel"}, {"download"}, "serving")
  \cup End({"stopModel"}, {}, "serving")
  \cup End({"deleteModel"}, {}, "download")

ProviderRequests ==
  Use({"chat", "chatWith", "getHardwareProfile", "setRoles", "getRoles", "stats"}, {})
  \cup Make({"register"}, {}, "registration")

\* An endpoint is registered under an instance id that the node chooses; what
\* is listed is every endpoint of the network.
ProviderEndpoints ==
  Use({"computeBondParams", "getComputeBond", "listComputeBonds", "getModelLoad"}, {})
  \cup List({"listProviders"}, {}, "registration")
  \cup List({"listModelEndpoints"}, {}, "endpoint")

ProviderNode ==
  Make({"joinAsMicroNode"}, {}, "microNode")
  \cup Use({"setProviderSchedule", "getProviderSchedule", "setProviderPricing",
            "getProviderPricing"}, {})
  \cup Make({"registerModelEndpoint"}, {}, "endpoint")
  \cup Use({"getModelEndpoint"}, {"endpoint"})
  \cup End({"unregisterModelEndpoint"}, {}, "endpoint")
  \cup Named({"addResource"}, {}, "resource")
  \cup Make({"sendTransaction"}, {}, "payment")

Provider == ProviderModels \cup ProviderRequests \cup ProviderEndpoints \cup ProviderNode

\* A recorded hash is the model's; a generation is the answer of a request.
InferenceModels ==
  Use({"listModels", "getModelHash"}, {})
  \cup Named({"recordModelHash"}, {}, "modelHash")
  \cup List({"listModelHashes"}, {}, "modelHash")
  \cup Make({"request"}, {}, "generation")
  \cup Use({"routeIntent"}, {})

InferenceRouting ==
  Make({"chatByIntent", "orchestrate"}, {}, "generation")
  \cup Use({"recordRouteOutcome", "routeDifficultyStats", "listModelEndpoints",
            "routerMetrics", "getProvenance"}, {})
  \cup Use({"getGeneration"}, {"generation"})
  \cup List({"listInferenceUsage"}, {}, "generation")

Inference == InferenceModels \cup InferenceRouting

\* The methods of one of the families (forecast, vision, text embedding,
\* segmentation, text segmentation, detection, audio, video): they differ in
\* their names, and in what the run returns.
MultimodalFamily ==
  Use({"listCatalog"}, {})
  \cup List({"listModels"}, {}, "loaded")
  \cup Named({"loadModel"}, {}, "loaded")
  \cup End({"unloadModel"}, {}, "loaded")
  \cup Use({"run"}, {"loaded"})

\* Two of them have more than one way to be run.
MultimodalRuns ==
  Use({"imageEmbed", "imageTextSimilarity", "textSegment", "transcribe"}, {})

Multimodal == MultimodalFamily \cup MultimodalRuns

MediaGenReads ==
  Use({"listCatalog", "quote", "listWorkers"}, {})
  \cup List({"listJobs"}, {}, "mediaJob")
  \cup Use({"getJob", "getReceipt", "fetchOutput", "fetchLatent", "fetchInput"}, {"mediaJob"})

MediaGenWrites ==
  Make({"postJob"}, {}, "mediaJob")
  \cup Named({"enrollWorker"}, {}, "mediaWorker")
  \cup Use({"claimJob", "markRunning", "recordHandoff", "submitReceipt"},
           {"mediaJob", "mediaWorker"})
  \cup End({"failJob"}, {"mediaWorker"}, "mediaJob")
  \cup End({"cancelJob"}, {}, "mediaJob")
  \cup Named({"publishOutput"}, {}, "mediaOutput")

MediaGen == MediaGenReads \cup MediaGenWrites

CortexReason == Use({"reason", "reasonWithRequest"}, {})

CortexWorkers ==
  Make({"registerWorker"}, {}, "cortexWorker")
  \cup List({"listWorkers", "listRemoteWorkers"}, {}, "cortexWorker")

Cortex == CortexReason \cup CortexWorkers

TrainingReads ==
  List({"listRuns"}, {}, "run")
  \cup Use({"getRun", "getReceipt", "getSealedManifest"}, {"run"})
  \cup Use({"daemonStatus"}, {})

TrainingWrites ==
  Make({"postTask"}, {}, "run")
  \cup Named({"enrollTrainer"}, {"run"}, "trainer")
  \cup Use({"submitOuterGradient"}, {"run", "trainer"})
  \cup Use({"finalizeRound", "decideRound", "installSealedManifest"}, {"run"})

Training == TrainingReads \cup TrainingWrites

\* The renter pays for a rental or a deal from a deposit when it is made, and
\* only its own answer names it.
Compute ==
  Make({"bookRental"}, {}, "rental")
  \cup Use({"settleEpoch", "getRental"}, {"rental"})
  \cup Use({"setDynamicPricing", "status"}, {})

Storage ==
  Named({"storeObject"}, {}, "object")
  \cup Make({"openDeal"}, {"object"}, "deal")
  \cup Use({"chargeEpoch", "getDeal"}, {"deal"})
  \cup Use({"setDynamicPricing", "status"}, {})

Database ==
  Named({"create"}, {}, "database")
  \cup List({"list"}, {}, "database")
  \cup Use({"get", "listPartitions", "getPartition", "query", "authorizeRead", "rescale"},
           {"database"})
  \cup Make({"issueConnection"}, {"database"}, "connection")
  \cup End({"drop"}, {}, "database")
  \cup Use({"listEngines"}, {})

Files ==
  Make({"upload"}, {}, "file")
  \cup List({"list"}, {}, "file")
  \cup Use({"get", "download"}, {"file"})
  \cup End({"delete"}, {}, "file")
  \cup Use({"usage"}, {})

\* A blob's URI is the hash of its bytes.
Iroh ==
  Named({"publishBlob"}, {}, "blob")
  \cup Use({"fetchBlob", "resolve"}, {"blob"})
  \cup Use({"getInfo", "getEndpointId", "listAlpns"}, {})

Snapshot ==
  List({"listSnapshots"}, {}, "snapshot")
  \cup Use({"getSnapshotManifest", "getSnapshotChunk"}, {"snapshot"})

\* Sites, and what is attached to them under a hostname or the site's own id.
HostingSites ==
  Make({"publishSite"}, {}, "site")
  \cup List({"listSites"}, {}, "site")
  \cup Use({"getSite"}, {"site"}) \cup End({"removeSite"}, {}, "site")
  \cup Named({"setAlias"}, {"site"}, "alias")
  \cup List({"listAliases"}, {}, "alias")
  \cup Use({"getAlias"}, {"alias"}) \cup End({"removeAlias"}, {}, "alias")
  \cup Named({"setPlacement"}, {"site"}, "placement")
  \cup List({"listPlacements"}, {}, "placement")
  \cup Use({"getPlacement"}, {"placement"}) \cup End({"removePlacement"}, {}, "placement")

HostingDomains ==
  Named({"claimDomain"}, {"site"}, "domain")
  \cup List({"listDomains"}, {}, "domain")
  \cup Use({"verifyDomain", "getDomain"}, {"domain"})
  \cup End({"removeDomain"}, {}, "domain")
  \cup Make({"deployFunction"}, {}, "function")
  \cup List({"listFunctions"}, {}, "function")
  \cup Use({"getFunction"}, {"function"}) \cup End({"removeFunction"}, {}, "function")
  \cup Make({"deployMachine"}, {}, "machine")
  \cup List({"listMachines"}, {}, "machine")
  \cup Use({"getMachine", "machineStatus"}, {"machine"}) \cup End({"removeMachine"}, {}, "machine")
  \cup Use({"machineSealingKey", "listLeases", "leasesForApp"}, {})

Hosting == HostingSites \cup HostingDomains

\* The credential id is part of the attestation object.
Device ==
  Named({"bindDevice"}, {}, "device")
  \cup List({"listBoundDevices"}, {}, "device")
  \cup End({"revokeBoundDevice"}, {}, "device")
  \cup Use({"walletReadiness", "transferMachineOwnership", "settlementNetworks",
            "routePayment", "getInteraction", "verifyInteraction"}, {})

DiscoveryReads ==
  Use({"ibcEurekaCommitmentTag", "nearChainSigEpsilon", "bitvm2VerifierKinds",
       "hyperbridgeMintControlsDefault", "stargateV2KnownPools", "universalResolverMethods",
       "siwtBuildMessage", "siwtParseMessage", "keriBuildInception", "mpcPresignStats",
       "mpcPkrStatus", "globalSupplyPolicy", "globalSupplyCirculating", "validateLei"}, {})

DiscoveryExperts ==
  Use({"moeShardMap", "moePlanDispatch", "moeReplicationPolicy", "moeCatalogShape",
       "moeExpertStatus", "moePrepareExperts", "moeForward", "localPeers", "nodeReachability",
       "nodeProfile", "clusterPlan", "clusterPreview"}, {})

DiscoveryApi == DiscoveryReads \cup DiscoveryExperts
=============================================================================
