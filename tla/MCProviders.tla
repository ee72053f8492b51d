---------------------------- MODULE MCProviders ----------------------------
(* One run for what talks to a service outside: the key failover of the chat *)
(* model, the embedding adapters, the settings dialog that selects the       *)
(* profile, the cache of the audit ledger, the page that shows it, and the    *)
(* quota store.  They share no state here, so a behaviour is one of one of   *)
(* them while the others rest.                                               *)
EXTENDS GeminiFailover, EmbeddingCall, SettingsDialog, AuditCacheSync, AuditDashboard, QuotaWindows, TLC

CONSTANTS t1, t2, c1, c2, bge, gemini, qwen, geminiAlias, k1, k2, q1, q2, q3, q4, q5

\* The local model declares one dimension and may turn out to have another.
MCProfiles ==
  bge :> [provider |-> "huggingface", dimension |-> 2] @@
  gemini :> [provider |-> "google_genai", dimension |-> 2] @@
  qwen :> [provider |-> "nebius", dimension |-> 1]

MCAliases == geminiAlias :> gemini

\* The second and the third ask were received at the same time.
MCReceivedAt == <<1, 2, 2, 3>>

\* Four requests of one client and one of another.
MCClientOf == [q \in {q1, q2, q3, q4} |-> k1] @@ q5 :> k2

TabSymmetry == Permutations(Tabs)

VARIABLE side \* which of them moves

all == <<vars, callVars, settingsVars, cacheVars, dashboardVars, quotaVars>>

ProvidersInit ==
  /\ side \in {"chat", "embedding", "settings", "cache", "dashboard", "quota"}
  /\ Init /\ CallInit /\ SettingsInit /\ CacheInit /\ DashboardInit /\ QuotaInit
  /\ side # "settings" => dialogMode = "local" \* the others rest in one state
  /\ side # "chat" => exhausted = {}
  /\ side # "cache" => Present(remote) = {}
  /\ side # "dashboard" => table = {}

ProvidersNext ==
  \/ side = "chat" /\ Next /\ UNCHANGED <<callVars, settingsVars, cacheVars, dashboardVars, quotaVars, side>>
  \/ side = "embedding" /\ CallNext /\ UNCHANGED <<vars, settingsVars, cacheVars, dashboardVars, quotaVars, side>>
  \/ side = "settings" /\ SettingsNext /\ UNCHANGED <<vars, callVars, cacheVars, dashboardVars, quotaVars, side>>
  \/ side = "cache" /\ CacheNext /\ UNCHANGED <<vars, callVars, settingsVars, dashboardVars, quotaVars, side>>
  \/ side = "dashboard" /\ DashboardNext /\ UNCHANGED <<vars, callVars, settingsVars, cacheVars, quotaVars, side>>
  \/ side = "quota" /\ QuotaNext /\ UNCHANGED <<vars, callVars, settingsVars, cacheVars, dashboardVars, side>>
  \/ side \in {"cache", "dashboard", "quota"} /\ UNCHANGED <<all, side>> \* they stop at their bounds

ProvidersSpec == ProvidersInit /\ [][ProvidersNext]_<<all, side>>
=============================================================================
