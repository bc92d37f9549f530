----------------------------- MODULE Deployment -----------------------------
(***************************************************************************)
(* The life of a backend process, over the schema of SchemaUpgrades.tla:   *)
(* importing app.main builds the application from the environment, the     *)
(* lifespan builds the provider and then brings the database up, and from  *)
(* then on requests read the settings, the provider and the limits.        *)
(*                                                                         *)
(* The environment (in the code: the variables and the .env file) may be   *)
(* edited at any time.  Settings are read once per process, by the         *)
(* lru_cache of get_settings.  What a token lives on after a stop is its   *)
(* signature; its lifetime is in Accounts.tla.                             *)
(***************************************************************************)
EXTENDS SchemaUpgrades

CONSTANTS
  Environments,   \* what may be in the environment, see Settings
  MaxEdits        \* bound: how often it is edited

Providers == {"openai", "anthropic"}
Algorithms == {"HS256", "HS384", "HS512"}

(* The fields of Settings the process reads once it runs.  A secret is     *)
(* told by what the validator looks at, entropy in tenths of a bit; keys:  *)
(* the providers with an API key.                                          *)
Secrets == [name : STRING, placeholder : BOOLEAN, bytes : Nat, distinct : Nat, entropy : Nat]
Settings ==
  [jwt_secret_key : Secrets, jwt_algorithm : Algorithms,
   access_token_expire_minutes : Int, refresh_token_expire_minutes : Int,
   auth_rate_limit_per_minute : Int, generation_rate_limit_per_minute : Int,
   market_cache_minutes : Int, market_refresh_per_hour : Int,
   ai_provider : Providers \cup {"auto", "rule_based"}, keys : SUBSET Providers,
   debug : BOOLEAN]

ASSUME DeploymentAssumption == Environments \subseteq Settings /\ MaxEdits \in Nat

VARIABLES
  environment,   \* what Settings() would read now
  edits,
  settings,      \* the cache of get_settings: empty, or what it read
  docs,          \* the application has the documentation routes
  provider,      \* app.state.skill_engine.provider_name
  tokens,        \* the token pairs issued, by any process
  imported       \* history: the environment when this process was imported

deployment_vars == <<environment, edits, settings, docs, provider, tokens, imported>>

(* Not set.                                                                *)
Unset == "unset"

StrongSecret(s) ==
  /\ ~s.placeholder
  /\ s.bytes >= 32
  /\ s.distinct >= 12 /\ s.entropy >= 30

ValidSettings(c) ==
  /\ StrongSecret(c.jwt_secret_key)
  /\ c.access_token_expire_minutes > 0 /\ c.refresh_token_expire_minutes > 0
  /\ c.auth_rate_limit_per_minute >= 0 /\ c.generation_rate_limit_per_minute >= 0
  /\ c.market_cache_minutes >= 0 /\ c.market_refresh_per_hour >= 0

(* Wrong on purpose: every call reads the environment.                     *)
GetSettingsAnew == environment

GetSettings == IF settings = {} THEN environment ELSE CHOOSE c \in settings : TRUE

(* "auto" prefers OpenAI; a provider asked for by name needs its key.      *)
Selected(c) ==
  CASE c.ai_provider # "auto" -> c.ai_provider
    [] c.ai_provider = "auto" /\ "openai" \in c.keys -> "openai"
    [] c.ai_provider = "auto" /\ c.keys = {"anthropic"} -> "anthropic"
    [] OTHER -> "rule_based"

Buildable(c) == Selected(c) \in c.keys \cup {"rule_based"}

(* What requests read while the application serves.                        *)
RateLimits == [auth |-> GetSettings.auth_rate_limit_per_minute,
               generation |-> GetSettings.generation_rate_limit_per_minute]

(* What the public health route discloses.                                 *)
Healthz == IF GetSettings.debug THEN {provider} ELSE {}

Signature(c) == [secret |-> c.jwt_secret_key, algorithm |-> c.jwt_algorithm]

(* decode_token, the signature.                                            *)
Verifies(k) == k.signature = Signature(GetSettings)

-----------------------------------------------------------------------------
Edit(c) ==
  /\ edits < MaxEdits /\ c # environment
  /\ environment' = c
  /\ edits' = edits + 1
  /\ UNCHANGED <<settings, docs, provider, tokens, imported, schema_vars>>

(* create_app at the import of app.main.  An invalid environment raises,   *)
(* and there is no process.                                                *)
Import ==
  /\ settings = {}
  /\ ValidSettings(environment)
  /\ settings' = {environment}
  /\ imported' = environment
  /\ docs' = environment.debug
  /\ UNCHANGED <<environment, edits, provider, tokens, schema_vars>>

(* A provider that cannot be built ends the process before the database is *)
(* opened.                                                                 *)
Lifespan(r) ==
  /\ settings # {}
  /\ phase = "down"
  /\ IF Buildable(GetSettings)
       THEN /\ provider' = Selected(GetSettings)
            /\ Boot(r)
            /\ UNCHANGED settings
       ELSE settings' = {} /\ UNCHANGED <<provider, schema_vars>>
  /\ UNCHANGED <<environment, edits, docs, tokens, imported>>

(* init_db.                                                                *)
Upgrade ==
  /\ \/ \E t \in Tables : CreateTable(t)
     \/ Created \/ Check \/ Alter \/ Record \/ Finish
  /\ UNCHANGED deployment_vars

(* A login or a refresh; process: which process issued it.                 *)
Issue ==
  /\ phase = "serving"
  /\ tokens' = tokens \cup {[signature |-> Signature(GetSettings), process |-> stops]}
  /\ UNCHANGED <<environment, edits, settings, docs, provider, imported, schema_vars>>

(* The process ends, by a shutdown, a failed start or a crash.             *)
Exit ==
  /\ Stop
  /\ settings' = {} /\ provider' = Unset
  /\ UNCHANGED <<environment, edits, docs, tokens, imported>>

DeploymentInit ==
  /\ Init
  /\ environment \in Environments
  /\ edits = 0
  /\ settings = {} /\ docs = FALSE /\ provider = Unset
  /\ tokens = {}
  /\ imported = environment

DeploymentNext ==
  \/ \E c \in Environments : Edit(c)
  \/ Import
  \/ \E r \in 0 .. Len(Upgrades) : Lifespan(r)
  \/ Upgrade \/ Issue \/ Exit

DeploymentSpec == DeploymentInit /\ [][DeploymentNext]_<<schema_vars, deployment_vars>>

-----------------------------------------------------------------------------
(***************************************************************************)
(* Properties                                                              *)
(***************************************************************************)

(* Type invariant, of the schema as well.                                  *)
DeploymentTypeOK ==
  /\ TypeOK
  /\ {environment, imported} \cup settings \subseteq Environments
  /\ docs \in BOOLEAN
  /\ provider \in Providers \cup {"rule_based", Unset}
  /\ edits \in 0 .. MaxEdits
  /\ \A k \in tokens : k.process \in 0 .. stops

(* However the environment is edited meanwhile, a process is of one piece: *)
(* it touches the database only with a valid configuration whose provider  *)
(* could be built, and from then on its provider, its limits, what it      *)
(* discloses and the tokens it accepts are those of the environment it was *)
(* imported in.  In particular it accepts every token it has issued.       *)
OneConfiguration ==
  phase # "down" =>
    /\ ValidSettings(imported) /\ Buildable(imported)
    /\ provider = Selected(imported)
    /\ RateLimits = [auth |-> imported.auth_rate_limit_per_minute,
                     generation |-> imported.generation_rate_limit_per_minute]
    /\ docs = imported.debug
    /\ Healthz # {} <=> docs
    /\ \A k \in tokens : k.process = stops => Verifies(k)

(* What OneConfiguration needs to be inductive: a process has settings     *)
(* before it has a database, they are those it was imported with, and no   *)
(* token carries the number of a process that has not started.             *)
TokenInv ==
  \A k \in tokens :
    /\ k.process \in Nat /\ k.process <= stops
    /\ phase = "down" => k.process < stops
    /\ k.process = stops => k.signature = Signature(imported)
ConfigInv ==
  /\ {environment, imported} \subseteq Environments
  /\ settings \in {{}, {imported}}
  /\ settings # {} => ValidSettings(imported) /\ docs = imported.debug
  /\ phase # "down" => /\ settings # {}
                       /\ Buildable(imported) /\ provider = Selected(imported)
  /\ stops \in Nat
  /\ TokenInv
=============================================================================
