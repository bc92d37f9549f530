--------------------------- MODULE DeploymentProofs ---------------------------
(***************************************************************************)
(* Theorems about SchemaUpgrades and Deployment.  For every set of tables, *)
(* every list of upgrades and any number of stops, releases and            *)
(* roll-backs, a recorded upgrade has its column, no start fails, and what *)
(* serves conforms.  A deployment is one life of that schema, so the same  *)
(* holds of it, and whatever is done to the environment a process keeps    *)
(* one configuration.                                                      *)
(*                                                                         *)
(* SchemaInv is inductive: besides the three properties it says that the   *)
(* loop has passed only upgrades whose columns are there, that "alter" and *)
(* "record" are reached with what the look-ups found, and that nothing is  *)
(* unsaved outside a transaction, so that a stop leads back to a state     *)
(* that satisfies it.                                                      *)
(***************************************************************************)
EXTENDS Deployment, SequenceTheorems, TLAPS

(***************************************************************************)
(* SchemaUpgrades                                                          *)
(***************************************************************************)

LEMMA LengthType == Len(Upgrades) \in Nat
  BY SchemaAssumption, LenProperties

(* A DDL statement that adds to the tables and columns.                    *)
LEMMA DdlKeeps ==
  ASSUME SchemaInv, NEW e \in SUBSET Tables, NEW c \in SUBSET Versions,
         exists \subseteq e, columns \subseteq c, Ddl(e, c)
  PROVE  /\ exists' = e /\ columns' = c /\ recorded' = recorded
         /\ kept' \in [exists : SUBSET Tables, columns : SUBSET Versions,
                       recorded : SUBSET Versions]
         /\ pending' \in BOOLEAN
         /\ RecordedHasColumn'
         /\ ~pending' => kept' = Database(e, c, recorded)
         /\ ~pending => ~pending'
<1>1. TypeOK /\ RecordedHasColumn
  BY DEF SchemaInv
<1>2. CASE implicit \/ ~pending
  <2>1. /\ exists' = e /\ columns' = c /\ recorded' = recorded
        /\ kept' = Database(e, c, recorded) /\ pending' = FALSE
    BY <1>2 DEF Ddl
  <2>2. recorded \in SUBSET Versions
    BY <1>1 DEF TypeOK
  <2>3. kept' \in [exists : SUBSET Tables, columns : SUBSET Versions,
                   recorded : SUBSET Versions]
    BY <2>1, <2>2 DEF Database
  <2>4. RecordedHasColumn'
    BY <1>1, <2>1 DEF Database, RecordedHasColumn
  <2> QED BY <2>1, <2>3, <2>4
<1>3. CASE ~(implicit \/ ~pending)
  BY <1>1, <1>3 DEF Ddl, Database, TypeOK, RecordedHasColumn
<1> QED BY <1>2, <1>3

(* The initial states.                                                     *)
LEMMA InitInv == Init => SchemaInv
<1> SUFFICES ASSUME Init PROVE SchemaInv
  OBVIOUS
<1>1. TypeOK
  <2>1. exists \in SUBSET Tables /\ columns \in SUBSET Versions /\ recorded = {}
    BY DEF Init
  <2>2. kept \in [exists : SUBSET Tables, columns : SUBSET Versions,
                  recorded : SUBSET Versions]
    BY <2>1 DEF Init, Database
  <2>3. /\ release \in 0 .. Len(Upgrades) /\ next \in 1 .. Len(Upgrades) + 1
        /\ stops \in 0 .. MaxStops
    BY LengthType, SchemaAssumption DEF Init
  <2> QED BY <2>1, <2>2, <2>3 DEF Init, TypeOK, Phases
<1>2. RecordedHasColumn /\ StartsClean /\ ServesConforming /\ LoopInv
  BY DEF Init, RecordedHasColumn, StartsClean, ServesConforming, LoopInv, Database
<1> QED BY <1>1, <1>2 DEF SchemaInv

LEMMA StepInv == SchemaInv /\ [Next]_schema_vars => SchemaInv'
<1> SUFFICES ASSUME SchemaInv, [Next]_schema_vars PROVE SchemaInv'
  OBVIOUS
<1> USE LengthType
<1>0. TypeOK /\ RecordedHasColumn /\ StartsClean /\ ServesConforming /\ LoopInv
  BY DEF SchemaInv
<1>1. ASSUME NEW r \in 0 .. Len(Upgrades), Boot(r)
      PROVE  SchemaInv'
  BY <1>0, <1>1 DEF Boot, SchemaInv, TypeOK, RecordedHasColumn, StartsClean,
     ServesConforming, LoopInv, Phases
<1>2. ASSUME NEW t \in Tables, CreateTable(t)
      PROVE  SchemaInv'
  <2>1. /\ exists \cup {t} \in SUBSET Tables
        /\ columns \cup ColumnsOf(t, release) \in SUBSET Versions
    BY <1>0, <1>2 DEF TypeOK, ColumnsOf, Versions
  <2>2. Ddl(exists \cup {t}, columns \cup ColumnsOf(t, release))
    BY <1>2 DEF CreateTable
  <2> DEFINE e == exists \cup {t}
             c == columns \cup ColumnsOf(t, release)
  <2>a. exists \subseteq e /\ columns \subseteq c
    OBVIOUS
  <2>b. e \in SUBSET Tables /\ c \in SUBSET Versions /\ Ddl(e, c)
    BY <2>1, <2>2
  <2> HIDE DEF e, c
  <2>3. /\ exists' = e /\ columns' = c /\ recorded' = recorded
        /\ kept' \in [exists : SUBSET Tables, columns : SUBSET Versions,
                      recorded : SUBSET Versions]
        /\ pending' \in BOOLEAN
        /\ RecordedHasColumn'
        /\ ~pending' => kept' = Database(e, c, recorded)
        /\ ~pending => ~pending'
    BY <2>a, <2>b, DdlKeeps
  <2>4. phase = "create" /\ UNCHANGED <<implicit, phase, release, next, stops>>
    BY <1>2 DEF CreateTable
  <2>5. TypeOK'
    BY <1>0, <2>b, <2>3, <2>4 DEF TypeOK
  <2>6. StartsClean' /\ ServesConforming'
    BY <2>4 DEF StartsClean, ServesConforming
  <2>7. LoopInv'
    BY <1>0, <2>3, <2>4 DEF LoopInv, Database
  <2> QED BY <2>3, <2>5, <2>6, <2>7 DEF SchemaInv
<1>3. CASE Created
  BY <1>0, <1>3 DEF Created, SchemaInv, TypeOK, RecordedHasColumn, StartsClean,
     ServesConforming, LoopInv, Behind, Phases, Versions
<1>4. CASE Check
  BY <1>0, <1>4 DEF Check, SchemaInv, TypeOK, RecordedHasColumn, StartsClean,
     ServesConforming, LoopInv, Behind, Phases, Versions
<1>5. CASE Alter
  <2>1. columns \cup {next} \in SUBSET Versions /\ next \notin columns
    BY <1>0, <1>5 DEF Alter, TypeOK, LoopInv, Versions
  <2>2. phase' = "record" /\ Ddl(exists, columns \cup {next})
    BY <1>5, <2>1 DEF Alter
  <2>3. /\ exists' = exists /\ columns' = columns \cup {next}
        /\ recorded' = recorded
        /\ kept' \in [exists : SUBSET Tables, columns : SUBSET Versions,
                      recorded : SUBSET Versions]
        /\ pending' \in BOOLEAN
        /\ RecordedHasColumn'
        /\ ~pending' => kept' = Database(exists, columns \cup {next}, recorded)
    <3>1. exists \in SUBSET Tables /\ exists \subseteq exists
      BY <1>0 DEF TypeOK
    <3>2. columns \subseteq columns \cup {next}
      OBVIOUS
    <3> QED BY <2>1, <2>2, <3>1, <3>2, DdlKeeps
  <2>4. TypeOK'
    BY <1>0, <1>5, <2>1, <2>2, <2>3 DEF Alter, TypeOK, Phases
  <2>5. StartsClean' /\ ServesConforming'
    BY <2>2 DEF StartsClean, ServesConforming
  <2>6. LoopInv'
    BY <1>0, <1>5, <2>2, <2>3 DEF Alter, LoopInv, Behind, Database
  <2> QED BY <2>3, <2>4, <2>5, <2>6 DEF SchemaInv
<1>6. CASE Record
  BY <1>0, <1>6 DEF Record, SchemaInv, TypeOK, RecordedHasColumn, StartsClean,
     ServesConforming, LoopInv, Behind, Phases, Versions
<1>7. CASE Finish
  <2>1. exists = Tables /\ 1 .. release \subseteq columns
    <3>1. release \in Nat /\ next \in Nat /\ next > release
      BY <1>0, <1>7 DEF Finish, TypeOK
    <3>2. Behind = 1 .. release
      BY <3>1 DEF Behind
    <3> QED BY <1>0, <1>7, <3>2 DEF Finish, LoopInv
  <2>2. TypeOK'
    BY <1>0, <1>7 DEF Finish, Database, TypeOK, Phases
  <2>3. RecordedHasColumn' /\ StartsClean'
    BY <1>0, <1>7 DEF Finish, Database, RecordedHasColumn, StartsClean
  <2>4. ServesConforming'
    BY <1>7, <2>1 DEF Finish, Database, ServesConforming
  <2>5. LoopInv'
    BY <1>7 DEF Finish, Database, LoopInv
  <2> QED BY <2>2, <2>3, <2>4, <2>5 DEF SchemaInv
<1>8. CASE Stop
  <2>1. TypeOK'
    <3>1. stops' \in 0 .. MaxStops
      BY <1>0, <1>8, SchemaAssumption DEF Stop, TypeOK
    <3> QED BY <1>0, <1>8, <3>1 DEF Stop, TypeOK, Phases
  <2>2. RecordedHasColumn' /\ StartsClean' /\ ServesConforming'
    BY <1>0, <1>8 DEF Stop, RecordedHasColumn, StartsClean, ServesConforming
  <2>3. LoopInv'
    BY <1>0, <1>8 DEF Stop, Database, LoopInv, TypeOK
  <2> QED BY <2>1, <2>2, <2>3 DEF SchemaInv
<1>9. CASE UNCHANGED schema_vars
  BY <1>0, <1>9 DEF schema_vars, SchemaInv, TypeOK, RecordedHasColumn, StartsClean,
     ServesConforming, LoopInv, Behind
<1> QED BY <1>1, <1>2, <1>3, <1>4, <1>5, <1>6, <1>7, <1>8, <1>9 DEF Next

(* SchemaInv holds in every reachable state.                               *)
THEOREM Inductive == Spec => []SchemaInv
  BY InitInv, StepInv, PTL DEF Spec

(* Every reachable state is well typed.                                    *)
THEOREM TypeCorrect == Spec => []TypeOK
<1>1. SchemaInv => TypeOK
  BY DEF SchemaInv
<1> QED BY <1>1, Inductive, PTL

(* Whatever statements a stop falls between, and whichever of them the     *)
(* database had committed, a recorded upgrade has its column               *)
(* (_apply_schema_upgrades).                                               *)
THEOREM RecordedSound == Spec => []RecordedHasColumn
<1>1. SchemaInv => RecordedHasColumn
  BY DEF SchemaInv
<1> QED BY <1>1, Inductive, PTL

(* No start of any release fails on what earlier starts left (init_db).    *)
THEOREM NoStartFails == Spec => []StartsClean
<1>1. SchemaInv => StartsClean
  BY DEF SchemaInv
<1> QED BY <1>1, Inductive, PTL

(* A serving application has committed every column its models name.       *)
THEOREM ServingConforms == Spec => []ServesConforming
<1>1. SchemaInv => ServesConforming
  BY DEF SchemaInv
<1> QED BY <1>1, Inductive, PTL

-----------------------------------------------------------------------------
(***************************************************************************)
(* Deployment: its schema.  Every action is a step of SchemaUpgrades or    *)
(* leaves it be.                                                           *)
(***************************************************************************)

LEMMA SchemaStep ==
  [DeploymentNext]_<<schema_vars, deployment_vars>> => [Next]_schema_vars
<1> SUFFICES ASSUME [DeploymentNext]_<<schema_vars, deployment_vars>>
             PROVE  [Next]_schema_vars
  OBVIOUS
<1>1. ASSUME NEW c \in Environments, Edit(c) PROVE UNCHANGED schema_vars
  BY <1>1 DEF Edit
<1>2. CASE Import
  BY <1>2 DEF Import
<1>3. ASSUME NEW r \in 0 .. Len(Upgrades), Lifespan(r) PROVE [Next]_schema_vars
  BY <1>3 DEF Lifespan, Next
<1>4. CASE Upgrade
  BY <1>4 DEF Upgrade, Next
<1>5. CASE Issue
  BY <1>5 DEF Issue
<1>6. CASE Exit
  BY <1>6 DEF Exit, Next
<1> QED BY <1>1, <1>2, <1>3, <1>4, <1>5, <1>6 DEF DeploymentNext

(* A deployment, seen as its schema, is a behaviour of SchemaUpgrades      *)
(* (init_db, called from the lifespan of app/main.py).                     *)
THEOREM SchemaLife == DeploymentSpec => Spec
<1>1. DeploymentInit => Init
  BY DEF DeploymentInit
<1> QED BY <1>1, SchemaStep, PTL DEF DeploymentSpec, Spec

(* What is proved of the schema holds of every deployment.                 *)
THEOREM SchemaSound ==
  DeploymentSpec => []RecordedHasColumn /\ []StartsClean /\ []ServesConforming
  BY SchemaLife, RecordedSound, NoStartFails, ServingConforms, PTL

(***************************************************************************)
(* The configuration.                                                      *)
(***************************************************************************)

(* Settings, once read, are what the process was imported with.            *)
LEMMA Cached ==
  ASSUME settings = {imported}
  PROVE  GetSettings = imported
  BY DEF GetSettings

LEMMA ConfigInit == DeploymentInit => ConfigInv
<1> SUFFICES ASSUME DeploymentInit PROVE ConfigInv
  OBVIOUS
<1>1. settings = {} /\ tokens = {} /\ environment \in Environments /\ imported = environment
  BY DEF DeploymentInit
<1>2. stops = 0 /\ phase = "down"
  BY DEF DeploymentInit, Init
<1> QED BY <1>1, <1>2 DEF ConfigInv, TokenInv

LEMMA ConfigStep ==
  ConfigInv /\ [DeploymentNext]_<<schema_vars, deployment_vars>> => ConfigInv'
<1> SUFFICES ASSUME ConfigInv, [DeploymentNext]_<<schema_vars, deployment_vars>>
             PROVE  ConfigInv'
  OBVIOUS
<1>1. ASSUME NEW c \in Environments, Edit(c) PROVE ConfigInv'
  BY <1>1 DEF Edit, ConfigInv, TokenInv, schema_vars, ValidSettings, Buildable
<1>2. CASE Import
  <2>1. phase = "down" /\ UNCHANGED <<phase, stops, tokens, environment>>
    BY <1>2 DEF Import, ConfigInv, schema_vars
  <2>2. /\ imported' = environment /\ settings' = {imported'}
        /\ ValidSettings(imported') /\ docs' = imported'.debug
    BY <1>2 DEF Import
  <2>3. TokenInv'
    BY <2>1 DEF ConfigInv, TokenInv
  <2> QED BY <2>1, <2>2, <2>3 DEF ConfigInv
<1>3. ASSUME NEW r \in 0 .. Len(Upgrades), Lifespan(r) PROVE ConfigInv'
  <2>1. settings = {imported} /\ phase = "down" /\ GetSettings = imported
    BY <1>3, Cached DEF Lifespan, ConfigInv
  <2>2. UNCHANGED <<stops, tokens, environment, imported, docs>>
    BY <1>3 DEF Lifespan, Boot, schema_vars
  <2>3. TokenInv'
    BY <2>1, <2>2 DEF ConfigInv, TokenInv
  <2>4. CASE Buildable(imported)
    <3>1. provider' = Selected(imported) /\ settings' = settings
      BY <1>3, <2>1, <2>4 DEF Lifespan
    <3> QED BY <2>1, <2>2, <2>3, <2>4, <3>1 DEF ConfigInv
  <2>5. CASE ~Buildable(imported)
    <3>1. settings' = {} /\ phase' = phase
      BY <1>3, <2>1, <2>5 DEF Lifespan, schema_vars
    <3> QED BY <2>1, <2>2, <2>3, <3>1 DEF ConfigInv
  <2> QED BY <2>4, <2>5
<1>4. CASE Upgrade
  <2>1. phase # "down" /\ phase' # "down" /\ stops' = stops
    BY <1>4 DEF Upgrade, CreateTable, Created, Check, Alter, Record, Finish
  <2>2. UNCHANGED deployment_vars
    BY <1>4 DEF Upgrade
  <2> QED BY <2>1, <2>2 DEF ConfigInv, TokenInv, deployment_vars
<1>5. CASE Issue
  <2>1. /\ phase = "serving" /\ settings = {imported} /\ GetSettings = imported
        /\ stops \in Nat
    BY <1>5, Cached DEF Issue, ConfigInv
  <2>2. tokens' = tokens \cup {[signature |-> Signature(imported), process |-> stops]}
    BY <1>5, <2>1 DEF Issue
  <2>3. UNCHANGED <<phase, stops, environment, settings, docs, provider, imported>>
    BY <1>5 DEF Issue, schema_vars
  <2>4. TokenInv'
    BY <2>1, <2>2, <2>3 DEF ConfigInv, TokenInv
  <2> QED BY <2>3, <2>4 DEF ConfigInv
<1>6. CASE Exit
  <2>1. phase' = "down" /\ stops' = stops + 1 /\ settings' = {}
    BY <1>6 DEF Exit, Stop
  <2>2. UNCHANGED <<environment, tokens, imported>>
    BY <1>6 DEF Exit
  <2>3. TokenInv'
    BY <2>1, <2>2 DEF ConfigInv, TokenInv
  <2> QED BY <2>1, <2>2, <2>3 DEF ConfigInv
<1>7. CASE UNCHANGED <<schema_vars, deployment_vars>>
  BY <1>7 DEF ConfigInv, TokenInv, schema_vars, deployment_vars
<1> QED BY <1>1, <1>2, <1>3, <1>4, <1>5, <1>6, <1>7 DEF DeploymentNext

LEMMA ConfigInvSuffices == ConfigInv => OneConfiguration
<1> SUFFICES ASSUME ConfigInv, phase # "down" PROVE OneConfiguration
  BY DEF OneConfiguration
<1>1. settings = {imported} /\ GetSettings = imported
  BY Cached DEF ConfigInv
<1>2. /\ ValidSettings(imported) /\ Buildable(imported)
      /\ provider = Selected(imported) /\ docs = imported.debug
  BY <1>1 DEF ConfigInv
<1>3. Healthz # {} <=> docs
  <2>1. imported.debug \in BOOLEAN
    BY DeploymentAssumption DEF ConfigInv, Settings
  <2>2. Healthz = IF imported.debug THEN {provider} ELSE {}
    BY <1>1 DEF Healthz
  <2> QED BY <1>2, <2>1, <2>2
<1>4. \A k \in tokens : k.process = stops => Verifies(k)
  BY <1>1 DEF ConfigInv, TokenInv, Verifies
<1> QED BY <1>1, <1>2, <1>3, <1>4 DEF OneConfiguration, RateLimits

(* For every set of environments and any edits, failed starts and crashes, *)
(* a process that has a database has one valid configuration, whose        *)
(* provider, limits and tokens are those of its import (get_settings,      *)
(* create_app and the lifespan of app/main.py).                            *)
THEOREM ConfigurationIsOne == DeploymentSpec => []OneConfiguration
  BY ConfigInit, ConfigStep, ConfigInvSuffices, PTL DEF DeploymentSpec

(***************************************************************************)
(* Types.                                                                  *)
(***************************************************************************)

DataOK ==
  /\ docs \in BOOLEAN
  /\ provider \in Providers \cup {"rule_based", Unset}
  /\ edits \in 0 .. MaxEdits

LEMMA SelectedType ==
  ASSUME NEW c \in Environments
  PROVE  c.debug \in BOOLEAN /\ Selected(c) \in Providers \cup {"rule_based"}
<1>1. c.debug \in BOOLEAN /\ c.ai_provider \in Providers \cup {"auto", "rule_based"}
  BY DeploymentAssumption DEF Settings
<1>2. {"openai", "anthropic"} = Providers
  BY DEF Providers
<1> QED BY <1>1, <1>2 DEF Selected

LEMMA DataStep ==
  ConfigInv /\ DataOK /\ [DeploymentNext]_<<schema_vars, deployment_vars>> => DataOK'
<1> SUFFICES ASSUME ConfigInv, DataOK,
                    [DeploymentNext]_<<schema_vars, deployment_vars>>
             PROVE  DataOK'
  OBVIOUS
<1>1. ASSUME NEW c \in Environments, Edit(c) PROVE DataOK'
  <2>1. edits' \in 0 .. MaxEdits
    BY <1>1, DeploymentAssumption DEF Edit, DataOK
  <2> QED BY <1>1, <2>1 DEF Edit, DataOK
<1>2. CASE Import
  BY <1>2, SelectedType DEF Import, ConfigInv, DataOK
<1>3. ASSUME NEW r \in 0 .. Len(Upgrades), Lifespan(r) PROVE DataOK'
  <2>1. GetSettings \in Environments
    BY <1>3, Cached DEF Lifespan, ConfigInv
  <2>2. provider' \in {provider, Selected(GetSettings)} /\ UNCHANGED <<docs, edits>>
    BY <1>3 DEF Lifespan
  <2> QED BY <2>1, <2>2, SelectedType DEF DataOK
<1>4. CASE Upgrade
  BY <1>4 DEF Upgrade, deployment_vars, DataOK
<1>5. CASE Issue
  BY <1>5 DEF Issue, DataOK
<1>6. CASE Exit
  BY <1>6 DEF Exit, DataOK
<1>7. CASE UNCHANGED <<schema_vars, deployment_vars>>
  BY <1>7 DEF deployment_vars, DataOK
<1> QED BY <1>1, <1>2, <1>3, <1>4, <1>5, <1>6, <1>7 DEF DeploymentNext

(* Every reachable state is well typed: the provider is one there is, and  *)
(* no token is of a process to come.                                       *)
THEOREM DeploymentTyped == DeploymentSpec => []DeploymentTypeOK
<1>1. DeploymentInit => DataOK
  <2>1. 0 \in 0 .. MaxEdits
    BY DeploymentAssumption
  <2>2. DeploymentInit => edits = 0 /\ docs = FALSE /\ provider = Unset
    BY DEF DeploymentInit
  <2> QED BY <2>1, <2>2 DEF DataOK
<1>2. ConfigInv /\ DataOK /\ TypeOK => DeploymentTypeOK
  <2> SUFFICES ASSUME ConfigInv, DataOK, TypeOK PROVE DeploymentTypeOK
    OBVIOUS
  <2>1. {environment, imported} \cup settings \subseteq Environments
    BY DEF ConfigInv
  <2>2. \A k \in tokens : k.process \in 0 .. stops
    BY DEF ConfigInv, TokenInv
  <2> QED BY <2>1, <2>2 DEF DataOK, DeploymentTypeOK
<1>3. DeploymentSpec => []TypeOK
  BY SchemaLife, TypeCorrect, PTL
<1> QED BY <1>1, <1>2, <1>3, ConfigInit, ConfigStep, DataStep, PTL DEF DeploymentSpec
=============================================================================
