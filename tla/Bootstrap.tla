------------------------------ MODULE Bootstrap ------------------------------
(***************************************************************************)
(* ObBootstrap (src/src/rootserver/ob_root_bootstrap.cpp): the root        *)
(* server's one-time creation of a cluster's core tables, system tables,   *)
(* schema.ini tables and inner-table rows.                                 *)
(*                                                                         *)
(* Every call into a collaborator (the root server's tablet creation, the  *)
(* schema service, the SQL scan helper, the merge-server RPC, the first    *)
(* meta file, the log worker, the config manager) may fail; its outcome is *)
(* a nondeterministic choice.  A step is one action that runs the whole    *)
(* public method, so a failure part way leaves exactly the effects of the  *)
(* calls made before it.  The caller, ObRootServer2::boot_strap, is not in *)
(* this repository: the driver runs the public methods in the order of     *)
(* the step numbers in the code's comments (core tables, system tables,    *)
(* schema.ini tables, init_system_table) and stops at the first failure.   *)
(***************************************************************************)
EXTENDS Integers, Sequences, FiniteSets

CONSTANTS
  CoreTables,    \* <<first_tablet_entry, __all_all_column, __all_join_info>>
  SysTables,     \* the tables bootstrap_sys_tables creates, in order
  IniTables,     \* the tables of the schema.ini schema manager, in order
  NumSysParams,  \* rows INSERT_ALL_SYS_PARAM_ROW writes
  RetryTimes,    \* config.retry_times
  MASTER, SLAVE  \* ObiRole

ASSUME Len(CoreTables) = 3 /\ RetryTimes \in Nat /\ NumSysParams \in Nat \ {0}

CoreSet == {CoreTables[i] : i \in 1..Len(CoreTables)}
SysSet == {SysTables[i] : i \in 1..Len(SysTables)}
IniSet == {IniTables[i] : i \in 1..Len(IniTables)}
TabletTables == CoreSet \cup SysSet
\* what create_empty_tablet left for a table: nothing, a tablet on no
\* chunkserver (cs.count() == 0), or a tablet served by chunkservers
Tablet == {"none", "empty", "served"}
SysStatRows == 3
Max2(a, b) == IF a > b THEN a ELSE b

VARIABLES
  role,          \* root_server_.get_obi_role()
  helper,        \* root_server_.schema_service_scan_helper_ # NULL
  cfgMgr,        \* root_server_.get_config_mgr() # NULL
  step,          \* the driver: the next public method, "done" or "failed"
  schemaInit,    \* schema_service_.init succeeded
  schemas,       \* tables created in the schema service
  tablets,       \* [TabletTables -> Tablet]
  coreCount,     \* core_table_count_
  sysCount,      \* sys_table_count_
  iniCount,      \* ini_table_count_
  meta,          \* first meta file: "none", "init", "logged" (log_worker_)
  rows,          \* inner-table rows written through the scan helper
  clusterRow,    \* the __all_cluster row was executed on a merge server
  configVersion, \* config_mgr->got_version succeeded
  online         \* the SERVER_ONLINE task was committed

vars == <<role, helper, cfgMgr, step, schemaInit, schemas, tablets, coreCount,
          sysCount, iniCount, meta, rows, clusterRow, configVersion, online>>

NextStep(s) == IF s = "core" THEN "sys" ELSE IF s = "sys" THEN "ini"
               ELSE IF s = "ini" THEN "system" ELSE "done"
\* the driver moves on after a success and stops after a failure
Finish(s, ok) == step' = IF ok THEN NextStep(s) ELSE "failed"

Init ==
  /\ role \in {MASTER, SLAVE}
  /\ helper \in BOOLEAN
  /\ cfgMgr \in BOOLEAN
  /\ step = "core"
  /\ schemaInit = FALSE
  /\ schemas = {}
  /\ tablets = [t \in TabletTables |-> "none"]
  /\ coreCount = 0 /\ sysCount = 0 /\ iniCount = 0
  /\ meta = "none"
  /\ rows = [r \in {"sys_stat", "sys_param", "users"} |-> 0]
  /\ clusterRow = FALSE
  /\ configVersion = FALSE
  /\ online = FALSE
-----------------------------------------------------------------------------
(* bootstrap_core_tables: init_schema_service, then create_all_core_tables:*)
(* create_core_table for each core table (get_table_schema, then          *)
(* create_empty_tablet; the count is taken whatever cs came back), then   *)
(* init_meta_file with first_tablet_entry's servers (first meta init, then *)
(* log_worker_->init_first_meta).  `k` core tables succeed; the next one,  *)
(* if any, fails at schema lookup or tablet creation (alike here).       *)
(***************************************************************************)
\* create_all_core_tables: the first k core tables got a tablet each, with
\* what create_empty_tablet returned for it
CoreTablets(k, got) ==
  [t \in TabletTables |-> IF \E i \in 1..k : CoreTables[i] = t
                          THEN got[CHOOSE i \in 1..k : CoreTables[i] = t]
                          ELSE tablets[t]]

\* init_meta_file: runs only once every core table was created; the first
\* meta init may fail, then log_worker_->init_first_meta may fail
MetaAfter(k, metaOut) ==
  IF k < 3 \/ metaOut = "init_fail" THEN meta
  ELSE IF metaOut = "log_fail" THEN "init" ELSE "logged"

BootstrapCoreTables ==
  /\ step = "core"
  /\ \/ /\ Finish("core", FALSE)
        /\ UNCHANGED <<schemaInit, tablets, coreCount, meta>>
     \/ /\ schemaInit' = TRUE
        /\ \E k \in 0..3 : \E got \in [1..k -> {"empty", "served"}],
                             metaOut \in {"ok", "init_fail", "log_fail"} :
             /\ tablets' = CoreTablets(k, got)
             /\ coreCount' = coreCount + k
             /\ k < 3 => metaOut = "ok"
             /\ meta' = MetaAfter(k, metaOut)
             /\ Finish("core", k = 3 /\ metaOut = "ok")
  /\ UNCHANGED <<role, helper, cfgMgr, schemas, sysCount, iniCount, rows,
                 clusterRow, configVersion, online>>

(***************************************************************************)
(* create_sys_table's outcomes for one table: on the master the schema     *)
(* service creates it first; then create_empty_tablet; a tablet on no     *)
(* chunkserver is an OB_ERROR.  (The table id check against               *)
(* OB_APP_MIN_TABLE_ID cannot fail for the built-in schemas.)             *)
(***************************************************************************)
\* "no_table": the schema lookup or the schema service's create_table failed
SysFail == {"no_table", "tablet_fail", "zero_cs"}

\* schemas of the sys tables before the failing one, and of the failing one
\* if create_table succeeded on it
SysSchemas(k, f) ==
  IF role # MASTER THEN {}
  ELSE {SysTables[i] : i \in 1..k}
       \cup (IF k < Len(SysTables) /\ f \in {"tablet_fail", "zero_cs"}
             THEN {SysTables[k + 1]} ELSE {})

(***************************************************************************)
(* bootstrap_sys_tables: the unrolled chain of create_sys_table calls,    *)
(* each guarded by OB_SUCCESS == ret; `k` tables succeed, the next one     *)
(* fails with `f`.                                                         *)
(***************************************************************************)
\* mutant: the cs.count() > 0 check of create_sys_table left out
BootstrapSysTablesNoCsCheck ==
  /\ step = "sys"
  /\ \E k \in 0..Len(SysTables), f \in SysFail :
       /\ k = Len(SysTables) => f = "no_table"
       /\ schemas' = schemas \cup SysSchemas(k, f)
       /\ tablets' = [t \in TabletTables |->
                        IF \E i \in 1..k : SysTables[i] = t THEN "served"
                        ELSE IF k < Len(SysTables) /\ t = SysTables[k + 1] /\ f = "zero_cs"
                             THEN "empty" ELSE tablets[t]]
       /\ sysCount' = sysCount + k + (IF k < Len(SysTables) /\ f = "zero_cs" THEN 1 ELSE 0)
       /\ Finish("sys", k = Len(SysTables) \/ (k = Len(SysTables) - 1 /\ f = "zero_cs"))
  /\ UNCHANGED <<role, helper, cfgMgr, schemaInit, coreCount, iniCount, meta,
                 rows, clusterRow, configVersion, online>>

BootstrapSysTables ==
  /\ step = "sys"
  /\ \E k \in 0..Len(SysTables), f \in SysFail :
       /\ k = Len(SysTables) => f = "no_table"
       /\ schemas' = schemas \cup SysSchemas(k, f)
       /\ tablets' = [t \in TabletTables |->
                        IF \E i \in 1..k : SysTables[i] = t THEN "served"
                        ELSE IF k < Len(SysTables) /\ t = SysTables[k + 1] /\ f = "zero_cs"
                             THEN "empty" ELSE tablets[t]]
       /\ sysCount' = sysCount + k
       /\ Finish("sys", k = Len(SysTables))
  /\ UNCHANGED <<role, helper, cfgMgr, schemaInit, coreCount, iniCount, meta,
                 rows, clusterRow, configVersion, online>>

(***************************************************************************)
(* bootstrap_ini_tables: get_ini_schema may be NULL and the schema        *)
(* transfer may fail; then each table is created in the schema service on *)
(* the master (a failure breaks the loop) and counted; a slave counts     *)
(* every table without creating it.                                        *)
(***************************************************************************)
BootstrapIniTables ==
  /\ step = "ini"
  /\ \/ /\ Finish("ini", FALSE)   \* no ini schema, or the transfer failed
        /\ UNCHANGED <<schemas, iniCount>>
     \/ \E k \in 0..Len(IniTables) :
          /\ role # MASTER => k = Len(IniTables)
          /\ schemas' = schemas \cup (IF role = MASTER THEN {IniTables[i] : i \in 1..k} ELSE {})
          /\ iniCount' = iniCount + k
          /\ Finish("ini", k = Len(IniTables))
  /\ UNCHANGED <<role, helper, cfgMgr, schemaInit, tablets, coreCount, sysCount,
                 meta, rows, clusterRow, configVersion, online>>
-----------------------------------------------------------------------------
(***************************************************************************)
(* init_all_cluster's retry loop, one iteration per element of `outs`:    *)
(* "no_ms" (get_ms fails: ret takes its error and the loop goes on),      *)
(* "exec_fail" (get_ms succeeds, so ret is OB_SUCCESS, but execute_sql    *)
(* fails; its result is not assigned to ret and the loop goes on) and     *)
(* "ok" (the SQL ran: break).  Returns [ok, written].                     *)
(***************************************************************************)
RECURSIVE ClusterLoop(_, _, _)
ClusterLoop(outs, i, ok) ==
  IF i > Len(outs) THEN [ok |-> ok, written |-> FALSE]
  ELSE CASE outs[i] = "ok"        -> [ok |-> TRUE, written |-> TRUE]
         [] outs[i] = "exec_fail" -> ClusterLoop(outs, i + 1, TRUE)
         [] OTHER                 -> ClusterLoop(outs, i + 1, FALSE)

\* rows a write sequence got in before its first failing modify(): each
\* INSERT is skipped once ret is an error; no scan helper writes nothing
\* mutant: the write loop runs one INSERT past the last row
RowsWrittenPastEnd(n) == IF helper THEN 0..n + 1 ELSE {0}

RowsWritten(n) == IF helper THEN 0..n ELSE {0}

\* init_all_sys_stat: three REPLACE statements; init_all_sys_param: one
\* INSERT_ALL_SYS_PARAM_ROW per parameter; init_users: the admin user
InitAllSysStat == RowsWritten(SysStatRows)
InitAllSysParam == RowsWritten(NumSysParams)
InitUsers == RowsWritten(1)

\* init_all_cluster: update_all_cluster builds the SQL (may fail), then
\* the retry loop; [ok, written] (ok: SERVER_ONLINE is committed)
InitAllCluster(sqlOk, outs) ==
  LET loop == ClusterLoop(outs, 1, TRUE)
  IN [ok |-> sqlOk /\ loop.ok, written |-> sqlOk /\ loop.written]

\* init_all_sys_config_stat: OB_NOT_INIT without a config manager, else
\* the result of got_version
InitAllSysConfigStat(gotVersion) == cfgMgr /\ gotVersion

(***************************************************************************)
(* init_system_table: on the master init_all_sys_stat (3 rows),           *)
(* init_all_sys_param (NumSysParams rows) and init_users (1 row), each     *)
(* only if the one before succeeded; then, on both roles,                  *)
(* init_all_cluster (build the SQL, the retry loop, then commit           *)
(* SERVER_ONLINE when ret is OB_SUCCESS) and init_all_sys_config_stat      *)
(* (config manager NULL: OB_NOT_INIT; else got_version).                   *)
(***************************************************************************)
InitSystemTable ==
  /\ step = "system"
  /\ \E st \in InitAllSysStat, sp \in InitAllSysParam, us \in InitUsers,
        sqlOk \in BOOLEAN, outs \in [1..RetryTimes -> {"no_ms", "exec_fail", "ok"}],
        gotVersion \in BOOLEAN :
       LET masterOk == role # MASTER
                       \/ (st = SysStatRows /\ sp = NumSysParams /\ us = 1)
           cluster == InitAllCluster(sqlOk, outs)
           clusterOk == masterOk /\ cluster.ok
           cfgOk == clusterOk /\ InitAllSysConfigStat(gotVersion)
       IN
       /\ rows' = IF role # MASTER THEN rows
                  ELSE [rows EXCEPT !["sys_stat"] = st,
                                    !["sys_param"] = IF st = SysStatRows THEN sp ELSE 0,
                                    !["users"] = IF st = SysStatRows /\ sp = NumSysParams
                                                 THEN us ELSE 0]
       /\ clusterRow' = (masterOk /\ cluster.written)
       /\ online' = clusterOk
       /\ configVersion' = cfgOk
       /\ Finish("system", cfgOk)
  /\ UNCHANGED <<role, helper, cfgMgr, schemaInit, schemas, tablets, coreCount,
                 sysCount, iniCount, meta>>

Next ==
  \/ BootstrapCoreTables
  \/ BootstrapSysTables
  \/ BootstrapIniTables
  \/ InitSystemTable

\* boot_strap runs once: after "done" or "failed" no step is enabled
Spec == Init /\ [][Next]_vars
-----------------------------------------------------------------------------
TypeOK ==
  /\ role \in {MASTER, SLAVE} /\ helper \in BOOLEAN /\ cfgMgr \in BOOLEAN
  /\ step \in {"core", "sys", "ini", "system", "done", "failed"}
  /\ schemaInit \in BOOLEAN
  /\ schemas \subseteq SysSet \cup IniSet
  /\ tablets \in [TabletTables -> Tablet]
  /\ coreCount \in 0..3 /\ sysCount \in 0..Len(SysTables) /\ iniCount \in 0..Len(IniTables)
  /\ meta \in {"none", "init", "logged"}
  /\ rows \in [{"sys_stat", "sys_param", "users"} -> 0..Max2(SysStatRows, NumSysParams)]
  /\ clusterRow \in BOOLEAN /\ configVersion \in BOOLEAN /\ online \in BOOLEAN

(***************************************************************************)
(* When the driver completed every step, the cluster is bootstrapped:      *)
(* every system table has a tablet on some chunkserver and every core      *)
(* table a tablet, the first meta file is initialised and logged,          *)
(* get_table_count() counts every core, system and schema.ini table, on    *)
(* the master every system and schema.ini table is in the schema service   *)
(* and every inner row of init_all_sys_stat, init_all_sys_param and       *)
(* init_users is written, SERVER_ONLINE is committed and the config        *)
(* version set.  It is about the OB_SUCCESS == ret chaining of the        *)
(* unrolled create_sys_table calls and of the INSERT macros, and about    *)
(* create_sys_table's cs.count() check.                                   *)
(***************************************************************************)
SuccessMeansBootstrapped ==
  step = "done" =>
    /\ \A t \in SysSet : tablets[t] = "served"
    /\ \A t \in CoreSet : tablets[t] # "none"
    /\ meta = "logged"
    /\ coreCount + sysCount + iniCount = 3 + Len(SysTables) + Len(IniTables)
    /\ role = MASTER =>
         /\ SysSet \cup IniSet \subseteq schemas
         /\ rows = [sys_stat |-> SysStatRows, sys_param |-> NumSysParams, users |-> 1]
    /\ online /\ configVersion

(***************************************************************************)
(* SERVER_ONLINE is committed only after the __all_cluster row was         *)
(* executed on a merge server: init_all_cluster returns OB_SUCCESS only   *)
(* when its retry loop ran the SQL.                                        *)
(***************************************************************************)
OnlineMeansClusterWritten == online => clusterRow
====
