---------------------------- MODULE MC_Bootstrap ----------------------------
(* Bootstrap with three system tables (__all_cluster among them), two     *)
(* schema.ini tables, two __all_sys_param rows and two RPC attempts.       *)
EXTENDS Bootstrap

MCCoreTables == <<"first_tablet_entry", "all_all_column", "all_join_info">>
MCSysTables == <<"all_sys_stat", "all_cluster", "root_table">>
MCIniTables == <<"ini_t1", "ini_t2">>
====
