# TLA+ models of the OceanBase row store, page arena, merge operator, physical plan and bootstrap

This directory holds TLA+ models of parts of this repository, the TLC configurations that check them, and `PROJECT.json`. `PROJECT.json` lists the components, runs, mutants, the definition-to-source map, the findings and the hazards.

## The system

The repository is a slice of OceanBase (11 files). Its parts, and how they interact:

| Part | Source | What it is |
|---|---|---|
| `ObRowStore` | `src/src/common/ob_row_store.cpp` | An in-memory store of rows for SQL operators (sort, aggregate, merge). It is a singly linked list of fixed-size blocks from `block_list_tail_` (oldest) to `block_list_head_` (write point). `add_row` appends a stored row (a header of reserved cells plus the compact row). `rollback_last_row` undoes the last `add_row`. `reuse`/`clear`/`clear_rows` reset the store. A cursor (`cur_iter_block_`, `cur_iter_pos_`) iterates. `serialize`/`deserialize` ship the store. |
| `PageArena` / `ObArenaAllocator` | `src/oceanbase/src/common/page_arena.h` | The bump allocator behind SQL operators (`ObMultipleMerge` holds one). It keeps a list of pages `header_`…`tailer_` and allocates through `cur_page_`. Oversize requests get a page of their own at the head. `reuse`/`fast_reuse`/`partial_slow_free`/`free` recycle pages. |
| `ObMultipleMerge`, `ObMultipleGetMerge` | `src/oceanbase/src/sql/ob_multiple_*merge*` | An operator fusing one row from each child per `get_next_row`. It allocates through a `PageArena`. |
| `ObPhysicalPlan` | `src/src/sql/ob_physical_plan.cpp` | A plan as a set of operator trees with a main query. It has a recursive pre-order `serialize_tree`/`deserialize_tree`. |
| `ObBootstrap` | `src/src/rootserver/ob_root_bootstrap.cpp` | The root server's bootstrap sequence: core tables, sys tables, inner-table rows, `init_all_cluster` with RPC retries. |
| Others | `ob_tablet_manager.h`, `ob_ms_sql_sorted_operator.h`, `ob_sql_rpc_stub.h`, `ob_schema_service_impl.h` | Declarations only. There is nothing to model. |

## Inventory per component

**ObRowStore.**
- State: the block list and each block's `curr_data_pos_`, plus:
  - `block_count_`
  - `reserved_columns_`
  - `last_row_store_size_` and `last_prev_row_store_size_`
  - `rollback_block_list_` and `rollback_iter_pos_`
  - the iterator (`cur_iter_block_`, `cur_iter_pos_`, `got_first_next_`)
- Operations:
  - `add_reserved_column`
  - `add_row`, with `append_row`, `new_block` and a retry loop
  - `rollback_last_row`
  - `reuse`, `clear`, `clear_rows`
  - `reset_iterator`, `get_next_row`, `get_last_stored_row`
  - `serialize`, `deserialize`
- Hard behaviours:
  - blocks left after the head by a rollback or `reuse` are later reused by `new_block` and walked by iteration;
  - a failed `add_row` mid-way;
  - the retry loop at the block boundary;
  - a cursor kept across calls.
- Properties:
  - the writer contract (append, a failed add is invisible, rollback restores the checkpoint);
  - iteration returns what was written;
  - every allocated block is counted and freed;
  - `serialize` then `deserialize` into a fresh store gives back the blocks.

**PageArena.**
- State: the page list (`next_page_`, each page's `alloc_end_` and `page_end_`), `header_`, `tailer_`, `cur_page_`, `page_limit_`, `pages_`, `used_`, `total_`.
- Operations: `alloc`, `alloc_aligned`, `alloc_down`, `realloc`, `dup`, `free`, `partial_slow_free`, `fast_reuse`, `reuse`, `join`/`assign`.
- Hard behaviours:
  - `ob_malloc` failing at any call;
  - pages reused after `reuse`, with sizes changed by `alloc_down`;
  - large pages at the head.
- Properties:
  - the list stays well formed and nothing is leaked;
  - `total_`/`pages_` accounting;
  - handed-out regions are disjoint and inside their pages;
  - aligned results are aligned.

**ObMultipleGetMerge.**
- State: `child_array_`, `child_num_`, `cur_rowkey_`, and each child's position.
- Operations: `set_child`, `reuse`/`reset`, `open`, `get_next_row`, `close`.
- Hard behaviours:
  - a child ending before or after child 0;
  - the end check consuming a row;
  - slots refilled after `reuse`.
- Properties:
  - a pass that ends with OB_ITER_END returned one row per row of every child;
  - a parent that keeps pulling always sees the pass end.

**ObPhysicalPlan.**
- State: `phy_querys_`, `main_query_`, and on the receiver `operators_store_`.
- Operations: `add_phy_query`, `set_main_query`, `remove_phy_query`, `serialize`, `deserialize`.
- The wire format is an operator tree written pre-order and read back recursively. A merge node's child count comes from the stream.
- Property: what `serialize` ships decodes to the main query's tree, with `operators_store_` in pre-order, and no proper prefix decodes.

**ObBootstrap.**
- A sequence of public methods, each made of collaborator calls that can fail, with retries over merge servers.
- Properties:
  - bootstrap reaches the end only with every table, tablet, meta entry, row and counter in place;
  - `SERVER_ONLINE` is committed only after `__all_cluster` was written. This is violated by the code.

## Plan

The modules, most important first:

1. `RowStore` (done): it composes the block list, writer and iterator.
   - `RowStoreContract` is the abstract writer specification.
   - `RowStore` refines it through `Contract == INSTANCE RowStoreContract WITH ...`.
2. `PageArena` (done).
3. `MultipleGetMerge` (done): the children as bounded iterators, with the arena abstracted away (it only provides storage).
4. `PhysicalPlan` (done): trees as records, with `SerializeTree` and `DeserializeTree` as RECURSIVE operators checked against each other over all trees up to depth 3.
5. `Bootstrap` (done): the public methods as actions with nondeterministic failure, and `init_all_cluster`'s loop as a RECURSIVE operator.
6. `RowStoreSerial` (done): `serialize`, `deserialize` and `get_serialize_size` as operators of a `RowStore` state. `MC_RowStore` extends it, so the round trip is checked on every reachable store in the `rowstore_refinement` run.

There are at most 12 runs in total, and all 12 are used. Two behaviours the serialization model reaches therefore have no run and are listed as hazards with notes: `serialize` into a buffer shorter than `get_serialize_size` reports success with a truncated image (`ob_row_store.cpp:544`), and `deserialize` into a used store skips the old tail block and keeps later stale blocks (`ob_row_store.cpp:588`).

## Modules

### RowStore.tla (with RowStoreContract.tla, MC_RowStore.tla)

**State.**
- `blocks` is the block list, tail first. Each block is the sequence of entries written before its `curr_data_pos_`. The bytes after it are never read by the code, so they are not kept.
- An entry is a stored row:
  - `kind` is `row`, or `garbage` for a header left by a failed `add_row`;
  - `row` and `cols` are the cells and the reserved columns at the time of writing;
  - `res` holds the reserved-cell copies;
  - `size` is the entry's size in abstract units.
- `head` is `block_list_head_` as an index (0 = NULL).
- The other variables have the names of the fields they model. `op`, `ret`, `readOut` and `mixed` are history variables: the last call, its result, what the current read pass returned, and whether a write happened during it.

**Actions.** One action per public call:
- `AddReservedColumn`, `AddRow`, `RollbackLastRow`, `Reuse`, `ClearRows`, `Clear`, `ResetIterator`, `GetNextRow`.
- `AddRow` is the whole of `add_row`: the checkpoint, the up-front `new_block`, and the retry loop (`AddLoop`, RECURSIVE). The loop uses `AppendRow` (cells appended in order; OB_NOT_SUPPORTED or OB_BUF_NOT_ENOUGH at the first cell or the row-finish marker that fails) and `NewBlock` (reuse the block after the head, else allocate; failure at `MaxBlocks`).
- `GetNextRow` follows `next_iter_pos` (`NextIterPos`, RECURSIVE) and decodes the entry at the cursor. A cursor that is not at an entry boundary, or a garbage header, decodes a stale `compact_row_size_`. The model returns `GARBAGE` for it and moves past that block's data.

**Sizes.** A plain cell is 1 unit (a wide value 2), the row-finish marker 1, and a header with k reserved cells 1 + k. A block holds `BlockCap` units.

**Mapping.** `WrittenRows` (the rows of the blocks up to the head) maps to the contract's `rows`. `CheckpointRows` (the content up to `rollback_block_list_`/`rollback_iter_pos_`) maps to `undo`. `CallKind` maps to `last`.

### RowStoreSerial.tla (composed into MC_RowStore.tla)

- The buffer is a sequence of tokens `[k, v]`. An ObObj int (a block's `curr_data_pos_`), an extend ObObj marker and the vi64 `last_row_store_size_` take 1 unit each. A block's bytes are one `data` token of `Pos(block)` units, and nothing for an empty block (a `memcpy` of 0 bytes).
- `SerializeBlocks` (RECURSIVE) is the block loop of `serialize` from `block_list_tail_`, including blocks after the head. A header that does not fit ends the loop. Bytes that do not fit set OB_BUF_NOT_ENOUGH, but the loop goes on and the next header resets `ret`, as the code does. `Serialize` adds the two markers and the varint.
- `GetSerializeSize` is a fold over the blocks.
- `DeserializeBlocks` (RECURSIVE) is the loop of `deserialize`: an extend ObObj ends it, any other non-int is OB_ERROR, and each block calls `NewBlock` (the row store's own operator, failing at `MaxBlocks`) before its size is checked against the new block's remain. `Deserialize` first applies `reuse()` to the receiver, then the loop, then the varint and the end marker. The marker test is the code's `&&`, so any extend token passes.
- A decode of a truncated image would continue at an offset inside a token. The model takes it as a decode failure.
- `SerializedStoreReadsBack` is a state invariant: the current store, serialized into `get_serialize_size` units and deserialized into a fresh store, gives back every block, `last_row_store_size_`, and a `block_count_` equal to its blocks.
- `TruncatedStoreRefused` is a state invariant about the same image: `deserialize` of each proper prefix of it fails, and leaves a receiver whose `block_count_` equals its blocks and whose blocks, except the last one `new_block` made, are copies of the sender's. Only `pos` is restored on failure, so this is what a caller holds after a short read.

### PageArena.tla (with MC_PageArena.tla)

**State.**
- Pages are ids `1..MaxPages`.
- `endOff` and `allocEnd` are `page_end_ - buf_` and `alloc_end_ - buf_`.
- `nextPg` is `next_page_`. `header`, `tailer` and `cur` are the list pointers.
- `limit`, `pages`, `used` and `total` are the counters.
- `alloced` is the set of pages held from the page allocator.
- `origEnd` and `live` are history: each page's size when allocated, and the regions handed out since the last reuse or free.

**Actions.**
- `Alloc`, `AllocAligned` (also `ObArenaAllocator::alloc`), `AllocDown`, `Realloc`, `Dup`, `Free`, `PartialSlowFree`, `FastReuse`, `Reuse`.
- The three allocating calls share `CoreAlloc`, which follows the code's four paths:
  1. the current page;
  2. `extend_page`, for a normal size;
  3. `lookup_next_page`;
  4. `alloc_big`.
- `ob_malloc` failure is a nondeterministic choice (`AllowOOM`) at each page allocation.
- The model is of a release build. The `assert` in `Page::alloc_down` is compiled out, so `page_end_` moves whatever the size.

### MultipleGetMerge.tla (with MC_MultipleGetMerge.tla)

**State.**
- `childArray` and `childNum` are `child_array_` and `child_num_`. A slot never written holds `UNSET`, because the `memset` in the constructor is commented out.
- A child is an operator of `Ops`. `rowsOf[o]` is how many rows it holds, fixed for a behaviour. `cursor[o]` is how many it has returned since it was opened.
- `curRowkey` is `cur_rowkey_`, as the pair (child 0, row number) it points into.
- `phase`, `ret` and `emitted` are the caller's view: open or not, the last return code, and the rows returned since `open`.

**Actions.**
- `SetChild(idx, op)`: OB_SIZE_OVERFLOW past `MaxChild`, else it grows `child_num_` and stores the child. The caller fills slots densely (`idx <= child_num_`), with distinct children.
- `Reuse` (`reuse` and `reset`): `child_num_ = 0`. `child_array_` and `cur_rowkey_` stay.
- `Open`: opens children in order. The k-th open may fail and stop the loop. It then calls `GetRowDesc`: OB_NOT_INIT without children, and otherwise the first child's descriptor, which may be an error, NULL with OB_SUCCESS, or a descriptor without rowkey cells (OB_ERR_UNEXPECTED). A NULL descriptor is only logged, so `open` succeeds without giving `cur_row_` a descriptor.
- `GetNextRow`: the whole of `get_next_row`.
  - If every child gives a row, it returns OB_SUCCESS and `cur_rowkey_` follows child 0 (`CopyRowkey`).
  - If a child j > 0 ends first, it returns OB_ERR_UNEXPECTED after children 0..j-1 were read.
  - If child 0 ends, the end check (`EndRet`) reads children 1, 2, … until one gives a row (consumed, OB_ERR_UNEXPECTED) or all have ended (OB_ITER_END).
- `Close` ends the pass.

### PhysicalPlan.tla (with MC_PhysicalPlan.tla)

**Trees and buffers.**
- An operator tree is a record `[type, kids]`. The types are `scan` (no child), `filter` (one child) and `merge`, an `ObMultipleMerge` whose own serialization is `child_num_` then `is_ups_row_` (`OpSerialize`). `OpDeserialize` reads both back, and the merge's child count is the `child_num_` it read.
- The buffer is a sequence of typed tokens. Decoding a token of the wrong kind, or past the end, fails, as the `decode_*` functions do on short or wrong data.

**Operators.**
- `SerializeTree` and the mutually recursive `DeserializeTree`/`DeserializeKids` are the code's `serialize_tree` and `deserialize_tree`.
- The operator factory fails for the `oom`-th operator, for any `oom` in 0..3, where 0 means never.
- A merge's `set_child` fails past `MaxChild`.
- A failure keeps the operators already pushed onto `operators_store_`.
- `PreOrder` is the reference the decoder is checked against.

**State and actions.**
- The sender's `querys`, `qtree` and `main` change through `AddPhyQuery`, `SetMainQuery` and `RemovePhyQuery`. `RemovePhyQuery` leaves `main_query_` as it is, as the code does.
- `Serialize` writes the header, `main_query_idx` 0, a query count of 1 and the main tree.
- `Deserialize(oom)` runs `DeserializePlan` on the buffer in flight and sets the receiver's `rquerys`, `rmain`, `rstore` and `rret`.

### Bootstrap.tla (with MC_Bootstrap.tla)

**State.**
- `schemas`, `tablets` and the three table counters.
- `meta`, the first meta file and its log.
- `rows`, the inner-table rows.
- `clusterRow`, whether the `__all_cluster` SQL ran.
- `online`, whether `SERVER_ONLINE` was committed.
- `configVersion`.
- `role`, the scan helper and the config manager are chosen in `Init`: they are what the root server hands the bootstrap.

**Actions.** Each public method is one action, and each collaborator call inside it succeeds or fails nondeterministically. A failure leaves exactly the effects of the calls before it.
- `BootstrapCoreTables`: `init_schema_service`, `create_all_core_tables` (`CoreTablets`), then `init_meta_file` (`MetaAfter`).
- `BootstrapSysTables`: `create_sys_table` per table, and a tablet on no chunkserver is an error.
- `BootstrapIniTables`: on a slave, tables are counted without being created.
- `InitSystemTable`: `init_all_sys_stat`, `init_all_sys_param` and `init_users` on the master, then `init_all_cluster` (`InitAllCluster`, with the retry loop `ClusterLoop`) and `init_all_sys_config_stat`.

**Driver.** The caller, `ObRootServer2::boot_strap`, is not in this repository. `NextStep` and `Finish` run the methods in the order of the step numbers in the code's comments and stop at the first failure. Bootstrap terminates, so its cfgs say `CHECK_DEADLOCK FALSE`.

## Runs

| Run | Expect | Checks | Shows |
|---|---|---|---|
| `rowstore_refinement` | pass | `TypeOK`, `NoLeakedBlocks`, `IterationReadsWrittenFirst`, `ContractSpec`, `SerializedStoreReadsBack`, `TruncatedStoreRefused` | For rows `append_row` accepts, the store implements its contract. A read pass returns the written rows first and in order. `block_count_` equals the linked blocks, so clear frees the blocks a rollback or reuse left behind. Every reachable store, serialized into `get_serialize_size` units, deserializes into a fresh store block for block. Every proper prefix of that image is refused, and the partly filled receiver stays consistent. |
| `rowstore_stale_iteration` | violation | `IterationYieldsWritten` | After `reuse`, iteration returns discarded rows from the blocks after the head. |
| `rowstore_failed_add` | violation | `FailedAddKeepsRows` | An OB_NOT_SUPPORTED `add_row` leaves a header in the block. |
| `rowstore_last_row` | violation | `LastStoredRowIsLast` | A rollback after a failed `add_row` breaks `get_last_stored_row`. |
| `arena_safety` | pass | `TypeOK`, `PageListWellFormed`, `AlignedAllocations` | Without OOM, the list stays well formed through every call, including `alloc_down`. Aligned results are aligned on every path. |
| `arena_oom` | pass | `AllocationsDisjoint` | With OOM and without `alloc_down`, handed-out regions never overlap and stay inside their pages. |
| `arena_oom_leak` | violation | `TotalMatchesPages` | An OOM in `extend_page` makes the next call drop the whole list (a leak) while `total_` still counts it. |
| `arena_alloc_down_overlap` | violation | `AllocationsDisjoint` | `extend_page` reuses, after `fast_reuse`, a page that `alloc_down` shrunk in the previous pass, without a size check. An `alloc_down` there moves `page_end_` below `buf_` and returns memory over the page's own `Page` header. It never returns another live allocation, because each page is entered once between reuses. |
| `merge_get` | pass | `TypeOK`, `NoRowLost`, `PassEnds` | Through any `set_child`/`reuse`/`open` sequence, a pass ending with OB_ITER_END returned exactly one row per child row, and a parent that keeps pulling always sees the pass end. |
| `bootstrap_steps` | pass | `TypeOK`, `SuccessMeansBootstrapped` | Under any failures, a bootstrap that completes has every sys tablet served, the core tablets, a logged first meta, the master's rows, a config version and matching counters. |
| `bootstrap_online_unwritten` | violation | `OnlineMeansClusterWritten` | `init_all_cluster` ignores `execute_sql`'s result. After all retries fail (or with `retry_times` 0), it commits `SERVER_ONLINE` although `__all_cluster` was never written. |
| `plan_roundtrip` | pass | `TypeOK`, `ShippedPlanDecodes` | Every plan `serialize` ships decodes to the main query's tree, with `operators_store_` in pre-order. No proper prefix of the buffer decodes. |

Every property of a passing run has a mutant in `PROJECT.json`: a plausible bug in the mapped code that TLC catches. For example, `block_count_` counted on block reuse, the skip test in `next_iter_pos` off by one, rollback not restoring `curr_data_pos_`, `realloc` growing in place without checking that `p` is the last allocation, the get-merge end check left out, `create_sys_table` not checking `cs.count()`, `ObMultipleMerge::serialize` leaving out `child_num_`, `deserialize` refusing a block that exactly fills a new block, and `deserialize` not reading the end marker.

Other disagreements seen while modelling are listed as hazards with notes, with no run spent on them:
- the first row of an empty store cannot be rolled back;
- an oversize row grows the block list;
- `realloc` and a failed `alloc_down` skew `used_`;
- `total_` drifts after `alloc_down`.

## Bounds and why they are enough

**RowStore.** Blocks of 6 units, at most 2 blocks, 2 columns, 1 reserved column, and the rows:
- `rA` (3-4 units);
- `rB` (5-6 units, with a wide value);
- `rBig`: 7+ units, never fits;
- `rBad`: an extend cell with a flag `append_extend_cell` does not support (OB_NOT_SUPPORTED). `NOP` stands for the five supported flags.

With these bounds:
- a block holds one or two rows, so both the in-block path and the new-block path of `add_row` occur;
- with the reserved header, `rB` sometimes fits and sometimes does not, so the retry path occurs;
- `rBig` reaches the retry limit;
- 2 blocks are enough for a rollback or reuse to leave a block after the head, and for `new_block` to reuse it;
- `MaxBlocks` also makes allocation fail.

**PageArena.** Pages of 6 raw units with a 2-unit header (4 usable), alignment 2, at most 2 pages, and requests of 1, 3 (normal) and 5 (oversize, its own page). With these:
- an aligned 3 does not fit a fresh page, because `get_align_offset` returns the full unit for an aligned pointer, so the extend path is reached;
- both pages together make the large-page, lookup and reuse paths possible.

**MultipleGetMerge.** There are 2 child slots, 3 child operators with 0-2 rows each, and child indexes 0..`child_num_` in `set_child`. With these:
- children end together, early or late;
- a slot is refilled with another operator after `reuse`;
- the overflow path of `set_child` is reached at `child_num_ = 2`.

**PhysicalPlan.** Trees up to depth 3 with merges of 0-2 children give 122 trees, and one query operator. With these:
- a merge holds a merge, and an empty merge occurs;
- the factory fails at each of the first three operators.

Two query operators with these trees exceed the run's time budget.

**Bootstrap.** There are 3 sys tables, 2 ini tables, 2 sys params, `retry_times` 2, both roles, and a present or missing scan helper and config manager. With these, every method fails at its first, a middle and its last call. The retry loop ends on a failed `get_ms`, a failed `execute_sql` or a success.

**RowStore and PageArena.** The state constraints bound the counters that the code lets grow without limit: `used_` (a failing `alloc_down` raises it), `total_` (it drifts after `alloc_down`), and how far `page_end_` may sink below `buf_`.

## Fairness

Every call is made by the owning thread, synchronously, so the specs use `[][Next]_vars`. The exception is `MultipleGetMerge`, which adds `WF_vars(GetNextRow)`. An SQL operator's parent pulls rows from its child until the first return that is not OB_SUCCESS, and then closes it. `GetNextRow` is enabled exactly while that loop runs. `PassEnds` is the only liveness property.

## Not modelled

**Not modelled yet:**
- The reserved-cell values are computed by `AppendRow`, but no property reads them yet.

**Not modelled at all:**
- `PageArena::join`/`assign`. `join` calls `rhs.reset()`, which does not exist, so it cannot be instantiated.
- `free(ptr)`, which does nothing, and `set_page_size`, which acts only on an arena that has never allocated. The model takes `page_size_` as the constant `PageSize`. `dup` is an action (`Dup`): `alloc` when the source is not NULL and the length is positive.
- The four declaration-only headers: `ObTabletManager` (getters and `build_scan_context`), `ObSchemaServiceImpl`, `ObMsSqlSortedOperator` and the rpc stub. They declare interfaces with no state-changing code in `src/`.
- Deserializing a corrupted or foreign row-store image. Only images `serialize` produced are decoded.
- Byte-level encodings (`ObCompactCellWriter`, `ObObj`). They are abstracted to unit sizes.
- Merge cells and `ObRowFuse`, the effect of `is_ups_row_` on fusing (it is only shipped), and the row descriptor's contents (only which of the four outcomes `get_row_desc` has is kept). No property distinguishes cell values.
- `set_child` with a gap in the slots. It leaves an uninitialised pointer, whose use is undefined.
- Plan `params_`, buffer capacity (`get_serialize_size` returns 0), lookups that change no state, and queries other than the main one. `serialize` ships only the main one.
- SQL text, schemas and server lists in bootstrap. They are abstracted to which tables, tablets and rows exist.
