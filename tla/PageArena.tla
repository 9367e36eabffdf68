------------------------------ MODULE PageArena ------------------------------
(***************************************************************************)
(* PageArena (src/oceanbase/src/common/page_arena.h): a list of pages,    *)
(* header_ ... tailer_, linked by next_page_, bump-allocated through       *)
(* cur_page_.  A page is an id; its buffer runs from buf_ (offset 0) to    *)
(* page_end_ (offset endOff), and alloc_end_ is offset allocEnd.  Sizes    *)
(* are abstract units: sizeof(Page) is Hdr, a normal page has PageSize     *)
(* raw units, and alignment is to Align units (buf_ is aligned).           *)
(* The model is of a release build: the assert in Page::alloc_down is      *)
(* compiled out, so an alloc_down past remain() moves page_end_ anyway.    *)
(***************************************************************************)
EXTENDS Integers, FiniteSets, Sequences, SequencesExt

CONSTANTS
  PageSize,   \* page_size_ (raw bytes of a normal page)
  Hdr,        \* sizeof(Page)
  Align,      \* the alignment get_align_offset rounds to
  MaxPages,   \* pages the page allocator can hand out at once
  Sizes,      \* request sizes for alloc / alloc_aligned / realloc
  DownSizes,  \* request sizes for alloc_down
  RemainSizes,\* remain_size arguments of partial_slow_free
  AllowOOM    \* whether ob_malloc may return NULL

PageIds == 1..MaxPages
NULLR == [pg |-> 0, lo |-> 0, hi |-> 0, al |-> FALSE]

VARIABLES
  alloced,    \* pages currently obtained from the page allocator
  endOff,     \* page_end_ - buf_ of each page
  allocEnd,   \* alloc_end_ - buf_ of each page
  nextPg,     \* next_page_ (0 = NULL)
  origEnd,    \* history: page_end_ - buf_ when the page was allocated
  header, tailer, cur,   \* header_, tailer_, cur_page_ (0 = NULL)
  limit,      \* page_limit_
  pages,      \* pages_
  used,       \* used_
  total,      \* total_
  live        \* history: regions handed out since the last reuse/free

vars == <<alloced, endOff, allocEnd, nextPg, origEnd, header, tailer, cur,
          limit, pages, used, total, live>>

\* the whole arena as one record, so that a call is a function of it
St == [alloced |-> alloced, endOff |-> endOff, allocEnd |-> allocEnd,
       nextPg |-> nextPg, origEnd |-> origEnd, header |-> header,
       tailer |-> tailer, cur |-> cur, limit |-> limit, pages |-> pages,
       used |-> used, total |-> total, ok |-> TRUE, ret |-> NULLR]

Fail == IF AllowOOM THEN BOOLEAN ELSE {FALSE}

-----------------------------------------------------------------------------
(* Page helpers (struct Page, lines 67-108).                               *)

Remain(s, p) == s.endOff[p] - s.allocEnd[p]

RawSize(s, p) == s.endOff[p] + Hdr

IsLargePage(s, p) == p # 0 /\ RawSize(s, p) > PageSize

\* Page::alloc(sz): bump alloc_end_ when sz fits
PageAlloc(s, p, sz, al) ==
  IF sz <= Remain(s, p)
  THEN [s EXCEPT !.allocEnd[p] = @ + sz,
                 !.ret = [pg |-> p, lo |-> s.allocEnd[p], hi |-> s.allocEnd[p] + sz,
                          al |-> al]]
  ELSE [s EXCEPT !.ret = NULLR]

\* Page::alloc_down(sz): page_end_ -= sz, with the assert compiled out
PageAllocDown(s, p, sz) ==
  [s EXCEPT !.endOff[p] = @ - sz,
            !.ret = [pg |-> p, lo |-> s.endOff[p] - sz, hi |-> s.endOff[p], al |-> FALSE]]


\* alloc_new_page(sz) (lines 144-163): a page of rawSz units; `fail` is
\* ob_malloc returning NULL.  ok = FALSE marks the model's page bound.
AllocNewPage(s, rawSz, fail) ==
  LET free == PageIds \ s.alloced
      p == Min(free)
  IN IF fail THEN [st |-> s, pg |-> 0]
     ELSE IF free = {} THEN [st |-> [s EXCEPT !.ok = FALSE], pg |-> 0]
     ELSE [st |-> [s EXCEPT !.alloced = @ \cup {p}, !.endOff[p] = rawSz - Hdr,
                            !.allocEnd[p] = 0, !.nextPg[p] = 0,
                            !.origEnd[p] = rawSz - Hdr,
                            !.total = @ + rawSz, !.pages = @ + 1],
           pg |-> p]

\* ensure_cur_page (lines 202-212): header_ = cur_page_ = tailer_ = new page
EnsureCurPage(s, fail) ==
  IF s.cur # 0 THEN s
  ELSE LET a == AllocNewPage(s, PageSize, fail)
       IN [a.st EXCEPT !.header = a.pg, !.cur = a.pg, !.tailer = a.pg,
                       !.limit = IF a.pg # 0 THEN PageSize - Hdr ELSE @]

\* extend_page (lines 165-186): the next page, rewound, else a new page
\* linked after tailer_ by insert_tail (lines 133-142), NULL included
ExtendPage(s, fail) ==
  LET nx == s.nextPg[s.cur]
      a == AllocNewPage(s, PageSize, fail)
  IN IF nx # 0 THEN [st |-> [s EXCEPT !.allocEnd[nx] = 0], pg |-> nx]
     ELSE [st |-> [a.st EXCEPT !.nextPg = IF s.tailer # 0 /\ a.pg # 0
                                          THEN [@ EXCEPT ![s.tailer] = a.pg] ELSE @,
                               !.tailer = a.pg],
           pg |-> a.pg]

\* lookup_next_page (lines 188-200), the test; the move is in CoreAlloc
LookupNextPage(s, sz) ==
  s.cur # 0 /\ s.nextPg[s.cur] # 0 /\ s.endOff[s.nextPg[s.cur]] >= sz

\* the page-level step of alloc ("up"), alloc_aligned or alloc_down
InPage(s, p, sz, mode) ==
  IF mode = "down" THEN PageAllocDown(s, p, sz) ELSE PageAlloc(s, p, sz, mode = "aligned")

\* alloc_big (lines 224-235): a page of its own, put first by insert_head
AllocBig(s, sz, fail, mode) ==
  LET a == AllocNewPage(s, sz + Hdr, fail)
      p == a.pg
  IN IF p = 0 THEN [a.st EXCEPT !.ret = NULLR]
     ELSE PageAlloc([a.st EXCEPT !.nextPg[p] = IF s.header # 0 THEN s.header ELSE @,
                                 !.header = p], p, sz, mode = "aligned")

\* get_align_offset (lines 20-32): Align - (addr mod Align), never 0
AlignOffset(ae) == Align - (ae % Align)

\* mutant: the pointer returned is the start of the padded block, without
\* + align_offset
AlignedInPageNoOffset(s, c, sz) ==
  LET off == AlignOffset(s.allocEnd[c])
      t == PageAlloc([s EXCEPT !.used = @ + off], c, sz + off, TRUE)
  IN [t EXCEPT !.ret.hi = t.ret.lo + sz]

\* alloc_aligned on the current page (lines 398-403): used_ counts the
\* padding, alloc(sz + align_offset) + align_offset is returned
AlignedInPage(s, c, sz) ==
  LET off == AlignOffset(s.allocEnd[c])
  IN PageAlloc([s EXCEPT !.used = @ + off, !.allocEnd[c] = @ + off], c, sz, TRUE)

(* The body shared by alloc (lines 336-371), alloc_aligned (389-428) and *)
(* alloc_down (434-465): the current page if the request fits, else the  *)
(* next page for a normal size, else a next page large enough, else a    *)
(* page of its own.  alloc_down counts used_ before anything else.        *)
CoreAlloc(s, sz, mode, f1, f2) ==
  LET s0 == IF mode = "down" THEN [s EXCEPT !.used = @ + sz] ELSE s
      s1 == EnsureCurPage(s0, f1)
      c == s1.cur
      off == AlignOffset(s1.allocEnd[c])
      r == IF mode = "aligned" /\ sz + off <= Remain(s1, c)
           THEN AlignedInPage(s1, c, sz)
           ELSE IF mode # "aligned" /\ sz <= Remain(s1, c)
           THEN InPage(s1, c, sz, mode)
           ELSE IF sz <= s1.limit
           THEN LET e == ExtendPage(s1, f2)
                IN IF e.pg = 0 THEN [e.st EXCEPT !.cur = 0, !.ret = NULLR]
                   ELSE InPage([e.st EXCEPT !.cur = e.pg], e.pg, sz, mode)
           ELSE IF LookupNextPage(s1, sz)
           THEN InPage([s1 EXCEPT !.allocEnd[s1.nextPg[c]] = 0, !.cur = s1.nextPg[c]],
                       s1.nextPg[c], sz, mode)
           ELSE AllocBig(s1, sz, f2, mode)
  IN IF c = 0 THEN [s1 EXCEPT !.ret = NULLR]
     ELSE IF mode # "down" /\ r.ret # NULLR THEN [r EXCEPT !.used = @ + sz]
     ELSE r

\* the fields of a freed page are cleared: freed memory is not read again
SetSt(s) ==
  LET keep(f) == [p \in PageIds |-> IF p \in s.alloced THEN f[p] ELSE 0]
  IN /\ alloced' = s.alloced /\ endOff' = keep(s.endOff)
     /\ allocEnd' = keep(s.allocEnd) /\ nextPg' = keep(s.nextPg)
     /\ origEnd' = keep(s.origEnd) /\ header' = s.header
     /\ tailer' = s.tailer /\ cur' = s.cur /\ limit' = s.limit
     /\ pages' = s.pages /\ used' = s.used /\ total' = s.total

\* mutant: a NULL result is recorded as an allocation
AllocatingNoNullCheck(mode, sz) ==
  \E f1, f2 \in Fail :
    LET r == CoreAlloc(St, sz, mode, f1, f2)
    IN /\ r.ok
       /\ SetSt(r)
       /\ live' = live \cup {r.ret}

\* an allocating call, explored while the model's page bound holds
Allocating(mode, sz) ==
  \E f1, f2 \in Fail :
    LET r == CoreAlloc(St, sz, mode, f1, f2)
    IN /\ r.ok
       /\ SetSt(r)
       /\ live' = IF r.ret = NULLR THEN live ELSE live \cup {r.ret}

-----------------------------------------------------------------------------
\* the pages reachable from p by next_page_ (at most MaxPages of them)
RECURSIVE ChainFrom(_, _, _)
ChainFrom(nx, p, n) ==
  IF p = 0 \/ n = 0 THEN << >> ELSE << p >> \o ChainFrom(nx, nx[p], n - 1)

Chain(s) == ChainFrom(s.nextPg, s.header, MaxPages)

\* mutant: pages_ is not decremented for the pages freed
FreeLargePagesKeepCount(s) ==
  LET ch == Chain(s)
      large == {p \in ToSet(ch) : IsLargePage(s, p)}
      kept == SelectSeq(ch, LAMBDA p : ~IsLargePage(s, p))
      succ(i) == IF i < Len(kept) THEN kept[i + 1] ELSE 0
  IN [s EXCEPT !.alloced = @ \ large,
               !.nextPg = [p \in PageIds |->
                             IF \E i \in 1..Len(kept) : kept[i] = p
                             THEN succ(CHOOSE i \in 1..Len(kept) : kept[i] = p)
                             ELSE @[p]],
               !.header = IF kept = << >> THEN 0 ELSE kept[1],
               !.tailer = IF kept = << >> THEN 0 ELSE Last(kept),
               !.total = @ - MapThenSumSet(LAMBDA p : RawSize(s, p), large)]

\* free_large_pages (lines 237-261): unlink and free every page whose
\* raw_size() exceeds page_size_; tailer_ is the last page kept
FreeLargePages(s) ==
  LET ch == Chain(s)
      large == {p \in ToSet(ch) : IsLargePage(s, p)}
      kept == SelectSeq(ch, LAMBDA p : ~IsLargePage(s, p))
      succ(i) == IF i < Len(kept) THEN kept[i + 1] ELSE 0
  IN [s EXCEPT !.alloced = @ \ large,
               !.nextPg = [p \in PageIds |->
                             IF \E i \in 1..Len(kept) : kept[i] = p
                             THEN succ(CHOOSE i \in 1..Len(kept) : kept[i] = p)
                             ELSE @[p]],
               !.header = IF kept = << >> THEN 0 ELSE kept[1],
               !.tailer = IF kept = << >> THEN 0 ELSE Last(kept),
               !.pages = @ - Cardinality(large),
               !.total = @ - MapThenSumSet(LAMBDA p : RawSize(s, p), large)]

\* fast_reuse (lines 581-589)
FastReuseSt(s) ==
  [s EXCEPT !.used = 0, !.cur = s.header,
            !.allocEnd = IF s.header # 0 THEN [@ EXCEPT ![s.header] = 0] ELSE @]

\* partial_slow_free's loop (lines 549-566): free from header_ while the
\* total is above remain_size (or always, for remain_size 0)
RECURSIVE SlowFree(_, _)
SlowFree(s, rs) ==
  IF s.header # 0 /\ (rs = 0 \/ s.total > rs)
  THEN SlowFree([s EXCEPT !.header = s.nextPg[s.header],
                          !.total = @ - RawSize(s, s.header),
                          !.pages = @ - 1,
                          !.alloced = @ \ {s.header}], rs)
  ELSE s

Init ==
  /\ alloced = {}
  /\ endOff = [p \in PageIds |-> 0] /\ allocEnd = [p \in PageIds |-> 0]
  /\ nextPg = [p \in PageIds |-> 0] /\ origEnd = [p \in PageIds |-> 0]
  /\ header = 0 /\ tailer = 0 /\ cur = 0
  /\ limit = 0 /\ pages = 0 /\ used = 0 /\ total = 0
  /\ live = {}

\* PageArena::alloc (lines 336-371)
Alloc(sz) == Allocating("up", sz)

\* PageArena::dup(s, len) (lines 500-512): a NULL source or len <= 0 returns
\* NULL and allocates nothing, else alloc(len) and a memcpy into it;
\* dup(s) (lines 489-497) is dup with len = strlen(s) + 1
Dup(len) == len > 0 /\ Alloc(len)

\* PageArena::alloc_aligned (lines 389-428), ObArenaAllocator::alloc
AllocAligned(sz) == Allocating("aligned", sz)

\* PageArena::alloc_down (lines 434-465)
AllocDown(sz) == Allocating("down", sz)

\* mutant: the in-place path does not check that p is the last allocation
ReallocNoLastCheck(r, newsz) ==
  /\ cur # 0
  /\ IF r.pg = cur /\ r.lo + newsz < endOff[cur]
     THEN /\ allocEnd' = [allocEnd EXCEPT ![cur] = r.lo + newsz]
          /\ live' = (live \ {r}) \cup {[r EXCEPT !.hi = r.lo + newsz]}
          /\ UNCHANGED <<alloced, endOff, nextPg, origEnd, header, tailer, cur,
                         limit, pages, used, total>>
     ELSE \E f1, f2 \in Fail :
            LET a == CoreAlloc(St, newsz, "up", f1, f2)
            IN /\ a.ok
               /\ SetSt(a)
               /\ live' = IF a.ret = NULLR THEN live ELSE (live \ {r}) \cup {a.ret}

\* PageArena::realloc (lines 468-486): grow or shrink in place when p is
\* the last allocation of cur_page_ and p + newsz < page_end_, else alloc
\* and copy.  assert(cur_page_) is the guard cur # 0.
Realloc(r, newsz) ==
  /\ cur # 0
  /\ IF r.pg = cur /\ r.hi = allocEnd[cur] /\ r.lo + newsz < endOff[cur]
     THEN /\ allocEnd' = [allocEnd EXCEPT ![cur] = r.lo + newsz]
          /\ live' = (live \ {r}) \cup {[r EXCEPT !.hi = r.lo + newsz]}
          /\ UNCHANGED <<alloced, endOff, nextPg, origEnd, header, tailer, cur,
                         limit, pages, used, total>>
     ELSE \E f1, f2 \in Fail :
            LET a == CoreAlloc(St, newsz, "up", f1, f2)
            IN /\ a.ok
               /\ SetSt(a)
               /\ live' = IF a.ret = NULLR THEN live ELSE (live \ {r}) \cup {a.ret}

\* PageArena::free() (lines 515-532): every page on the list is freed
Free ==
  LET s == [St EXCEPT !.alloced = @ \ ToSet(Chain(St)), !.header = 0, !.cur = 0,
                      !.tailer = 0, !.used = 0, !.pages = 0, !.total = 0]
  IN SetSt(s) /\ live' = {}

\* PageArena::partial_slow_free (lines 542-574): allocation restarts at
\* header_, whose alloc_end_ is left where it was
PartialSlowFree(rs) ==
  LET s == SlowFree(St, rs)
  IN /\ SetSt([s EXCEPT !.cur = s.header,
                        !.tailer = IF s.header = 0 THEN 0 ELSE @, !.used = 0])
     /\ live' = {}

\* PageArena::fast_reuse (lines 581-589)
FastReuse == SetSt(FastReuseSt(St)) /\ live' = {}

\* PageArena::reuse (lines 591-595), ObArenaAllocator::reuse
Reuse == SetSt(FastReuseSt(FreeLargePages(St))) /\ live' = {}

Next ==
  \/ \E sz \in Sizes : Alloc(sz) \/ AllocAligned(sz) \/ Dup(sz)
  \/ \E sz \in DownSizes : AllocDown(sz)
  \/ \E r \in live, sz \in Sizes : Realloc(r, sz)
  \/ Free
  \/ \E rs \in RemainSizes : PartialSlowFree(rs)
  \/ FastReuse
  \/ Reuse

Spec == Init /\ [][Next]_vars

-----------------------------------------------------------------------------
Region == [pg : PageIds, lo : Int, hi : Int, al : BOOLEAN]

TypeOK ==
  /\ alloced \subseteq PageIds
  /\ endOff \in [PageIds -> Int] /\ allocEnd \in [PageIds -> Int]
  /\ nextPg \in [PageIds -> 0..MaxPages] /\ origEnd \in [PageIds -> Nat]
  /\ {header, tailer, cur} \subseteq 0..MaxPages
  /\ pages \in Int /\ used \in Nat /\ total \in Int
  /\ live \subseteq Region

(* The page list is sound: header_ reaches tailer_ without a cycle and   *)
(* tailer_ is its last page; cur_page_ is on it; pages_ counts it, and    *)
(* every page the arena holds is on it, so free() releases them all.      *)
PageListWellFormed ==
  LET ch == Chain(St)
  IN /\ IsInjective(ch)
     /\ (header = 0) = (tailer = 0)
     /\ header # 0 => Last(ch) = tailer /\ nextPg[tailer] = 0
     /\ cur # 0 => cur \in ToSet(ch)
     /\ pages = Len(ch)
     /\ ToSet(ch) = alloced

(* What alloc_aligned (and ObArenaAllocator::alloc) returns is aligned,   *)
(* on whichever path it was served.                                       *)
AlignedAllocations == \A r \in live : r.al => r.lo % Align = 0

(* The regions handed out since the last reuse lie inside their page's   *)
(* buffer and never overlap.                                              *)
AllocationsDisjoint ==
  /\ \A r \in live : 0 <= r.lo /\ r.hi <= origEnd[r.pg]
  /\ \A r1, r2 \in live :
       r1 # r2 /\ r1.pg = r2.pg => r1.hi <= r2.lo \/ r2.hi <= r1.lo

(* total_ is the raw size of the pages on the list, as they were          *)
(* allocated ("total number of bytes occupied by pages").                 *)
TotalMatchesPages ==
  total = MapThenSumSet(LAMBDA p : origEnd[p] + Hdr, ToSet(Chain(St)))

====
