------------------------------- MODULE Paging -------------------------------
(***************************************************************************)
(* init_memory and the page tables of src/src/memory.c, word by word: the  *)
(* free list and the tables live in the same physical pages, so an entry   *)
(* written to the wrong word can break the list and a page on the list     *)
(* twice can break the tables.                                             *)
(*                                                                         *)
(* Addresses are page numbers.  A word of memory is a page number with a   *)
(* set of flags: a table entry, or (without flags) a link of the free      *)
(* list.  Data pages are not filled in, except for their first word.  The   *)
(* user bit is left out: nothing runs outside ring 0.                       *)
(***************************************************************************)
EXTENDS Naturals, Sequences, Functions

CONSTANTS
  Fanout,       \* entries of a table: 512
  FrameCount,   \* physical pages are 0 .. FrameCount - 1
  MemoryMap,    \* the EFI memory map: descriptors [type, start, pages]
  FrameBuffer,  \* [base, size] in pages
  Leftover,     \* word left by the firmware in every word of free memory
  Regions,      \* what gets mapped at run time: the heap and init's image
  RegionBase,   \* 8 GB for the heap, 4 GB for init
  MaxMapped     \* bound on the pages mapped per region

WordFlags == {"P", "W", "NX", "PS", "AVL"}

\* The descriptors of a memory map do not overlap, and page 0 is not conventional.
ASSUME PagingAssumption ==
  /\ {Fanout, FrameCount, MaxMapped} \subseteq Nat /\ Fanout > 1
  /\ Len(MemoryMap) > 0
  /\ MemoryMap \in Seq([type : STRING, start : Nat, pages : Nat \ {0}])
  /\ \A d \in 1 .. Len(MemoryMap) :
       /\ MemoryMap[d].start + MemoryMap[d].pages <= FrameCount
       /\ MemoryMap[d].type = "Conventional" => MemoryMap[d].start > 0
       /\ \A e \in 1 .. Len(MemoryMap) \ {d} :
            \/ MemoryMap[d].start + MemoryMap[d].pages <= MemoryMap[e].start
            \/ MemoryMap[e].start + MemoryMap[e].pages <= MemoryMap[d].start
  /\ Leftover \in [frame : Nat, flags : SUBSET WordFlags]
  /\ FrameBuffer \in [base : Nat, size : Nat]
  /\ RegionBase \in [Regions -> Nat]

VARIABLES
  mem, first_free_page, pml4_table, max_addr,
  cr3,          \* write_cr3 was executed: our tables translate, not the firmware's
  stale,        \* pages made not present that the TLB may still translate
  cpu,          \* "run", or why the machine halted: "oom", "pf"
  pc,           \* the loop of init_memory, or what the kernel does afterwards
  n, j,         \* loop counters: descriptor and page, or table
  job,          \* the call of create_memory_entry_for in progress
  size,         \* pages each region has
  tables,       \* history: pages taken for tables, in order
  mapped        \* history: the map_page calls that returned

vars == <<mem, first_free_page, pml4_table, max_addr, cr3, stale, cpu, pc,
          n, j, job, size, tables, mapped>>

NULL == 0
Frame == 0 .. FrameCount - 1
Word(frame, flags) == [frame |-> frame, flags |-> flags]
Flags(w, on, off) == [w EXCEPT !.flags = (@ \ off) \cup on]
InDescriptor(d) == d.start .. d.start + d.pages - 1
CodeTypes == {"LoaderCode", "PalCode", "RuntimeServicesCode"}
IsCode(d) == d.type \in CodeTypes

\* The address v without its last l indexes, and the index of an entry at level l.
Up(v, l) ==
  LET up[k \in 0 .. 4] == IF k = 0 THEN v ELSE up[k - 1] \div Fanout
  IN up[l]
Index(v, l) == Up(v, l) % Fanout

\* The tables on the path to v, followed by get_entry_physical alone.
Path(m, root, v) ==
  LET table[k \in 0 .. 3] ==
        IF k = 3 THEN root ELSE m[table[k + 1]][Index(v, k + 1)].frame
  IN table
TableFor(v, l) == Path(mem, pml4_table, v)[l]

\* get_memory_entry_for(v, 0) as a place in memory.
EntryFor(v) == <<TableFor(v, 0), Index(v, 0)>>

\* What the hardware makes of v once cr3 is loaded: one frame, or none.
EntryAt(v, l) == mem[TableFor(v, l)][Index(v, l)]
Translate(v) ==
  LET leaf == IF "PS" \in EntryAt(v, 1).flags THEN 1 ELSE 0 IN
  IF \A l \in leaf .. 3 : "P" \in EntryAt(v, l).flags
  THEN {EntryAt(v, leaf).frame + (IF leaf = 1 THEN v % Fanout ELSE 0)}
  ELSE {}
Accessible(q) == ~cr3 \/ Translate(q) # {} \/ q \in stale

Init ==
  /\ mem = [p \in Frame |-> [i \in 0 .. Fanout - 1 |-> Leftover]]
  /\ first_free_page = NULL /\ pml4_table = NULL /\ max_addr = 0
  /\ cr3 = FALSE /\ stale = {} /\ cpu = "run"
  /\ pc = "list" /\ n = 1 /\ j = 0
  /\ job = [va |-> 0, page |-> 0, cur |-> 0, l |-> 0, level |-> 0]
  /\ size = [r \in Regions |-> 0]
  /\ tables = <<>> /\ mapped = {}

Halt(why) ==
  /\ cpu' = why
  /\ UNCHANGED <<mem, first_free_page, pml4_table, max_addr, cr3, stale, pc,
                 n, j, job, size, tables, mapped>>

\* FOR_EACH_MEMORY_DESCRIPTOR with an inner loop over the pages of descriptors
\* of one type; the others take one step.
NextPage(type) ==
  IF MemoryMap[n].type = type /\ j + 1 < MemoryMap[n].pages
  THEN j' = j + 1 /\ n' = n
  ELSE j' = 0 /\ n' = n + 1

At(loop) == cpu = "run" /\ pc = loop /\ n <= Len(MemoryMap)

-----------------------------------------------------------------------------
(* init_memory *)

ListPage ==
  LET d == MemoryMap[n]
      page == d.start + j
      end == d.start + d.pages
  IN
  /\ At("list")
  /\ NextPage("Conventional")
  /\ IF d.type = "Conventional"
     THEN /\ mem' = [mem EXCEPT ![page][0] = Word(first_free_page, {})]
          /\ first_free_page' = page
     ELSE UNCHANGED <<mem, first_free_page>>
  /\ max_addr' = IF end > max_addr THEN end ELSE max_addr
  /\ UNCHANGED <<pml4_table, cr3, stale, cpu, pc, job, size, tables, mapped>>

ListBuilt ==
  /\ cpu = "run" /\ pc = "list" /\ n > Len(MemoryMap)
  /\ pc' = "tables" /\ n' = 0 /\ j' = 3
  /\ UNCHANGED <<mem, first_free_page, pml4_table, max_addr, cr3, stale, cpu,
                 job, size, tables, mapped>>

\* One call of the recursive allocate_tables, for the table of level j at offset
\* n: take a page, touch only the words it needs, and have the caller enter it
\* into its table.  The tables below a table come before those after it.  The code enters
\* it once the tables below it are complete; nothing reads the tables before all are.
AllocateTable ==
  LET new_page == first_free_page
      used == {"P", "W", "AVL"}
      filled == [i \in 0 .. Fanout - 1 |->
                   IF j = 0 /\ n + i < max_addr THEN Word(n + i, used)
                   ELSE mem[new_page][i]]
      after == n + Fanout
  IN
  /\ cpu = "run" /\ pc = "tables" /\ n < max_addr
  /\ new_page # NULL
  /\ first_free_page' = mem[new_page][0].frame
  /\ tables' = Append(tables, new_page)
  /\ IF j = 3
     THEN pml4_table' = new_page /\ mem' = [mem EXCEPT ![new_page] = filled]
     ELSE /\ mem' = [mem EXCEPT ![new_page] = filled,
                       ![TableFor(n, j + 1)][Index(n, j + 1)] = Word(new_page, used)]
          /\ UNCHANGED pml4_table
  /\ IF j > 0 THEN j' = j - 1 /\ n' = n
     ELSE /\ n' = after
          /\ j' = CHOOSE l \in 0 .. 2 : /\ \A k \in 0 .. l : Index(after, k) = 0
                                       /\ Index(after, l + 1) # 0
  /\ UNCHANGED <<max_addr, cr3, stale, cpu, pc, job, size, mapped>>

TablesBuilt ==
  /\ cpu = "run" /\ pc = "tables" /\ n >= max_addr
  /\ pc' = "permissions" /\ n' = 1 /\ j' = 0
  /\ UNCHANGED <<mem, first_free_page, pml4_table, max_addr, cr3, stale, cpu,
                 job, size, tables, mapped>>

\* Memory with the level 0 entries of the pages vs changed.
WithEntries(vs, on, off) ==
  LET entries == {EntryFor(v) : v \in vs} IN
  [p \in Frame |-> [i \in 0 .. Fanout - 1 |->
     IF <<p, i>> \in entries THEN Flags(mem[p][i], on, off) ELSE mem[p][i]]]

\* Mutant of SetPermissions: the branches of is_code are swapped.
SetPermissionsSwapped ==
  LET d == MemoryMap[n] IN
  /\ At("permissions")
  /\ mem' = IF d.type = "Conventional"
            THEN WithEntries(d.start + 1 .. d.start + d.pages, {"NX"}, {"AVL"})
            ELSE IF IsCode(d) THEN WithEntries(InDescriptor(d), {"NX"}, {})
            ELSE WithEntries(InDescriptor(d), {}, {"W"})
  /\ n' = n + 1
  /\ UNCHANGED <<first_free_page, pml4_table, max_addr, cr3, stale, cpu, pc,
                 j, job, size, tables, mapped>>

\* The flags of a descriptor's pages.  Conventional pages are counted from 1,
\* and as *e | (1 << 11) is never 0 their present bit is never cleared.
SetPermissions ==
  LET d == MemoryMap[n] IN
  /\ At("permissions")
  /\ mem' = IF d.type = "Conventional"
            THEN WithEntries(d.start + 1 .. d.start + d.pages, {"NX"}, {"AVL"})
            ELSE IF IsCode(d) THEN WithEntries(InDescriptor(d), {}, {"W"})
            ELSE WithEntries(InDescriptor(d), {"NX"}, {})
  /\ n' = n + 1
  /\ UNCHANGED <<first_free_page, pml4_table, max_addr, cr3, stale, cpu, pc,
                 j, job, size, tables, mapped>>

\* NULL becomes not present, and the framebuffer loop starts.
UnmapNull ==
  /\ cpu = "run" /\ pc = "permissions" /\ n > Len(MemoryMap)
  /\ mem' = WithEntries({NULL}, {}, {"P"})
  /\ pc' = "framebuffer" /\ n' = 0
  /\ UNCHANGED <<first_free_page, pml4_table, max_addr, cr3, stale, cpu,
                 j, job, size, tables, mapped>>

\* A call of create_memory_entry_for(va, level) starts at the pml4 table.
StartWalk(va, page, level, caller) ==
  /\ job' = [va |-> va, page |-> page, cur |-> pml4_table, l |-> 3, level |-> level]
  /\ pc' = caller

MapFrameBuffer ==
  /\ cpu = "run" /\ pc = "framebuffer"
  /\ IF n <= FrameBuffer.size
     THEN StartWalk(FrameBuffer.base + n, 0, 1, "framebuffer_walk")
     ELSE pc' = "cr3" /\ UNCHANGED job
  /\ UNCHANGED <<mem, first_free_page, pml4_table, max_addr, cr3, stale, cpu,
                 n, j, size, tables, mapped>>

\* *e = buffer_base + i and its flags; i += 0x200000.
SetFrameBufferEntry ==
  /\ cpu = "run" /\ pc = "framebuffer_walk" /\ job.l = job.level
  /\ mem' = [mem EXCEPT ![job.cur][Index(job.va, 1)] = Word(job.va, {"P", "W", "PS"})]
  /\ pc' = "framebuffer" /\ n' = n + Fanout
  /\ UNCHANGED <<first_free_page, pml4_table, max_addr, cr3, stale, cpu,
                 j, job, size, tables, mapped>>

LoadCr3 ==
  /\ cpu = "run" /\ pc = "cr3"
  /\ cr3' = TRUE /\ stale' = {}
  /\ pc' = "reclaim" /\ n' = 1
  /\ UNCHANGED <<mem, first_free_page, pml4_table, max_addr, cpu,
                 j, job, size, tables, mapped>>

\* Mutant of ReclaimPage: the pages are counted from 1, like those of permissions.
ReclaimNextPage ==
  LET page == MemoryMap[n].start + j + 1 IN
  /\ At("reclaim")
  /\ NextPage("BootServicesCode")
  /\ IF MemoryMap[n].type = "BootServicesCode"
     THEN stale' = stale \cup {page} /\ first_free_page' = page
     ELSE UNCHANGED <<stale, first_free_page>>
  /\ UNCHANGED <<mem, pml4_table, max_addr, cr3, cpu, pc, job, size, tables, mapped>>

\* Mutant of ReclaimPage: the entry stays present.
ReclaimPagePresent ==
  LET page == MemoryMap[n].start + j IN
  /\ At("reclaim")
  /\ NextPage("BootServicesCode")
  /\ IF MemoryMap[n].type = "BootServicesCode" /\ page # NULL
     THEN /\ mem' = [mem EXCEPT ![page][0] = Word(first_free_page, {})]
          /\ stale' = stale \cup {page}
          /\ first_free_page' = page
     ELSE UNCHANGED <<mem, stale, first_free_page>>
  /\ UNCHANGED <<pml4_table, max_addr, cr3, cpu, pc, job, size, tables, mapped>>

\* deallocate_page for the pages of the boot services code; all of these, and
\* the tables on the way to their entries, are still present.
ReclaimPage ==
  LET page == MemoryMap[n].start + j
      entry == EntryFor(page)
  IN
  /\ At("reclaim")
  /\ NextPage("BootServicesCode")
  /\ IF MemoryMap[n].type = "BootServicesCode" /\ page # NULL
     THEN /\ mem' = [mem EXCEPT ![page][0] = Word(first_free_page, {}),
                                ![entry[1]][entry[2]] = Flags(@, {}, {"P"})]
          /\ stale' = stale \cup {page}
          /\ first_free_page' = page
     ELSE UNCHANGED <<mem, stale, first_free_page>>
  /\ UNCHANGED <<pml4_table, max_addr, cr3, cpu, pc, job, size, tables, mapped>>

InitDone ==
  /\ cpu = "run" /\ pc = "reclaim" /\ n > Len(MemoryMap)
  /\ pc' = "run"
  /\ UNCHANGED <<mem, first_free_page, pml4_table, max_addr, cr3, stale, cpu,
                 n, j, job, size, tables, mapped>>

-----------------------------------------------------------------------------
(* After init_memory *)

\* One round of the loops in morecore and start_init begins: allocate_page.  The
\* tables it walks are those of allocate_tables, which stay present for good.
AllocatePage(r) ==
  LET ret == first_free_page
      entry == EntryFor(ret)
  IN
  /\ cpu = "run" /\ pc = "run" /\ size[r] < MaxMapped
  /\ ret # NULL
  /\ mem' = [mem EXCEPT ![entry[1]][entry[2]] = Flags(@, {"P", "W", "NX"}, {}),
                        ![ret][0] = Word(NULL, {})]
  /\ stale' = stale \ {ret}
  /\ first_free_page' = mem[ret][0].frame
  /\ StartWalk(RegionBase[r] + size[r], ret, 0, "map_walk")
  /\ size' = [size EXCEPT ![r] = @ + 1]
  /\ UNCHANGED <<pml4_table, max_addr, cr3, cpu, n, j, tables, mapped>>

\* What WalkDown's mutants have in common: a new table is taken, with first_free_page
\* becoming next and the entry for it getting flags.
WalkDownTaking(next, flags) ==
  LET i == Index(job.va, job.l)
      entry == mem[job.cur][i]
      create == "P" \notin entry.flags
      table == IF create THEN first_free_page ELSE entry.frame
  IN
  /\ cpu = "run" /\ pc \in {"framebuffer_walk", "map_walk"} /\ job.l > job.level
  /\ Accessible(job.cur)
  /\ IF create
     THEN /\ first_free_page # NULL /\ Accessible(first_free_page)
          /\ first_free_page' = next
          /\ mem' = [mem EXCEPT ![table] = [k \in 0 .. Fanout - 1 |-> Word(NULL, {})],
                                ![job.cur][i] = Word(table, flags)]
          /\ tables' = Append(tables, table)
     ELSE UNCHANGED <<first_free_page, mem, tables>>
  /\ job' = [job EXCEPT !.cur = table, !.l = @ - 1]
  /\ UNCHANGED <<pml4_table, max_addr, cr3, stale, cpu, pc, n, j, size, mapped>>

\* Mutant of WalkDown: the new table's entry is not made present.
WalkDownAbsent == WalkDownTaking(mem[first_free_page][0].frame, {"W"})

\* Mutant of WalkDown: allocate_page_inner(k, false) leaves the page on the list.
WalkDownPeeking == WalkDownTaking(first_free_page, {"P", "W"})

\* Mutant of WalkDown: no table is created, as in get_memory_entry_for.
WalkDownBlindly ==
  /\ cpu = "run" /\ pc \in {"framebuffer_walk", "map_walk"} /\ job.l > job.level
  /\ job' = [job EXCEPT !.cur = mem[@][Index(job.va, job.l)].frame, !.l = @ - 1]
  /\ UNCHANGED <<mem, first_free_page, pml4_table, max_addr, cr3, stale, cpu, pc,
                 n, j, size, tables, mapped>>

\* A round of create_memory_entry_for: go down one level, through a new, zeroed
\* table taken with allocate_page_inner(k, true) if there is none.
WalkDown ==
  LET i == Index(job.va, job.l)
      entry == mem[job.cur][i]
      new_page == first_free_page
      zero == [k \in 0 .. Fanout - 1 |-> Word(NULL, {})]
      Down(frame) == job' = [job EXCEPT !.cur = frame, !.l = @ - 1]
  IN
  /\ cpu = "run" /\ pc \in {"framebuffer_walk", "map_walk"} /\ job.l > job.level
  /\ \/ ~Accessible(job.cur) /\ Halt("pf")
     \/ /\ Accessible(job.cur) /\ "P" \in entry.flags
        /\ Down(entry.frame)
        /\ UNCHANGED <<mem, first_free_page, pml4_table, max_addr, cr3, stale,
                       cpu, pc, n, j, size, tables, mapped>>
     \/ /\ Accessible(job.cur) /\ "P" \notin entry.flags /\ new_page # NULL
        /\ ~Accessible(new_page)
        /\ Halt("pf")
     \/ /\ Accessible(job.cur) /\ "P" \notin entry.flags /\ new_page # NULL
        /\ Accessible(new_page)
        /\ first_free_page' = mem[new_page][0].frame
        /\ mem' = [mem EXCEPT ![new_page] = zero,
                              ![job.cur][i] = Word(new_page, {"P", "W"})]
        /\ tables' = Append(tables, new_page)
        /\ Down(new_page)
        /\ UNCHANGED <<pml4_table, max_addr, cr3, stale, cpu, pc, n, j, size, mapped>>

\* allocate_page_inner finds the list empty, whoever calls it.
WantsPage ==
  CASE pc = "tables" -> n < max_addr
    [] pc \in {"framebuffer_walk", "map_walk"} ->
         /\ job.l > job.level /\ Accessible(job.cur)
         /\ "P" \notin mem[job.cur][Index(job.va, job.l)].flags
    [] pc = "run" -> \E r \in Regions : size[r] < MaxMapped
    [] OTHER -> FALSE
OutOfMemory ==
  /\ cpu = "run" /\ WantsPage
  /\ first_free_page = NULL
  /\ Halt("oom")

\* a | b
BitOr(a, b) ==
  LET or[x \in 0 .. a] ==
        [y \in 0 .. b |->
           IF x = 0 \/ y = 0 THEN x + y
           ELSE 2 * or[x \div 2][y \div 2] + (IF x % 2 = 1 \/ y % 2 = 1 THEN 1 ELSE 0)]
  IN or[a][b]

\* What map_page makes of its entry: set_entry_physical only sets bits.
MapWord(entry, page) ==
  Flags([entry EXCEPT !.frame = BitOr(@, page)], {"P", "W"}, {"NX"})

\* map_page once it has its entry.
SetMapEntry ==
  LET i == Index(job.va, 0) IN
  /\ cpu = "run" /\ pc = "map_walk" /\ job.l = job.level
  /\ \/ ~Accessible(job.cur) /\ Halt("pf")
     \/ /\ Accessible(job.cur)
        /\ mem' = [mem EXCEPT ![job.cur][i] = MapWord(@, job.page)]
        /\ mapped' = mapped \cup {<<job.va, job.page>>}
        /\ pc' = "run"
        /\ UNCHANGED <<first_free_page, pml4_table, max_addr, cr3, stale, cpu,
                       n, j, job, size, tables>>

EvictTlb ==
  /\ cpu = "run"
  /\ \E p \in stale : stale' = stale \ {p}
  /\ UNCHANGED <<mem, first_free_page, pml4_table, max_addr, cr3, cpu, pc,
                 n, j, job, size, tables, mapped>>

Next ==
  \/ ListPage \/ ListBuilt \/ AllocateTable \/ TablesBuilt
  \/ SetPermissions \/ UnmapNull
  \/ MapFrameBuffer \/ SetFrameBufferEntry
  \/ LoadCr3 \/ ReclaimPage \/ InitDone
  \/ OutOfMemory \/ WalkDown \/ SetMapEntry \/ EvictTlb
  \/ \E r \in Regions : AllocatePage(r)

Spec == Init /\ [][Next]_vars

-----------------------------------------------------------------------------

TypeOK ==
  /\ mem \in [Frame -> [0 .. Fanout - 1 -> [frame : Nat, flags : SUBSET WordFlags]]]
  /\ {first_free_page, pml4_table} \cup stale \subseteq Frame /\ tables \in Seq(Frame)
  /\ cr3 \in BOOLEAN /\ cpu \in {"run", "oom", "pf"}
  /\ {max_addr, n, j} \subseteq Nat
  /\ job \in [va : Nat, page : Frame, cur : Frame, l : 0 .. 3, level : 0 .. 1]
  /\ size \in [Regions -> 0 .. MaxMapped]
  /\ \A m \in mapped : m \in Nat \X Frame

\* Pages of the descriptors of the memory map.
PagesOf(types) ==
  {p \in Frame : \E k \in DOMAIN MemoryMap :
                   MemoryMap[k].type \in types /\ p \in InDescriptor(MemoryMap[k])}
Conventional == PagesOf({"Conventional"})
BootCode == PagesOf({"BootServicesCode"})
Code == PagesOf(CodeTypes)
Described == PagesOf({MemoryMap[k].type : k \in DOMAIN MemoryMap})
Entry(v) == EntryAt(v, 0)

\* The addresses of the framebuffer's large pages and of a region.
LargePages == FrameBuffer.base .. FrameBuffer.base + FrameBuffer.size + Fanout - 1
RegionPages(r) == RegionBase[r] .. RegionBase[r] + MaxMapped - 1

\* What init_memory and its callers take for granted about the machine: memory ends
\* below the regions, and the framebuffer, on a large page of its own, is neither
\* memory nor a region; all addresses have four indexes; a conventional descriptor is
\* not the last one.
Apart ==
  LET EndOf(k) == MemoryMap[k].start + MemoryMap[k].pages IN
  /\ \A k \in DOMAIN MemoryMap :
       /\ MemoryMap[k].type = "Conventional" =>
            \E d \in DOMAIN MemoryMap : EndOf(k) < EndOf(d)
       /\ Up(EndOf(k) + Fanout, 4) = 0
       /\ \A r \in Regions : EndOf(k) <= RegionBase[r]
       /\ InDescriptor(MemoryMap[k]) \cap LargePages = {}
  /\ FrameBuffer.base > 0 /\ FrameBuffer.base % Fanout = 0
  /\ Up(FrameBuffer.base + FrameBuffer.size + Fanout, 4) = 0
  /\ \A r \in Regions :
       /\ RegionBase[r] % Fanout = 0 /\ Up(RegionBase[r] + MaxMapped, 4) = 0
       /\ RegionPages(r) \cap LargePages = {}
       /\ \A s \in Regions \ {r} : RegionPages(r) \cap RegionPages(s) = {}

\* No word left by the firmware looks like a present entry: allocate_tables fills in only
\* the entries it needs (memory.c:307-318), and the others stay what they were.
Blank == "P" \notin Leftover.flags

\* Every translation the kernel relies on is in force and every one it made
\* stays what it was: memory at its own address or unmapped, NULL unmapped, the
\* framebuffer at its own address, and each mapped page where map_page put it.
TranslationSound ==
  cr3 =>
    /\ \A v \in 0 .. max_addr - 1 : Translate(v) \subseteq {v}
    /\ Translate(NULL) = {}
    /\ \A i \in 0 .. FrameBuffer.size - 1 :
         Translate(FrameBuffer.base + i) = {FrameBuffer.base + i}
    /\ \A m \in mapped : Translate(m[1]) = {m[2]}

\* The pages in the hands of the heap and the loader of init.
DataPages == {m[2] : m \in mapped} \cup (IF pc = "map_walk" THEN {job.page} ELSE {})

\* Page tables form a tree of pages of their own: no page is taken for a table
\* twice or also handed out as data, and two entries never share a table.
TablesAreATree ==
  LET pointers == {e \in Range(tables) \X (0 .. Fanout - 1) :
                     /\ "P" \in mem[e[1]][e[2]].flags
                     /\ mem[e[1]][e[2]].frame \in Range(tables)
                     /\ ~ \E v \in 0 .. max_addr - 1 : EntryFor(v) = e}
  IN /\ IsInjective(tables)
     /\ Range(tables) \cap DataPages = {}
     /\ \A a, b \in pointers : mem[a[1]][a[2]].frame = mem[b[1]][b[2]].frame => a = b

\* create_memory_entry_for, "Gets or creates memory entry" (memory.c:340):
\* its walk goes through tables and nothing else.
EntriesLeadToTables ==
  pc \in {"framebuffer_walk", "map_walk"} => job.cur \in Range(tables)

\* It does, although the list shares the tables' pages and their first words, unless the
\* firmware left a word with its present bit set: allocate_tables clears nothing
\* (memory.c:307-318), and where it does not write, that word is the entry.
WalkStaysInTables == Blank => EntriesLeadToTables

\* memory.c:167, for what it does hold of: under our tables code is never writeable, and
\* data outside conventional memory and the reclaimed pages is never executable.
CodeAndDataProtected ==
  cr3 => \A v \in Described \ (Conventional \cup BootCode) :
           IF v \in Code THEN "W" \notin Entry(v).flags ELSE "NX" \in Entry(v).flags

\* memory.c:159-160, of the pages of conventional memory that were taken for tables: they
\* "should stay present, but not executable".
TablesNotExecutable ==
  cr3 => \A p \in Range(tables) \cap Conventional : "NX" \in Entry(p).flags

\* memory.h:48, "Map a single page to a specified address".
MapsTheGivenPage == \A m \in mapped : Translate(m[1]) = {m[2]}

-----------------------------------------------------------------------------
(* The list and the tables together implement PageAllocator. *)

\* Pages of the descriptors of a type that a loop over them is done with.
Passed(loop, later, type) ==
  {p \in Frame : \E k \in DOMAIN MemoryMap :
     /\ MemoryMap[k].type = type /\ p \in InDescriptor(MemoryMap[k])
     /\ \/ pc \in later
        \/ pc = loop /\ (k < n \/ (k = n /\ p < MemoryMap[k].start + j))}
Managed ==
  LET reclaiming == {"run", "map_walk"}
      tabling == {"tables", "permissions", "framebuffer", "framebuffer_walk", "cr3", "reclaim"}
  IN Passed("list", tabling \cup reclaiming, "Conventional")
       \cup (Passed("reclaim", reclaiming, "BootServicesCode") \ {NULL})
FreePages == Managed \ (Range(tables) \cup DataPages)

\* memory.c:156, "all the unallocated memory is, obviously, not present".
FreePagesNotPresent == cr3 => \A p \in FreePages : Translate(p) = {}

\* The variables of PageAllocator.
Usable == (Conventional \cup BootCode) \ {NULL}
Phase == IF pc \in {"list", "reclaim"} THEN pc
         ELSE IF pc \in {"run", "map_walk"} THEN "run" ELSE "tables"
Link == [p \in Usable |-> IF p \in FreePages THEN mem[p][0].frame ELSE NULL]
Present == [p \in Usable |-> cr3 => Translate(p) # {}]
Distance ==
  LET dist[p \in FreePages \cup {NULL}] ==
        IF p = NULL THEN 0 ELSE dist[mem[p][0].frame] + 1
  IN [p \in Usable |-> IF p \in FreePages THEN dist[p] ELSE 0]

Allocator == INSTANCE PageAllocator WITH
  Conventional <- Conventional,
  BootCode <- BootCode \ {NULL},
  NULL <- NULL,
  phase <- Phase,
  link <- Link,
  present <- Present,
  managed <- Managed,
  pages <- DataPages,
  tables <- Range(tables),
  depth <- Distance

\* Whatever the tables do to the pages they share with the list, the list and
\* the present bits behave as PageAllocator says.
ImplementsAllocator == Allocator!Spec
=============================================================================
