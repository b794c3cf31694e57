----------------------------- MODULE MemoryWatcher -----------------------------
(***************************************************************************)
(* The memory watcher: memory_watcher.c, which wraps malloc(), free() and  *)
(* mmap() and gives dlmalloc an sbrk() of its own.  With only a limit, the *)
(* heap is libc's: the limit is preallocated and a moved program break     *)
(* shows that it was passed.  With an address or a file, the benchmark's   *)
(* heap is a mapping of that file, handed out by dlmalloc.                 *)
(*                                                                         *)
(* libc's allocator and dlmalloc are external: of libc the model keeps the *)
(* bytes it can hand out before it moves the break, of dlmalloc the bytes  *)
(* it has free below its own break.  mallopt() and sbrk(0) do not fail.    *)
(***************************************************************************)
EXTENDS Integers, FiniteSets

CONSTANTS
  Blocks,      \* the blocks the program may allocate
  Size,        \* Size[b]: the bytes of block b
  PageSize,    \* bytes of a page
  CellSize,    \* sizeof(mem_watcher_address_t): the unit of its arithmetic
  DlGranule,   \* dlmalloc extends its heap by multiples of this
  DlOverhead   \* bytes dlmalloc asks for beyond the block

ASSUME MemoryWatcherAssumption ==
  /\ IsFiniteSet(Blocks) /\ Size \in [Blocks -> Nat \ {0}]
  /\ {PageSize, CellSize, DlGranule} \subseteq Nat \ {0} /\ DlOverhead \in Nat

VARIABLES
  watcher,    \* memory_watcher_config.status
  heap_size,  \* memory_watcher_config.heap_size
  mapped,     \* bytes of the heap file that are mapped, 0 when none is
  shift,      \* where in the mapped bytes memory_watcher_config.mapping points
  brk,        \* fixed_heap_program_break - mapping, in bytes
  fds,        \* the descriptors the watcher holds
  room,       \* bytes libc has before it moves the program break
  extended,   \* sbrk(0) # initial_program_break
  dlRoom,     \* bytes below brk that dlmalloc has free
  owner,      \* owner[b]: the allocator block b came from
  misfreed    \* blocks handed to the free() of another allocator

config == <<watcher, heap_size, mapped, shift, fds>>
memory == <<brk, room, extended, dlRoom, owner, misfreed>>
watcherVars == <<config, memory>>

Fixed == {"fixed", "file"}
Owners == {"none", "libc", "dl"}

WatcherTypeOK ==
  /\ watcher \in {"disabled", "enabled"} \union Fixed
  /\ {heap_size, mapped, shift, brk, room, dlRoom} \subseteq Nat
  /\ fds \subseteq {"heap", "pagemap"}
  /\ extended \in BOOLEAN
  /\ owner \in [Blocks -> Owners]
  /\ misfreed \subseteq Blocks

WatcherInit ==
  /\ watcher = "disabled"
  /\ heap_size = 0 /\ mapped = 0 /\ shift = 0 /\ brk = 0 /\ room = 0 /\ dlRoom = 0
  /\ fds = {} /\ misfreed = {} /\ extended = FALSE
  /\ owner = [b \in Blocks |-> "none"]

(* The bytes of a set of blocks.                                           *)
Bytes[B \in SUBSET Blocks] ==
  IF B = {} THEN 0 ELSE LET b == CHOOSE x \in B : TRUE IN Size[b] + Bytes[B \ {b}]

RoundUp(n, unit) == ((n + unit - 1) \div unit) * unit

-----------------------------------------------------------------------------
(* start_memory_watcher(), without the pagemap file.                       *)

(* Only a limit: M_TOP_PAD and an allocation of the whole limit leave      *)
(* libc, after the free(), with the limit in hand or with twice the limit  *)
(* (it trims a large top of the heap); then the break is recorded.         *)
StartEnabled_EarlyBreak(size) ==  \* mutant
  /\ watcher' = "enabled"
  /\ heap_size' = size
  /\ room' \in {size, 2 * size}
  /\ extended' = TRUE
  /\ UNCHANGED <<mapped, shift, fds, brk, dlRoom, owner, misfreed>>
StartEnabled(size) ==
  /\ watcher' = "enabled"
  /\ heap_size' = size
  /\ room' \in {size, 2 * size}
  /\ extended' = FALSE
  /\ UNCHANGED <<mapped, shift, fds, brk, dlRoom, owner, misfreed>>

(* A file: whole pages of it are mapped from the page the address is on,   *)
(* heap_size bytes rounded up, and the heap begins at the address.         *)
StartFixed(size, address, status) ==
  /\ watcher' = status
  /\ heap_size' = size
  /\ mapped' = RoundUp(size, PageSize)
  /\ shift' = (address % PageSize) * CellSize
  /\ brk' = 0
  /\ fds' = {"heap"}
  /\ UNCHANGED <<room, extended, dlRoom, owner, misfreed>>

(* The file cannot be opened, or is closed again when it cannot be mapped; *)
(* the preallocation fails: exit(-1) with the watcher disabled.            *)
StartFails == UNCHANGED watcherVars

(* stop_memory_watcher(); munmap() refuses an address inside a page.       *)
StopMemoryWatcher_KeepsStatus ==  \* mutant
  /\ fds' = fds \ {"pagemap"}
  /\ UNCHANGED <<watcher, heap_size, mapped, shift, memory>>
StopMemoryWatcher ==
  IF watcher = "disabled" THEN UNCHANGED watcherVars
  ELSE /\ watcher' = "disabled"
       /\ fds' = {}
       /\ mapped' = IF watcher \in Fixed /\ shift % PageSize = 0 THEN 0 ELSE mapped
       /\ UNCHANGED <<heap_size, shift, memory>>

-----------------------------------------------------------------------------
(* The allocators                                                          *)

(* libc's own malloc (__real_malloc), which also serves libc itself; a     *)
(* moved break leaves it M_TOP_PAD bytes in hand.                          *)
RealMalloc(b) ==
  /\ owner' = [owner EXCEPT ![b] = "libc"]
  /\ IF watcher # "enabled" THEN UNCHANGED <<room, extended>>
     ELSE IF room >= Size[b] THEN room' = room - Size[b] /\ UNCHANGED extended
     ELSE room' = heap_size /\ extended' = TRUE
  /\ UNCHANGED <<config, brk, dlRoom, misfreed>>

(* rtbench_sbrk() for a watcher with a fixed heap: the arithmetic is on    *)
(* pointers to cells.                                                      *)
RtbenchSbrk_NoLimit(offset) ==  \* mutant
  brk + offset * CellSize >= 0 /\ brk' = brk + offset * CellSize
RtbenchSbrk(offset) ==
  /\ brk + offset * CellSize \in 0 .. heap_size * CellSize
  /\ brk' = brk + offset * CellSize

DlAsk(b) == RoundUp(Size[b] + DlOverhead, DlGranule)

DlFits(b) == dlRoom >= Size[b] \/ brk + DlAsk(b) * CellSize <= heap_size * CellSize

DlMalloc(b) ==
  /\ IF dlRoom >= Size[b]
     THEN dlRoom' = dlRoom - Size[b] /\ UNCHANGED brk
     ELSE RtbenchSbrk(DlAsk(b)) /\ dlRoom' = dlRoom + DlAsk(b) - Size[b]
  /\ owner' = [owner EXCEPT ![b] = "dl"]
  /\ UNCHANGED <<config, room, extended, misfreed>>

-----------------------------------------------------------------------------
(* The wrappers                                                            *)

(* __wrap_malloc() has no memory for threads that run a task, threaded.    *)
Refused(threaded) == watcher # "disabled" /\ threaded

(* It returns the block,                                                   *)
WrapMallocOk(b, threaded) ==
  /\ ~ Refused(threaded)
  /\ IF watcher \in Fixed THEN DlMalloc(b) ELSE RealMalloc(b)
  /\ ~ (watcher = "enabled" /\ extended')

(* or NULL,                                                                *)
WrapMallocNull(b, threaded) ==
  /\ \/ Refused(threaded)
     \/ watcher \in Fixed /\ ~ DlFits(b)
  /\ UNCHANGED watcherVars

(* or, once the program break has moved, frees it and calls exit(-1).      *)
WrapMallocAborts(b, threaded) ==
  /\ ~ Refused(threaded)
  /\ watcher = "enabled"
  /\ extended \/ room < Size[b]
  /\ extended' = TRUE
  /\ room' = IF room >= Size[b] THEN room ELSE heap_size + Size[b]
  /\ UNCHANGED <<config, brk, dlRoom, owner, misfreed>>

(* __wrap_mmap() exits while the watcher is on.                            *)
WrapMmapAborts == watcher # "disabled" /\ UNCHANGED watcherVars

(* __wrap_free() of the blocks B that are allocated: dlfree() for a fixed  *)
(* heap, libc's free() otherwise.  dlmalloc may return whole granules.     *)
WrapFree(B) ==
  LET held == {b \in B : owner[b] # "none"}
      by == IF watcher \in Fixed THEN "dl" ELSE "libc"
      own == {b \in held : owner[b] = by}
  IN  /\ owner' = [b \in Blocks |-> IF b \in held THEN "none" ELSE owner[b]]
      /\ misfreed' = misfreed \union (held \ own)
      /\ IF by = "dl"
         THEN \E g \in {0, DlGranule} :
                /\ g <= dlRoom + Bytes[own]
                /\ IF g = 0 THEN UNCHANGED brk ELSE RtbenchSbrk(-g)
                /\ dlRoom' = dlRoom + Bytes[own] - g
                /\ UNCHANGED room
         ELSE /\ room' = IF watcher = "enabled" THEN room + Bytes[own] ELSE room
              /\ UNCHANGED <<brk, dlRoom>>
      /\ UNCHANGED <<config, extended>>

(* libc's free() of a block of its own (fclose).                           *)
RealFree(b) ==
  /\ owner' = [owner EXCEPT ![b] = "none"]
  /\ UNCHANGED <<config, brk, room, extended, dlRoom, misfreed>>

-----------------------------------------------------------------------------
(* The heap of a benchmark lies inside the mapping of the heap file        *)
(* (memory_watcher.c:66-72): what rtbench_sbrk() hands to dlmalloc up to   *)
(* the limit of line 431 is memory the mmap() of line 218 has provided.    *)
HeapInMapping == watcher \in Fixed => shift + brk <= mapped

(* A block is freed by the allocator it came from (memory_watcher.c:497):  *)
(* what libc gave before the watcher started, or behind the wrapper, never *)
(* reaches dlfree(), and no block of dlmalloc reaches libc's free(); but   *)
(* for the header a benchmark with threads gets from asprintf()            *)
(* (bandwidth-threads.c:345).                                              *)
FreedByItsAllocator == misfreed \subseteq {"header"}
=============================================================================
