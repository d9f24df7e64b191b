------------------------------ MODULE JitCache ------------------------------
(***************************************************************************)
(* The cache of recompiled code of the EE (EEJitHeap in                    *)
(* jitcommon/jitcache.cpp, and its use by ee/ee_jit64.cpp): the allocator  *)
(* of code memory, the records of the blocks by page and instruction, and  *)
(* two caches of look-ups.  A processor's step enters the JIT through the  *)
(* prologue block, whose dispatcher, repeated at the end of every block,   *)
(* looks the next block up and recompiles it when there is none.           *)
(*                                                                         *)
(* Memory is counted in words of 8 bytes.  An object at p has its size     *)
(* at p - 1 and, at p + size, its size if it is free and 0 if it is used;  *)
(* the next object is at p + size + 2.  Free objects are kept in lists,    *)
(* by size: Bins lists of the sizes between two powers of two, and one of  *)
(* all larger objects.  All of it is on the emulation thread.              *)
(***************************************************************************)
EXTENDS Integers, Sequences

CONSTANTS
  HeapSize,        (* words, 2^23 in the code                              *)
  BinStart,        (* a power of two, the smallest object has 2^BinStart   *)
  Bins,            (* the bins of limited size, 8 in the code              *)
  PageWords,       (* instructions in a page, 1024 in the code             *)
  Slots,           (* entries of lookup_cache, 2^15 in the code            *)
  PCs,             (* the addresses the program runs at, in instructions   *)
  Prologue,        (* 0xFFFFFFFF, the address of the prologue block        *)
  PrologueSize, BlockSizes    (* words of code, before they are aligned    *)

Null == 0
Junk == -1         (* a word of a free object: its FreeList, or what is left *)

PowerOf2[n \in 0 .. BinStart + Bins] == IF n = 0 THEN 1 ELSE 2 * PowerOf2[n - 1]

ASSUME JitCacheAssumption ==
  /\ BinStart \in Nat /\ Bins \in Nat /\ BinStart >= 2
  /\ HeapSize \in Nat /\ PowerOf2[BinStart + Bins] <= HeapSize - 2
  /\ PageWords \in Nat \ {0} /\ Slots \in Nat \ {0}
  /\ PCs \subseteq Nat /\ Prologue \in Nat \ PCs
  /\ BlockSizes \subseteq 1 .. HeapSize /\ PrologueSize \in 1 .. HeapSize

VARIABLES
  heap,            (* the words, the free lists and heap_usage             *)
  pages,           (* ee_page_record_map: page |-> block_array, where      *)
                   (* NoArray is nullptr and Null no block                 *)
  lastPage,        (* ee_page_lookup_idx                                   *)
  lookup,          (* lookup_cache: the address of the record's block      *)
  prologue,        (* prologue_block                                       *)
  flush,           (* flush_jit_cache                                      *)
  running,         (* the block whose code is executed, or Null            *)
  work             (* the call of insert_block or reset that is under way  *)

jitVars == <<heap, pages, lastPage, lookup, prologue, flush, running, work>>

NoArray == <<>>
Nothing == -1
Idle == [stage |-> "idle"]

Page(pc) == pc \div PageWords
Index(pc) == pc % PageWords
Entry(pc) == pc % Slots
Code(pc) == -2 - pc          (* a word of the code of pc's block           *)

-----------------------------------------------------------------------------
(* The allocator, as functions of the heap h                               *)

Size(h, p) == h.mem[p - 1]
End(h, p) == p + Size(h, p)
IsFree(h, p) == h.mem[End(h, p)] # 0
NextObject(h, p) == End(h, p) + 2

MinBinSize(b) == PowerOf2[BinStart + b]
BigBin == Bins

BinOf(size) ==
  IF size >= MinBinSize(Bins) THEN BigBin
  ELSE CHOOSE b \in 0 .. Bins - 1 :
         /\ size < MinBinSize(b + 1)
         /\ \A a \in 0 .. b - 1 : size >= MinBinSize(a + 1)

(* add_freed_memory_to_bin *)
AddToBin(h, p) ==
  [h EXCEPT !.bins[BinOf(Size(h, p))] = <<p>> \o @, !.mem[End(h, p)] = Size(h, p)]

(* A list without p, which is in it at most once.                          *)
Unlinked(s, p) ==
  IF \A i \in DOMAIN s : s[i] # p THEN s
  ELSE LET k == CHOOSE i \in DOMAIN s : s[i] = p
       IN [i \in 1 .. Len(s) - 1 |-> IF i < k THEN s[i] ELSE s[i + 1]]

RemoveFromBin(h, p) ==
  [h EXCEPT !.bins = [b \in 0 .. Bins |-> Unlinked(@[b], p)], !.mem[End(h, p)] = 0]

Shrink(h, p, size) ==
  LET rest == Size(h, p) - size - 2
  IN IF rest <= MinBinSize(0) THEN h
     ELSE AddToBin([h EXCEPT !.mem[p - 1] = size, !.mem[p + size] = 0,
                             !.mem[p + size + 1] = rest],
                   p + size + 2)

(* The head of the first bin whose objects are all large enough, or else   *)
(* the smallest of the big bin that is; Null if there is none.             *)
FindMemory(h, size) ==
  LET fit == {b \in 0 .. Bins - 1 : MinBinSize(b) >= size /\ h.bins[b] # <<>>}
      big == h.bins[BigBin]
      large == {i \in DOMAIN big : Size(h, big[i]) >= size}
  IN IF fit # {} THEN Head(h.bins[CHOOSE b \in fit : \A a \in fit : b <= a])
     ELSE IF large = {} THEN Null
     ELSE big[CHOOSE i \in large : \A j \in large :
                \/ Size(h, big[i]) < Size(h, big[j])
                \/ Size(h, big[i]) = Size(h, big[j]) /\ i <= j]

Aligned(n) == LET m == 2 * ((n + 1) \div 2) IN IF m < MinBinSize(0) THEN MinBinSize(0) ELSE m

(* jit_malloc, when FindMemory finds p                                     *)
Malloc(h, p, n) ==
  LET g == Shrink(RemoveFromBin(h, p), p, Aligned(n))
  IN [g EXCEPT !.usage = @ + Size(g, p)]

(* Mutant: the object behind stays in its bin.                             *)
MergeKeeps(h, a, b) ==
  LET g == RemoveFromBin(h, a)
      size == Size(h, a) + Size(h, b) + 2
  IN AddToBin([g EXCEPT !.mem[a - 1] = size, !.mem[a + size] = 0], a)

(* merge_fwd and merge_bwd, when a and the object b behind it are free     *)
Merge(h, a, b) ==
  LET g == RemoveFromBin(RemoveFromBin(h, a), b)
      size == Size(h, a) + Size(h, b) + 2
  IN AddToBin([g EXCEPT !.mem[a - 1] = size, !.mem[a + size] = 0], a)

MergeFwdOnce(h, p) ==
  LET q == NextObject(h, p)
  IN IF q < HeapSize /\ IsFree(h, q) THEN Merge(h, p, q) ELSE h

MergeBwdOnce(h, p) ==
  IF p - 2 <= 0 \/ h.mem[p - 2] = 0 THEN h ELSE Merge(h, p - 2 - h.mem[p - 2], p)

(* The loops of jit_free end when a call does nothing.  Each call that     *)
(* does something joins two objects, and there are at most MaxObjects.     *)
MaxObjects == HeapSize \div 4

MergeFwd(h, p) ==
  LET after[n \in 0 .. MaxObjects] == IF n = 0 THEN h ELSE MergeFwdOnce(after[n - 1], p)
  IN after[MaxObjects]

MergeBwd(h, p) ==
  LET after[n \in 0 .. MaxObjects] == IF n = 0 THEN h ELSE MergeBwdOnce(after[n - 1], p)
  IN after[MaxObjects]

(* The code in an object that is freed becomes junk.                       *)
Forget(h, p) ==
  [h EXCEPT !.usage = @ - Size(h, p),
            !.mem = [w \in DOMAIN @ |-> IF w \in p .. End(h, p) - 1 THEN Junk ELSE @[w]]]

(* Mutant: only the object behind is merged.                               *)
FreeFwd(h, p) == MergeFwd(AddToBin(Forget(h, p), p), p)

(* jit_free *)
Free(h, p) == MergeBwd(MergeFwd(AddToBin(Forget(h, p), p), p), p)

(* init_allocator: the heap is one object.                                 *)
EmptyHeap ==
  [mem |-> [w \in 0 .. HeapSize - 1 |->
              IF w \in {0, HeapSize - 1} THEN HeapSize - 2 ELSE Junk],
   bins |-> [b \in 0 .. Bins |-> IF b = BigBin THEN <<1>> ELSE <<>>],
   usage |-> 0]

-----------------------------------------------------------------------------
(* The processor *)

(* An emulator is reset before it runs: EE_JIT::reset(true).               *)
JitInit ==
  /\ heap = EmptyHeap
  /\ pages = <<>> /\ lastPage = Nothing
  /\ lookup = [s \in 0 .. Slots - 1 |-> Nothing]
  /\ prologue = Null /\ flush = TRUE /\ running = Null
  /\ work = Idle

Insert(pc, n) == [stage |-> "insert", pc |-> pc, size |-> n, flushed |-> FALSE]

(* flush_all_blocks, and then the insertion i                              *)
FlushFor(i) == [stage |-> "flush", todo |-> DOMAIN pages, next |-> [i EXCEPT !.flushed = TRUE]]

Block(pc) == pages[Page(pc)][Index(pc)]
Cached(pc) == Page(pc) \in DOMAIN pages /\ pages[Page(pc)] # NoArray /\ Block(pc) # Null

(* lookup_ee_page: it adds an empty record of a page it does not find.     *)
WithPage(pc) ==
  [q \in DOMAIN pages \cup {Page(pc)} |-> IF q \in DOMAIN pages THEN pages[q] ELSE NoArray]

(* run_jit: the flush that a system call asked for comes first.            *)
RunJit ==
  /\ work = Idle /\ running = Null
  /\ flush' = FALSE
  /\ IF flush
     THEN /\ work' = [stage |-> "flush", todo |-> DOMAIN pages,
                      next |-> Insert(Prologue, PrologueSize)]
          /\ UNCHANGED running
     ELSE running' = prologue /\ UNCHANGED work
  /\ UNCHANGED <<heap, pages, lastPage, lookup, prologue>>

(* EmotionEngine's FlushCache, LoadExecPS2 and ExecPS2; Emulator::reset    *)
(* flushes at once, between two steps of the processor.                    *)
AskFlush ==
  /\ work = Idle
  /\ flush' = TRUE
  /\ UNCHANGED <<heap, pages, lastPage, lookup, prologue, running, work>>

(* The dispatcher at the end of a block: by lookup_cache, by               *)
(* exec_block_ee and find_block, or by recompiling.                        *)
Dispatch ==
  /\ work = Idle /\ running # Null
  /\ \E pc \in PCs :
       IF lookup[Entry(pc)] = pc
       THEN running' = Block(pc) /\ UNCHANGED <<pages, lastPage, lookup, work>>
       ELSE /\ lastPage' = Page(pc) /\ pages' = WithPage(pc)
            /\ IF Cached(pc)
               THEN /\ running' = Block(pc) /\ lookup' = [lookup EXCEPT ![Entry(pc)] = pc]
                    /\ UNCHANGED work
               ELSE /\ \E n \in BlockSizes : work' = Insert(pc, n)
                    /\ UNCHANGED <<lookup, running>>
  /\ UNCHANGED <<heap, prologue, flush>>

(* The cycles of the step are used up.                                     *)
Leave ==
  /\ work = Idle /\ running # Null
  /\ running' = Null
  /\ UNCHANGED <<heap, pages, lastPage, lookup, prologue, flush, work>>

(* insert_block, and what its caller does with the block                   *)
InsertBlock ==
  /\ work.stage = "insert"
  /\ LET p == FindMemory(heap, Aligned(work.size))
         pc == work.pc
         h == Malloc(heap, p, work.size)
     IN IF p = Null
        THEN /\ work' = IF work.flushed THEN [stage |-> "died"] ELSE FlushFor(work)
             /\ UNCHANGED <<heap, pages, lastPage, lookup, prologue, running>>
        ELSE /\ heap' = [h EXCEPT !.mem =
                           [w \in DOMAIN @ |-> IF w \in p .. p + work.size - 1
                                               THEN Code(pc) ELSE @[w]]]
             /\ lastPage' = Page(pc)
             /\ pages' = [WithPage(pc) EXCEPT ![Page(pc)] =
                            [i \in 0 .. PageWords - 1 |->
                               IF i = Index(pc) THEN p ELSE IF @ = NoArray THEN Null ELSE @[i]]]
             /\ IF pc = Prologue
                THEN prologue' = p /\ UNCHANGED <<lookup, running>>
                ELSE /\ lookup' = [lookup EXCEPT ![Entry(pc)] = pc] /\ running' = p
                     /\ UNCHANGED prologue
             /\ work' = Idle
  /\ UNCHANGED flush

(* The blocks of a page, in their order                                    *)
FreeAll(h, blocks) ==
  LET after[n \in 0 .. PageWords] ==
        IF n = 0 THEN h
        ELSE IF blocks[n - 1] = Null THEN after[n - 1] ELSE Free(after[n - 1], blocks[n - 1])
  IN after[PageWords]

(* flush_all_blocks frees the blocks of the next page of the map.  The     *)
(* record that find_block added for a new page has no array to free.       *)
FlushPage ==
  /\ work.stage = "flush"
  /\ \E q \in work.todo :
       IF pages[q] = NoArray
       THEN work' = [stage |-> "crashed"] /\ UNCHANGED heap
       ELSE /\ work' = [work EXCEPT !.todo = @ \ {q}]
            /\ heap' = FreeAll(heap, pages[q])
  /\ UNCHANGED <<pages, lastPage, lookup, prologue, flush, running>>

(* Mutant: lookup_cache keeps the records.                                 *)
FlushEndKeeps ==
  /\ work.stage = "flush" /\ work.todo = {}
  /\ pages' = <<>> /\ lastPage' = Nothing
  /\ work' = work.next
  /\ UNCHANGED <<heap, lookup, prologue, flush, running>>

FlushEnd ==
  /\ work.stage = "flush" /\ work.todo = {}
  /\ lookup' = [s \in DOMAIN lookup |-> Nothing]
  /\ pages' = <<>> /\ lastPage' = Nothing
  /\ work' = work.next
  /\ UNCHANGED <<heap, prologue, flush, running>>

JitNext == RunJit \/ AskFlush \/ Dispatch \/ Leave \/ InsertBlock \/ FlushPage \/ FlushEnd

JitSpec == JitInit /\ [][JitNext]_jitVars

-----------------------------------------------------------------------------
(* Properties *)

(* Where the walk from header to header goes on behind p; it ends at the   *)
(* end of the heap, or where a header would lead back or out of it.        *)
Onward(h, p) == IF NextObject(h, p) \in p + 1 .. HeapSize - 1 THEN NextObject(h, p) ELSE HeapSize

Objects(h) ==
  LET from[p \in 1 .. HeapSize] == IF p = HeapSize THEN {} ELSE {p} \cup from[Onward(h, p)]
  IN from[1]

(* The words in use on the walk                                            *)
WordsUsed(h) ==
  LET from[p \in 1 .. HeapSize] ==
        IF p = HeapSize THEN 0
        ELSE from[Onward(h, p)] + IF IsFree(h, p) THEN 0 ELSE Size(h, p)
  IN from[1]

Heap == Objects(heap)

Listed(s) == {s[i] : i \in DOMAIN s}

(* The headers lead from object to object to the end of the heap, each     *)
(* end says free or used, and no two neighbours are free: code never       *)
(* overwrites a header, and memory is never lost to fragments              *)
(* (shrink_object, merge_fwd, merge_bwd).                                  *)
Tiled(objects) ==
  \A p \in objects :
    LET q == NextObject(heap, p) IN
    /\ Size(heap, p) >= MinBinSize(0) /\ q <= HeapSize + 1
    /\ heap.mem[End(heap, p)] \in {0, Size(heap, p)}
    /\ ~(q < HeapSize /\ IsFree(heap, p) /\ IsFree(heap, q))

(* And the lists hold every free object once, in the bin of its size, and  *)
(* heap_usage counts the rest (add_freed_memory_to_bin, jit_free).         *)
HeapSound ==
  LET objects == Heap
      free == {p \in objects : IsFree(heap, p)}
  IN /\ Tiled(objects)
     /\ \A b \in 0 .. Bins :
          /\ Listed(heap.bins[b]) = {p \in free : BinOf(Size(heap, p)) = b}
          /\ \A i, j \in DOMAIN heap.bins[b] : heap.bins[b][i] = heap.bins[b][j] => i = j
     /\ heap.usage = WordsUsed(heap)

(* Every block of a page that is not being flushed is a used object of its *)
(* own that still holds its code; lookup_cache and the page cache hold     *)
(* only records that exist (insert_block, find_block, flush_all_blocks).   *)
NoDanglingRecords ==
  /\ LET objects == Heap IN
     work.stage \in {"flush", "crashed"} \/
       \A q \in DOMAIN pages : pages[q] = NoArray \/
         \A i \in 0 .. PageWords - 1 : pages[q][i] = Null \/
           /\ pages[q][i] \in objects /\ ~IsFree(heap, pages[q][i])
           /\ heap.mem[pages[q][i]] = Code(q * PageWords + i)
  /\ \A s \in DOMAIN lookup : lookup[s] = Nothing \/
       /\ Page(lookup[s]) \in DOMAIN pages /\ pages[Page(lookup[s])] # NoArray
       /\ Block(lookup[s]) # Null /\ Entry(lookup[s]) = s
  /\ lastPage = Nothing \/ lastPage \in DOMAIN pages

(* After a flush the whole heap is one free object again, whatever order   *)
(* the blocks were made and freed in: a block that does not fit then never *)
(* will (insert_block's second jit_malloc).                                *)
FlushFreesAll ==
  work.stage = "flush" /\ work.todo = {} =>
    heap.usage = 0 /\ heap.bins[BigBin] = <<1>> /\ Size(heap, 1) = HeapSize - 2
=============================================================================
