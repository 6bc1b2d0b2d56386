-------------------------------- MODULE Rzbm --------------------------------
(***************************************************************************)
(* The real zoned bitmap allocator of identityless memory:                 *)
(* i386/uts/mem/vm_rzbm.c.                                                 *)
(*                                                                         *)
(* Memory is a list of chunks, each with a bitmap that is divided into     *)
(* cells.  A cell counts its free pages and has a cursor, a word of its    *)
(* part of the bitmap; it is in the pool of cells with some page free, or, *)
(* when it is one free 4M page, in psepool, or full and in neither.        *)
(*                                                                         *)
(* Callers (the drivers and segment drivers that use the idf_ macros of    *)
(* rzbm.h) reserve pages, allocate no more than they have reserved, and    *)
(* free pages before they give the reservation back.  What runs under      *)
(* zbm_lock is one step.                                                   *)
(***************************************************************************)
EXTENDS Integers, Sequences, FiniteSets, FiniteSetsExt

CONSTANTS
  NBITPW,      \* pages per word of a bitmap
  PSE_NPAGES,  \* pages of a 4M page, and of a cell of a chunk that has one
  Ranges,      \* the ranges of memory at boot: [base, npages, cgnum]
  CG_NONE,     \* any CPU group
  Client,
  Large,       \* clients that allocate 4M pages, the others 4K pages
  MaxHeld      \* per client, pages it reserves at most

ASSUME RzbmAssumption ==
  /\ NBITPW \in Nat \ {0} /\ PSE_NPAGES \in Nat /\ PSE_NPAGES % NBITPW = 0
  /\ Large \subseteq Client /\ MaxHeld \in [Client -> Nat]

-----------------------------------------------------------------------------
(* The chunks, which rzbm_init_chunk makes of a range: what is before the  *)
(* first 4M boundary, what is after the last one, and the rest.            *)

Chunk(base, npages, home) ==
  IF npages = 0 THEN <<>> ELSE <<[base |-> base, size |-> npages, home |-> home]>>

Split(r) ==
  LET over  == r.base % PSE_NPAGES
      presz == IF r.npages < PSE_NPAGES \/ over = 0 THEN 0 ELSE Min({PSE_NPAGES - over, r.npages})
      base  == r.base + presz
      rest  == r.npages - presz
      post  == IF r.npages >= PSE_NPAGES /\ rest > PSE_NPAGES THEN (base + rest) % PSE_NPAGES ELSE 0
  IN Chunk(r.base, presz, r.cgnum)
     \o Chunk(base + rest - post, post, r.cgnum)
     \o Chunk(base, rest - post, r.cgnum)

zbm_chunk == Split(Ranges[1]) \o (IF Len(Ranges) = 1 THEN <<>> ELSE Split(Ranges[2]))

Chunks == 1..Len(zbm_chunk)

(* rzbm_cell_size: with RZBM_MINCELLS 16, less than a 4M page has cells of *)
(* one word.                                                               *)
cellsize(k)  == IF zbm_chunk[k].size >= PSE_NPAGES THEN PSE_NPAGES ELSE NBITPW
cellwidth(k) == cellsize(k) \div NBITPW
ncell(k)     == (zbm_chunk[k].size + cellsize(k) - 1) \div cellsize(k)
Cells(k)     == 0..ncell(k) - 1
Bits(k, c)   == c * cellsize(k)..(c + 1) * cellsize(k) - 1

(* The bits of the last cell that stand for no page.                       *)
Unavail(k) == zbm_chunk[k].size..ncell(k) * cellsize(k) - 1

zbm_maxfree == FoldSet(LAMBDA k, n : n + zbm_chunk[k].size, 0, Chunks)

VARIABLES
  zbm,       \* per chunk: bitmap (the bits set), nfree, cursor, pool, psepool
  zbm_resv,  \* pages reserved
  sleepers,  \* clients blocked on zbm_sv
  pc,        \* per client: "idle", "resv" (in rzbm_resv) or "unresv"
  want,      \* per client, the pages of the reservation it is asking for
  held,      \* per client, its reservation
  owned      \* per client, the first page frames of what it has allocated

callVars == <<pc, want>>
vars == <<zbm, zbm_resv, sleepers, callVars, held, owned>>

(* rzbm_init_chunk_actual.                                                 *)
Fresh(k) ==
  LET nfree == [c \in Cells(k) |-> cellsize(k) - Cardinality(Bits(k, c) \cap Unavail(k))]
      all   == [i \in 1..ncell(k) |-> i - 1]
      InPse(c) == nfree[c] = PSE_NPAGES
  IN [bitmap |-> Unavail(k), nfree |-> nfree, cursor |-> [c \in Cells(k) |-> 0],
      pool |-> SelectSeq(all, LAMBDA c : ~ InPse(c)), psepool |-> SelectSeq(all, InPse)]

Init ==
  /\ zbm = [k \in Chunks |-> Fresh(k)]
  /\ zbm_resv = 0 /\ sleepers = {}
  /\ pc = [c \in Client |-> "idle"] /\ want = [c \in Client |-> 0]
  /\ held = [c \in Client |-> 0] /\ owned = [c \in Client |-> {}]

-----------------------------------------------------------------------------
(* The reservation.                                                        *)

Unit(u) == IF u \in Large THEN PSE_NPAGES ELSE 1
Used(u) == Cardinality(owned[u]) * Unit(u)

Ask(u) ==
  /\ pc[u] = "idle" /\ pc' = [pc EXCEPT ![u] = "resv"]
  /\ \E n \in 1..MaxHeld[u] - held[u] : n % Unit(u) = 0 /\ want' = [want EXCEPT ![u] = n]
  /\ UNCHANGED <<zbm, zbm_resv, sleepers, held, owned>>

(* Mutant: the limit is not looked at.                                     *)
Resv_NoTest(u) ==
  /\ pc[u] = "resv" /\ u \notin sleepers
  /\ zbm_resv' = zbm_resv + want[u]
  /\ held' = [held EXCEPT ![u] = @ + want[u]]
  /\ pc' = [pc EXCEPT ![u] = "idle"]
  /\ UNCHANGED <<zbm, sleepers, want, owned>>

Resv(u) ==
  /\ pc[u] = "resv" /\ u \notin sleepers
  /\ zbm_resv + want[u] <= zbm_maxfree
  /\ zbm_resv' = zbm_resv + want[u]
  /\ held' = [held EXCEPT ![u] = @ + want[u]]
  /\ pc' = [pc EXCEPT ![u] = "idle"]
  /\ UNCHANGED <<zbm, sleepers, want, owned>>

(* There is not enough: the caller sleeps if it said SLEEP, or gets 0.     *)
ResvFails(u) ==
  /\ pc[u] = "resv" /\ u \notin sleepers
  /\ zbm_resv + want[u] > zbm_maxfree
  /\ \/ sleepers' = sleepers \cup {u} /\ UNCHANGED pc
     \/ pc' = [pc EXCEPT ![u] = "idle"] /\ UNCHANGED sleepers
  /\ UNCHANGED <<zbm, zbm_resv, want, held, owned>>

Unresv(u) ==
  /\ pc[u] = "idle" /\ pc' = [pc EXCEPT ![u] = "unresv"]
  /\ \E n \in 1..held[u] - Used(u) :
       n % Unit(u) = 0 /\ zbm_resv' = zbm_resv - n /\ held' = [held EXCEPT ![u] = @ - n]
  /\ UNCHANGED <<zbm, sleepers, want, owned>>

(* Mutant: only one of the waiters is woken.                               *)
Wakeup_One(u) ==
  /\ pc[u] = "unresv" /\ pc' = [pc EXCEPT ![u] = "idle"]
  /\ IF sleepers = {} THEN UNCHANGED sleepers ELSE \E s \in sleepers : sleepers' = sleepers \ {s}
  /\ UNCHANGED <<zbm, zbm_resv, want, held, owned>>

(* The waiters are looked for after zbm_lock has been released.            *)
Wakeup(u) ==
  /\ pc[u] = "unresv" /\ pc' = [pc EXCEPT ![u] = "idle"]
  /\ sleepers' = {}
  /\ UNCHANGED <<zbm, zbm_resv, want, held, owned>>

-----------------------------------------------------------------------------
(* Allocation.                                                             *)

WithPage == {k \in Chunks : zbm[k].pool # <<>> \/ zbm[k].psepool # <<>>}
WithPse  == {k \in Chunks : zbm[k].psepool # <<>>}

(* The first chunk of the CPU group that can serve, or of any.             *)
Serves(k, cg, able) ==
  LET near == {j \in able : zbm_chunk[j].home = cg}
  IN able # {} /\ k = Min(IF near # {} THEN near ELSE able)

(* A chunk whose pool is empty first gets a 4M page to break up.           *)
Supply(z) ==
  IF z.pool # <<>> THEN z
  ELSE [z EXCEPT !.pool = <<Head(z.psepool)>>, !.psepool = Tail(z.psepool)]

(* The word and the bit of the first free page from the cursor on.         *)
Start(k, z, c) == IF z.cursor[c] = cellwidth(k) THEN 0 ELSE z.cursor[c]
Free(k, z, c)  == {b \in Bits(k, c) : b >= c * cellsize(k) + Start(k, z, c) * NBITPW} \ z.bitmap

Take(k, z) ==
  LET c == Head(z.pool)
      b == Min(Free(k, z, c))
  IN [z EXCEPT !.bitmap = @ \cup {b}, !.nfree[c] = @ - 1,
               !.cursor[c] = (b - c * cellsize(k) + 1) \div NBITPW,
               !.pool = IF z.nfree[c] = 1 THEN Tail(@) ELSE @]

Alloc(u, cg) ==
  /\ pc[u] = "idle" /\ u \notin Large /\ Used(u) < held[u]
  /\ \E k \in Chunks :
       /\ Serves(k, cg, WithPage)
       /\ zbm' = [zbm EXCEPT ![k] = Take(k, Supply(@))]
       /\ \E b \in zbm'[k].bitmap \ zbm[k].bitmap :
            owned' = [owned EXCEPT ![u] = @ \cup {zbm_chunk[k].base + b}]
  /\ UNCHANGED <<zbm_resv, sleepers, callVars, held>>

(* rzbm_psealloc; it returns 0 when no chunk serves.                       *)
PseAlloc(u, cg) ==
  /\ pc[u] = "idle" /\ u \in Large /\ Used(u) < held[u]
  /\ \E k \in Chunks :
       /\ Serves(k, cg, WithPse)
       /\ LET c == Head(zbm[k].psepool)
          IN /\ zbm' = [zbm EXCEPT ![k].bitmap = @ \cup Bits(k, c), ![k].nfree[c] = 0,
                                   ![k].cursor[c] = cellwidth(k), ![k].psepool = Tail(@)]
             /\ owned' = [owned EXCEPT ![u] = @ \cup {zbm_chunk[k].base + c * PSE_NPAGES}]
  /\ UNCHANGED <<zbm_resv, sleepers, callVars, held>>

-----------------------------------------------------------------------------
(* rzbm_free.                                                              *)

Without(pool, c) == SelectSeq(pool, LAMBDA d : d # c)

(* Mutant: the cursor stays where it is.                                   *)
GiveBack_KeepCursor(k, z, b) ==
  LET c == b \div cellsize(k)
      n == z.nfree[c] + 1
      pool == IF n = 1 THEN Append(z.pool, c) ELSE z.pool
  IN [z EXCEPT !.bitmap = @ \ {b}, !.nfree[c] = n,
               !.pool = IF n = PSE_NPAGES THEN Without(pool, c) ELSE pool,
               !.psepool = IF n = PSE_NPAGES THEN Append(@, c) ELSE @]

(* A page: the cursor goes back to its word, and the cell to a pool.       *)
GiveBack(k, z, b) ==
  LET c == b \div cellsize(k)
      n == z.nfree[c] + 1
      pool == IF n = 1 THEN Append(z.pool, c) ELSE z.pool
  IN [z EXCEPT !.bitmap = @ \ {b}, !.nfree[c] = n,
               !.cursor[c] = Min({@, (b % cellsize(k)) \div NBITPW}),
               !.pool = IF n = PSE_NPAGES THEN Without(pool, c) ELSE pool,
               !.psepool = IF n = PSE_NPAGES THEN Append(@, c) ELSE @]

(* Mutant: one word is cleared.                                            *)
GiveBackPse_Word(k, z, c) ==
  [z EXCEPT !.bitmap = @ \ (c * cellsize(k)..c * cellsize(k) + NBITPW - 1),
            !.nfree[c] = PSE_NPAGES, !.cursor[c] = 0, !.psepool = Append(@, c)]

(* A 4M page: the cell is as it was.                                       *)
GiveBackPse(k, z, c) ==
  [z EXCEPT !.bitmap = @ \ Bits(k, c), !.nfree[c] = PSE_NPAGES, !.cursor[c] = 0,
            !.psepool = Append(@, c)]

PageFree(u) ==
  /\ pc[u] = "idle"
  /\ \E pf \in owned[u], k \in Chunks :
       LET b == pf - zbm_chunk[k].base
       IN /\ b \in 0..zbm_chunk[k].size - 1
          /\ owned' = [owned EXCEPT ![u] = @ \ {pf}]
          /\ zbm' = [zbm EXCEPT ![k] = IF u \in Large THEN GiveBackPse(k, @, b \div cellsize(k))
                                       ELSE GiveBack(k, @, b)]
  /\ UNCHANGED <<zbm_resv, sleepers, callVars, held>>

-----------------------------------------------------------------------------
Next ==
  \E u \in Client :
    \/ Ask(u) \/ Resv(u) \/ ResvFails(u) \/ Unresv(u) \/ Wakeup(u) \/ PageFree(u)
    \/ \E cg \in {Ranges[i].cgnum : i \in 1..Len(Ranges)} \cup {CG_NONE} :
         Alloc(u, cg) \/ PseAlloc(u, cg)

Spec == Init /\ [][Next]_vars

-----------------------------------------------------------------------------
(* Properties.                                                             *)

InSeq(s) == {s[i] : i \in 1..Len(s)}

PagesOf(u) == UNION {pf..pf + Unit(u) - 1 : pf \in owned[u]}

(* No page is given to two clients, or given out twice, or lost: the bits  *)
(* that are set are those of the pages that somebody has.  A 4M page is    *)
(* aligned, which is what rzbm_init_chunk cuts the ranges for.             *)
MapExact ==
  /\ \A u \in Large : \A pf \in owned[u] : pf % PSE_NPAGES = 0
  /\ \A u, v \in Client : u # v => PagesOf(u) \cap PagesOf(v) = {}
  /\ \A k \in Chunks : LET z == zbm[k] IN
       {zbm_chunk[k].base + b : b \in z.bitmap \ Unavail(k)}
         = UNION {PagesOf(u) : u \in Client}
             \cap (zbm_chunk[k].base..zbm_chunk[k].base + zbm_chunk[k].size - 1)

(* What rzbm_audit asserts and more: the count of a cell is that of its    *)
(* clear bits; a cell with a page free is in exactly one pool, once, in    *)
(* psepool exactly when it is a 4M page that can be allocated; no free     *)
(* page is before the cursor, where the search would miss it.              *)
CellsExact ==
  \A k \in Chunks : LET z == zbm[k] IN
    /\ Cardinality(InSeq(z.pool) \cup InSeq(z.psepool)) = Len(z.pool) + Len(z.psepool)
    /\ \A c \in Cells(k) :
         /\ z.nfree[c] = Cardinality(Bits(k, c) \ z.bitmap)
         /\ c \in InSeq(z.psepool) <=> z.nfree[c] = PSE_NPAGES
         /\ c \in InSeq(z.pool) <=> z.nfree[c] \in 1..PSE_NPAGES - 1
         /\ \A b \in Bits(k, c) \ z.bitmap :
              z.cursor[c] <= (b % cellsize(k)) \div NBITPW

(* The panic of rzbm_alloc is never reached, "since we reserve the pages   *)
(* before we start the allocation": who has reserved a 4K page gets one,   *)
(* whatever 4M pages others have allocated.                                *)
ReservedIsThere ==
  \A u \in Client \ Large : Used(u) < held[u] => WithPage # {}

(* No client sleeps for a reservation that could be made, unless a         *)
(* broadcast is still to come.                                             *)
NoLostWakeup ==
  \A u \in sleepers : zbm_resv + want[u] <= zbm_maxfree => \E v \in Client : pc[v] = "unresv"

=============================================================================
