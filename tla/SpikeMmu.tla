------------------------------ MODULE SpikeMmu ------------------------------
(***************************************************************************)
(* The MMU of a hart of the Spike simulator (riscv-isa-sim/riscv, mmu.h    *)
(* and mmu.cc): the page table walk, the three TLBs that share one array   *)
(* of translations, the instruction cache and the load reservation.  The   *)
(* state of an MMU is a record; an operation maps it to the next one.      *)
(*                                                                         *)
(* An address is a page number and a page holds one word.  Every address   *)
(* of the PMP is open, as after reset, since the writes to its registers   *)
(* are commented out; no trigger is set and no memory tracer is hooked.    *)
(***************************************************************************)
EXTENDS Integers, FiniteSets

CONSTANTS
    LEVELS,           \* levels of the page table, of two entries each
    TLB_ENTRIES,
    ICACHE_ENTRIES,
    Memory            \* the physical pages that are memory; the others are devices

ASSUME MmuAssumption ==
    /\ LEVELS \in Nat \ {0} /\ 2^LEVELS \in Nat \ {0} /\ TLB_ENTRIES \in Nat \ {0} /\ ICACHE_ENTRIES \in Nat \ {0}
    /\ Memory \subseteq Nat /\ IsFiniteSet(Memory)

Types == {"FETCH", "LOAD", "STORE"}
Vpns == 0 .. 2^LEVELS - 1
None == -1                       \* no tag, no page, no reservation

-----------------------------------------------------------------------------
(* Page tables.  pt[t][i] is entry i of the table in page t of the memory. *)

Bits == {"V", "R", "W", "X", "U", "A", "D"}
Pte == [ppn : Nat, bits : SUBSET Bits]
IsTable(pte) == pte.bits \intersect {"V", "R", "W", "X"} = {"V"}

\* What the walk depends on besides the tables: the registers of the hart.
Registers == [prv : {"M", "S", "U"}, mpp : {"M", "S", "U"}, mprv : BOOLEAN,
              sum : BOOLEAN, mxr : BOOLEAN, satp : Memory \union {None}]

\* The privilege an access of this type is made with.
EffectiveMode(c, type) == IF type # "FETCH" /\ c.mprv THEN c.mpp ELSE c.prv

\* Entry pte, found at level i, is a leaf that lets an access of this type through.
Permits(pte, i, type, c) ==
    /\ IF "U" \in pte.bits THEN EffectiveMode(c, type) = "U" \/ (type # "FETCH" /\ c.sum)
                            ELSE EffectiveMode(c, type) = "S"
    /\ "V" \in pte.bits /\ ("W" \in pte.bits => "R" \in pte.bits)
    /\ CASE type = "FETCH" -> "X" \in pte.bits
         [] type = "LOAD" -> "R" \in pte.bits \/ (c.mxr /\ "X" \in pte.bits)
         [] type = "STORE" -> {"R", "W"} \subseteq pte.bits
    /\ pte.ppn % 2^i = 0
    /\ "A" \in pte.bits /\ (type = "STORE" => "D" \in pte.bits)

Found(page) == [page |-> page, fault |-> "none"]
Fault(kind) == [page |-> None, fault |-> kind]

\* The way down the tables from page root: the entry that is no table and its level.
LeafEntry(pt, vpn, root) ==
    LET descend[i \in 0 .. LEVELS - 1, t \in Memory] ==
            LET pte == pt[t][(vpn \div 2^i) % 2]
            IN  CASE ~IsTable(pte) -> [pte |-> pte, level |-> i, fault |-> "none"]
                  [] IsTable(pte) /\ i = 0 -> [fault |-> "page"]
                  [] IsTable(pte) /\ i > 0 -> IF pte.ppn \in Memory THEN descend[i - 1, pte.ppn]
                                                                   ELSE [fault |-> "access"]
    IN  descend[LEVELS - 1, root]

\* walk(): the page of vpn for an access of this type, or the fault.
Walk(pt, vpn, type, c) ==
    LET leaf == LeafEntry(pt, vpn, c.satp)
    IN  IF EffectiveMode(c, type) = "M" \/ c.satp = None THEN Found(vpn)
        ELSE IF vpn \notin Vpns THEN Fault("page")
        ELSE IF c.satp \notin Memory THEN Fault("access")
        ELSE IF leaf.fault # "none" THEN Fault(leaf.fault)
        ELSE IF Permits(leaf.pte, leaf.level, type, c)
             THEN Found(leaf.pte.ppn + (vpn % 2^leaf.level)) ELSE Fault("page")

-----------------------------------------------------------------------------
(* The caches. *)

FlushedTags == [type \in Types |-> [i \in 0 .. TLB_ENTRIES - 1 |-> None]]
FlushIcache(m) == [m EXCEPT !.icache = [i \in 0 .. ICACHE_ENTRIES - 1 |-> [tag |-> None, data |-> "none"]]]
FlushTlb(m) == FlushIcache([m EXCEPT !.tag = FlushedTags])
Yield(m) == [m EXCEPT !.reservation = None]

\* The constructor; the array of translations is not initialised.
MmuInit == FlushTlb([tag |-> FlushedTags, data |-> [i \in 0 .. TLB_ENTRIES - 1 |-> None],
                     icache |-> <<>>, reservation |-> None])

TlbIndex(vpn) == vpn % TLB_ENTRIES
Hit(m, type, vpn) == m.tag[type][TlbIndex(vpn)] = vpn

\* Mutant of RefillTlb: the tags of the other types keep their page.
RefillTlb_OwnTagOnly(m, vpn, page, type) ==
    [m EXCEPT !.tag[type][TlbIndex(vpn)] = vpn, !.data[TlbIndex(vpn)] = page]

\* One translation serves the three types: the tags that name another page go.
RefillTlb(m, vpn, page, type) ==
    LET idx == TlbIndex(vpn)
        Refilled(t) == IF t = type THEN vpn ELSE IF m.tag[t][idx] = vpn THEN vpn ELSE None
    IN  [m EXCEPT !.tag = [t \in Types |-> [@[t] EXCEPT ![idx] = Refilled(t)]],
                  !.data[idx] = page]

\* An access through the TLB: the MMU after it, the page, and the fault.
Access(m, pt, vpn, type, c) ==
    LET w == Walk(pt, vpn, type, c)
    IN  IF Hit(m, type, vpn) THEN [mmu |-> m, page |-> m.data[TlbIndex(vpn)], fault |-> "none"]
        ELSE IF w.fault # "none" THEN [mmu |-> m, page |-> None, fault |-> w.fault]
        ELSE [mmu |-> IF w.page \in Memory THEN RefillTlb(m, vpn, w.page, type) ELSE m,
              page |-> w.page, fault |-> "none"]

\* refill_icache() into an entry that is thrown away.
LoadInsn(m, pt, memory, vpn, c) ==
    LET a == Access(m, pt, vpn, "FETCH", c)
    IN  [mmu |-> a.mmu, fault |-> a.fault,
         insn |-> IF a.fault = "none" THEN memory[a.page] ELSE "none"]

\* Mutant of AccessIcache: the entry is filled but its tag is not looked at.
AccessIcache_NoTag(m, pt, memory, vpn, c) ==
    LET entry == m.icache[vpn % ICACHE_ENTRIES]
        l     == LoadInsn(m, pt, memory, vpn, c)
    IN  IF entry.tag # None THEN [mmu |-> m, fault |-> "none", insn |-> entry.data]
        ELSE [l EXCEPT !.mmu.icache[vpn % ICACHE_ENTRIES] =
                  IF l.fault = "none" THEN [tag |-> vpn, data |-> l.insn] ELSE @]

\* Mutant of AccessIcache: the tag is set before the fetch, which may fail.
AccessIcache_TagFirst(m, pt, memory, vpn, c) ==
    LET entry == m.icache[vpn % ICACHE_ENTRIES]
        l     == LoadInsn(m, pt, memory, vpn, c)
    IN  IF entry.tag = vpn THEN [mmu |-> m, fault |-> "none", insn |-> entry.data]
        ELSE [l EXCEPT !.mmu.icache[vpn % ICACHE_ENTRIES] = [tag |-> vpn, data |-> l.insn]]

AccessIcache(m, pt, memory, vpn, c) ==
    LET entry == m.icache[vpn % ICACHE_ENTRIES]
        l     == LoadInsn(m, pt, memory, vpn, c)
    IN  IF entry.tag = vpn THEN [mmu |-> m, fault |-> "none", insn |-> entry.data]
        ELSE [l EXCEPT !.mmu.icache[vpn % ICACHE_ENTRIES] =
                  IF l.fault = "none" THEN [tag |-> vpn, data |-> l.insn] ELSE @]

\* acquire_load_reservation() and check_load_reservation(): the walk is made anew and
\* its result is put into the TLB for the access that follows.
Translated(m, pt, vpn, type, c) ==
    LET w == Walk(pt, vpn, type, c)
    IN  IF w.fault # "none" THEN [mmu |-> m, page |-> None, fault |-> w.fault]
        ELSE IF w.page \notin Memory THEN [mmu |-> m, page |-> None, fault |-> "access"]
        ELSE [mmu |-> RefillTlb(m, vpn, w.page, type), page |-> w.page, fault |-> "none"]

\* lr: the reservation, then the load.
LoadReserved(m, pt, vpn, c) ==
    LET t == Translated(m, pt, vpn, "LOAD", c)
    IN  IF t.fault # "none" THEN t
        ELSE Access([t.mmu EXCEPT !.reservation = t.page], pt, vpn, "LOAD", c)

\* sc: the check, the store when it passes, and the reservation given up.  A page that
\* is None says that nothing was stored.
StoreConditional(m, pt, vpn, c) ==
    LET t == Translated(m, pt, vpn, "STORE", c)
        s == Access(t.mmu, pt, vpn, "STORE", c)
    IN  IF t.fault # "none" THEN t
        ELSE IF m.reservation = t.page THEN [s EXCEPT !.mmu = Yield(@)]
        ELSE [mmu |-> Yield(t.mmu), page |-> None, fault |-> "none"]

\* amo: a load and a store of one page, whose faults are those of a store.
Amo(m, pt, vpn, c) ==
    LET l == Access(m, pt, vpn, "LOAD", c)
    IN  IF l.fault # "none" THEN l ELSE Access(l.mmu, pt, vpn, "STORE", c)

=============================================================================
