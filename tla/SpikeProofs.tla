----------------------------- MODULE SpikeProofs -----------------------------
(***************************************************************************)
(* Theorems about SpikeSim, for every system: any number of harts, any     *)
(* memory, page tables, programs and host, and any size of the caches.     *)
(* In order: a store conditional is atomic; types; the TLB and the         *)
(* instruction cache; the count of instructions.                           *)
(***************************************************************************)
EXTENDS SpikeSim, TLAPS

USE MmuAssumption

-----------------------------------------------------------------------------
(* The record of an MMU keeps its fields, and its TLBs their indices.      *)

Indices == 0 .. TLB_ENTRIES - 1

Mmu(t, d, i, r) == [tag |-> t, data |-> d, icache |-> i, reservation |-> r]

TlbArrays(t, d) ==
    /\ DOMAIN t = Types /\ \A type \in Types : DOMAIN t[type] = Indices
    /\ DOMAIN d = Indices

IsMmu(m) == m = Mmu(m.tag, m.data, m.icache, m.reservation) /\ TlbArrays(m.tag, m.data)

(* n is an MMU with the reservation of m.                                  *)
Keeps(m, n) == IsMmu(n) /\ n.reservation = m.reservation

LEMMA MmuFields ==
  ASSUME NEW t, NEW d, NEW i, NEW r
  PROVE  /\ Mmu(t, d, i, r).tag = t /\ Mmu(t, d, i, r).data = d
         /\ Mmu(t, d, i, r).icache = i /\ Mmu(t, d, i, r).reservation = r
         /\ TlbArrays(t, d) => IsMmu(Mmu(t, d, i, r))
BY DEF Mmu, IsMmu

LEMMA MmuUpdates ==
  ASSUME NEW t, NEW d, NEW i, NEW r, NEW x
  PROVE  /\ [Mmu(t, d, i, r) EXCEPT !.tag = x] = Mmu(x, d, i, r)
         /\ [Mmu(t, d, i, r) EXCEPT !.data = x] = Mmu(t, x, i, r)
         /\ [Mmu(t, d, i, r) EXCEPT !.icache = x] = Mmu(t, d, x, r)
         /\ [Mmu(t, d, i, r) EXCEPT !.reservation = x] = Mmu(t, d, i, x)
BY DEF Mmu

LEMMA FlushesKeep ==
  ASSUME NEW m, IsMmu(m)
  PROVE  Keeps(m, FlushIcache(m)) /\ Keeps(m, FlushTlb(m))
<1>1. PICK t, d, i, r : m = Mmu(t, d, i, r) /\ TlbArrays(t, d)
  BY DEF IsMmu
<1>2. \A u : FlushIcache(Mmu(u, d, i, r)) = Mmu(u, d, FlushIcache(Mmu(u, d, i, r)).icache, r)
  BY DEF FlushIcache, Mmu
<1>3. FlushTlb(m) = FlushIcache(Mmu(FlushedTags, d, i, r))
  BY <1>1, MmuUpdates DEF FlushTlb
<1>4. TlbArrays(FlushedTags, d)
  BY <1>1 DEF TlbArrays, FlushedTags, Indices
<1> QED
  BY <1>1, <1>2, <1>3, <1>4, MmuFields DEF Keeps

(* A refill gives the page its entry, and the access that follows hits it. *)
RefilledTags(t, vpn, type) ==
    [y \in Types |-> [t[y] EXCEPT ![TlbIndex(vpn)] =
        IF y = type THEN vpn ELSE IF t[y][TlbIndex(vpn)] = vpn THEN vpn ELSE None]]

LEMMA RefillIs ==
  ASSUME NEW t, NEW d, NEW i, NEW r, NEW vpn, NEW page, NEW type \in Types, TlbArrays(t, d)
  PROVE  /\ RefillTlb(Mmu(t, d, i, r), vpn, page, type)
              = Mmu(RefilledTags(t, vpn, type), [d EXCEPT ![TlbIndex(vpn)] = page], i, r)
         /\ TlbArrays(RefilledTags(t, vpn, type), [d EXCEPT ![TlbIndex(vpn)] = page])
<1> DEFINE m == Mmu(t, d, i, r)
           pages == [d EXCEPT ![TlbIndex(vpn)] = page]
<1>1. RefillTlb(m, vpn, page, type) =
         [m EXCEPT !.tag = [y \in Types |-> [m.tag[y] EXCEPT ![TlbIndex(vpn)] =
                IF y = type THEN vpn ELSE IF m.tag[y][TlbIndex(vpn)] = vpn THEN vpn ELSE None]],
                   !.data = [m.data EXCEPT ![TlbIndex(vpn)] = page]]
  BY Zenon DEF RefillTlb
<1>2. m.tag = t /\ m.data = d
  BY MmuFields
<1>3. RefillTlb(m, vpn, page, type) =
         [m EXCEPT !.tag = RefilledTags(t, vpn, type), !.data = pages]
  BY <1>1, <1>2 DEF RefilledTags
<1> DEFINE tags == RefilledTags(t, vpn, type)
<1> HIDE DEF pages, tags
<1>4. [Mmu(t, d, i, r) EXCEPT !.tag = tags, !.data = pages] = Mmu(tags, pages, i, r)
  <2>1. [Mmu(t, d, i, r) EXCEPT !.tag = tags, !.data = pages]
           = [[Mmu(t, d, i, r) EXCEPT !.tag = tags] EXCEPT !.data = pages]
    OBVIOUS
  <2>2. [Mmu(t, d, i, r) EXCEPT !.tag = tags] = Mmu(tags, d, i, r)
    BY MmuUpdates
  <2>3. [Mmu(tags, d, i, r) EXCEPT !.data = pages] = Mmu(tags, pages, i, r)
    BY DEF Mmu
  <2> QED
    BY <2>1, <2>2, <2>3
<1>5. TlbArrays(tags, pages)
  BY DEF TlbArrays, tags, pages, RefilledTags
<1> QED
  BY <1>3, <1>4, <1>5 DEF tags, pages

LEMMA RefillKeeps ==
  ASSUME NEW m, IsMmu(m), NEW vpn, NEW page, NEW type \in Types
  PROVE  /\ Keeps(m, RefillTlb(m, vpn, page, type))
         /\ vpn \in Nat => /\ Hit(RefillTlb(m, vpn, page, type), type, vpn)
                           /\ RefillTlb(m, vpn, page, type).data[TlbIndex(vpn)] = page
<1>1. PICK t, d, i, r : m = Mmu(t, d, i, r) /\ TlbArrays(t, d)
  BY DEF IsMmu
<1> DEFINE idx == TlbIndex(vpn)
           tags == RefilledTags(t, vpn, type)
           pages == [d EXCEPT ![idx] = page]
<1>2. RefillTlb(m, vpn, page, type) = Mmu(tags, pages, i, r) /\ TlbArrays(tags, pages)
  BY <1>1, RefillIs
<1>3. ASSUME vpn \in Nat PROVE tags[type][idx] = vpn /\ pages[idx] = page
  <2>1. idx \in Indices
    BY <1>3 DEF TlbIndex, Indices
  <2> QED
    BY <1>1, <2>1 DEF TlbArrays, RefilledTags
<1> HIDE DEF tags, pages, idx
<1>4. /\ Keeps(m, Mmu(tags, pages, i, r))
      /\ Mmu(tags, pages, i, r).tag = tags /\ Mmu(tags, pages, i, r).data = pages
  BY <1>1, <1>2, MmuFields DEF Keeps
<1> QED
  BY <1>2, <1>3, <1>4 DEF idx, Hit

LEMMA AccessKeeps ==
  ASSUME NEW m, IsMmu(m), NEW tables, NEW vpn, NEW type \in Types, NEW context,
         NEW a, a = Access(m, tables, vpn, type, context)
  PROVE  /\ Keeps(m, a.mmu)
         /\ Hit(m, type, vpn) => a.fault = "none" /\ a.page = m.data[TlbIndex(vpn)]
         /\ a = [mmu |-> a.mmu, page |-> a.page, fault |-> a.fault]
<1> DEFINE w == Walk(tables, vpn, type, context)
<1>1. \/ a = [mmu |-> m, page |-> m.data[TlbIndex(vpn)], fault |-> "none"]
      \/ ~Hit(m, type, vpn) /\ a = [mmu |-> m, page |-> None, fault |-> w.fault]
      \/ ~Hit(m, type, vpn) /\ a = [mmu |-> m, page |-> w.page, fault |-> "none"]
      \/ /\ ~Hit(m, type, vpn)
         /\ a = [mmu |-> RefillTlb(m, vpn, w.page, type), page |-> w.page, fault |-> "none"]
  BY DEF Access
<1> HIDE DEF w
<1>2. \/ a.mmu = m
      \/ a.mmu = RefillTlb(m, vpn, w.page, type)
  BY <1>1
<1>3. /\ Hit(m, type, vpn) => a.fault = "none" /\ a.page = m.data[TlbIndex(vpn)]
      /\ a = [mmu |-> a.mmu, page |-> a.page, fault |-> a.fault]
  BY <1>1
<1>4. Keeps(m, m)
  BY DEF Keeps
<1>5. Keeps(m, RefillTlb(m, vpn, w.page, type))
  BY RefillKeeps
<1>6. Keeps(m, a.mmu)
  BY <1>2, <1>4, <1>5
<1> QED
  BY <1>3, <1>6

LEMMA FetchKeeps ==
  ASSUME NEW m, IsMmu(m), NEW tables, NEW code, NEW vpn, NEW context
  PROVE  /\ Keeps(m, LoadInsn(m, tables, code, vpn, context).mmu)
         /\ Keeps(m, AccessIcache(m, tables, code, vpn, context).mmu)
<1> DEFINE l == LoadInsn(m, tables, code, vpn, context)
           k == vpn % ICACHE_ENTRIES
<1>1. Keeps(m, l.mmu)
  <2>1. "FETCH" \in Types
    BY DEF Types
  <2>2. l.mmu = Access(m, tables, vpn, "FETCH", context).mmu
    BY DEF LoadInsn
  <2> QED
    BY <2>1, <2>2, AccessKeeps
<1>2. PICK x, f, n : l = [mmu |-> x, fault |-> f, insn |-> n] /\ Keeps(m, x)
  BY <1>1 DEF LoadInsn
<1> HIDE DEF l, k
<1>3. PICK t, d, i, r : x = Mmu(t, d, i, r) /\ TlbArrays(t, d) /\ r = m.reservation
  BY <1>2, MmuFields DEF Keeps, IsMmu
<1>4. ASSUME NEW e PROVE Keeps(m, [l EXCEPT !.mmu.icache[k] = e].mmu)
  <2> DEFINE y == [x.icache EXCEPT ![k] = e]
  <2>1. [l EXCEPT !.mmu.icache[k] = e].mmu = [x EXCEPT !.icache = y]
    BY <1>2
  <2> HIDE DEF y
  <2>2. [Mmu(t, d, i, r) EXCEPT !.icache = y] = Mmu(t, d, y, r)
    BY DEF Mmu
  <2>3. Keeps(m, Mmu(t, d, y, r))
    BY <1>3, MmuFields DEF Keeps
  <2> QED
    BY <1>3, <2>1, <2>2, <2>3
<1>5. AccessIcache(m, tables, code, vpn, context).mmu = m
         \/ \E e : AccessIcache(m, tables, code, vpn, context).mmu = [l EXCEPT !.mmu.icache[k] = e].mmu
  BY DEF AccessIcache, l, k
<1>6. Keeps(m, m)
  BY DEF Keeps
<1> QED
  BY <1>1, <1>4, <1>5, <1>6 DEF l

LEMMA YieldGivesUp ==
  ASSUME NEW m, IsMmu(m)
  PROVE  IsMmu(Yield(m)) /\ Yield(m).reservation = None
<1>1. PICK t, d, i, r : m = Mmu(t, d, i, r) /\ TlbArrays(t, d)
  BY DEF IsMmu
<1>2. [Mmu(t, d, i, r) EXCEPT !.reservation = None] = Mmu(t, d, i, None)
  BY DEF Mmu
<1>3. Yield(m) = Mmu(t, d, i, None)
  BY <1>1, <1>2 DEF Yield
<1> QED
  BY <1>1, <1>3, MmuFields

(* The walk of lr and of sc leaves the page in the TLB for the access.     *)
LEMMA TranslatedKeeps ==
  ASSUME NEW m, IsMmu(m), NEW tables, NEW vpn \in Nat, NEW type \in Types, NEW context,
         NEW a, a = Translated(m, tables, vpn, type, context)
  PROVE  /\ Keeps(m, a.mmu)
         /\ a.fault = "none" => /\ a.page \in Memory /\ Hit(a.mmu, type, vpn)
                                /\ a.mmu.data[TlbIndex(vpn)] = a.page
<1> DEFINE w == Walk(tables, vpn, type, context)
<1>1. \/ a = [mmu |-> m, page |-> None, fault |-> w.fault] /\ w.fault # "none"
      \/ a = [mmu |-> m, page |-> None, fault |-> "access"]
      \/ /\ a = [mmu |-> RefillTlb(m, vpn, w.page, type), page |-> w.page, fault |-> "none"]
         /\ w.page \in Memory
  BY DEF Translated
<1> HIDE DEF w
<1>2. CASE a.mmu = m /\ a.fault # "none"
  BY <1>2 DEF Keeps
<1>3. CASE /\ a.mmu = RefillTlb(m, vpn, w.page, type) /\ a.page = w.page
           /\ w.page \in Memory
  BY <1>3, RefillKeeps
<1> QED
  BY <1>1, <1>2, <1>3

(* Setting the reservation changes nothing else of the MMU.                *)
LEMMA Reserved ==
  ASSUME NEW m, IsMmu(m), NEW page
  PROVE  /\ IsMmu([m EXCEPT !.reservation = page])
         /\ [m EXCEPT !.reservation = page].reservation = page
         /\ [m EXCEPT !.reservation = page].tag = m.tag
<1>1. PICK t, d, i, r : m = Mmu(t, d, i, r) /\ TlbArrays(t, d)
  BY DEF IsMmu
<1>2. [Mmu(t, d, i, r) EXCEPT !.reservation = page] = Mmu(t, d, i, page)
  BY DEF Mmu
<1> QED
  BY <1>1, <1>2, MmuFields

LEMMA LoadReservedKeeps ==
  ASSUME NEW m, IsMmu(m), NEW tables, NEW vpn \in Nat, NEW context,
         NEW a, a = LoadReserved(m, tables, vpn, context)
  PROVE  IsMmu(a.mmu) /\ (a.fault # "none" => Keeps(m, a.mmu))
<1> DEFINE t == Translated(m, tables, vpn, "LOAD", context)
           n == [t.mmu EXCEPT !.reservation = t.page]
<1>0. "LOAD" \in Types
  BY DEF Types
<1>1. /\ Keeps(m, t.mmu)
      /\ t.fault = "none" => Hit(t.mmu, "LOAD", vpn)
  BY <1>0, TranslatedKeeps
<1>2. \/ t.fault # "none" /\ a = t
      \/ t.fault = "none" /\ a = Access(n, tables, vpn, "LOAD", context)
  BY DEF LoadReserved
<1> HIDE DEF t
<1>3. IsMmu(n) /\ n.tag = t.mmu.tag
  BY <1>1, Reserved DEF Keeps
<1> HIDE DEF n
<1>4. CASE t.fault # "none"
  BY <1>1, <1>2, <1>4 DEF Keeps
<1>5. CASE t.fault = "none"
  <2>1. Hit(n, "LOAD", vpn)
    BY <1>1, <1>3, <1>5 DEF Hit
  <2>2. a.fault = "none" /\ Keeps(n, a.mmu)
    BY <1>0, <1>2, <1>3, <1>5, <2>1, AccessKeeps
  <2> QED
    BY <2>2 DEF Keeps
<1> QED
  BY <1>4, <1>5

(* What a store conditional stores, it stores to the page reserved.        *)
LEMMA StoreConditionalKeeps ==
  ASSUME NEW m, IsMmu(m), NEW tables, NEW vpn \in Nat, NEW context,
         NEW a, a = StoreConditional(m, tables, vpn, context)
  PROVE  \/ a.fault # "none" /\ Keeps(m, a.mmu)
         \/ /\ a.fault = "none" /\ IsMmu(a.mmu) /\ a.mmu.reservation = None
            /\ a.page # None => a.page = m.reservation
<1> DEFINE t == Translated(m, tables, vpn, "STORE", context)
           s == Access(t.mmu, tables, vpn, "STORE", context)
<1>0. "STORE" \in Types
  BY DEF Types
<1>1. /\ Keeps(m, t.mmu)
      /\ t.fault = "none" => /\ Hit(t.mmu, "STORE", vpn)
                             /\ t.mmu.data[TlbIndex(vpn)] = t.page
  BY <1>0, TranslatedKeeps
<1>2. \/ t.fault # "none" /\ a = t
      \/ t.fault = "none" /\ m.reservation = t.page /\ a = [s EXCEPT !.mmu = Yield(@)]
      \/ t.fault = "none" /\ a = [mmu |-> Yield(t.mmu), page |-> None, fault |-> "none"]
  BY DEF StoreConditional
<1> HIDE DEF t
<1>3. IsMmu(t.mmu)
  BY <1>1 DEF Keeps
<1>4. /\ Keeps(t.mmu, s.mmu) /\ s = [mmu |-> s.mmu, page |-> s.page, fault |-> s.fault]
      /\ t.fault = "none" => s.fault = "none" /\ s.page = t.page
  <2>1. s = Access(t.mmu, tables, vpn, "STORE", context)
    OBVIOUS
  <2> HIDE DEF s
  <2>2. Keeps(t.mmu, s.mmu)
    BY <1>0, <1>3, <2>1, AccessKeeps
  <2>3. Hit(t.mmu, "STORE", vpn) => s.fault = "none" /\ s.page = t.mmu.data[TlbIndex(vpn)]
    BY <1>0, <1>3, <2>1, AccessKeeps
  <2>4. s = [mmu |-> s.mmu, page |-> s.page, fault |-> s.fault]
    BY <1>0, <1>3, <2>1, AccessKeeps
  <2>5. t.fault = "none" => s.fault = "none" /\ s.page = t.page
    BY <1>1, <2>3
  <2> QED
    BY <2>2, <2>4, <2>5, Zenon
<1> HIDE DEF s
<1>5. CASE t.fault # "none"
  BY <1>1, <1>2, <1>5
<1>6. CASE t.fault = "none" /\ m.reservation = t.page /\ a = [s EXCEPT !.mmu = Yield(@)]
  <2>1. PICK x, g, f : s = [mmu |-> x, page |-> g, fault |-> f]
    BY <1>4
  <2>2. IsMmu(x)
    BY <1>4, <2>1 DEF Keeps
  <2>3. a = [mmu |-> Yield(x), page |-> g, fault |-> f]
    BY <1>6, <2>1
  <2>4. a.fault = "none" /\ a.page = m.reservation /\ a.mmu = Yield(x)
    BY <1>4, <1>6, <2>1, <2>3
  <2> QED
    BY <2>2, <2>4, YieldGivesUp
<1>7. CASE t.fault = "none" /\ a = [mmu |-> Yield(t.mmu), page |-> None, fault |-> "none"]
  <2>1. a.fault = "none" /\ a.page = None /\ a.mmu = Yield(t.mmu)
    BY <1>7
  <2> QED
    BY <1>3, <2>1, YieldGivesUp
<1> QED
  BY <1>2, <1>5, <1>6, <1>7

LEMMA AmoKeeps ==
  ASSUME NEW m, IsMmu(m), NEW tables, NEW vpn, NEW context,
         NEW a, a = Amo(m, tables, vpn, context)
  PROVE  Keeps(m, a.mmu)
<1> DEFINE l == Access(m, tables, vpn, "LOAD", context)
<1>1. "LOAD" \in Types /\ "STORE" \in Types
  BY DEF Types
<1>2. Keeps(m, l.mmu)
  BY <1>1, AccessKeeps
<1>3. a = l \/ a = Access(l.mmu, tables, vpn, "STORE", context)
  BY DEF Amo
<1> HIDE DEF l
<1>4. ASSUME a = Access(l.mmu, tables, vpn, "STORE", context) PROVE Keeps(l.mmu, a.mmu)
  BY <1>1, <1>2, <1>4, AccessKeeps DEF Keeps
<1> QED
  BY <1>2, <1>3, <1>4 DEF Keeps

-----------------------------------------------------------------------------
(* A reservation is one of the hart that runs, and nobody else stored to   *)
(* its page: that of another hart was given up at the end of its quantum.  *)

IInv ==
    /\ system \in Systems /\ current_proc \in Procs
    /\ DOMAIN mmu = Procs /\ DOMAIN intact = Procs
    /\ \A q \in Procs : /\ IsMmu(mmu[q])
                        /\ mmu[q].reservation # None => q = current_proc /\ intact[q]
    /\ ~sc_broken

(* A step of the hart that runs, after which its MMU is m.                 *)
Moves(m) == mmu' = [mmu EXCEPT ![p] = m] /\ UNCHANGED <<system, current_proc>>
Quiet(m) == Moves(m) /\ UNCHANGED <<intact, sc_broken>>

(* m is an MMU with no reservation that the hart did not have.             *)
Sound(m) == IsMmu(m) /\ (m.reservation # None => m.reservation = mmu[p].reservation)

LEMMA MovesKeep ==
  ASSUME IInv, NEW m, Moves(m), IsMmu(m), m.reservation # None => intact'[p],
         DOMAIN intact' = Procs, ~sc_broken'
  PROVE  IInv'
<1>1. system' \in Systems /\ current_proc' \in Procs' /\ Procs' = Procs
  BY DEF IInv, Moves, Procs
<1>2. DOMAIN mmu' = Procs /\ mmu'[p] = m /\ \A q \in Procs \ {p} : mmu'[q] = mmu[q]
  BY DEF IInv, Moves, p
<1>3. ASSUME NEW q \in Procs
      PROVE  IsMmu(mmu'[q]) /\ (mmu'[q].reservation # None => q = current_proc' /\ intact'[q])
  <2>1. CASE q = p
    BY <1>2, <2>1 DEF Moves, p
  <2>2. CASE q # p
    BY <1>2, <2>2 DEF IInv, p
  <2> QED
    BY <2>1, <2>2
<1> QED
  BY <1>1, <1>2, <1>3 DEF IInv

LEMMA QuietKeeps ==
  ASSUME IInv, NEW m, Quiet(m), Sound(m)
  PROVE  IInv'
<1>1. m.reservation # None => intact'[p]
  BY DEF IInv, Quiet, Sound, p
<1>2. DOMAIN intact' = Procs /\ ~sc_broken' /\ Moves(m) /\ IsMmu(m)
  BY DEF IInv, Quiet, Sound
<1> QED
  BY <1>1, <1>2, MovesKeep

(* However a batch goes on or ends, the hart that runs stays the same.     *)
LEMMA LoopMoves ==
  ASSUME NEW m, NEW cores, system' = system
  PROVE  /\ \A n, left : Leave(m, cores, n, left) => Moves(m)
         /\ Retire(m, cores) => Moves(m)
         /\ \A n : Serialize(m, cores, n) => Moves(m)
<1>1. \A n, left : Leave(m, cores, n, left) => Moves(m)
  BY DEF Leave, Moves
<1>2. Retire(m, cores) => Moves(m)
  BY <1>1 DEF Retire, Moves
<1>3. \A n : Serialize(m, cores, n) => Moves(m)
  BY <1>1 DEF Serialize
<1> QED
  BY <1>1, <1>2, <1>3

LEMMA QuietSteps ==
  ASSUME NEW m, system' = system
  PROVE  /\ \A s, cause : Trap(m, s, cause) => Quiet(m)
         /\ Nop(m) => Quiet(m)
<1>1. ASSUME NEW s, NEW cause, Trap(m, s, cause) PROVE Quiet(m)
  BY <1>1, LoopMoves DEF Trap, Quiet, Data
<1>2. ASSUME Nop(m) PROVE Quiet(m)
  BY <1>2, LoopMoves DEF Nop, Quiet, Data
<1> QED
  BY <1>1, <1>2

LEMMA StoredKeeps ==
  ASSUME IInv, system' = system, NEW a, NEW broken, Sound(a.mmu),
         a.fault = "none" => ~broken, Stored(a, broken)
  PROVE  IInv'
<1>1. CASE a.fault # "none"
  BY <1>1, QuietSteps, QuietKeeps DEF Stored
<1>2. CASE Trap(a.mmu, c, "access")
  BY <1>2, QuietSteps, QuietKeeps
<1>3. CASE /\ a.fault = "none"
           /\ \E o : Retire(a.mmu, o.cores)
           /\ intact' = [q \in Procs |-> intact[q] /\ (q = p \/ mmu[q].reservation # a.page)]
           /\ sc_broken' = (sc_broken \/ broken)
  <2>1. PICK o : /\ Retire(a.mmu, o.cores) /\ sc_broken' = (sc_broken \/ broken)
                 /\ intact' = [q \in Procs |-> intact[q] /\ (q = p \/ mmu[q].reservation # a.page)]
    BY <1>3
  <2>2. Moves(a.mmu)
    BY <2>1, LoopMoves
  <2>3. ~sc_broken' /\ DOMAIN intact' = Procs
    BY <1>3, <2>1 DEF IInv
  <2>4. a.mmu.reservation # None => intact'[p]
    BY <2>1 DEF IInv, Sound, p
  <2> QED
    BY <2>2, <2>3, <2>4, MovesKeep DEF Sound
<1> QED
  BY <1>1, <1>2, <1>3 DEF Stored

(* The instructions: m is the MMU after the fetch.                         *)
LEMMA MemoryInstructionsKeep ==
  ASSUME IInv, system' = system, NEW m, Keeps(mmu[p], m),
         Load(m) \/ Store(m) \/ AmoInsn(m) \/ Lr(m) \/ Sc(m)
  PROVE  IInv'
<1>1. IsMmu(m) /\ m.reservation = mmu[p].reservation
  BY DEF Keeps
<1>2. \A n : Keeps(m, n) => Sound(n)
  BY <1>1 DEF Keeps, Sound
<1>3. "LOAD" \in Types /\ "STORE" \in Types
  BY DEF Types
<1>4. system.operands \subseteq Nat
  BY SystemsAssumption DEF IInv
<1>5. CASE Load(m)
  <2>1. PICK vpn \in system.operands : \E a \in {Access(m, pt, vpn, "LOAD", Context(c))} :
           Trap(a.mmu, c, a.fault) \/ Trap(a.mmu, c, "access") \/ Nop(a.mmu)
    BY <1>5 DEF Load
  <2>2. PICK a : /\ a = Access(m, pt, vpn, "LOAD", Context(c))
                 /\ Trap(a.mmu, c, a.fault) \/ Trap(a.mmu, c, "access") \/ Nop(a.mmu)
    BY <2>1
  <2>3. Keeps(m, a.mmu)
    BY <1>1, <1>3, <2>2, AccessKeeps
  <2> QED
    BY <1>2, <2>2, <2>3, QuietSteps, QuietKeeps
<1>6. CASE Store(m)
  <2>1. PICK vpn \in system.operands : \E a \in {Access(m, pt, vpn, "STORE", Context(c))} :
           Stored(a, FALSE)
    BY <1>6 DEF Store
  <2>2. PICK a : a = Access(m, pt, vpn, "STORE", Context(c)) /\ Stored(a, FALSE)
    BY <2>1
  <2>3. Keeps(m, a.mmu)
    BY <1>1, <1>3, <2>2, AccessKeeps
  <2> QED
    BY <1>2, <2>2, <2>3, StoredKeeps
<1>7. CASE AmoInsn(m)
  <2>1. PICK vpn \in system.operands : \E a \in {Amo(m, pt, vpn, Context(c))} : Stored(a, FALSE)
    BY <1>7 DEF AmoInsn
  <2>2. PICK a : a = Amo(m, pt, vpn, Context(c)) /\ Stored(a, FALSE)
    BY <2>1
  <2>3. Keeps(m, a.mmu)
    BY <1>1, <2>2, AmoKeeps
  <2> QED
    BY <1>2, <2>2, <2>3, StoredKeeps
<1>8. CASE Lr(m)
  <2>1. PICK vpn \in system.operands : \E a \in {LoadReserved(m, pt, vpn, Context(c))} :
           IF a.fault # "none" THEN Trap(a.mmu, c, a.fault)
           ELSE Retire(a.mmu, Advanced(c)) /\ intact' = [intact EXCEPT ![p] = TRUE] /\ UNCHANGED sc_broken
    BY <1>8 DEF Lr
  <2>2. PICK a : /\ a = LoadReserved(m, pt, vpn, Context(c))
                 /\ IF a.fault # "none" THEN Trap(a.mmu, c, a.fault)
                    ELSE /\ Retire(a.mmu, Advanced(c))
                         /\ intact' = [intact EXCEPT ![p] = TRUE] /\ UNCHANGED sc_broken
    BY <2>1
  <2>3. IsMmu(a.mmu) /\ (a.fault # "none" => Keeps(m, a.mmu))
    BY <1>1, <1>4, <2>2, LoadReservedKeeps
  <2>4. CASE a.fault # "none"
    BY <1>2, <2>2, <2>3, <2>4, QuietSteps, QuietKeeps
  <2>5. CASE a.fault = "none"
    <3>1. Moves(a.mmu)
      BY <2>2, <2>5, LoopMoves
    <3>2. intact'[p] /\ DOMAIN intact' = Procs /\ ~sc_broken'
      BY <2>2, <2>5 DEF IInv, p
    <3> QED
      BY <2>3, <3>1, <3>2, MovesKeep
  <2> QED
    BY <2>4, <2>5
<1>9. CASE Sc(m)
  <2>1. PICK vpn \in system.operands : \E a \in {StoreConditional(m, pt, vpn, Context(c))} :
           IF a.fault = "none" /\ a.page = None THEN Nop(a.mmu)
           ELSE Stored(a, ~intact[p] \/ a.page # mmu[p].reservation)
    BY <1>9 DEF Sc
  <2>2. PICK a : /\ a = StoreConditional(m, pt, vpn, Context(c))
                 /\ IF a.fault = "none" /\ a.page = None THEN Nop(a.mmu)
                    ELSE Stored(a, ~intact[p] \/ a.page # mmu[p].reservation)
    BY <2>1
  <2>3. \/ a.fault # "none" /\ Keeps(m, a.mmu)
        \/ /\ a.fault = "none" /\ IsMmu(a.mmu) /\ a.mmu.reservation = None
           /\ a.page # None => a.page = m.reservation
    BY <1>1, <1>4, <2>2, StoreConditionalKeeps
  <2>4. Sound(a.mmu)
    BY <1>2, <2>3 DEF Sound
  <2>5. CASE a.fault = "none" /\ a.page = None
    BY <2>2, <2>4, <2>5, QuietSteps, QuietKeeps
  <2>6. CASE ~(a.fault = "none" /\ a.page = None)
    <3>1. a.fault = "none" => ~(~intact[p] \/ a.page # mmu[p].reservation)
      BY <1>1, <2>3, <2>6 DEF IInv, p
    <3> QED
      BY <2>2, <2>4, <2>6, <3>1, StoredKeeps
  <2> QED
    BY <2>5, <2>6
<1> QED
  BY <1>5, <1>6, <1>7, <1>8, <1>9

LEMMA OtherInstructionsKeep ==
  ASSUME IInv, system' = system, NEW m, Keeps(mmu[p], m),
         \/ Nop(m) \/ Jal(m) \/ SfenceVma(m) \/ FenceI(m) \/ Csr(m) \/ Wfi(m)
         \/ Ecall(m) \/ MretInsn(m) \/ SretInsn(m)
  PROVE  IInv'
<1>1. IsMmu(m) /\ Sound(m)
  BY DEF Keeps, Sound
<1>2. Sound(FlushTlb(m)) /\ Sound(FlushIcache(m))
  BY <1>1, FlushesKeep DEF Keeps, Sound
<1>3. \A w : Sound(Satp(m, w))
  BY <1>1, <1>2 DEF Satp
<1>4. CASE Nop(m)
  BY <1>1, <1>4, QuietSteps, QuietKeeps
<1>5. CASE Jal(m)
  BY <1>1, <1>5, LoopMoves, QuietKeeps DEF Jal, Quiet, Data
<1>6. CASE SfenceVma(m)
  BY <1>1, <1>2, <1>6, QuietSteps, QuietKeeps DEF SfenceVma
<1>7. CASE FenceI(m)
  BY <1>2, <1>7, QuietSteps, QuietKeeps DEF FenceI
<1>8. CASE Csr(m)
  <2>1. CASE Serialize(m, [core EXCEPT ![p].serialized = TRUE], 0) /\ UNCHANGED Data
    BY <1>1, <2>1, LoopMoves, QuietKeeps DEF Quiet, Data
  <2>2. CASE \E s : Trap(m, s, "illegal")
    BY <1>1, <2>2, QuietSteps, QuietKeeps
  <2>3. CASE (\E w, written : Serialize(Satp(m, w), Advanced(written), 1)) /\ UNCHANGED Data
    <3>1. PICK w : Moves(Satp(m, w))
      BY <2>3, LoopMoves
    <3> QED
      BY <1>3, <2>3, <3>1, QuietKeeps DEF Quiet, Data
  <2> QED
    BY <1>8, <2>1, <2>2, <2>3 DEF Csr
<1>9. CASE Wfi(m)
  <2>1. CASE Leave(m, Advanced(c), 1, 0) /\ UNCHANGED Data
    BY <1>1, <2>1, LoopMoves, QuietKeeps DEF Quiet, Data
  <2> QED
    BY <1>1, <1>9, <2>1, QuietSteps, QuietKeeps DEF Wfi
<1>10. CASE Ecall(m)
  BY <1>1, <1>10, QuietSteps, QuietKeeps DEF Ecall
<1>11. ASSUME NEW s, Return(m, s) PROVE IInv'
  BY <1>1, <1>11, LoopMoves, QuietKeeps DEF Return, Quiet, Data
<1>12. CASE MretInsn(m) \/ SretInsn(m)
  BY <1>1, <1>11, <1>12, QuietSteps, QuietKeeps DEF MretInsn, SretInsn
<1> QED
  BY <1>4, <1>5, <1>6, <1>7, <1>8, <1>9, <1>10, <1>12

LEMMA InstructionKeeps ==
  ASSUME IInv, system' = system, Outer \/ Instruction
  PROVE  IInv'
<1>1. IsMmu(mmu[p])
  BY DEF IInv, p
<1>2. CASE Outer
  <2>1. PICK l : /\ l = LoadInsn(mmu[p], pt, memory, c.pc, Context(c))
                 /\ \/ \E cause : Trap(l.mmu, c, cause)
                    \/ mmu' = [mmu EXCEPT ![p] = l.mmu] /\ UNCHANGED <<current_proc, Data>>
    BY <1>2 DEF Outer
  <2>2. Sound(l.mmu)
    BY <1>1, <2>1, FetchKeeps DEF Keeps, Sound
  <2>3. Quiet(l.mmu)
    BY <2>1, QuietSteps DEF Quiet, Moves, Data
  <2> QED
    BY <2>2, <2>3, QuietKeeps
<1>3. CASE Instruction
  <2>1. PICK f : /\ f = AccessIcache(mmu[p], pt, memory, c.pc, Context(c))
                 /\ \/ Trap(f.mmu, c, f.fault)
                    \/ \/ Nop(f.mmu) \/ Jal(f.mmu) \/ SfenceVma(f.mmu) \/ FenceI(f.mmu)
                       \/ Csr(f.mmu) \/ Wfi(f.mmu) \/ Ecall(f.mmu) \/ MretInsn(f.mmu)
                       \/ SretInsn(f.mmu)
                    \/ Load(f.mmu) \/ Store(f.mmu) \/ AmoInsn(f.mmu) \/ Lr(f.mmu) \/ Sc(f.mmu)
    BY <1>3 DEF Instruction
  <2>2. Keeps(mmu[p], f.mmu)
    BY <1>1, <2>1, FetchKeeps
  <2>3. Sound(f.mmu)
    BY <2>2 DEF Keeps, Sound
  <2> QED
    BY <2>1, <2>2, <2>3, QuietSteps, QuietKeeps, MemoryInstructionsKeep, OtherInstructionsKeep
<1> QED
  BY <1>2, <1>3

LEMMA EndQuantumKeeps ==
  ASSUME IInv, system' = system, EndQuantum
  PROVE  IInv'
<1>1. Len(system.cores) \in Nat \ {0} /\ Procs' = Procs
  BY SystemsAssumption DEF IInv, Procs
<1>2. current_proc' \in Procs
  <2> DEFINE n == Len(system.cores)
  <2>1. current_proc' = (current_proc + 1) % n
    BY DEF EndQuantum, p
  <2>2. current_proc \in 0 .. n - 1 /\ n \in Nat \ {0}
    BY <1>1 DEF IInv, Procs
  <2> HIDE DEF n
  <2>3. (current_proc + 1) % n \in 0 .. n - 1
    BY <2>2
  <2> QED
    BY <2>1, <2>3 DEF Procs, n
<1>3. /\ IsMmu(Yield(mmu[p])) /\ Yield(mmu[p]).reservation = None
      /\ mmu' = [mmu EXCEPT ![p] = Yield(mmu[p])]
  BY YieldGivesUp DEF IInv, EndQuantum, Preempted, p
<1>4. ASSUME NEW q \in Procs PROVE IsMmu(mmu'[q]) /\ mmu'[q].reservation = None
  <2>1. CASE q = p
    BY <1>3, <2>1 DEF IInv
  <2>2. CASE q # p
    BY <1>3, <2>2 DEF IInv, p
  <2> QED
    BY <2>1, <2>2
<1>5. DOMAIN intact' = Procs /\ DOMAIN mmu' = Procs /\ ~sc_broken'
  BY DEF EndQuantum, Preempted, IInv
<1> QED
  BY <1>1, <1>2, <1>4, <1>5 DEF IInv

-----------------------------------------------------------------------------
(* The store of a store conditional goes to the page that was reserved,    *)
(* and no other hart and no host stored to that page since (mmu.h, and the *)
(* yield of sim_t::step), for every system that SystemsAssumption allows.  *)
THEOREM ScAtomic == Spec => []ScIsAtomic
<1>1. Init => IInv
  <2> SUFFICES ASSUME Init PROVE IInv
    OBVIOUS
  <2>1. Len(system.cores) \in Nat \ {0} /\ current_proc \in Procs
    BY SystemsAssumption DEF Init, Procs
  <2>2. IsMmu(MmuInit) /\ MmuInit.reservation = None
    <3> DEFINE tags == FlushedTags
               pages == [i \in 0 .. TLB_ENTRIES - 1 |-> None]
    <3>1. TlbArrays(tags, pages)
      BY DEF TlbArrays, FlushedTags, Indices
    <3>2. MmuInit = FlushTlb(Mmu(tags, pages, <<>>, None))
      BY DEF MmuInit, Mmu
    <3> HIDE DEF tags, pages
    <3> QED
      BY <3>1, <3>2, MmuFields, FlushesKeep DEF Keeps
  <2> QED
    BY <2>1, <2>2 DEF Init, IInv
<1>2. IInv /\ [Next]_vars => IInv'
  <2> SUFFICES ASSUME IInv, [Next]_vars PROVE IInv'
    OBVIOUS
  <2>1. CASE UNCHANGED vars
    BY <2>1 DEF IInv, vars, loop, Procs
  <2>2. CASE Next
    <3>1. system' = system /\ (Outer \/ Instruction \/ EndQuantum)
      BY <2>2 DEF Next, Histories
    <3> QED
      BY <3>1, InstructionKeeps, EndQuantumKeeps
  <2> QED
    BY <2>1, <2>2
<1>3. IInv => ScIsAtomic
  BY DEF IInv, ScIsAtomic
<1> QED
  BY <1>1, <1>2, <1>3, PTL DEF Spec


-----------------------------------------------------------------------------
(* Types of the harts and of the loops that run them.  r is s after a step *)
(* that leaves alone what translation, interrupts and counting depend on.  *)

Same(s, r) ==
    /\ r \in State
    /\ r.satp = s.satp /\ r.mprv = s.mprv /\ r.mie = s.mie
    /\ r.serialized = s.serialized /\ r.minstret = s.minstret

LEMMA TrapStates ==
  ASSUME NEW s \in State, NEW cause, system \in Systems
  PROVE  Same(s, TakeTrap(s, cause))
<1>1. system.mtvec \in Vpns /\ system.stvec \in Vpns
  BY SystemsAssumption
<1>2. CASE /\ s.prv # "M"
           /\ TakeTrap(s, cause) = [s EXCEPT !.pc = system.stvec, !.sepc = s.pc, !.SPIE = s.SIE,
                                             !.SPP = s.prv, !.SIE = FALSE, !.prv = "S"]
  BY <1>1, <1>2 DEF Same, State
<1>3. CASE TakeTrap(s, cause) = [s EXCEPT !.pc = system.mtvec, !.mepc = s.pc, !.MPIE = s.MIE,
                                          !.MPP = s.prv, !.MIE = FALSE, !.prv = "M"]
  BY <1>1, <1>3 DEF Same, State
<1> QED
  BY <1>2, <1>3 DEF TakeTrap

LEMMA ReturnStates ==
  ASSUME NEW s \in State
  PROVE  Same(s, Mret(s)) /\ Same(s, Sret(s))
BY DEF Mret, Sret, Same, State

LEMMA FieldStates ==
  ASSUME NEW s \in State
  PROVE  /\ Same(s, s)
         /\ \A x \in Vpns : Same(s, [s EXCEPT !.pc = x])
         /\ \A x \in SUBSET Irqs : Same(s, [s EXCEPT !.mip = x])
BY DEF Same, State

LEMMA CounterStates ==
  ASSUME NEW s \in State
  PROVE  /\ \A x \in BOOLEAN :
               LET r == [s EXCEPT !.serialized = x]
               IN  /\ r \in State /\ r.serialized = x /\ r.pc = s.pc
                   /\ r.satp = s.satp /\ r.mprv = s.mprv /\ r.mie = s.mie /\ r.minstret = s.minstret
         /\ \A x \in Nat :
               LET r == Add(s, x)
               IN  /\ r \in State /\ r.minstret = (s.minstret + x) % Counts /\ r.pc = s.pc
                   /\ r.satp = s.satp /\ r.mprv = s.mprv /\ r.mie = s.mie /\ r.serialized = s.serialized
<1>1. \A x \in Nat : (s.minstret + x) % Counts \in 0 .. Counts - 1
  BY SystemsAssumption DEF State
<1> QED
  BY <1>1 DEF State, Add

LEMMA WrittenStates ==
  ASSUME NEW s \in State, NEW w \in CsrWrites, NEW r, r = Written(s, w)
  PROVE  /\ r \in State /\ r.mprv = s.mprv /\ r.serialized = s.serialized
         /\ r.satp = IF w.csr = "satp" THEN w.val ELSE s.satp
         /\ w.csr # "mie" => r.mie = s.mie
         /\ r.minstret = IF w.csr = "minstret" THEN (w.val + Counts - 1) % Counts
                                               ELSE s.minstret
<1>1. CASE w \in [csr : {"satp"}, val : Memory \union {None}]
  BY <1>1 DEF Written, State
<1>2. CASE w \in [csr : {"MIE", "SIE", "sum", "SSIP", "mip"}, val : BOOLEAN]
  BY <1>2 DEF Written, State, Irqs
<1>3. CASE w \in [csr : {"mie"}, val : SUBSET Irqs]
  BY <1>3 DEF Written, State
<1>4. CASE w \in [csr : {"minstret"}, val : {0}]
  <2>1. (w.val + Counts - 1) % Counts \in 0 .. Counts - 1
    BY <1>4, SystemsAssumption
  <2> QED
    BY <1>4, <2>1 DEF Written, State
<1> QED
  BY <1>1, <1>2, <1>3, <1>4 DEF CsrWrites

(* The harts of a system: their registers have their types, satp has one   *)
(* of the values the system gives it, and nothing writes mprv.             *)
Harts(cores) ==
    /\ DOMAIN cores = Procs
    /\ \A q \in Procs : /\ cores[q] \in State
                        /\ cores[q].satp \in Satps(system)
                        /\ cores[q].mprv = system.cores[q + 1].mprv

(* The instructions retired in a batch are fewer than those to execute.    *)
Loops ==
    /\ system \in Systems /\ current_proc \in Procs
    /\ Harts(core)
    /\ todo \in 0 .. INTERLEAVE /\ batch \in BOOLEAN /\ instret \in Nat
    /\ IF batch THEN instret < todo ELSE instret = 0

(* cores is core but for what a step may change of any instruction.        *)
Alike(cores) == DOMAIN cores = Procs /\ \A q \in Procs : Same(core[q], cores[q])

LEMMA AlikeHarts ==
  ASSUME Loops, NEW cores, Alike(cores)
  PROVE  Harts(cores)
BY DEF Loops, Harts, Alike, Same

LEMMA Advances ==
  ASSUME Loops
  PROVE  /\ c \in State /\ Alike(core)
         /\ \A s : Same(c, s) => Alike([core EXCEPT ![p] = s])
         /\ Next_pc \in Vpns
<1>1. c \in State /\ \A q \in Procs : core[q] \in State
  BY DEF Loops, Harts, c, p
<1>2. \A q \in Procs : Same(core[q], core[q])
  BY <1>1, FieldStates
<1>3. Next_pc \in Vpns
  <2> DEFINE n == 2^LEVELS
  <2>1. n \in Nat \ {0} /\ c.pc \in 0 .. n - 1
    BY <1>1 DEF State, Vpns
  <2> HIDE DEF n
  <2>2. (c.pc + 1) % n \in 0 .. n - 1
    BY <2>1
  <2> QED
    BY <2>2 DEF n, Next_pc, Vpns
<1> QED
  BY <1>1, <1>2, <1>3 DEF Loops, Harts, Alike, c, p


(* Words, page tables and times.                                           *)
Stores ==
    /\ memory \in [Memory -> Words] /\ pt \in system.pts
    /\ mtime \in 0 .. system.maxtime /\ mtimecmp \in [Procs -> Nat]
    /\ executed \in [Procs -> 0 .. Counts - 1]

(* A step of the hart that runs, which leaves it the MMU m.                *)
Simple(m) ==
    \E cores : /\ Alike(cores)
               /\ \/ Leave(m, cores, 0, 0) /\ UNCHANGED executed
                  \/ Retire(m, cores) /\ Counted
                  \/ \E left \in 0 .. INTERLEAVE : Leave(m, cores, 1, left) /\ Counted

LEMMA LeaveLoops ==
  ASSUME Loops, system' = system, NEW m, NEW cores, Harts(cores),
         NEW n \in {0, 1}, NEW left \in 0 .. INTERLEAVE, Leave(m, cores, n, left)
  PROVE  Loops'
<1>1. core' = [cores EXCEPT ![p] = Add(@, instret + n)]
  BY DEF Leave
<1>2. PICK k \in Nat : k = instret + n
  BY DEF Loops
<1>3. /\ core' = [cores EXCEPT ![p] = Add(cores[p], k)]
      /\ Add(cores[p], k) \in State
      /\ Add(cores[p], k).satp = cores[p].satp /\ Add(cores[p], k).mprv = cores[p].mprv
  <2>1. p \in Procs /\ cores[p] \in State
    BY DEF Loops, Harts, p
  <2>2. core' = [cores EXCEPT ![p] = Add(cores[p], k)]
    BY <1>1, <1>2
  <2> QED
    BY ONLY <2>1, <2>2, CounterStates
<1>4. Harts(core')
  BY <1>3 DEF Harts
<1>5. Harts(core)'
  BY <1>4 DEF Harts, Procs, Satps
<1> QED
  BY <1>5 DEF Leave, Loops, Procs

LEMMA RetireLoops ==
  ASSUME Loops, batch, system' = system, NEW m, NEW cores, Harts(cores), Retire(m, cores)
  PROVE  Loops'
<1>1. CASE instret + 1 = todo
  <2>1. Leave(m, cores, 1, 0) /\ 0 \in 0 .. INTERLEAVE
    BY <1>1, SystemsAssumption DEF Retire
  <2> QED
    BY <2>1, LeaveLoops
<1>2. CASE instret + 1 # todo
  <2>1. /\ core' = cores /\ instret' = instret + 1
        /\ current_proc' = current_proc /\ todo' = todo /\ batch' = batch
    BY <1>2 DEF Retire
  <2>2. Harts(core)'
    BY <2>1 DEF Harts, Procs, Satps
  <2> QED
    BY <1>2, <2>1, <2>2 DEF Loops, Procs
<1> QED
  BY <1>1, <1>2

LEMMA SimpleLoops ==
  ASSUME Loops, batch, system' = system, NEW m, Simple(m)
  PROVE  Loops' /\ Moves(m)
<1>1. PICK cores :
        /\ Alike(cores)
        /\ \/ Leave(m, cores, 0, 0) \/ Retire(m, cores)
           \/ \E left \in 0 .. INTERLEAVE : Leave(m, cores, 1, left)
  BY DEF Simple
<1>2. Harts(cores) /\ 0 \in 0 .. INTERLEAVE
  BY <1>1, AlikeHarts, SystemsAssumption
<1>3. Moves(m)
  BY <1>1, LoopMoves
<1>4. Loops'
  BY <1>1, <1>2, LeaveLoops, RetireLoops
<1> QED
  BY <1>3, <1>4

LEMMA CountedTyped ==
  ASSUME Loops, Stores, Counted
  PROVE  executed' \in [Procs -> 0 .. Counts - 1]
<1>1. executed[p] \in Nat /\ p \in Procs
  BY DEF Stores, Loops, p
<1>2. (executed[p] + 1) % Counts \in 0 .. Counts - 1
  BY <1>1, SystemsAssumption
<1> QED
  BY <1>1, <1>2 DEF Counted, Stores

LEMMA SimpleSteps ==
  ASSUME Loops, Stores, system' = system, NEW m
  PROVE  /\ \A cause : Trap(m, c, cause) => Simple(m) /\ Stores'
         /\ Nop(m) => Simple(m) /\ Stores'
<1>1. /\ Alike(core) /\ c \in State /\ Same(c, [c EXCEPT !.pc = Next_pc])
      /\ \A s : Same(c, s) => Alike([core EXCEPT ![p] = s])
  BY Advances, FieldStates
<1>2. ASSUME NEW cause, Trap(m, c, cause) PROVE Simple(m) /\ Stores'
  <2>1. Alike([core EXCEPT ![p] = TakeTrap(c, cause)])
    BY <1>1, TrapStates DEF Loops
  <2>2. Leave(m, [core EXCEPT ![p] = TakeTrap(c, cause)], 0, 0) /\ UNCHANGED <<Data, executed>>
    BY <1>2 DEF Trap
  <2>3. Simple(m)
    BY <2>1, <2>2 DEF Simple
  <2> QED
    BY <2>2, <2>3 DEF Data, Stores, Procs
<1>3. ASSUME Nop(m) PROVE Simple(m) /\ Stores'
  <2>1. Retire(m, Advanced(c)) /\ Counted /\ UNCHANGED Data
    BY <1>3 DEF Nop
  <2>2. Alike(Advanced(c))
    BY <1>1 DEF Advanced
  <2>3. Simple(m)
    BY <2>1, <2>2 DEF Simple
  <2> QED
    BY <2>1, <2>3, CountedTyped DEF Data, Stores, Procs
<1> QED
  BY <1>2, <1>3

(* The comparison with mtime and the stores to a page or a device.         *)
LEMMA ComparedAlike ==
  ASSUME Loops, NEW cores, Alike(cores), NEW now, NEW cmp
  PROVE  Alike(Compared(cores, now, cmp))
<1>1. ASSUME NEW q \in Procs PROVE Same(core[q], Compared(cores, now, cmp)[q])
  <2>1. cores[q] \in State /\ Same(core[q], cores[q])
    BY DEF Alike, Same
  <2>2. PICK mip \in SUBSET Irqs : Compared(cores, now, cmp)[q] = [cores[q] EXCEPT !.mip = mip]
    BY <2>1 DEF Compared, State, Irqs
  <2>3. Same(cores[q], [cores[q] EXCEPT !.mip = mip])
    BY <2>1, FieldStates
  <2> QED
    BY <2>1, <2>2, <2>3 DEF Same
<1> QED
  BY <1>1 DEF Alike, Compared

LEMMA OutcomesTyped ==
  ASSUME Loops, Stores, NEW page, NEW cores, Alike(cores), NEW o \in Outcomes(page, cores)
  PROVE  /\ Alike(o.cores)
         /\ o.memory \in [Memory -> Words] /\ o.pt \in system.pts /\ o.mtimecmp \in [Procs -> Nat]
         /\ o.mtime \in 0 .. system.maxtime
<1>1. system.words \subseteq Words /\ system.times \subseteq Nat /\ system.maxtime \in Nat
  BY SystemsAssumption DEF Loops
<1>2. ASSUME NEW q \in Procs, NEW on \in BOOLEAN PROVE Alike(Msip(cores, q, on))
  <2>1. cores[q] \in State /\ Same(core[q], cores[q])
    BY DEF Alike, Same
  <2>2. PICK mip \in SUBSET Irqs : Msip(cores, q, on) = [cores EXCEPT ![q] = [cores[q] EXCEPT !.mip = mip]]
    BY <2>1 DEF State, Irqs, Alike, Msip
  <2>3. Same(core[q], [cores[q] EXCEPT !.mip = mip])
    BY <2>1, FieldStates DEF Same
  <2> QED
    BY <2>2, <2>3 DEF Alike
<1>3. PICK words, tables, now, cmp, harts :
        /\ o = Outcome(words, tables, now, cmp, harts) /\ now \in 0 .. system.maxtime
        /\ words \in [Memory -> Words] /\ tables \in system.pts /\ cmp \in [Procs -> Nat]
        /\ Alike(harts)
  <2>1. CASE page \in DOMAIN pt
    <3>1. PICK t \in system.pts : o = Outcome(memory, t, mtime, mtimecmp, cores)
      BY <2>1 DEF Outcomes
    <3> QED
      BY <3>1 DEF Stores
  <2>2. CASE page \notin DOMAIN pt /\ page \in Memory
    <3>1. PICK w \in system.words : o = Outcome([memory EXCEPT ![page] = w], pt, mtime, mtimecmp, cores)
      <4>1. Outcomes(page, cores) =
               {Outcome([memory EXCEPT ![page] = w], pt, mtime, mtimecmp, cores) : w \in system.words}
        BY <2>2 DEF Outcomes
      <4> QED
        BY <4>1
    <3>2. pt \in system.pts /\ mtimecmp \in [Procs -> Nat] /\ memory \in [Memory -> Words]
          /\ mtime \in 0 .. system.maxtime
      BY DEF Stores
    <3>3. [memory EXCEPT ![page] = w] \in [Memory -> Words]
      BY <1>1, <3>2
    <3> QED
      BY <3>1, <3>2, <3>3
  <2>3. CASE page \notin DOMAIN pt /\ page \notin Memory
    <3>1. o \in {Outcome(memory, pt, mtime, mtimecmp, Compared(Msip(cores, q, on), mtime, mtimecmp)) :
                    q \in Procs, on \in BOOLEAN}
                \union {Outcome(memory, pt, mtime, cmp, Compared(cores, mtime, cmp)) :
                    cmp \in {[mtimecmp EXCEPT ![q] = t] : q \in Procs, t \in system.times}}
                \union {Outcome(memory, pt, now, mtimecmp, Compared(cores, now, mtimecmp)) :
                    now \in {t \in system.times : t <= system.maxtime}}
      BY <2>3 DEF Outcomes
    <3>2. CASE \E q \in Procs, on \in BOOLEAN :
                 o = Outcome(memory, pt, mtime, mtimecmp, Compared(Msip(cores, q, on), mtime, mtimecmp))
      BY <1>2, <3>2, ComparedAlike DEF Stores
    <3>3. CASE \E cmp \in {[mtimecmp EXCEPT ![q] = t] : q \in Procs, t \in system.times} :
                 o = Outcome(memory, pt, mtime, cmp, Compared(cores, mtime, cmp))
      <4>1. PICK cmp \in {[mtimecmp EXCEPT ![q] = t] : q \in Procs, t \in system.times} :
                 o = Outcome(memory, pt, mtime, cmp, Compared(cores, mtime, cmp))
        BY <3>3
      <4>2. cmp \in [Procs -> Nat]
        BY <1>1 DEF Stores
      <4> QED
        BY <4>1, <4>2, ComparedAlike DEF Stores
    <3>4. CASE \E now \in {t \in system.times : t <= system.maxtime} :
                 o = Outcome(memory, pt, now, mtimecmp, Compared(cores, now, mtimecmp))
      <4>1. PICK now \in {t \in system.times : t <= system.maxtime} :
                 o = Outcome(memory, pt, now, mtimecmp, Compared(cores, now, mtimecmp))
        BY <3>4
      <4>2. now \in 0 .. system.maxtime
        BY <1>1
      <4> QED
        BY <4>1, <4>2, ComparedAlike DEF Stores
    <3> QED
      BY <3>1, <3>2, <3>3, <3>4
  <2> QED
    BY <2>1, <2>2, <2>3
<1> QED
  BY <1>3 DEF Outcome

LEMMA StoredSimple ==
  ASSUME Loops, Stores, system' = system, NEW a, NEW broken, Stored(a, broken)
  PROVE  Simple(a.mmu) /\ Stores'
<1>1. CASE a.fault # "none"
  BY <1>1, SimpleSteps DEF Stored
<1>2. CASE Trap(a.mmu, c, "access")
  BY <1>2, SimpleSteps
<1>3. CASE \E o \in Outcomes(a.page, Advanced(c)) :
             /\ Retire(a.mmu, o.cores) /\ Counted
             /\ memory' = o.memory /\ pt' = o.pt
             /\ mtime' = o.mtime /\ mtimecmp' = o.mtimecmp
  <2>1. PICK o \in Outcomes(a.page, Advanced(c)) :
          /\ Retire(a.mmu, o.cores) /\ Counted
          /\ memory' = o.memory /\ pt' = o.pt /\ mtime' = o.mtime /\ mtimecmp' = o.mtimecmp
    BY <1>3
  <2>2. Alike(Advanced(c))
    BY Advances, FieldStates DEF Advanced
  <2>3. /\ Alike(o.cores)
        /\ o.memory \in [Memory -> Words] /\ o.pt \in system.pts /\ o.mtimecmp \in [Procs -> Nat]
        /\ o.mtime \in 0 .. system.maxtime
    BY <2>2, OutcomesTyped
  <2>4. Simple(a.mmu)
    BY <2>1, <2>3 DEF Simple
  <2> QED
    BY <2>1, <2>3, <2>4, CountedTyped DEF Stores, Procs
<1> QED
  BY <1>1, <1>2, <1>3 DEF Stored



-----------------------------------------------------------------------------
(* What the caches of a hart hold.  A fetched line comes with a translation *)
(* in the TLB, so the two are flushed together.                            *)

Lines == 0 .. ICACHE_ENTRIES - 1
Addresses == Vpns \union system.operands

Tlb(t, d) ==
    \A type \in Types, i \in Indices :
        t[type][i] # None => /\ t[type][i] \in Addresses /\ TlbIndex(t[type][i]) = i
                             /\ d[i] \in Memory
Pages(d) == \A i \in Indices : d[i] \in Memory \union {None}
Icache(t, lines) ==
    /\ lines = [i \in Lines |-> lines[i]]
    /\ \A i \in Lines : lines[i].tag # None =>
          /\ lines[i].tag \in Vpns /\ lines[i].tag % ICACHE_ENTRIES = i
          /\ lines[i].data \in Words /\ t # FlushedTags

Ok(m) == /\ IsMmu(m) /\ m.reservation \in Memory \union {None}
         /\ Tlb(m.tag, m.data) /\ Pages(m.data) /\ Icache(m.tag, m.icache)

(* The hits are what the walk gives: it may depend on the type of access   *)
(* only when mprv makes a data access of another privilege than a fetch.   *)
Hits(t, d, tables, ctx) ==
    ~ctx.mprv => \A type \in Types, vpn \in Nat :
        t[type][TlbIndex(vpn)] = vpn => Walk(tables, vpn, type, ctx) = Found(d[TlbIndex(vpn)])
Matches(m, tables, ctx) == Hits(m.tag, m.data, tables, ctx)

(* The lines are what a walk and the memory give.                          *)
Fetched(line, tables, code, ctx) ==
    /\ Walk(tables, line.tag, "FETCH", ctx).fault = "none"
    /\ line.data = code[Walk(tables, line.tag, "FETCH", ctx).page]
Cached(m, tables, code, ctx) ==
    ~ctx.mprv => \A i \in Lines : m.icache[i].tag # None => Fetched(m.icache[i], tables, code, ctx)

(* n is m after an operation of the hart.                                  *)
Follows(m, n, tables, code, ctx) ==
    Ok(m) => /\ Ok(n)
             /\ Matches(m, tables, ctx) =>
                   /\ Matches(n, tables, ctx)
                   /\ Cached(m, tables, code, ctx) => Cached(n, tables, code, ctx)

LEMMA FollowsTwice ==
  ASSUME NEW tables, NEW code, NEW ctx, NEW m, NEW n, NEW o,
         Follows(m, n, tables, code, ctx), Follows(n, o, tables, code, ctx)
  PROVE  Follows(m, m, tables, code, ctx) /\ Follows(m, o, tables, code, ctx)
BY DEF Follows

(* The access type decides whether an access may pass, not where it goes.  *)
LEMMA WalkPage ==
  ASSUME NEW tables, NEW vpn, NEW ctx, ~ctx.mprv, NEW type, NEW other,
         Walk(tables, vpn, type, ctx).fault = "none",
         Walk(tables, vpn, other, ctx).fault = "none"
  PROVE  Walk(tables, vpn, type, ctx) = Walk(tables, vpn, other, ctx)
<1> DEFINE leaf == LeafEntry(tables, vpn, ctx.satp)
<1> HIDE DEF leaf
<1>1. \A t : Walk(tables, vpn, t, ctx).fault = "none" =>
         Walk(tables, vpn, t, ctx) = IF ctx.prv = "M" \/ ctx.satp = None THEN Found(vpn)
                                     ELSE Found(leaf.pte.ppn + (vpn % 2^leaf.level))
  BY DEF Walk, leaf, EffectiveMode, Found, Fault
<1> QED
  BY <1>1

LEMMA WalkFound ==
  ASSUME NEW tables, NEW vpn, NEW ctx, NEW type
  PROVE  LET w == Walk(tables, vpn, type, ctx) IN w.fault = "none" => w = Found(w.page)
BY DEF Walk, Found, Fault


(* A refill with what a walk found.  Another type of access may share the  *)
(* translation, if its tag was for the same page.                          *)
LEMMA RefillFollows ==
  ASSUME NEW tables, NEW code, NEW ctx, NEW m, NEW vpn \in Nat, vpn \in Addresses,
         NEW type \in Types, NEW page \in Memory,
         Walk(tables, vpn, type, ctx) = Found(page)
  PROVE  Follows(m, RefillTlb(m, vpn, page, type), tables, code, ctx)
<1> SUFFICES ASSUME Ok(m)
    PROVE  LET n == RefillTlb(m, vpn, page, type)
           IN  /\ Ok(n)
               /\ Matches(m, tables, ctx) =>
                     /\ Matches(n, tables, ctx)
                     /\ Cached(m, tables, code, ctx) => Cached(n, tables, code, ctx)
  BY DEF Follows
<1>1. PICK t, d, i, r : m = Mmu(t, d, i, r) /\ TlbArrays(t, d)
  BY DEF Ok, IsMmu
<1> DEFINE idx == TlbIndex(vpn)
           tags == RefilledTags(t, vpn, type)
           pages == [d EXCEPT ![idx] = page]
           n == Mmu(tags, pages, i, r)
<1>2. RefillTlb(m, vpn, page, type) = n /\ TlbArrays(tags, pages)
  BY <1>1, RefillIs
<1>3. m.tag = t /\ m.data = d /\ m.icache = i /\ m.reservation = r
  BY <1>1, MmuFields
<1>4. n.tag = tags /\ n.data = pages /\ n.icache = i /\ n.reservation = r /\ IsMmu(n)
  BY <1>2, MmuFields
<1>5. idx \in Indices /\ tags[type][idx] = vpn /\ pages[idx] = page
  <2>1. idx \in Indices
    BY DEF TlbIndex, Indices
  <2> QED
    BY <1>1, <2>1 DEF TlbArrays, RefilledTags
<1>6. ASSUME NEW y \in Types, NEW k \in Indices
      PROVE  IF k = idx THEN /\ tags[y][k] = IF y = type \/ t[y][k] = vpn THEN vpn ELSE None
                             /\ pages[k] = page
                        ELSE tags[y][k] = t[y][k] /\ pages[k] = d[k]
  BY <1>1, <1>6 DEF TlbArrays, RefilledTags
<1>7. Tlb(tags, pages) /\ Pages(pages)
  <2>1. Tlb(t, d) /\ Pages(d)
    BY <1>3 DEF Ok
  <2>2. TlbIndex(vpn) = idx
    OBVIOUS
  <2> HIDE DEF tags, pages, idx
  <2>3. ASSUME NEW y \in Types, NEW k \in Indices, tags[y][k] # None
        PROVE  tags[y][k] \in Addresses /\ TlbIndex(tags[y][k]) = k /\ pages[k] \in Memory
    BY <1>6, <2>1, <2>2, <2>3 DEF Tlb
  <2>4. ASSUME NEW k \in Indices PROVE pages[k] \in Memory \union {None}
    BY <1>5, <1>6, <2>1, <2>4 DEF Pages
  <2> QED
    BY <2>3, <2>4 DEF Tlb, Pages
<1>8. Icache(tags, i)
  <2>1. tags # FlushedTags
    BY <1>5 DEF FlushedTags, None, Indices
  <2> QED
    BY <1>3, <2>1 DEF Ok, Icache
<1>9. Matches(m, tables, ctx) => Matches(n, tables, ctx)
  <2> SUFFICES ASSUME Hits(t, d, tables, ctx) PROVE Hits(tags, pages, tables, ctx)
    BY <1>3, <1>4 DEF Matches
  <2> SUFFICES ASSUME ~ctx.mprv, NEW y \in Types, NEW v \in Nat, tags[y][TlbIndex(v)] = v
      PROVE  Walk(tables, v, y, ctx) = Found(pages[TlbIndex(v)])
    BY DEF Hits
  <2>1. TlbIndex(v) \in Indices /\ v # None
    BY DEF TlbIndex, Indices, None
  <2>2. CASE TlbIndex(v) # idx
    <3>1. t[y][TlbIndex(v)] = v /\ pages[TlbIndex(v)] = d[TlbIndex(v)]
      BY <1>6, <2>1, <2>2
    <3> QED
      BY <3>1 DEF Hits
  <2>3. CASE TlbIndex(v) = idx
    <3>1. v = vpn /\ pages[TlbIndex(v)] = page /\ (y = type \/ t[y][TlbIndex(v)] = v)
      BY <1>6, <2>1, <2>3
    <3>2. CASE y = type
      BY <3>1, <3>2
    <3>3. CASE t[y][TlbIndex(v)] = v
      <4>1. Walk(tables, v, y, ctx).fault = "none"
        BY <3>3 DEF Hits, Found
      <4>2. Walk(tables, v, type, ctx).fault = "none"
        BY <3>1 DEF Found
      <4>3. Walk(tables, v, y, ctx) = Walk(tables, v, type, ctx)
        BY ONLY ~ctx.mprv, <4>1, <4>2, WalkPage
      <4> QED
        BY <3>1, <4>3
    <3> QED
      BY <3>1, <3>2, <3>3
  <2> QED
    BY <2>2, <2>3
<1>10. Cached(m, tables, code, ctx) => Cached(n, tables, code, ctx)
  BY <1>3, <1>4 DEF Cached
<1>11. Ok(n)
  BY <1>3, <1>4, <1>7, <1>8 DEF Ok
<1> QED
  BY <1>2, <1>9, <1>10, <1>11


LEMMA FlushesFollow ==
  ASSUME NEW tables, NEW code, NEW ctx, NEW m
  PROVE  Follows(m, FlushTlb(m), tables, code, ctx) /\ Follows(m, FlushIcache(m), tables, code, ctx)
<1> SUFFICES ASSUME Ok(m)
    PROVE  Follows(m, FlushTlb(m), tables, code, ctx) /\ Follows(m, FlushIcache(m), tables, code, ctx)
  BY DEF Follows
<1> DEFINE empty == [i \in Lines |-> [tag |-> None, data |-> "none"]]
           tags == FlushedTags
<1>1. PICK t, d, i, r : m = Mmu(t, d, i, r) /\ TlbArrays(t, d)
  BY DEF Ok, IsMmu
<1>2. ASSUME NEW u PROVE FlushIcache(Mmu(u, d, i, r)) = Mmu(u, d, empty, r)
  BY DEF FlushIcache, Mmu, Lines
<1>3. TlbArrays(tags, d)
  BY <1>1 DEF TlbArrays, FlushedTags, Indices
<1>4. /\ \A u : Icache(u, empty)
      /\ Tlb(tags, d)
  BY DEF Icache, Tlb, FlushedTags, Indices
<1>5. Hits(tags, d, tables, ctx)
  <2>1. ASSUME NEW y \in Types, NEW v \in Nat PROVE tags[y][TlbIndex(v)] # v
    BY DEF FlushedTags, None, TlbIndex, Indices
  <2> QED
    BY <2>1 DEF Hits
<1>6. \A i_2 \in Lines : empty[i_2].tag = None
  OBVIOUS
<1> HIDE DEF empty, tags
<1>7. FlushTlb(m) = Mmu(tags, d, empty, r)
  <2>1. [m EXCEPT !.tag = tags] = Mmu(tags, d, i, r)
    BY <1>1, MmuUpdates
  <2>2. FlushTlb(m) = FlushIcache([m EXCEPT !.tag = tags])
    BY DEF FlushTlb, tags
  <2> QED
    BY <1>2, <2>1, <2>2
<1>8. FlushIcache(m) = Mmu(t, d, empty, r)
  BY <1>1, <1>2
<1>9. Tlb(t, d) /\ Pages(d) /\ r \in Memory \union {None}
  BY <1>1, MmuFields DEF Ok
<1>10. /\ Ok(Mmu(tags, d, empty, r)) /\ Ok(Mmu(t, d, empty, r))
       /\ Matches(Mmu(tags, d, empty, r), tables, ctx)
       /\ Matches(m, tables, ctx) => Matches(Mmu(t, d, empty, r), tables, ctx)
  BY <1>1, <1>3, <1>4, <1>5, <1>9, MmuFields DEF Ok, Matches
<1>11. Cached(Mmu(tags, d, empty, r), tables, code, ctx) /\ Cached(Mmu(t, d, empty, r), tables, code, ctx)
  BY <1>6, MmuFields DEF Cached
<1> QED
  BY <1>7, <1>8, <1>10, <1>11 DEF Follows

LEMMA ReservedFollows ==
  ASSUME NEW tables, NEW code, NEW ctx, NEW m, NEW page \in Memory \union {None}
  PROVE  /\ Follows(m, [m EXCEPT !.reservation = page], tables, code, ctx)
         /\ Follows(m, Yield(m), tables, code, ctx)
<1>1. ASSUME Ok(m), NEW x \in Memory \union {None}
      PROVE  Follows(m, [m EXCEPT !.reservation = x], tables, code, ctx)
  <2>1. PICK t, d, i, r : m = Mmu(t, d, i, r) /\ TlbArrays(t, d)
    BY <1>1 DEF Ok, IsMmu
  <2>2. [Mmu(t, d, i, r) EXCEPT !.reservation = x] = Mmu(t, d, i, x)
    BY DEF Mmu
  <2>3. Ok(Mmu(t, d, i, x))
    BY <1>1, <2>1, MmuFields DEF Ok
  <2>4. Matches(m, tables, ctx) => Matches(Mmu(t, d, i, x), tables, ctx)
    BY <2>1, MmuFields DEF Matches
  <2>5. Cached(m, tables, code, ctx) => Cached(Mmu(t, d, i, x), tables, code, ctx)
    BY <2>1, MmuFields DEF Cached
  <2> QED
    BY <2>1, <2>2, <2>3, <2>4, <2>5 DEF Follows
<1> QED
  BY <1>1 DEF Follows, Yield

LEMMA AccessFollows ==
  ASSUME NEW tables, NEW code, NEW ctx, NEW m, NEW vpn \in Nat, vpn \in Addresses,
         NEW type \in Types, NEW a, a = Access(m, tables, vpn, type, ctx)
  PROVE  Follows(m, a.mmu, tables, code, ctx)
<1> DEFINE w == Walk(tables, vpn, type, ctx)
<1>1. \/ a.mmu = m
      \/ a.mmu = RefillTlb(m, vpn, w.page, type) /\ w.page \in Memory /\ w.fault = "none"
  BY DEF Access
<1>2. w.fault = "none" => w = Found(w.page)
  BY WalkFound
<1>3. Follows(m, m, tables, code, ctx)
  BY DEF Follows
<1>4. ASSUME w.page \in Memory, w.fault = "none"
      PROVE  Follows(m, RefillTlb(m, vpn, w.page, type), tables, code, ctx)
  BY <1>2, <1>4, RefillFollows
<1> HIDE DEF w
<1> QED
  BY <1>1, <1>3, <1>4

LEMMA TranslatedFollows ==
  ASSUME NEW tables, NEW code, NEW ctx, NEW m, NEW vpn \in Nat, vpn \in Addresses,
         NEW type \in Types, NEW a, a = Translated(m, tables, vpn, type, ctx)
  PROVE  Follows(m, a.mmu, tables, code, ctx) /\ a.page \in Memory \union {None}
<1> DEFINE w == Walk(tables, vpn, type, ctx)
<1>1. \/ a.mmu = m /\ a.page = None
      \/ /\ a.mmu = RefillTlb(m, vpn, w.page, type) /\ a.page = w.page
         /\ w.page \in Memory /\ w.fault = "none"
  BY DEF Translated
<1>2. w.fault = "none" => w = Found(w.page)
  BY WalkFound
<1>3. Follows(m, m, tables, code, ctx)
  BY DEF Follows
<1>4. ASSUME w.page \in Memory, w.fault = "none"
      PROVE  Follows(m, RefillTlb(m, vpn, w.page, type), tables, code, ctx)
  BY <1>2, <1>4, RefillFollows
<1> HIDE DEF w
<1> QED
  BY <1>1, <1>3, <1>4

LEMMA AtomicsFollow ==
  ASSUME NEW tables, NEW code, NEW ctx, NEW m, NEW vpn \in Nat, vpn \in Addresses
  PROVE  /\ Follows(m, LoadReserved(m, tables, vpn, ctx).mmu, tables, code, ctx)
         /\ Follows(m, StoreConditional(m, tables, vpn, ctx).mmu, tables, code, ctx)
         /\ Follows(m, Amo(m, tables, vpn, ctx).mmu, tables, code, ctx)
<1>1. "LOAD" \in Types /\ "STORE" \in Types
  BY DEF Types
<1>2. Follows(m, LoadReserved(m, tables, vpn, ctx).mmu, tables, code, ctx)
  <2> DEFINE t == Translated(m, tables, vpn, "LOAD", ctx)
             n == [t.mmu EXCEPT !.reservation = t.page]
  <2>1. Follows(m, t.mmu, tables, code, ctx) /\ t.page \in Memory \union {None}
    BY <1>1, TranslatedFollows
  <2>2. Follows(t.mmu, n, tables, code, ctx)
    BY <2>1, ReservedFollows
  <2>3. \/ LoadReserved(m, tables, vpn, ctx) = t
        \/ LoadReserved(m, tables, vpn, ctx) = Access(n, tables, vpn, "LOAD", ctx)
    BY DEF LoadReserved
  <2> HIDE DEF t, n
  <2>4. Follows(n, Access(n, tables, vpn, "LOAD", ctx).mmu, tables, code, ctx)
    BY <1>1, AccessFollows
  <2> QED
    BY <2>1, <2>2, <2>3, <2>4, FollowsTwice
<1>3. Follows(m, StoreConditional(m, tables, vpn, ctx).mmu, tables, code, ctx)
  <2> DEFINE t == Translated(m, tables, vpn, "STORE", ctx)
             s == Access(t.mmu, tables, vpn, "STORE", ctx)
  <2>1. Follows(m, t.mmu, tables, code, ctx)
    BY <1>1, TranslatedFollows
  <2>2. Follows(t.mmu, s.mmu, tables, code, ctx)
    BY <1>1, AccessFollows
  <2>3. \/ StoreConditional(m, tables, vpn, ctx) = t
        \/ StoreConditional(m, tables, vpn, ctx) = [s EXCEPT !.mmu = Yield(@)]
        \/ StoreConditional(m, tables, vpn, ctx) = [mmu |-> Yield(t.mmu), page |-> None, fault |-> "none"]
    BY DEF StoreConditional
  <2>4. PICK x, g, f : s = [mmu |-> x, page |-> g, fault |-> f]
    BY DEF Access
  <2> HIDE DEF t, s
  <2>5. [s EXCEPT !.mmu = Yield(@)].mmu = Yield(s.mmu)
    BY <2>4
  <2>6. Follows(t.mmu, Yield(t.mmu), tables, code, ctx) /\ Follows(s.mmu, Yield(s.mmu), tables, code, ctx)
    BY ReservedFollows
  <2>7. \/ StoreConditional(m, tables, vpn, ctx).mmu = t.mmu
        \/ StoreConditional(m, tables, vpn, ctx).mmu = Yield(s.mmu)
        \/ StoreConditional(m, tables, vpn, ctx).mmu = Yield(t.mmu)
    <3>1. [mmu |-> Yield(t.mmu), page |-> None, fault |-> "none"].mmu = Yield(t.mmu)
      OBVIOUS
    <3> QED
      BY <2>3, <2>5, <3>1, Zenon
  <2>8. Follows(m, s.mmu, tables, code, ctx)
    BY <2>1, <2>2, FollowsTwice
  <2>9. Follows(m, Yield(t.mmu), tables, code, ctx) /\ Follows(m, Yield(s.mmu), tables, code, ctx)
    BY <2>1, <2>6, <2>8, FollowsTwice
  <2> QED
    BY <2>1, <2>7, <2>9
<1>4. Follows(m, Amo(m, tables, vpn, ctx).mmu, tables, code, ctx)
  <2> DEFINE l == Access(m, tables, vpn, "LOAD", ctx)
  <2>1. Follows(m, l.mmu, tables, code, ctx)
    BY <1>1, AccessFollows
  <2>2. \/ Amo(m, tables, vpn, ctx) = l
        \/ Amo(m, tables, vpn, ctx) = Access(l.mmu, tables, vpn, "STORE", ctx)
    BY DEF Amo
  <2> HIDE DEF l
  <2>3. Follows(l.mmu, Access(l.mmu, tables, vpn, "STORE", ctx).mmu, tables, code, ctx)
    BY <1>1, AccessFollows
  <2> QED
    BY <2>1, <2>2, <2>3, FollowsTwice
<1> QED
  BY <1>2, <1>3, <1>4


(* What a fetch finds: a word of memory, and the word of the walk if the   *)
(* TLB matches it.                                                         *)
LEMMA FetchFinds ==
  ASSUME NEW tables, NEW code, code \in [Memory -> Words], NEW ctx, NEW m, Ok(m),
         NEW vpn \in Nat,
         NEW w, w = Walk(tables, vpn, "FETCH", ctx), w.fault = "none" => w.page \in Memory,
         NEW l, l = LoadInsn(m, tables, code, vpn, ctx)
  PROVE  /\ l.fault # "none" => w.fault = l.fault
         /\ l.fault = "none" => /\ l.insn \in Words /\ l.mmu.tag # FlushedTags
                                /\ Matches(m, tables, ctx) /\ ~ctx.mprv =>
                                      w.fault = "none" /\ l.insn = code[w.page]
<1> DEFINE a == Access(m, tables, vpn, "FETCH", ctx)
<1>1. /\ l.mmu = a.mmu /\ l.fault = a.fault
      /\ l.fault = "none" => l.insn = code[a.page]
  BY DEF LoadInsn
<1>2. "FETCH" \in Types /\ TlbIndex(vpn) \in Indices /\ vpn # None
  BY DEF Types, TlbIndex, Indices, None
<1>3. CASE Hit(m, "FETCH", vpn)
  <2>1. a.mmu = m /\ a.page = m.data[TlbIndex(vpn)] /\ a.fault = "none"
    BY <1>3 DEF Access
  <2>2. m.tag["FETCH"][TlbIndex(vpn)] = vpn
    BY <1>3 DEF Hit
  <2>3. a.page \in Memory
    BY <1>2, <2>1, <2>2 DEF Ok, Tlb
  <2>4. m.tag # FlushedTags
    BY <1>2, <2>2 DEF FlushedTags, Indices
  <2>5. Matches(m, tables, ctx) /\ ~ctx.mprv => w = Found(a.page)
    BY <1>2, <2>1, <2>2 DEF Matches, Hits
  <2> HIDE DEF a
  <2> QED
    <3>1. code[a.page] \in Words
      BY <2>3
    <3>2. l.fault = "none" /\ l.insn = code[a.page] /\ l.mmu.tag # FlushedTags
      BY <1>1, <2>1, <2>4
    <3>3. w = Found(a.page) => w.fault = "none" /\ w.page = a.page
      BY DEF Found
    <3> QED
      BY <2>5, <3>1, <3>2, <3>3
<1>4. CASE ~Hit(m, "FETCH", vpn) /\ w.fault # "none"
  <2>1. a.fault = w.fault
    BY <1>4 DEF Access
  <2> QED
    BY <1>1, <1>4, <2>1
<1>5. CASE ~Hit(m, "FETCH", vpn) /\ w.fault = "none"
  <2>1. a = [mmu |-> RefillTlb(m, vpn, w.page, "FETCH"), page |-> w.page, fault |-> "none"]
    BY <1>5 DEF Access
  <2>2. Hit(RefillTlb(m, vpn, w.page, "FETCH"), "FETCH", vpn)
    BY <1>2, RefillKeeps DEF Ok
  <2>3. RefillTlb(m, vpn, w.page, "FETCH").tag # FlushedTags
    BY <1>2, <2>2 DEF FlushedTags, Indices, Hit
  <2>4. code[w.page] \in Words
    BY <1>5
  <2> HIDE DEF a
  <2> QED
    BY <1>1, <1>5, <2>1, <2>3, <2>4
<1> QED
  BY <1>3, <1>4, <1>5

LEMMA FetchFollows ==
  ASSUME NEW tables, NEW code, code \in [Memory -> Words], NEW ctx, NEW m, NEW vpn \in Vpns,
         LET w == Walk(tables, vpn, "FETCH", ctx) IN w.fault = "none" => w.page \in Memory
  PROVE  /\ Follows(m, LoadInsn(m, tables, code, vpn, ctx).mmu, tables, code, ctx)
         /\ Follows(m, AccessIcache(m, tables, code, vpn, ctx).mmu, tables, code, ctx)
<1>0. vpn \in Nat /\ vpn \in Addresses /\ "FETCH" \in Types /\ vpn # None
  <2> DEFINE n == 2^LEVELS
  <2>1. n \in Nat /\ vpn \in 0 .. n - 1
    BY DEF Vpns
  <2> HIDE DEF n
  <2> QED
    BY <2>1 DEF Addresses, Types, None
<1> DEFINE l == LoadInsn(m, tables, code, vpn, ctx)
           w == Walk(tables, vpn, "FETCH", ctx)
           k == vpn % ICACHE_ENTRIES
           line == [tag |-> vpn, data |-> l.insn]
<1>1. Follows(m, l.mmu, tables, code, ctx)
  <2>1. l.mmu = Access(m, tables, vpn, "FETCH", ctx).mmu
    BY DEF LoadInsn
  <2> QED
    BY <1>0, <2>1, AccessFollows
<1> SUFFICES ASSUME Ok(m)
    PROVE  Follows(m, AccessIcache(m, tables, code, vpn, ctx).mmu, tables, code, ctx)
  BY <1>1 DEF Follows
<1>2. /\ k \in Lines
      /\ l.fault = "none" => /\ l.insn \in Words /\ l.mmu.tag # FlushedTags
                             /\ Matches(m, tables, ctx) /\ ~ctx.mprv =>
                                   w.fault = "none" /\ l.insn = code[w.page]
  <2>1. k \in Lines
    BY <1>0 DEF Lines
  <2> QED
    BY <1>0, <2>1, FetchFinds
<1>3. PICK x, f, n : l = [mmu |-> x, fault |-> f, insn |-> n]
  BY DEF LoadInsn
<1>4. Ok(x) /\ Follows(m, x, tables, code, ctx)
  BY <1>1, <1>3 DEF Follows
<1>5. PICK t, d, i, r : x = Mmu(t, d, i, r) /\ TlbArrays(t, d)
  BY <1>4 DEF Ok, IsMmu
<1>6. i = [j \in Lines |-> i[j]]
  BY <1>4, <1>5, MmuFields DEF Ok, Icache
<1> DEFINE filled == [i EXCEPT ![k] = line]
<1> HIDE DEF l, w
<1>7. \/ AccessIcache(m, tables, code, vpn, ctx).mmu = m
      \/ AccessIcache(m, tables, code, vpn, ctx).mmu = x
      \/ l.fault = "none" /\ AccessIcache(m, tables, code, vpn, ctx).mmu = Mmu(t, d, filled, r)
  <2>1. \/ AccessIcache(m, tables, code, vpn, ctx).mmu = m
        \/ AccessIcache(m, tables, code, vpn, ctx) =
              [l EXCEPT !.mmu.icache[k] = IF l.fault = "none" THEN line ELSE @]
    BY DEF AccessIcache, l
  <2>2. CASE AccessIcache(m, tables, code, vpn, ctx) =
              [l EXCEPT !.mmu.icache[k] = IF l.fault = "none" THEN line ELSE @]
    <3>1. x.icache = i
      BY <1>5, MmuFields
    <3> DEFINE e == IF l.fault = "none" THEN line ELSE i[k]
               y == [i EXCEPT ![k] = e]
    <3>2. AccessIcache(m, tables, code, vpn, ctx).mmu = [x EXCEPT !.icache = y]
      BY <1>3, <2>2, <3>1
    <3>3. l.fault # "none" => y = i
      BY <1>2, <1>6
    <3>4. l.fault = "none" => y = filled
      OBVIOUS
    <3> HIDE DEF y, filled
    <3>5. [Mmu(t, d, i, r) EXCEPT !.icache = y] = Mmu(t, d, y, r)
      BY DEF Mmu
    <3> QED
      BY <1>5, <3>2, <3>3, <3>4, <3>5
  <2> QED
    BY <2>1, <2>2
<1>8. Follows(m, m, tables, code, ctx)
  BY DEF Follows
<1>9. ASSUME l.fault = "none" PROVE Follows(m, Mmu(t, d, filled, r), tables, code, ctx)
  <2>1. /\ filled[k] = line /\ DOMAIN filled = Lines
        /\ \A j \in Lines \ {k} : filled[j] = i[j]
        /\ filled = [j \in Lines |-> filled[j]]
    BY <1>2, <1>6
  <2>2. x.tag = t /\ x.data = d /\ x.icache = i /\ x.reservation = r
    BY <1>5, MmuFields
  <2>3. t # FlushedTags /\ n \in Words
    BY <1>2, <1>3, <1>9, <2>2
  <2>4. line.tag = vpn /\ line.data = n
    BY <1>3
  <2> HIDE DEF filled, line
  <2>5. Icache(t, filled)
    <3>1. Icache(t, i)
      BY <1>4, <2>2 DEF Ok
    <3>2. ASSUME NEW j \in Lines, filled[j].tag # None
          PROVE  /\ filled[j].tag \in Vpns /\ filled[j].tag % ICACHE_ENTRIES = j
                 /\ filled[j].data \in Words
      BY <2>1, <2>3, <2>4, <3>1, <3>2 DEF Icache
    <3> QED
      BY <2>1, <2>3, <3>2 DEF Icache
  <2>6. Ok(Mmu(t, d, filled, r))
    BY <1>4, <1>5, <2>2, <2>5, MmuFields DEF Ok
  <2>7. Matches(x, tables, ctx) => Matches(Mmu(t, d, filled, r), tables, ctx)
    BY <2>2, MmuFields DEF Matches
  <2>8. ASSUME Matches(m, tables, ctx), Cached(m, tables, code, ctx)
        PROVE  Cached(Mmu(t, d, filled, r), tables, code, ctx)
    <3> SUFFICES ASSUME ~ctx.mprv, NEW j \in Lines, filled[j].tag # None
        PROVE  Fetched(filled[j], tables, code, ctx)
      BY MmuFields DEF Cached
    <3>1. CASE j = k
      <4>1. w.fault = "none" /\ n = code[w.page] /\ filled[j] = line
        BY <1>2, <1>3, <1>9, <2>1, <2>8, <3>1
      <4> QED
        BY <2>4, <4>1 DEF Fetched, w
    <3>2. CASE j # k
      <4>1. Cached(x, tables, code, ctx)
        BY <1>4, <2>8 DEF Follows
      <4> QED
        BY <2>1, <2>2, <3>2, <4>1 DEF Cached
    <3> QED
      BY <3>1, <3>2
  <2> QED
    BY <1>4, <2>6, <2>7, <2>8 DEF Follows
<1> QED
  BY <1>4, <1>7, <1>8, <1>9


-----------------------------------------------------------------------------
(* The steps of the hart that runs: its registers, the loop and the stores *)
(* keep their types, and its MMU follows the one it had.                   *)

LEMMA Naturals ==
  ASSUME system \in Systems
  PROVE  Vpns \subseteq Nat /\ system.operands \subseteq Nat /\ Addresses \subseteq Nat
<1> DEFINE n == 2^LEVELS
<1>1. n \in Nat
  OBVIOUS
<1> HIDE DEF n
<1>2. 0 .. n - 1 \subseteq Nat
  BY <1>1
<1> QED
  BY <1>2, SystemsAssumption DEF Vpns, Addresses, n

LEMMA CodeInMemory ==
  ASSUME Loops, Stores, NEW q \in Procs, NEW vpn \in Vpns
  PROVE  LET w == Walk(pt, vpn, "FETCH", Context(core[q])) IN w.fault = "none" => w.page \in Memory
<1>1. core[q] \in State /\ core[q].satp \in Satps(system)
  BY DEF Loops, Harts
<1>2. Context(core[q]) \in Registers /\ Context(core[q]).satp \in Satps(system)
  BY <1>1 DEF Context, Registers, State
<1>3. system \in Systems /\ pt \in system.pts
  BY DEF Loops, Stores
<1> QED
  BY <1>2, <1>3, CodeAssumption

Now(m, n) == Follows(m, n, pt, memory, Context(c))
Step(m) == (\E n : Simple(n) /\ Now(m, n)) /\ Stores'

LEMMA NowFollows ==
  ASSUME Loops, NEW m
  PROVE  /\ Now(m, m) /\ Now(m, FlushTlb(m)) /\ Now(m, FlushIcache(m))
         /\ \A vpn \in system.operands :
               /\ \A type \in Types : Now(m, Access(m, pt, vpn, type, Context(c)).mmu)
               /\ Now(m, LoadReserved(m, pt, vpn, Context(c)).mmu)
               /\ Now(m, StoreConditional(m, pt, vpn, Context(c)).mmu)
               /\ Now(m, Amo(m, pt, vpn, Context(c)).mmu)
<1>1. Now(m, m) /\ Now(m, FlushTlb(m)) /\ Now(m, FlushIcache(m))
  BY FlushesFollow DEF Now, Follows
<1>2. ASSUME NEW vpn \in system.operands
      PROVE  /\ \A type \in Types : Now(m, Access(m, pt, vpn, type, Context(c)).mmu)
             /\ Now(m, LoadReserved(m, pt, vpn, Context(c)).mmu)
             /\ Now(m, StoreConditional(m, pt, vpn, Context(c)).mmu)
             /\ Now(m, Amo(m, pt, vpn, Context(c)).mmu)
  <2>1. vpn \in Nat /\ vpn \in Addresses
    BY <1>2, Naturals DEF Loops, Addresses
  <2> QED
    BY <2>1, AccessFollows, AtomicsFollow DEF Now
<1> QED
  BY <1>1, <1>2

LEMMA StoredSteps ==
  ASSUME Loops, Stores, system' = system, NEW m, NEW a, NEW broken,
         Now(m, a.mmu), Stored(a, broken)
  PROVE  Step(m)
BY StoredSimple DEF Step

LEMMA QuietStep ==
  ASSUME Loops, Stores, system' = system, NEW m, NEW n, Now(m, n)
  PROVE  (\E cause : Trap(n, c, cause)) \/ Nop(n) => Step(m)
BY SimpleSteps DEF Step

LEMMA RetireSteps ==
  ASSUME Loops, Stores, system' = system, NEW m, NEW n, Now(m, n), NEW cores, Alike(cores),
         NEW left \in 0 .. INTERLEAVE, Retire(n, cores) \/ Leave(n, cores, 1, left), Counted,
         UNCHANGED <<memory, pt, mtime, mtimecmp>>
  PROVE  Step(m)
<1>1. Simple(n)
  BY DEF Simple
<1>2. Stores'
  BY CountedTyped DEF Stores, Procs
<1> QED
  BY <1>1, <1>2 DEF Step

LEMMA MemoryInstructionsStep ==
  ASSUME Loops, Stores, system' = system, NEW m,
         Load(m) \/ Store(m) \/ AmoInsn(m) \/ Lr(m) \/ Sc(m)
  PROVE  Step(m)
<1>1. "LOAD" \in Types /\ "STORE" \in Types
  BY DEF Types
<1>2. CASE Load(m)
  <2>1. PICK vpn \in system.operands : \E a \in {Access(m, pt, vpn, "LOAD", Context(c))} :
           Trap(a.mmu, c, a.fault) \/ Trap(a.mmu, c, "access") \/ Nop(a.mmu)
    BY <1>2 DEF Load
  <2>2. PICK a : /\ a = Access(m, pt, vpn, "LOAD", Context(c))
                 /\ Trap(a.mmu, c, a.fault) \/ Trap(a.mmu, c, "access") \/ Nop(a.mmu)
    BY <2>1
  <2>3. Now(m, a.mmu)
    BY <1>1, <2>2, NowFollows
  <2> QED
    BY <2>2, <2>3, QuietStep
<1>3. CASE Store(m)
  <2>1. PICK vpn \in system.operands : \E a \in {Access(m, pt, vpn, "STORE", Context(c))} :
           Stored(a, FALSE)
    BY <1>3 DEF Store
  <2>2. PICK a : a = Access(m, pt, vpn, "STORE", Context(c)) /\ Stored(a, FALSE)
    BY <2>1
  <2>3. Now(m, a.mmu)
    BY <1>1, <2>2, NowFollows
  <2> QED
    BY <2>2, <2>3, StoredSteps
<1>4. CASE AmoInsn(m)
  <2>1. PICK vpn \in system.operands : \E a \in {Amo(m, pt, vpn, Context(c))} : Stored(a, FALSE)
    BY <1>4 DEF AmoInsn
  <2>2. PICK a : a = Amo(m, pt, vpn, Context(c)) /\ Stored(a, FALSE)
    BY <2>1
  <2>3. Now(m, a.mmu)
    BY <2>2, NowFollows
  <2> QED
    BY <2>2, <2>3, StoredSteps
<1>5. CASE Lr(m)
  <2>1. PICK vpn \in system.operands : \E a \in {LoadReserved(m, pt, vpn, Context(c))} :
           IF a.fault # "none" THEN Trap(a.mmu, c, a.fault)
           ELSE /\ Retire(a.mmu, Advanced(c)) /\ Counted
                /\ UNCHANGED <<memory, pt, mtime, mtimecmp>>
    BY <1>5 DEF Lr
  <2>2. PICK a : /\ a = LoadReserved(m, pt, vpn, Context(c))
                 /\ IF a.fault # "none" THEN Trap(a.mmu, c, a.fault)
                    ELSE /\ Retire(a.mmu, Advanced(c)) /\ Counted
                         /\ UNCHANGED <<memory, pt, mtime, mtimecmp>>
    BY <2>1
  <2>3. Now(m, a.mmu)
    BY <2>2, NowFollows
  <2>4. Alike(Advanced(c)) /\ 0 \in 0 .. INTERLEAVE
    BY Advances, FieldStates, SystemsAssumption DEF Advanced
  <2> QED
    BY <2>2, <2>3, <2>4, QuietStep, RetireSteps
<1>6. CASE Sc(m)
  <2>1. PICK vpn \in system.operands : \E a \in {StoreConditional(m, pt, vpn, Context(c))} :
           Nop(a.mmu) \/ Stored(a, ~intact[p] \/ a.page # mmu[p].reservation)
    BY <1>6 DEF Sc
  <2>2. PICK a : /\ a = StoreConditional(m, pt, vpn, Context(c))
                 /\ Nop(a.mmu) \/ Stored(a, ~intact[p] \/ a.page # mmu[p].reservation)
    BY <2>1
  <2>3. Now(m, a.mmu)
    BY <2>2, NowFollows
  <2> QED
    BY <2>2, <2>3, QuietStep, StoredSteps
<1> QED
  BY <1>2, <1>3, <1>4, <1>5, <1>6

LEMMA OtherInstructionsStep ==
  ASSUME Loops, Stores, batch, system' = system, NEW m,
         \/ Nop(m) \/ Jal(m) \/ SfenceVma(m) \/ FenceI(m) \/ Wfi(m)
         \/ Ecall(m) \/ MretInsn(m) \/ SretInsn(m)
  PROVE  Step(m)
<1>1. Now(m, m) /\ Now(m, FlushTlb(m)) /\ Now(m, FlushIcache(m))
  BY NowFollows
<1>2. /\ c \in State /\ \A s : Same(c, s) => Alike([core EXCEPT ![p] = s])
      /\ Alike(Advanced(c)) /\ 0 \in 0 .. INTERLEAVE
  BY Advances, FieldStates, SystemsAssumption DEF Advanced
<1>3. CASE Nop(m)
  BY <1>1, <1>3, QuietStep
<1>4. CASE Jal(m)
  <2>1. PICK target \in system.targets : Retire(m, [core EXCEPT ![p].pc = target])
    BY <1>4 DEF Jal
  <2>2. Same(c, [c EXCEPT !.pc = target])
    BY <1>2, FieldStates, SystemsAssumption DEF Loops
  <2>3. Alike([core EXCEPT ![p] = [c EXCEPT !.pc = target]])
    BY <1>2, <2>2
  <2>4. [core EXCEPT ![p].pc = target] = [core EXCEPT ![p] = [c EXCEPT !.pc = target]]
    BY DEF c
  <2>5. Counted /\ UNCHANGED <<memory, pt, mtime, mtimecmp>>
    BY <1>4 DEF Jal, Data
  <2>6. Retire(m, [core EXCEPT ![p] = [c EXCEPT !.pc = target]])
    BY <2>1, <2>4
  <2> QED
    BY <1>1, <1>2, <2>3, <2>5, <2>6, RetireSteps
<1>5. CASE SfenceVma(m)
  BY <1>1, <1>5, QuietStep DEF SfenceVma
<1>6. CASE FenceI(m)
  BY <1>1, <1>6, QuietStep DEF FenceI
<1>7. CASE Wfi(m)
  <2>1. CASE Leave(m, Advanced(c), 1, 0) /\ Counted /\ UNCHANGED Data
    BY <1>1, <1>2, <2>1, RetireSteps DEF Data
  <2> QED
    BY <1>1, <1>7, <2>1, QuietStep DEF Wfi
<1>8. CASE Ecall(m)
  BY <1>1, <1>8, QuietStep DEF Ecall
<1>9. ASSUME NEW s, Same(c, s), Return(m, s) PROVE Step(m)
  <2>1. /\ Leave(m, [core EXCEPT ![p] = s], 1, todo - instret - 1)
        /\ Counted /\ UNCHANGED <<memory, pt, mtime, mtimecmp>>
    BY <1>9 DEF Return, Serialize, Data
  <2>2. PICK left \in 0 .. INTERLEAVE : left = todo - instret - 1
    BY SystemsAssumption DEF Loops
  <2> QED
    BY <1>1, <1>2, <1>9, <2>1, <2>2, RetireSteps
<1>10. CASE MretInsn(m) \/ SretInsn(m)
  BY <1>1, <1>2, <1>9, <1>10, QuietStep, ReturnStates DEF MretInsn, SretInsn
<1> QED
  BY <1>3, <1>4, <1>5, <1>6, <1>7, <1>8, <1>10


(* A CSR instruction, the one that writes satp and minstret.               *)
LEMMA HartsUpdate ==
  ASSUME Loops, NEW s \in State, s.satp \in Satps(system), s.mprv = c.mprv
  PROVE  Harts([core EXCEPT ![p] = s])
BY DEF Loops, Harts, c, p

LEMMA CsrHalves ==
  ASSUME Loops, NEW m, Csr(m)
  PROVE  \/ /\ ~c.serialized /\ UNCHANGED <<Data, executed>>
            /\ Leave(m, [core EXCEPT ![p] = [c EXCEPT !.serialized = TRUE]], 0, todo - instret)
         \/ /\ c.serialized
            /\ Trap(m, [c EXCEPT !.serialized = FALSE], "illegal")
         \/ /\ c.serialized /\ UNCHANGED Data
            /\ \E w \in system.csrs :
                  /\ Leave(Satp(m, w), Advanced(Written([c EXCEPT !.serialized = FALSE], w)),
                           1, todo - instret - 1)
                  /\ IF w.csr = "minstret" THEN executed' = [executed EXCEPT ![p] = w.val]
                                           ELSE Counted
<1>1. CASE ~c.serialized
  <2>1. [core EXCEPT ![p].serialized = TRUE] = [core EXCEPT ![p] = [c EXCEPT !.serialized = TRUE]]
    BY DEF c
  <2>2. Serialize(m, [core EXCEPT ![p].serialized = TRUE], 0) /\ UNCHANGED <<Data, executed>>
    BY <1>1 DEF Csr
  <2>3. todo - instret - 0 = todo - instret
    BY DEF Loops
  <2>4. Leave(m, [core EXCEPT ![p] = [c EXCEPT !.serialized = TRUE]], 0, todo - instret)
    BY <2>1, <2>2, <2>3 DEF Serialize
  <2> QED
    BY <1>1, <2>2, <2>4
<1>2. CASE c.serialized
  <2>1. PICK w \in system.csrs, s \in {[c EXCEPT !.serialized = FALSE]} :
            \/ Trap(m, s, "illegal")
            \/ /\ \E written \in {Written(s, w)} : Serialize(Satp(m, w), Advanced(written), 1)
               /\ IF w.csr = "minstret" THEN executed' = [executed EXCEPT ![p] = w.val]
                                        ELSE Counted
               /\ UNCHANGED Data
    BY <1>2 DEF Csr
  <2>2. s = [c EXCEPT !.serialized = FALSE]
    BY <2>1
  <2> QED
    BY <1>2, <2>1, <2>2 DEF Serialize
<1> QED
  BY <1>1, <1>2

LEMMA CsrSteps ==
  ASSUME Loops, Stores, batch, system' = system, NEW m, Csr(m)
  PROVE  Loops' /\ Stores' /\ \E n : Moves(n) /\ Now(m, n)
<1>1. /\ c \in State /\ c.satp \in Satps(system) /\ p \in Procs
      /\ todo - instret \in 1 .. INTERLEAVE /\ 0 \in 0 .. INTERLEAVE
  BY SystemsAssumption DEF Loops, Harts, c, p
<1>2. Now(m, m) /\ Now(m, FlushTlb(m))
  BY NowFollows
<1> DEFINE s == [c EXCEPT !.serialized = FALSE]
           half == [c EXCEPT !.serialized = TRUE]
<1>3. /\ s \in State /\ s.satp = c.satp /\ s.mprv = c.mprv
      /\ half \in State /\ half.satp = c.satp /\ half.mprv = c.mprv
  BY <1>1, CounterStates
<1> HIDE DEF s, half
<1>4. CASE /\ UNCHANGED <<Data, executed>>
           /\ Leave(m, [core EXCEPT ![p] = half], 0, todo - instret)
  <2>1. PICK left \in 0 .. INTERLEAVE : left = todo - instret
    BY <1>1
  <2>2. Harts([core EXCEPT ![p] = half])
    BY <1>1, <1>3, HartsUpdate
  <2>3. Loops' /\ Moves(m)
    BY <1>4, <2>1, <2>2, LeaveLoops, LoopMoves
  <2> QED
    BY <1>2, <1>4, <2>3 DEF Data, Stores, Procs
<1>5. CASE Trap(m, s, "illegal")
  <2> DEFINE r == TakeTrap(s, "illegal")
  <2>1. /\ UNCHANGED <<Data, executed>>
        /\ Leave(m, [core EXCEPT ![p] = r], 0, 0)
    BY <1>5 DEF Trap
  <2>2. r \in State /\ r.satp = c.satp /\ r.mprv = c.mprv
    BY <1>3, TrapStates DEF Loops, Same
  <2> HIDE DEF r
  <2>3. Harts([core EXCEPT ![p] = r])
    BY <1>1, <2>2, HartsUpdate
  <2>4. Loops' /\ Moves(m)
    BY <1>1, <2>1, <2>3, LeaveLoops, LoopMoves
  <2> QED
    BY <1>2, <2>1, <2>4 DEF Data, Stores, Procs
<1>6. ASSUME NEW w \in system.csrs, UNCHANGED Data,
             Leave(Satp(m, w), Advanced(Written(s, w)), 1, todo - instret - 1),
             IF w.csr = "minstret" THEN executed' = [executed EXCEPT ![p] = w.val] ELSE Counted
      PROVE  Loops' /\ Stores' /\ \E n : Moves(n) /\ Now(m, n)
  <2>1. w \in CsrWrites
    BY SystemsAssumption DEF Loops
  <2>2. PICK r : r = Written(s, w)
    OBVIOUS
  <2>3. r \in State /\ r.mprv = s.mprv /\ (r.satp = IF w.csr = "satp" THEN w.val ELSE s.satp)
    BY <1>3, <2>1, <2>2, WrittenStates
  <2>4. r.satp \in Satps(system)
    BY <1>1, <1>3, <2>3 DEF Satps
  <2>5. PICK y : y = [r EXCEPT !.pc = Next_pc] /\ Same(r, y)
    BY <2>3, Advances, FieldStates
  <2>6. Harts([core EXCEPT ![p] = y])
    BY <1>3, <2>3, <2>4, <2>5, HartsUpdate DEF Same
  <2>7. Leave(Satp(m, w), [core EXCEPT ![p] = y], 1, todo - instret - 1)
    BY <1>6, <2>2, <2>5 DEF Advanced
  <2>8. PICK left \in 0 .. INTERLEAVE : left = todo - instret - 1
    BY <1>1, SystemsAssumption
  <2>9. Loops' /\ Moves(Satp(m, w))
    BY <2>6, <2>7, <2>8, LeaveLoops, LoopMoves
  <2>10. Now(m, Satp(m, w))
    BY <1>2 DEF Satp
  <2>11. executed' \in [Procs -> 0 .. Counts - 1]
    <3>1. CASE w.csr = "minstret"
      <4>1. w.val = 0
        BY <2>1, <3>1 DEF CsrWrites
      <4> QED
        BY <1>6, <3>1, <4>1, SystemsAssumption DEF Stores
    <3> QED
      BY <1>6, <3>1, CountedTyped
  <2>12. Stores'
    BY <1>6, <2>11 DEF Data, Stores, Procs
  <2> QED
    BY <2>9, <2>10, <2>12
<1> QED
  BY <1>4, <1>5, <1>6, CsrHalves DEF s, half

(* An instruction is a CSR instruction or a step as above.                 *)
LEMMA InstructionKinds ==
  ASSUME Loops, Stores, system' = system, Instruction
  PROVE  \E f : /\ f = AccessIcache(mmu[p], pt, memory, c.pc, Context(c))
                /\ \/ f.fault # "none" /\ Step(f.mmu)
                   \/ f.insn # "csr" /\ Step(f.mmu)
                   \/ f.insn = "csr" /\ Csr(f.mmu)
<1>1. PICK f : /\ f = AccessIcache(mmu[p], pt, memory, c.pc, Context(c))
               /\ \/ f.fault # "none" /\ Trap(f.mmu, c, f.fault)
                  \/ f.insn = "csr" /\ Csr(f.mmu)
                  \/ /\ f.insn # "csr"
                     /\ \/ Nop(f.mmu) \/ Jal(f.mmu) \/ SfenceVma(f.mmu) \/ FenceI(f.mmu)
                        \/ Wfi(f.mmu) \/ Ecall(f.mmu) \/ MretInsn(f.mmu) \/ SretInsn(f.mmu)
                  \/ /\ f.insn # "csr"
                     /\ Load(f.mmu) \/ Store(f.mmu) \/ AmoInsn(f.mmu) \/ Lr(f.mmu) \/ Sc(f.mmu)
  BY DEF Instruction
<1>2. Trap(f.mmu, c, f.fault) => Step(f.mmu)
  BY QuietStep, NowFollows
<1>3. batch
  BY DEF Instruction
<1>4. /\ Nop(f.mmu) \/ Jal(f.mmu) \/ SfenceVma(f.mmu) \/ FenceI(f.mmu)
         \/ Wfi(f.mmu) \/ Ecall(f.mmu) \/ MretInsn(f.mmu) \/ SretInsn(f.mmu) => Step(f.mmu)
      /\ Load(f.mmu) \/ Store(f.mmu) \/ AmoInsn(f.mmu) \/ Lr(f.mmu) \/ Sc(f.mmu) => Step(f.mmu)
  BY <1>3, MemoryInstructionsStep, OtherInstructionsStep
<1> QED
  BY <1>1, <1>2, <1>4

(* Every step of the hart that runs.                                       *)
LEMMA HartSteps ==
  ASSUME Loops, Stores, system' = system, Outer \/ Instruction
  PROVE  Loops' /\ Stores' /\ \E n : Moves(n) /\ Now(mmu[p], n)
<1>1. /\ c.pc \in Vpns /\ p \in Procs /\ 0 \in 0 .. INTERLEAVE
      /\ memory \in [Memory -> Words]
      /\ LET w == Walk(pt, c.pc, "FETCH", Context(c)) IN w.fault = "none" => w.page \in Memory
  <2>1. c.pc \in Vpns /\ p \in Procs /\ 0 \in 0 .. INTERLEAVE
    BY SystemsAssumption DEF Loops, Harts, State, c, p
  <2>2. LET w == Walk(pt, c.pc, "FETCH", Context(c)) IN w.fault = "none" => w.page \in Memory
    BY <2>1, CodeInMemory DEF c
  <2> QED
    BY <2>1, <2>2 DEF Stores
<1>2. /\ Now(mmu[p], LoadInsn(mmu[p], pt, memory, c.pc, Context(c)).mmu)
      /\ Now(mmu[p], AccessIcache(mmu[p], pt, memory, c.pc, Context(c)).mmu)
  BY <1>1, FetchFollows DEF Now
<1>3. CASE Outer
  <2>1. PICK l : /\ l = LoadInsn(mmu[p], pt, memory, c.pc, Context(c))
                 /\ \/ \E cause : Trap(l.mmu, c, cause)
                    \/ /\ mmu' = [mmu EXCEPT ![p] = l.mmu] /\ batch' = TRUE
                       /\ UNCHANGED <<core, current_proc, todo, instret, Data, executed>>
    BY <1>3 DEF Outer
  <2>2. Now(mmu[p], l.mmu)
    BY <1>2, <2>1
  <2>3. CASE \E cause : Trap(l.mmu, c, cause)
    <3>1. PICK cause : Trap(l.mmu, c, cause)
      BY <2>3
    <3>2. Stores'
      BY <3>1, SimpleSteps
    <3>3. Leave(l.mmu, [core EXCEPT ![p] = TakeTrap(c, cause)], 0, 0)
      BY <3>1 DEF Trap
    <3>4. Harts([core EXCEPT ![p] = TakeTrap(c, cause)])
      BY Advances, TrapStates, AlikeHarts DEF Loops
    <3> QED
      BY <1>1, <2>2, <3>2, <3>3, <3>4, LeaveLoops, LoopMoves
  <2>4. CASE /\ mmu' = [mmu EXCEPT ![p] = l.mmu] /\ batch' = TRUE
             /\ UNCHANGED <<core, current_proc, todo, instret, Data, executed>>
    <3>1. Moves(l.mmu)
      BY <2>4 DEF Moves
    <3>2. Loops'
      BY <1>3, <2>4 DEF Loops, Harts, Outer, Procs, Satps
    <3>3. Stores'
      BY <2>4 DEF Stores, Data, Procs
    <3> QED
      BY <2>2, <3>1, <3>2, <3>3
  <2> QED
    BY <2>1, <2>3, <2>4
<1>4. CASE Instruction
  <2>1. PICK f : /\ f = AccessIcache(mmu[p], pt, memory, c.pc, Context(c))
                 /\ Step(f.mmu) \/ Csr(f.mmu)
    BY <1>4, InstructionKinds
  <2>2. Now(mmu[p], f.mmu) /\ batch
    BY <1>2, <1>4, <2>1 DEF Instruction
  <2>3. CASE Csr(f.mmu)
    <3>1. Loops' /\ Stores' /\ \E n : Moves(n) /\ Now(f.mmu, n)
      BY <2>2, <2>3, CsrSteps
    <3> QED
      BY <2>2, <3>1, FollowsTwice DEF Now
  <2>4. CASE Step(f.mmu)
    <3>1. PICK n : Simple(n) /\ Now(f.mmu, n)
      BY <2>4 DEF Step
    <3>2. Loops' /\ Moves(n)
      BY <2>2, <3>1, SimpleLoops
    <3>3. Now(mmu[p], n)
      BY <2>2, <3>1, FollowsTwice DEF Now
    <3> QED
      BY <2>4, <3>2, <3>3 DEF Step
  <2> QED
    BY <2>1, <2>3, <2>4
<1> QED
  BY <1>3, <1>4


(* The caches match the tables and the memory for as long as neither       *)
(* changed since they were flushed, nor the registers that a walk reads.   *)
Caches ==
    \A q \in Procs :
        /\ Ok(mmu[q])
        /\ ~tlb_stale[q] => Matches(mmu[q], pt, Context(core[q]))
        /\ ~tlb_stale[q] /\ ~code_stale[q] => Cached(mmu[q], pt, memory, Context(core[q]))

SimInv == Loops /\ Stores /\ DOMAIN mmu = Procs /\ Caches

LEMMA FlushedMatches ==
  ASSUME NEW m, Ok(m), m.tag = FlushedTags, NEW tables, NEW code, NEW ctx
  PROVE  Matches(m, tables, ctx) /\ Cached(m, tables, code, ctx)
<1>1. ASSUME NEW y \in Types, NEW v \in Nat PROVE m.tag[y][TlbIndex(v)] # v
  BY DEF FlushedTags, None, TlbIndex, Indices
<1> QED
  BY <1>1 DEF Matches, Hits, Cached, Ok, Icache

LEMMA CachesKept ==
  ASSUME SimInv, Histories, DOMAIN mmu' = Procs,
         \A q \in Procs : Follows(mmu[q], mmu'[q], pt, memory, Context(core[q]))
  PROVE  Caches'
<1>1. Procs' = Procs
  BY DEF Histories, Procs
<1>2. ASSUME NEW q \in Procs
      PROVE  /\ Ok(mmu[q])'
             /\ ~tlb_stale'[q] => Matches(mmu'[q], pt', Context(core'[q]))
             /\ ~tlb_stale'[q] /\ ~code_stale'[q] => Cached(mmu'[q], pt', memory', Context(core'[q]))
  <2>1. /\ Ok(mmu[q]) /\ Ok(mmu'[q])
        /\ ~tlb_stale[q] => Matches(mmu'[q], pt, Context(core[q]))
        /\ ~tlb_stale[q] /\ ~code_stale[q] => Cached(mmu'[q], pt, memory, Context(core[q]))
    BY <1>2 DEF SimInv, Caches, Follows
  <2>2. Ok(mmu[q])'
    BY <2>1 DEF Ok, Tlb, Addresses, Histories
  <2>3. CASE mmu'[q].tag = FlushedTags
    BY <2>1, <2>2, <2>3, FlushedMatches
  <2>4. CASE mmu'[q].tag # FlushedTags
    <3>1. ~tlb_stale'[q] => ~tlb_stale[q] /\ pt' = pt /\ Context(core'[q]) = Context(core[q])
      BY <1>2, <2>4 DEF Histories
    <3>2. CASE \A i \in Lines : mmu'[q].icache[i].tag = None
      BY <2>1, <2>2, <3>1, <3>2 DEF Cached
    <3>3. CASE ~\A i \in Lines : mmu'[q].icache[i].tag = None
      <4>1. ~code_stale'[q] => ~code_stale[q] /\ memory' = memory
        BY <1>2, <3>3 DEF Histories, Lines
      <4> QED
        BY <2>1, <2>2, <3>1, <4>1
    <3> QED
      BY <3>2, <3>3
  <2> QED
    BY <2>3, <2>4
<1> QED
  BY <1>1, <1>2 DEF Caches

LEMMA HartKeepsSim ==
  ASSUME SimInv, Histories, Outer \/ Instruction
  PROVE  SimInv'
<1>1. system' = system /\ Procs' = Procs /\ p \in Procs
  BY DEF Histories, Procs, SimInv, Loops, p
<1>2. Loops' /\ Stores' /\ \E n : Moves(n) /\ Now(mmu[p], n)
  BY <1>1, HartSteps DEF SimInv
<1>3. PICK n : Moves(n) /\ Now(mmu[p], n)
  BY <1>2
<1>4. DOMAIN mmu' = Procs /\ mmu'[p] = n /\ \A q \in Procs \ {p} : mmu'[q] = mmu[q]
  BY <1>1, <1>3 DEF SimInv, Moves
<1>5. ASSUME NEW q \in Procs
      PROVE  Follows(mmu[q], mmu'[q], pt, memory, Context(core[q]))
  <2>1. CASE q = p
    BY <1>3, <1>4, <2>1 DEF Now, c
  <2>2. CASE q # p
    BY <1>4, <2>2 DEF Follows
  <2> QED
    BY <2>1, <2>2
<1>6. Caches'
  BY <1>4, <1>5, CachesKept
<1> QED
  BY <1>1, <1>2, <1>4, <1>6 DEF SimInv

LEMMA EndQuantumKeepsSim ==
  ASSUME SimInv, Histories, EndQuantum
  PROVE  SimInv'
<1>1. system' = system /\ Procs' = Procs /\ p \in Procs /\ Len(system.cores) \in Nat \ {0}
  BY SystemsAssumption DEF Histories, Procs, SimInv, Loops, p
<1>2. current_proc' \in Procs
  <2> DEFINE n == Len(system.cores)
  <2>1. current_proc' = (current_proc + 1) % n
    BY DEF EndQuantum, p
  <2>2. current_proc \in 0 .. n - 1 /\ n \in Nat \ {0}
    BY <1>1 DEF p, Procs
  <2> HIDE DEF n
  <2>3. (current_proc + 1) % n \in 0 .. n - 1
    BY <2>2
  <2> QED
    BY <2>1, <2>3 DEF Procs, n
<1>3. Harts(core')
  <2>1. \E now : core' = Compared(core, now, mtimecmp) \/ core' = core
    BY DEF EndQuantum
  <2>2. Alike(core) /\ \A now : Alike(Compared(core, now, mtimecmp))
    BY Advances, ComparedAlike DEF SimInv
  <2> QED
    BY <2>1, <2>2, AlikeHarts DEF SimInv
<1>4. Loops'
  <2>1. Harts(core)'
    BY <1>1, <1>3 DEF Harts, Satps
  <2>2. todo' = INTERLEAVE /\ batch' = batch /\ instret' = instret /\ todo = 0
    BY DEF EndQuantum
  <2>3. ~batch /\ instret = 0
    BY <2>2 DEF SimInv, Loops
  <2> QED
    BY <1>1, <1>2, <2>1, <2>2, <2>3, SystemsAssumption DEF SimInv, Loops
<1>5. Stores'
  <2>1. memory' \in [Memory -> Words]
    <3>1. CASE memory' = memory
      BY <3>1 DEF SimInv, Stores
    <3>2. CASE \E page \in Memory \ DOMAIN pt, w \in system.host : memory' = [memory EXCEPT ![page] = w]
      BY <3>2, SystemsAssumption DEF SimInv, Stores, Loops
    <3> QED
      BY <3>1, <3>2 DEF EndQuantum
  <2>2. mtime' \in 0 .. system.maxtime
    <3>1. mtime' = mtime \/ (mtime < system.maxtime /\ mtime' = mtime + 1)
      BY DEF EndQuantum
    <3>2. system.maxtime \in Nat /\ mtime \in 0 .. system.maxtime
      BY SystemsAssumption DEF SimInv, Loops, Stores
    <3> QED
      BY <3>1, <3>2
  <2>3. UNCHANGED <<pt, mtimecmp, executed>>
    BY DEF EndQuantum
  <2> QED
    BY <1>1, <2>1, <2>2, <2>3 DEF SimInv, Stores
<1>6. /\ DOMAIN mmu' = Procs /\ mmu'[p] = Yield(mmu[p])
      /\ \A q \in Procs \ {p} : mmu'[q] = mmu[q]
  BY <1>1 DEF EndQuantum, Preempted, SimInv
<1>7. ASSUME NEW q \in Procs
      PROVE  Follows(mmu[q], mmu'[q], pt, memory, Context(core[q]))
  <2>1. CASE q = p
    <3>1. Follows(mmu[p], Yield(mmu[p]), pt, memory, Context(core[q]))
      BY ReservedFollows
    <3> QED
      BY <1>6, <2>1, <3>1
  <2>2. CASE q # p
    BY <1>6, <2>2 DEF Follows
  <2> QED
    BY <2>1, <2>2
<1>8. Caches'
  BY <1>6, <1>7, CachesKept
<1> QED
  BY <1>1, <1>4, <1>5, <1>6, <1>8 DEF SimInv


LEMMA SimInvHolds == Spec => []SimInv
<1>1. Init => SimInv
  <2> SUFFICES ASSUME Init PROVE SimInv
    OBVIOUS
  <2>1. /\ system \in Systems /\ system.cores \in Seq(State) /\ Len(system.cores) \in Nat \ {0}
        /\ system.maxtime \in Nat /\ INTERLEAVE \in Nat \ {0} /\ Counts \in Nat \ {0}
        /\ memory \in [Memory -> Words] /\ pt \in system.pts
    BY SystemsAssumption DEF Init
  <2>2. ASSUME NEW q \in Procs
        PROVE  /\ core[q] = system.cores[q + 1] /\ core[q] \in State
               /\ core[q].satp \in Satps(system)
    <3>1. q + 1 \in DOMAIN system.cores /\ core[q] = system.cores[q + 1]
      BY <2>1, <2>2 DEF Init, Procs
    <3> QED
      BY <2>1, <3>1 DEF Satps
  <2>3. Harts(core)
    BY <2>2 DEF Harts, Init
  <2>4. Loops
    <3>1. current_proc = 0 /\ todo = INTERLEAVE /\ batch = FALSE /\ instret = 0
      BY DEF Init
    <3>2. 0 \in Procs /\ INTERLEAVE \in 0 .. INTERLEAVE
      BY <2>1 DEF Procs
    <3> QED
      BY <2>1, <2>3, <3>1, <3>2 DEF Loops
  <2>5. Stores
    <3>1. \A q \in Procs : core[q].minstret \in 0 .. Counts - 1
      BY <2>2 DEF State
    <3> QED
      BY <2>1, <3>1 DEF Stores, Init
  <2>6. Ok(MmuInit) /\ MmuInit.tag = FlushedTags
    <3> DEFINE tags == FlushedTags
               pages == [i \in 0 .. TLB_ENTRIES - 1 |-> None]
               empty == [i \in 0 .. ICACHE_ENTRIES - 1 |-> [tag |-> None, data |-> "none"]]
    <3>1. TlbArrays(tags, pages) /\ Tlb(tags, pages) /\ Pages(pages) /\ Icache(tags, empty)
      BY DEF TlbArrays, Tlb, Pages, Icache, Lines, FlushedTags, Indices
    <3>2. ASSUME NEW t, NEW d, NEW x PROVE FlushIcache(Mmu(t, d, x, None)) = Mmu(t, d, empty, None)
      BY DEF FlushIcache, Mmu
    <3>3. MmuInit = FlushIcache([Mmu(tags, pages, <<>>, None) EXCEPT !.tag = tags])
      BY DEF MmuInit, Mmu, FlushTlb
    <3> HIDE DEF tags, pages, empty
    <3>4. [Mmu(tags, pages, <<>>, None) EXCEPT !.tag = tags] = Mmu(tags, pages, <<>>, None)
      BY MmuUpdates
    <3>5. MmuInit = Mmu(tags, pages, empty, None)
      BY <3>2, <3>3, <3>4
    <3> QED
      BY <3>1, <3>5, MmuFields DEF Ok, tags
  <2>7. ASSUME NEW q \in Procs
        PROVE  /\ Ok(mmu[q]) /\ Matches(mmu[q], pt, Context(core[q]))
               /\ Cached(mmu[q], pt, memory, Context(core[q]))
    <3>1. mmu[q] = MmuInit
      BY <2>7 DEF Init
    <3> QED
      BY <2>6, <3>1, FlushedMatches
  <2>8. Caches
    BY <2>7 DEF Caches
  <2> QED
    BY <2>4, <2>5, <2>8 DEF SimInv, Init
<1>2. SimInv /\ [Next]_vars => SimInv'
  <2> SUFFICES ASSUME SimInv, [Next]_vars PROVE SimInv'
    OBVIOUS
  <2>1. CASE UNCHANGED vars
    BY <2>1 DEF SimInv, Loops, Harts, Stores, Caches, Ok, Tlb, Addresses, Satps, vars, loop, Procs
  <2>2. CASE Next
    <3>1. Histories /\ (Outer \/ Instruction \/ EndQuantum)
      BY <2>2 DEF Next
    <3> QED
      BY <3>1, HartKeepsSim, EndQuantumKeepsSim
  <2> QED
    BY <2>1, <2>2
<1> QED
  BY <1>1, <1>2, PTL DEF Spec

(* Types of the simulator's state.                                         *)
THEOREM SpikeTypes == Spec => []SimTypeOK
<1>1. SimInv => SimTypeOK
  <2> SUFFICES ASSUME SimInv PROVE SimTypeOK
    OBVIOUS
  <2>1. ASSUME NEW q \in Procs
        PROVE  /\ mmu[q].reservation \in Memory \union {None}
               /\ \A t \in Types, i \in 0 .. TLB_ENTRIES - 1 :
                     mmu[q].tag[t][i] # None => /\ mmu[q].tag[t][i] \in Vpns \union system.operands
                                                /\ TlbIndex(mmu[q].tag[t][i]) = i
               /\ \A i \in 0 .. TLB_ENTRIES - 1 : mmu[q].data[i] \in Memory \union {None}
               /\ \A i \in 0 .. ICACHE_ENTRIES - 1 :
                     mmu[q].icache[i].tag # None => mmu[q].icache[i].data \in Words
    <3>1. Ok(mmu[q])
      BY DEF SimInv, Caches
    <3> QED
      BY <3>1 DEF Ok, Tlb, Pages, Icache, Lines, Indices, Addresses
  <2>2. instret \in 0 .. INTERLEAVE - 1
    BY SystemsAssumption DEF SimInv, Loops
  <2> QED
    BY <2>1, <2>2 DEF SimInv, Loops, Harts, Stores, SimTypeOK
<1> QED
  BY <1>1, SimInvHolds, PTL

(* No hart has mprv, which makes a data access one of another privilege    *)
(* than a fetch: the two then walk to different pages, but share an entry  *)
(* of the TLB.                                                             *)
Unmodified == \A s \in Systems : \A i \in DOMAIN s.cores : ~s.cores[i].mprv

LEMMA NoMprv ==
  ASSUME Unmodified, SimInv, NEW q \in Procs
  PROVE  Context(core[q]).mprv = FALSE
<1>1. /\ core[q].mprv = system.cores[q + 1].mprv /\ core[q] \in State
      /\ system \in Systems /\ system.cores \in Seq(State) /\ Len(system.cores) \in Nat
  BY SystemsAssumption DEF SimInv, Loops, Harts
<1>2. q + 1 \in DOMAIN system.cores
  BY <1>1 DEF Procs
<1> QED
  BY <1>1, <1>2 DEF Unmodified, Context, State

(* A hit of a TLB is what the walk would give, as long as nothing the walk *)
(* depends on changed since the TLB was flushed (mmu_t::refill_tlb and the *)
(* flushes, mmu.cc), for every system whose harts do not use mprv.         *)
THEOREM HitsAreWalks == Unmodified => (Spec => []HitsMatchWalk)
<1> SUFFICES ASSUME Unmodified PROVE Spec => []HitsMatchWalk
  OBVIOUS
<1>1. SimInv => HitsMatchWalk
  <2> SUFFICES ASSUME SimInv, NEW q \in Procs, NEW type \in Types, NEW vpn \in Vpns,
                      ~tlb_stale[q], Hit(mmu[q], type, vpn)
      PROVE  Walk(pt, vpn, type, Context(core[q])) = Found(mmu[q].data[TlbIndex(vpn)])
    BY DEF HitsMatchWalk
  <2>1. Matches(mmu[q], pt, Context(core[q])) /\ vpn \in Nat
    BY Naturals DEF SimInv, Caches, Loops
  <2>2. ~Context(core[q]).mprv
    BY NoMprv
  <2> QED
    BY <2>1, <2>2 DEF Matches, Hits, Hit
<1> QED
  BY <1>1, SimInvHolds, PTL

(* What the instruction cache gives for an address is what a walk and the  *)
(* memory would, as long as neither changed since it was flushed           *)
(* (mmu_t::access_icache and refill_icache, mmu.h).                        *)
THEOREM FetchesAreFresh == Unmodified => (Spec => []FetchesMatchMemory)
<1> SUFFICES ASSUME Unmodified PROVE Spec => []FetchesMatchMemory
  OBVIOUS
<1>1. SimInv => FetchesMatchMemory
  <2> SUFFICES ASSUME SimInv, NEW q \in Procs, ~tlb_stale[q], ~code_stale[q], NEW vpn \in Vpns
      PROVE  LET f == AccessIcache(mmu[q], pt, memory, vpn, Context(core[q]))
                 w == Walk(pt, vpn, "FETCH", Context(core[q]))
             IN  f.fault = w.fault /\ (w.fault = "none" => f.insn = memory[w.page])
    BY DEF FetchesMatchMemory
  <2> DEFINE m == mmu[q]
             ctx == Context(core[q])
             f == AccessIcache(m, pt, memory, vpn, ctx)
             w == Walk(pt, vpn, "FETCH", ctx)
             l == LoadInsn(m, pt, memory, vpn, ctx)
             k == vpn % ICACHE_ENTRIES
  <2>1. Ok(m) /\ Matches(m, pt, ctx) /\ Cached(m, pt, memory, ctx) /\ ~ctx.mprv
    BY NoMprv DEF SimInv, Caches
  <2>2. vpn \in Nat /\ vpn # None /\ k \in Lines
    BY Naturals DEF SimInv, Loops, None, Lines
  <2>3. memory \in [Memory -> Words] /\ (w.fault = "none" => w.page \in Memory)
    BY CodeInMemory DEF SimInv, Stores
  <2>4. CASE m.icache[k].tag = vpn
    <3>1. Fetched(m.icache[k], pt, memory, ctx)
      BY <2>1, <2>2, <2>4 DEF Cached
    <3>2. f.fault = "none" /\ f.insn = m.icache[k].data
      BY <2>4 DEF AccessIcache
    <3> QED
      BY <2>4, <3>1, <3>2 DEF Fetched
  <2>5. CASE m.icache[k].tag # vpn
    <3>1. /\ l.fault # "none" => w.fault = l.fault
          /\ l.fault = "none" => w.fault = "none" /\ l.insn = memory[w.page]
      BY <2>1, <2>2, <2>3, FetchFinds
    <3>2. PICK x, g, n : l = [mmu |-> x, fault |-> g, insn |-> n]
      BY DEF LoadInsn
    <3>3. PICK e : f = [l EXCEPT !.mmu.icache[k] = e]
      BY <2>5 DEF AccessIcache
    <3> HIDE DEF l, f, w
    <3>4. f.fault = g /\ f.insn = n
      BY <3>2, <3>3
    <3> QED
      BY <3>1, <3>2, <3>4 DEF f, w
  <2> QED
    BY <2>4, <2>5
<1> QED
  BY <1>1, SimInvHolds, PTL


-----------------------------------------------------------------------------
(* Counting.  A batch counts its instructions in instret, and adds them to *)
(* minstret when it ends.                                                  *)

LEMMA Remainders ==
  ASSUME NEW n \in Nat \ {0}, NEW a \in Nat
  PROVE  /\ ((a % n) + 1) % n = (a + 1) % n
         /\ (a % n) \in 0 .. n - 1
<1>1. \A k \in Int, x \in 0 .. n - 1 : (n * k + x) % n = x
  OBVIOUS
<1>2. a = n * (a \div n) + (a % n) /\ (a % n) \in 0 .. n - 1 /\ (a \div n) \in Int
  OBVIOUS
<1>3. PICK k \in Int, x \in 0 .. n - 1 : a = n * k + x /\ x = a % n
  BY <1>2
<1>4. CASE x + 1 < n
  <2>1. a + 1 = n * k + (x + 1) /\ x + 1 \in 0 .. n - 1
    BY <1>3, <1>4
  <2>2. (n * k + (x + 1)) % n = x + 1
    BY <1>1, <2>1
  <2>3. (x + 1) % n = x + 1
    BY <2>1
  <2>4. (a + 1) % n = x + 1
    BY <2>1, <2>2
  <2> QED
    BY <1>2, <1>3, <2>3, <2>4
<1>5. CASE x + 1 = n
  <2>1. a + 1 = n * (k + 1) + 0 /\ 0 \in 0 .. n - 1 /\ k + 1 \in Int
    BY <1>3, <1>5
  <2>2. (n * (k + 1) + 0) % n = 0
    BY <1>1, <2>1
  <2>3. n % n = 0
    OBVIOUS
  <2> QED
    BY <1>2, <1>3, <1>5, <2>1, <2>2, <2>3
<1> QED
  BY <1>2, <1>3, <1>4, <1>5

(* minstret and what the batch has not added to it yet.                    *)
Tally ==
    \A q \in Procs : executed[q] = IF q = current_proc THEN (core[q].minstret + instret) % Counts
                                                       ELSE core[q].minstret

LEMMA LeaveCounts ==
  ASSUME Loops, system' = system, NEW m, NEW cores, Harts(cores),
         NEW n \in {0, 1}, NEW left, Leave(m, cores, n, left)
  PROVE  /\ instret' = 0 /\ todo' = left /\ current_proc' = p
         /\ \A q \in Procs \ {p} : core'[q] = cores[q]
         /\ core'[p].minstret = (cores[p].minstret + (instret + n)) % Counts
         /\ core'[p].mie = cores[p].mie /\ core'[p].satp = cores[p].satp
         /\ core'[p].serialized = cores[p].serialized /\ core'[p].pc = cores[p].pc
<1>1. PICK k \in Nat : k = instret + n
  BY DEF Loops
<1>2. p \in Procs /\ cores[p] \in State /\ DOMAIN cores = Procs
  BY DEF Loops, Harts, p
<1>3. core' = [cores EXCEPT ![p] = Add(cores[p], k)] /\ instret' = 0 /\ todo' = left /\ current_proc' = p
  BY <1>1 DEF Leave, p
<1>4. /\ Add(cores[p], k).minstret = (cores[p].minstret + k) % Counts
      /\ Add(cores[p], k).mie = cores[p].mie /\ Add(cores[p], k).satp = cores[p].satp
      /\ Add(cores[p], k).serialized = cores[p].serialized /\ Add(cores[p], k).pc = cores[p].pc
  <2>1. k \in Nat
    OBVIOUS
  <2> QED
    BY ONLY <1>2, <2>1, CounterStates
<1> QED
  BY <1>1, <1>2, <1>3, <1>4

(* Leaving a batch with the count of the instruction that ends it.         *)
LEMMA LeaveTallies ==
  ASSUME Loops, Tally, Stores, system' = system, NEW m, NEW cores, Harts(cores),
         \A q \in Procs : cores[q].minstret = core[q].minstret,
         NEW n \in {0, 1}, NEW left, Leave(m, cores, n, left),
         IF n = 0 THEN UNCHANGED executed ELSE Counted
  PROVE  Tally'
<1>1. /\ instret' = 0 /\ current_proc' = p
      /\ \A q \in Procs \ {p} : core'[q] = cores[q]
      /\ core'[p].minstret = (core[p].minstret + (instret + n)) % Counts
  <2>1. /\ instret' = 0 /\ current_proc' = p
        /\ \A q \in Procs \ {p} : core'[q] = cores[q]
        /\ core'[p].minstret = (cores[p].minstret + (instret + n)) % Counts
    BY LeaveCounts
  <2>2. cores[p].minstret = core[p].minstret
    BY DEF Loops, p
  <2> QED
    BY <2>1, <2>2
<1>2. /\ p \in Procs /\ core[p].minstret \in Nat /\ instret \in Nat /\ Counts \in Nat \ {0}
      /\ executed \in [Procs -> 0 .. Counts - 1]
  BY SystemsAssumption DEF Loops, Harts, State, p, Stores
<1>3. PICK a \in Nat : a = core[p].minstret + instret
  BY <1>2
<1>4. executed[p] = a % Counts
  BY <1>2, <1>3 DEF Tally, p
<1>5. core[p].minstret + (instret + n) = a + n
  BY <1>2, <1>3
<1>6. executed'[p] = (a + n) % Counts
  <2>1. CASE n = 0
    BY <1>4, <2>1
  <2>2. CASE n = 1
    <3>1. executed'[p] = (executed[p] + 1) % Counts
      BY <1>2, <2>2 DEF Counted
    <3>2. ((a % Counts) + 1) % Counts = (a + 1) % Counts
      BY <1>2, Remainders
    <3> QED
      BY <1>4, <2>2, <3>1, <3>2
  <2> QED
    BY <2>1, <2>2
<1>7. \A q \in Procs \ {p} : executed'[q] = executed[q]
  BY <1>2 DEF Counted
<1>8. (((a + n) % Counts) + 0) % Counts = (a + n) % Counts
  <2>1. PICK b \in 0 .. Counts - 1 : b = (a + n) % Counts
    <3>1. a + n \in Nat
      OBVIOUS
    <3> QED
      BY <1>2, <3>1, Remainders
  <2>2. (b + 0) % Counts = b
    BY <1>2, <2>1
  <2> QED
    BY <2>1, <2>2
<1>9. ASSUME NEW q \in Procs
      PROVE  executed'[q] = IF q = p THEN (core'[q].minstret + 0) % Counts ELSE core'[q].minstret
  <2>1. CASE q = p
    BY <1>1, <1>5, <1>6, <1>8, <2>1
  <2>2. CASE q # p
    BY <1>1, <1>7, <2>2 DEF Tally, p
  <2> QED
    BY <2>1, <2>2
<1> QED
  BY <1>1, <1>9 DEF Tally, Procs

LEMMA RetireTallies ==
  ASSUME Loops, Tally, Stores, batch, system' = system, NEW m, NEW cores, Harts(cores),
         \A q \in Procs : cores[q].minstret = core[q].minstret, Retire(m, cores), Counted
  PROVE  Tally'
<1>1. CASE instret + 1 = todo
  <2>1. Leave(m, cores, 1, 0)
    BY <1>1 DEF Retire
  <2> QED
    BY <2>1, LeaveTallies
<1>2. CASE instret + 1 # todo
  <2>1. core' = cores /\ instret' = instret + 1 /\ current_proc' = p
    BY <1>2 DEF Retire, p
  <2>2. /\ p \in Procs /\ core[p].minstret \in Nat /\ instret \in Nat /\ Counts \in Nat \ {0}
        /\ executed \in [Procs -> 0 .. Counts - 1]
    BY SystemsAssumption DEF Loops, Harts, State, p, Stores
  <2>3. PICK a \in Nat : a = core[p].minstret + instret
    BY <2>2
  <2>4. executed[p] = a % Counts /\ core[p].minstret + (instret + 1) = a + 1
    BY <2>2, <2>3 DEF Tally, p
  <2>5. executed'[p] = (a + 1) % Counts /\ \A q \in Procs \ {p} : executed'[q] = executed[q]
    BY <2>2, <2>4, Remainders DEF Counted
  <2>6. ASSUME NEW q \in Procs
        PROVE  executed'[q] = IF q = p THEN (core'[q].minstret + instret') % Counts ELSE core'[q].minstret
    <3>1. CASE q = p
      BY <2>1, <2>4, <2>5, <3>1
    <3>2. CASE q # p
      BY <2>1, <2>5, <3>2 DEF Tally, p
    <3> QED
      BY <3>1, <3>2
  <2> QED
    BY <2>1, <2>6 DEF Tally, Procs
<1> QED
  BY <1>1, <1>2

LEMMA SimpleTallies ==
  ASSUME Loops, Tally, Stores, batch, system' = system, NEW m, Simple(m)
  PROVE  Tally'
<1>1. PICK cores :
        /\ Alike(cores)
        /\ \/ Leave(m, cores, 0, 0) /\ UNCHANGED executed
           \/ Retire(m, cores) /\ Counted
           \/ \E left \in 0 .. INTERLEAVE : Leave(m, cores, 1, left) /\ Counted
  BY DEF Simple
<1>2. Harts(cores) /\ \A q \in Procs : cores[q].minstret = core[q].minstret
  BY <1>1, AlikeHarts DEF Alike, Same
<1>3. CASE Leave(m, cores, 0, 0) /\ UNCHANGED executed
  BY <1>2, <1>3, LeaveTallies
<1>4. CASE Retire(m, cores) /\ Counted
  BY <1>2, <1>4, RetireTallies
<1>5. CASE \E left \in 0 .. INTERLEAVE : Leave(m, cores, 1, left) /\ Counted
  BY <1>2, <1>5, LeaveTallies
<1> QED
  BY <1>1, <1>3, <1>4, <1>5


(* A write of minstret is exact if nothing comes between the two halves of *)
(* its instruction: no interrupt and no fault of the second fetch.  The    *)
(* second half then finds the instruction in the cache and no count.       *)
WritesMinstret == \E w \in system.csrs : w.csr = "minstret"
Undisturbed ==
    \A s \in Systems : (\E w \in s.csrs : w.csr = "minstret") =>
        /\ \A w \in s.csrs : w.csr \notin {"mie", "satp"}
        /\ \A i \in DOMAIN s.cores : /\ s.cores[i].mie = {} /\ s.cores[i].satp = None
                                     /\ ~s.cores[i].serialized

Half(m, pc) == /\ m.icache[pc % ICACHE_ENTRIES].tag = pc
               /\ m.icache[pc % ICACHE_ENTRIES].data = "csr"
Halves ==
    WritesMinstret => \A q \in Procs :
        /\ core[q].mie = {} /\ core[q].satp = None
        /\ core[q].serialized => /\ q = current_proc /\ instret = 0 /\ todo > 0
                                 /\ Half(mmu[q], core[q].pc)

CountInv == SimInv /\ Tally /\ Halves

LEMMA HalvesKept ==
  ASSUME system' = system,
         \A q \in Procs :
            /\ core'[q].mie = {} /\ core'[q].satp = None
            /\ core'[q].serialized => /\ q = current_proc' /\ instret' = 0 /\ todo' > 0
                                      /\ Half(mmu'[q], core'[q].pc)
  PROVE  Halves'
BY DEF Halves, Procs

LEMMA NotWriting ==
  ASSUME system' = system, ~WritesMinstret
  PROVE  Halves'
BY DEF Halves, WritesMinstret

LEMMA AccessIcacheKept ==
  ASSUME NEW m, IsMmu(m), NEW tables, NEW vpn, NEW type \in Types, NEW ctx
  PROVE  Access(m, tables, vpn, type, ctx).mmu.icache = m.icache
<1> DEFINE w == Walk(tables, vpn, type, ctx)
<1>1. \/ Access(m, tables, vpn, type, ctx).mmu = m
      \/ Access(m, tables, vpn, type, ctx).mmu = RefillTlb(m, vpn, w.page, type)
  BY DEF Access
<1> HIDE DEF w
<1>2. PICK t, d, i, r : m = Mmu(t, d, i, r) /\ TlbArrays(t, d)
  BY DEF IsMmu
<1>3. RefillTlb(m, vpn, w.page, type)
         = Mmu(RefilledTags(t, vpn, type), [d EXCEPT ![TlbIndex(vpn)] = w.page], i, r)
  BY <1>2, RefillIs
<1> QED
  BY <1>1, <1>2, <1>3, MmuFields

(* A fetched CSR instruction stays in the cache, and is what the next      *)
(* fetch of its address finds there.                                       *)
LEMMA CsrFetch ==
  ASSUME NEW m, Ok(m), NEW tables, NEW code, NEW vpn \in Nat, NEW ctx,
         NEW f, f = AccessIcache(m, tables, code, vpn, ctx)
  PROVE  /\ f.insn = "csr" => Half(f.mmu, vpn)
         /\ Half(m, vpn) => f.fault = "none" /\ f.insn = "csr"
<1> DEFINE k == vpn % ICACHE_ENTRIES
           l == LoadInsn(m, tables, code, vpn, ctx)
<1>1. CASE m.icache[k].tag = vpn
  <2>1. f = [mmu |-> m, fault |-> "none", insn |-> m.icache[k].data]
    BY <1>1 DEF AccessIcache
  <2> QED
    BY <1>1, <2>1 DEF Half
<1>2. CASE m.icache[k].tag # vpn
  <2>1. f = [l EXCEPT !.mmu.icache[k] =
                IF l.fault = "none" THEN [tag |-> vpn, data |-> l.insn] ELSE @]
    BY <1>2 DEF AccessIcache
  <2>2. PICK x, g, n : /\ l = [mmu |-> x, fault |-> g, insn |-> n]
                       /\ g # "none" => n = "none"
                       /\ x = Access(m, tables, vpn, "FETCH", ctx).mmu
    BY DEF LoadInsn
  <2>3. IsMmu(x) /\ x.icache = m.icache
    BY <2>2, AccessIcacheKept, AccessKeeps DEF Ok, Types, Keeps
  <2>4. m.icache = [i \in Lines |-> m.icache[i]] /\ k \in Lines
    BY DEF Ok, Icache, Lines
  <2> HIDE DEF l, k
  <2>5. f.insn = n
    BY <2>1, <2>2
  <2>6. CASE g = "none"
    <3> DEFINE y == [m.icache EXCEPT ![k] = [tag |-> vpn, data |-> n]]
    <3>1. y[k].tag = vpn /\ y[k].data = n
      BY <2>4
    <3>2. f.mmu = [x EXCEPT !.icache = y]
      BY <2>1, <2>2, <2>3, <2>6
    <3> HIDE DEF y
    <3>3. f.mmu.icache = y
      <4>1. PICK t, d, i, r : x = Mmu(t, d, i, r)
        BY <2>3 DEF IsMmu
      <4>2. [Mmu(t, d, i, r) EXCEPT !.icache = y] = Mmu(t, d, y, r)
        BY DEF Mmu
      <4> QED
        BY <3>2, <4>1, <4>2, MmuFields
    <3> QED
      BY <1>2, <2>5, <3>1, <3>3 DEF Half, k
  <2>7. CASE g # "none"
    BY <1>2, <2>2, <2>5, <2>7 DEF Half, k
  <2> QED
    BY <2>6, <2>7
<1> QED
  BY <1>1, <1>2

LEMMA SimpleSame ==
  ASSUME Loops, system' = system, NEW m, Simple(m)
  PROVE  \A q \in Procs : /\ core'[q].mie = core[q].mie /\ core'[q].satp = core[q].satp
                          /\ core'[q].serialized = core[q].serialized
<1>1. PICK cores :
        /\ Alike(cores)
        /\ \/ Leave(m, cores, 0, 0) \/ Retire(m, cores)
           \/ \E left \in 0 .. INTERLEAVE : Leave(m, cores, 1, left)
  BY DEF Simple
<1>2. /\ Harts(cores) /\ p \in Procs
      /\ \A q \in Procs : /\ cores[q].mie = core[q].mie /\ cores[q].satp = core[q].satp
                          /\ cores[q].serialized = core[q].serialized
  BY <1>1, AlikeHarts DEF Alike, Same, Loops, p
<1>3. ASSUME NEW n \in {0, 1}, NEW left, Leave(m, cores, n, left)
      PROVE  \A q \in Procs : /\ core'[q].mie = cores[q].mie /\ core'[q].satp = cores[q].satp
                              /\ core'[q].serialized = cores[q].serialized
  <2>1. /\ \A q \in Procs \ {p} : core'[q] = cores[q]
        /\ core'[p].mie = cores[p].mie /\ core'[p].satp = cores[p].satp
        /\ core'[p].serialized = cores[p].serialized
    BY <1>2, <1>3, LeaveCounts
  <2> QED
    BY <2>1
<1>4. Retire(m, cores) => core' = cores \/ Leave(m, cores, 1, 0)
  BY DEF Retire
<1>5. core' = cores \/ \E n \in {0, 1} : \E left : Leave(m, cores, n, left)
  BY <1>1, <1>4
<1> QED
  BY <1>2, <1>3, <1>5


LEMMA OuterCounts ==
  ASSUME CountInv, system' = system, Outer
  PROVE  Tally' /\ Halves'
<1>1. /\ Loops /\ Stores /\ Tally /\ p \in Procs /\ DOMAIN mmu = Procs /\ Procs' = Procs
      /\ c.pc \in Vpns /\ c.pc \in Nat /\ Ok(mmu[p])
  <2>1. Loops /\ Stores /\ Tally /\ p \in Procs /\ DOMAIN mmu = Procs /\ Procs' = Procs
    BY DEF CountInv, SimInv, Loops, p, Procs
  <2>2. c.pc \in Vpns
    BY <2>1 DEF Loops, Harts, State, c
  <2>3. Ok(mmu[p])
    BY <2>1 DEF CountInv, SimInv, Caches
  <2> QED
    BY <2>1, <2>2, <2>3, Naturals DEF Loops
<1>2. PICK l, irqs :
        /\ l = LoadInsn(mmu[p], pt, memory, c.pc, Context(c)) /\ irqs = Enabled(c)
        /\ \/ l.fault # "none" /\ Trap(l.mmu, c, l.fault)
           \/ irqs # {} /\ Trap(l.mmu, c, First(irqs))
           \/ /\ mmu' = [mmu EXCEPT ![p] = l.mmu]
              /\ UNCHANGED <<core, current_proc, todo, instret, executed>>
  BY DEF Outer
<1>3. ASSUME NEW cause, Trap(l.mmu, c, cause) PROVE Tally'
  <2>2. Leave(l.mmu, [core EXCEPT ![p] = TakeTrap(c, cause)], 0, 0) /\ UNCHANGED executed
    BY <1>3 DEF Trap
  <2>3. Alike([core EXCEPT ![p] = TakeTrap(c, cause)])
    BY <1>1, Advances, TrapStates DEF Loops
  <2>4. /\ Harts([core EXCEPT ![p] = TakeTrap(c, cause)])
        /\ \A q \in Procs : [core EXCEPT ![p] = TakeTrap(c, cause)][q].minstret = core[q].minstret
    BY <1>1, <2>3, AlikeHarts DEF Alike, Same
  <2> QED
    BY <1>1, <2>2, <2>4, LeaveTallies
<1>4. ASSUME UNCHANGED <<core, current_proc, instret, executed>> PROVE Tally'
  BY <1>1, <1>4 DEF Tally
<1>5. Tally'
  BY <1>2, <1>3, <1>4
<1>6. CASE WritesMinstret
  <2>1. c.mie = {} /\ c.satp = None
    BY <1>1, <1>6 DEF CountInv, Halves, c
  <2>2. l.fault = "none"
    <3>1. Walk(pt, c.pc, "FETCH", Context(c)).fault = "none"
      BY <2>1 DEF Walk, Context, Found
    <3>2. Access(mmu[p], pt, c.pc, "FETCH", Context(c)).fault = "none"
      BY <3>1 DEF Access
    <3> QED
      BY <1>2, <3>2 DEF LoadInsn
  <2>3. irqs = {}
    BY <1>2, <2>1 DEF Enabled
  <2>4. /\ mmu' = [mmu EXCEPT ![p] = l.mmu]
        /\ UNCHANGED <<core, current_proc, todo, instret>>
    BY <1>2, <2>2, <2>3
  <2>5. l.mmu.icache = mmu[p].icache
    BY <1>1, <1>2, AccessIcacheKept DEF LoadInsn, Ok, Types
  <2>6. ASSUME NEW q \in Procs, core[q].serialized PROVE Half(mmu'[q], core[q].pc)
    <3>1. q = p /\ Half(mmu[p], core[q].pc)
      BY <1>6, <2>6 DEF CountInv, Halves, p
    <3>2. mmu'[q] = l.mmu
      BY <1>1, <2>4, <3>1
    <3> QED
      BY <2>5, <3>1, <3>2 DEF Half
  <2> QED
    BY <1>5, <1>6, <2>4, <2>6, HalvesKept DEF CountInv, Halves
<1>7. CASE ~WritesMinstret
  BY <1>5, <1>7, NotWriting
<1> QED
  BY <1>5, <1>6, <1>7

(* A write of minstret makes up for its own count.                         *)
LEMMA CsrCounts ==
  ASSUME CountInv, Undisturbed, system' = system, batch, NEW m, Csr(m),
         Half(m, c.pc)
  PROVE  Tally' /\ Halves'
<1>1. /\ Loops /\ Stores /\ Tally /\ p \in Procs /\ DOMAIN core = Procs /\ Procs' = Procs
      /\ c \in State /\ c.satp \in Satps(system) /\ Counts \in Nat \ {0, 1} /\ DOMAIN mmu = Procs
  BY SystemsAssumption DEF CountInv, SimInv, Loops, Harts, p, c, Procs
<1> DEFINE s == [c EXCEPT !.serialized = FALSE]
           half == [c EXCEPT !.serialized = TRUE]
<1>2. /\ s \in State /\ s.satp = c.satp /\ s.mprv = c.mprv /\ s.mie = c.mie /\ s.minstret = c.minstret
      /\ ~s.serialized
      /\ half \in State /\ half.satp = c.satp /\ half.mprv = c.mprv /\ half.mie = c.mie
      /\ half.minstret = c.minstret /\ half.pc = c.pc
  BY <1>1, CounterStates
<1>3. WritesMinstret =>
         /\ \A q \in Procs : core[q].mie = {} /\ core[q].satp = None
         /\ \A q \in Procs \ {p} : ~core[q].serialized
         /\ c.mie = {} /\ c.satp = None
         /\ c.serialized => instret = 0
         /\ \A w \in system.csrs : w.csr \notin {"mie", "satp"}
  <2>1. WritesMinstret => \A w \in system.csrs : w.csr \notin {"mie", "satp"}
    BY <1>1 DEF WritesMinstret, Undisturbed, Loops
  <2> QED
    BY <1>1, <2>1 DEF CountInv, Halves, c, p
<1> HIDE DEF s, half
<1>4. ASSUME NEW r \in State, r.satp \in Satps(system), r.mprv = c.mprv,
             NEW n \in {0, 1}, NEW left, NEW x, Leave(x, [core EXCEPT ![p] = r], n, left)
      PROVE  /\ \A q \in Procs \ {p} : core'[q] = core[q]
             /\ core'[p].mie = r.mie /\ core'[p].satp = r.satp
             /\ core'[p].serialized = r.serialized /\ core'[p].pc = r.pc
             /\ core'[p].minstret = (r.minstret + (instret + n)) % Counts
             /\ instret' = 0 /\ current_proc' = p /\ todo' = left /\ mmu' = [mmu EXCEPT ![p] = x]
             /\ r.minstret = c.minstret /\ (IF n = 0 THEN UNCHANGED executed ELSE Counted) => Tally'
  <2>1. Harts([core EXCEPT ![p] = r])
    BY <1>1, <1>4, HartsUpdate
  <2>2. /\ [core EXCEPT ![p] = r][p] = r
        /\ \A q \in Procs \ {p} : [core EXCEPT ![p] = r][q] = core[q]
    BY <1>1
  <2>3. PICK cores : cores = [core EXCEPT ![p] = r]
    OBVIOUS
  <2>4. Harts(cores) /\ Leave(x, cores, n, left)
    BY <1>4, <2>1, <2>3
  <2>5. /\ instret' = 0 /\ todo' = left /\ current_proc' = p
        /\ \A q \in Procs \ {p} : core'[q] = cores[q]
        /\ core'[p].minstret = (cores[p].minstret + (instret + n)) % Counts
        /\ core'[p].mie = cores[p].mie /\ core'[p].satp = cores[p].satp
        /\ core'[p].serialized = cores[p].serialized /\ core'[p].pc = cores[p].pc
    BY <1>1, <2>4, LeaveCounts
  <2>6. mmu' = [mmu EXCEPT ![p] = x]
    BY <2>4 DEF Leave
  <2>7. ASSUME r.minstret = c.minstret, IF n = 0 THEN UNCHANGED executed ELSE Counted PROVE Tally'
    <3>1. \A q \in Procs : cores[q].minstret = core[q].minstret
      BY <2>2, <2>3, <2>7 DEF c
    <3> QED
      BY <1>1, <2>4, <2>7, <3>1, LeaveTallies
  <2> QED
    BY <2>2, <2>3, <2>5, <2>6, <2>7
<1>5. CASE /\ ~c.serialized /\ UNCHANGED <<Data, executed>>
           /\ Leave(m, [core EXCEPT ![p] = half], 0, todo - instret)
  <2>1. /\ \A q \in Procs \ {p} : core'[q] = core[q]
        /\ core'[p].mie = c.mie /\ core'[p].satp = c.satp /\ core'[p].pc = c.pc
        /\ instret' = 0 /\ current_proc' = p /\ todo' = todo - instret /\ mmu' = [mmu EXCEPT ![p] = m]
        /\ Tally'
    BY <1>1, <1>2, <1>4, <1>5
  <2>2. todo' > 0
    BY <1>1, <2>1 DEF Loops
  <2>3. mmu'[p] = m
    BY <1>1, <2>1
  <2>4. CASE WritesMinstret
    <3>1. ASSUME NEW q \in Procs
          PROVE  /\ core'[q].mie = {} /\ core'[q].satp = None
                 /\ core'[q].serialized => /\ q = current_proc' /\ instret' = 0 /\ todo' > 0
                                           /\ Half(mmu'[q], core'[q].pc)
      BY <1>3, <2>1, <2>2, <2>3, <2>4
    <3> QED
      BY <2>1, <3>1, HalvesKept
  <2> QED
    BY <2>1, <2>4, NotWriting
<1>6. CASE c.serialized /\ Trap(m, s, "illegal")
  <2> DEFINE r == TakeTrap(s, "illegal")
  <2>1. r \in State /\ r.satp = s.satp /\ r.mprv = s.mprv /\ r.mie = s.mie
        /\ r.minstret = s.minstret /\ r.serialized = s.serialized
    BY <1>1, <1>2, TrapStates DEF Same, Loops
  <2>2. Leave(m, [core EXCEPT ![p] = r], 0, 0) /\ UNCHANGED executed
    BY <1>6 DEF Trap
  <2> HIDE DEF r
  <2>3. /\ \A q \in Procs \ {p} : core'[q] = core[q]
        /\ core'[p].mie = c.mie /\ core'[p].satp = c.satp /\ ~core'[p].serialized
        /\ Tally'
    BY <1>1, <1>2, <1>4, <2>1, <2>2
  <2> QED
    BY <1>1, <1>3, <2>3, NotWriting, HalvesKept
<1>7. ASSUME NEW w \in system.csrs, c.serialized,
             Leave(Satp(m, w), Advanced(Written(s, w)), 1, todo - instret - 1),
             IF w.csr = "minstret" THEN executed' = [executed EXCEPT ![p] = w.val] ELSE Counted
      PROVE  Tally' /\ Halves'
  <2>1. w \in CsrWrites
    BY <1>1, SystemsAssumption DEF Loops
  <2>2. PICK y : y = Written(s, w)
    OBVIOUS
  <2>3. /\ y \in State /\ y.mprv = s.mprv /\ y.serialized = s.serialized
        /\ y.satp = IF w.csr = "satp" THEN w.val ELSE s.satp
        /\ w.csr # "mie" => y.mie = s.mie
        /\ y.minstret = IF w.csr = "minstret" THEN (w.val + Counts - 1) % Counts ELSE s.minstret
    BY <1>2, <2>1, <2>2, WrittenStates
  <2>4. PICK r : r = [y EXCEPT !.pc = Next_pc] /\ Same(y, r)
    BY <1>1, <2>3, Advances, FieldStates
  <2>5. r.satp \in Satps(system)
    BY <1>1, <1>2, <2>3, <2>4 DEF Satps, Same
  <2>6. Leave(Satp(m, w), [core EXCEPT ![p] = r], 1, todo - instret - 1)
    BY <1>7, <2>2, <2>4 DEF Advanced
  <2>7. /\ \A q \in Procs \ {p} : core'[q] = core[q]
        /\ core'[p].mie = r.mie /\ core'[p].satp = r.satp /\ core'[p].serialized = r.serialized
        /\ core'[p].minstret = (r.minstret + (instret + 1)) % Counts
        /\ instret' = 0 /\ current_proc' = p
        /\ r.minstret = c.minstret /\ Counted => Tally'
    <3>1. r \in State /\ r.mprv = c.mprv
      BY <1>2, <2>3, <2>4 DEF Same
    <3>2. 1 \in {0, 1} /\ 1 # 0
      OBVIOUS
    <3> QED
      BY ONLY <1>4, <2>5, <2>6, <3>1, <3>2
  <2>8. Halves'
    <3>1. CASE WritesMinstret
      BY <1>2, <1>3, <2>3, <2>4, <2>7, <3>1, HalvesKept DEF Same
    <3> QED
      BY <3>1, NotWriting
  <2>9. Tally'
    <3>1. CASE w.csr # "minstret"
      BY <1>2, <1>7, <2>3, <2>4, <2>7, <3>1 DEF Same
    <3>2. CASE w.csr = "minstret"
      <4>1. WritesMinstret
        BY <3>2 DEF WritesMinstret
      <4>2. w.val = 0 /\ instret = 0
        BY <1>3, <1>7, <2>1, <3>2, <4>1 DEF CsrWrites
      <4>3. r.minstret = Counts - 1
        <5>1. r.minstret = (0 + Counts - 1) % Counts
          BY <2>3, <2>4, <3>2, <4>2 DEF Same
        <5> QED
          BY <1>1, <5>1
      <4>4. core'[p].minstret = 0
        <5>1. core'[p].minstret = Counts % Counts
          BY <1>1, <2>7, <4>2, <4>3
        <5> QED
          BY <1>1, <5>1
      <4>5. executed' = [executed EXCEPT ![p] = 0] /\ executed \in [Procs -> 0 .. Counts - 1]
        BY <1>1, <1>7, <3>2, <4>2 DEF Stores
      <4>6. (0 + 0) % Counts = 0
        BY <1>1
      <4>7. ASSUME NEW q \in Procs
            PROVE  executed'[q] = IF q = p THEN (core'[p].minstret + 0) % Counts ELSE core'[q].minstret
        BY <1>1, <2>7, <4>4, <4>5, <4>6, <4>7 DEF Tally, p
      <4> QED
        BY <1>1, <2>7, <4>7 DEF Tally
    <3> QED
      BY <3>1, <3>2
  <2> QED
    BY <2>8, <2>9
<1> QED
  BY <1>1, <1>5, <1>6, <1>7, CsrHalves DEF s, half


LEMMA InstructionCounts ==
  ASSUME CountInv, Undisturbed, system' = system, Instruction
  PROVE  Tally' /\ Halves'
<1>1. /\ Loops /\ Stores /\ Tally /\ p \in Procs /\ DOMAIN mmu = Procs /\ batch
      /\ c.pc \in Nat /\ Ok(mmu[p])
  <2>1. Loops /\ Stores /\ Tally /\ p \in Procs /\ DOMAIN mmu = Procs /\ batch
    BY DEF CountInv, SimInv, Loops, p, Instruction
  <2>2. c.pc \in Vpns
    BY <2>1 DEF Loops, Harts, State, c
  <2>3. Ok(mmu[p])
    BY <2>1 DEF CountInv, SimInv, Caches
  <2> QED
    BY <2>1, <2>2, <2>3, Naturals DEF Loops
<1>2. PICK f : /\ f = AccessIcache(mmu[p], pt, memory, c.pc, Context(c))
               /\ \/ f.fault # "none" /\ Step(f.mmu)
                  \/ f.insn # "csr" /\ Step(f.mmu)
                  \/ f.insn = "csr" /\ Csr(f.mmu)
  BY <1>1, InstructionKinds
<1>3. /\ f.insn = "csr" => Half(f.mmu, c.pc)
      /\ Half(mmu[p], c.pc) => f.fault = "none" /\ f.insn = "csr"
  BY <1>1, <1>2, CsrFetch
<1>4. CASE f.insn = "csr" /\ Csr(f.mmu)
  BY <1>1, <1>3, <1>4, CsrCounts
<1>5. CASE Step(f.mmu) /\ (f.fault # "none" \/ f.insn # "csr")
  <2>1. PICK n : Simple(n)
    BY <1>5 DEF Step
  <2>2. Tally'
    BY <1>1, <2>1, SimpleTallies
  <2>3. \A q \in Procs : /\ core'[q].mie = core[q].mie /\ core'[q].satp = core[q].satp
                         /\ core'[q].serialized = core[q].serialized
    BY <1>1, <2>1, SimpleSame
  <2>4. CASE WritesMinstret
    <3>1. ASSUME NEW q \in Procs
          PROVE  core[q].mie = {} /\ core[q].satp = None /\ ~core[q].serialized
      BY <1>3, <1>5, <2>4, <3>1 DEF CountInv, Halves, p, c
    <3> QED
      BY <2>2, <2>3, <3>1, HalvesKept
  <2>5. CASE ~WritesMinstret
    BY <2>2, <2>5, NotWriting
  <2> QED
    BY <2>4, <2>5
<1> QED
  BY <1>2, <1>4, <1>5

LEMMA EndQuantumCounts ==
  ASSUME CountInv, system' = system, EndQuantum
  PROVE  Tally' /\ Halves'
<1>1. /\ Loops /\ Stores /\ Tally /\ p \in Procs /\ todo = 0 /\ instret = 0 /\ instret' = 0
      /\ executed' = executed /\ Counts \in Nat \ {0} /\ Procs' = Procs
  BY SystemsAssumption DEF CountInv, SimInv, Loops, p, EndQuantum, Procs
<1>2. ASSUME NEW q \in Procs
      PROVE  /\ core'[q].mie = core[q].mie /\ core'[q].satp = core[q].satp
             /\ core'[q].serialized = core[q].serialized /\ core'[q].minstret = core[q].minstret
  <2>1. \E now : core' = Compared(core, now, mtimecmp) \/ core' = core
    BY DEF EndQuantum
  <2>2. Alike(core) /\ \A now : Alike(Compared(core, now, mtimecmp))
    BY <1>1, Advances, ComparedAlike
  <2>3. Alike(core')
    BY <2>1, <2>2
  <2> QED
    BY <2>3 DEF Alike, Same
<1>3. Tally'
  <2>1. ASSUME NEW q \in Procs PROVE (core[q].minstret + 0) % Counts = core[q].minstret
    <3>1. core[q].minstret \in 0 .. Counts - 1
      BY <1>1 DEF Loops, Harts, State
    <3> QED
      BY <1>1, <3>1
  <2>2. ASSUME NEW q \in Procs PROVE executed[q] = core[q].minstret
    BY <1>1, <2>1 DEF Tally
  <2>3. ASSUME NEW q \in Procs
        PROVE  executed'[q] = IF q = current_proc' THEN (core'[q].minstret + 0) % Counts ELSE core'[q].minstret
    BY <1>1, <1>2, <2>1, <2>2
  <2> QED
    BY <1>1, <2>3 DEF Tally
<1>4. CASE WritesMinstret
  <2>1. \A q \in Procs : core[q].mie = {} /\ core[q].satp = None /\ ~core[q].serialized
    BY <1>1, <1>4 DEF CountInv, Halves
  <2> QED
    BY <1>2, <1>3, <2>1, HalvesKept
<1>5. CASE ~WritesMinstret
  BY <1>3, <1>5, NotWriting
<1> QED
  BY <1>4, <1>5

(* Between two batches minstret is the number of instructions executed     *)
(* since it was written, in every system whose programs write it only      *)
(* where nothing comes between the halves of a CSR instruction             *)
(* (processor_t::step, execute.cc, and serialize, decode.h).               *)
THEOREM CountsAreExact == Undisturbed => (Spec => []InstretExact)
<1> SUFFICES ASSUME Undisturbed PROVE Spec => []InstretExact
  OBVIOUS
<1>1. Init /\ SimInv => CountInv
  <2> SUFFICES ASSUME Init, SimInv PROVE Tally /\ Halves
    BY DEF CountInv
  <2>1. ASSUME NEW q \in Procs
        PROVE  /\ core[q] = system.cores[q + 1] /\ q + 1 \in DOMAIN system.cores
               /\ executed[q] = core[q].minstret /\ core[q].minstret \in 0 .. Counts - 1
    <3>1. system \in Systems /\ system.cores \in Seq(State) /\ core[q] \in State
      BY SystemsAssumption DEF SimInv, Loops, Harts
    <3>2. core[q] = system.cores[q + 1] /\ executed[q] = core[q].minstret
      BY DEF Init
    <3>3. Len(system.cores) \in Nat
      BY <3>1
    <3> QED
      BY <3>1, <3>2, <3>3 DEF Procs, State
  <2>2. Tally
    <3>1. ASSUME NEW q \in Procs PROVE (core[q].minstret + 0) % Counts = core[q].minstret
      BY <2>1, SystemsAssumption
    <3>2. instret = 0
      BY DEF Init
    <3> QED
      BY <2>1, <3>1, <3>2 DEF Tally
  <2>3. Halves
    BY <2>1 DEF SimInv, Loops, Halves, WritesMinstret, Undisturbed
  <2> QED
    BY <2>2, <2>3
<1>2. CountInv /\ [Next]_vars /\ SimInv' => CountInv'
  <2> SUFFICES ASSUME CountInv, [Next]_vars PROVE Tally' /\ Halves'
    BY DEF CountInv
  <2>1. CASE UNCHANGED vars
    BY <2>1 DEF CountInv, Tally, Halves, Half, WritesMinstret, vars, loop, Procs
  <2>2. CASE Next
    <3>1. system' = system /\ (Outer \/ Instruction \/ EndQuantum)
      BY <2>2 DEF Next, Histories
    <3> QED
      BY <3>1, OuterCounts, InstructionCounts, EndQuantumCounts
  <2> QED
    BY <2>1, <2>2
<1>3. CountInv => InstretExact
  <2> SUFFICES ASSUME CountInv, ~batch, NEW q \in Procs PROVE core[q].minstret = executed[q]
    BY DEF InstretExact
  <2>1. instret = 0 /\ core[q].minstret \in 0 .. Counts - 1 /\ Counts \in Nat \ {0}
    BY SystemsAssumption DEF CountInv, SimInv, Loops, Harts, State
  <2>2. (core[q].minstret + 0) % Counts = core[q].minstret
    BY <2>1
  <2> QED
    BY <2>1, <2>2 DEF CountInv, Tally
<1> QED
  BY <1>1, <1>2, <1>3, SimInvHolds, PTL DEF Spec

=============================================================================
