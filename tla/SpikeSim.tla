------------------------------ MODULE SpikeSim ------------------------------
(***************************************************************************)
(* The processors of the Spike simulator and the loop that runs them       *)
(* (riscv-isa-sim/riscv): sim_t::step and its quanta (sim.cc),             *)
(* processor_t::step (execute.cc), interrupts, traps and the registers     *)
(* they use (processor.cc), and the CLINT (clint.cc).  One step of this    *)
(* module is one instruction, or what the loops do between two.            *)
(*                                                                         *)
(* An instruction is a word of memory that names its kind; its operands,   *)
(* and the instruction executed after it, are any the program allows.      *)
(* The harts are not in debug mode (see Debug) and log is off.             *)
(***************************************************************************)
EXTENDS SpikeMmu, Sequences

CONSTANTS
    Systems,      \* the systems considered, one of which runs
    Clint,        \* the page of the CLINT
    INTERLEAVE,   \* instructions in a quantum
    Counts        \* counters are modulo this

VARIABLES
    system,                        \* the one that runs, see SystemsAssumption
    mmu, core,                     \* proc -> mmu_t, state_t
    memory, pt,                    \* words; page tables, see SpikeMmu
    mtime, mtimecmp,
    current_proc, todo,            \* n of processor_t::step(n), 0 when it returned
    batch, instret,                \* inside the inner loop; retired in this batch
    executed,                      \* history: proc -> instructions retired
    tlb_stale, code_stale,         \* history: changed since the last flush
    intact, sc_broken              \* history: no other store to the reservation; see ScIsAtomic

loop == <<current_proc, todo, batch, instret>>
vars == <<system, mmu, core, memory, pt, mtime, mtimecmp, loop,
          executed, tlb_stale, code_stale, intact, sc_broken>>

Irqs == {"SSI", "MSI", "MTI"}
Exceptions == {"page", "access", "illegal", "ecall"}
Words == {"nop", "jal", "load", "store", "amo", "lr", "sc", "sfence", "fence.i",
          "csr", "wfi", "ecall", "mret", "sret"}
CsrWrites == [csr : {"satp"}, val : Memory \union {None}]
             \union [csr : {"MIE", "SIE", "sum", "SSIP", "mip"}, val : BOOLEAN]
             \union [csr : {"mie"}, val : SUBSET Irqs]
             \union [csr : {"minstret"}, val : {0}]

State == [pc : Vpns, prv : {"M", "S", "U"}, MPP : {"M", "S", "U"}, SPP : {"S", "U"},
          MIE : BOOLEAN, MPIE : BOOLEAN, SIE : BOOLEAN, SPIE : BOOLEAN,
          mprv : BOOLEAN, sum : BOOLEAN, mxr : BOOLEAN, satp : Memory \union {None},
          mip : SUBSET Irqs, mie : SUBSET Irqs, mepc : Vpns, sepc : Vpns,
          serialized : BOOLEAN, minstret : 0 .. Counts - 1]

\* A system: its harts as the boot code leaves them, its memory and page tables and
\* what its programs and its host may write to them, the operands of the memory
\* instructions, the targets of the branches, the CSR writes, what is delegated, the
\* handlers, the times mtime and mtimecmp are set to, and the bound where mtime stops.
ASSUME SystemsAssumption ==
    /\ Clint \in Nat \ Memory /\ INTERLEAVE \in Nat \ {0}
    /\ Counts \in Nat \ {0, 1}
    /\ \A s \in Systems :
        /\ s.cores \in Seq(State) /\ s.cores # <<>>
        /\ s.memory \in [Memory -> Words] /\ s.words \subseteq Words /\ s.host \subseteq Words
        /\ s.pt \in s.pts
        /\ s.operands \subseteq Nat /\ s.targets \subseteq Vpns /\ s.csrs \subseteq CsrWrites
        /\ s.mideleg \subseteq {"SSI"} /\ s.medeleg \subseteq {"page", "ecall"}
        /\ s.mtvec \in Vpns /\ s.stvec \in Vpns /\ s.times \subseteq Nat /\ s.maxtime \in Nat

\* The values satp may have, and that code is in memory: the boot ROM, the one device
\* that Spike fetches from, is left behind when a system starts.
Satps(s) == {s.cores[i].satp : i \in DOMAIN s.cores}
            \union {w.val : w \in {w \in s.csrs : w.csr = "satp"}}
ASSUME CodeAssumption ==
    \A s \in Systems : \A tables \in s.pts, vpn \in Vpns, r \in {r \in Registers : r.satp \in Satps(s)} :
        LET w == Walk(tables, vpn, "FETCH", r) IN w.fault = "none" => w.page \in Memory

Procs == 0 .. Len(system.cores) - 1
Context(c) == [prv |-> c.prv, mpp |-> c.MPP, mprv |-> c.mprv, sum |-> c.sum,
               mxr |-> c.mxr, satp |-> c.satp]
Rank(prv) == CASE prv = "U" -> 0 [] prv = "S" -> 1 [] prv = "M" -> 3

p == current_proc
c == core[p]

Init ==
    /\ system \in Systems
    /\ mmu = [q \in Procs |-> MmuInit]
    /\ core = [q \in Procs |-> system.cores[q + 1]]
    /\ memory = system.memory /\ pt = system.pt
    /\ mtime = 0 /\ mtimecmp = [q \in Procs |-> system.maxtime + 1]
    /\ current_proc = 0 /\ todo = INTERLEAVE
    /\ batch = FALSE /\ instret = 0
    /\ executed = [q \in Procs |-> core[q].minstret]
    /\ tlb_stale = [q \in Procs |-> FALSE] /\ code_stale = tlb_stale
    /\ intact = [q \in Procs |-> TRUE] /\ sc_broken = FALSE

-----------------------------------------------------------------------------
(* Traps. *)

\* take_interrupt(): the one to take, "none" when none is pending and enabled.
First(irqs) == CASE "SSI" \in irqs -> "SSI" [] "MSI" \in irqs -> "MSI"
                 [] irqs = {"MTI"} -> "MTI" [] irqs = {} -> "none"
Enabled(s) ==
    LET pending == s.mip \intersect s.mie
        ofM == IF s.prv # "M" \/ s.MIE THEN pending \ system.mideleg ELSE {}
        ofS == IF s.prv = "U" \/ (s.prv = "S" /\ s.SIE)
               THEN pending \intersect system.mideleg ELSE {}
    IN  IF ofM # {} THEN ofM ELSE ofS

\* take_trap() for state s, which stops at s.pc.
TakeTrap(s, cause) ==
    IF s.prv # "M" /\ cause \in system.mideleg \union system.medeleg
                   /\ ~(cause = "ecall" /\ s.prv = "S")
    THEN [s EXCEPT !.pc = system.stvec, !.sepc = s.pc, !.SPIE = s.SIE, !.SPP = s.prv,
                   !.SIE = FALSE, !.prv = "S"]
    ELSE [s EXCEPT !.pc = system.mtvec, !.mepc = s.pc, !.MPIE = s.MIE, !.MPP = s.prv,
                   !.MIE = FALSE, !.prv = "M"]

Mret(s) == [s EXCEPT !.pc = s.mepc, !.MIE = s.MPIE, !.MPIE = TRUE, !.MPP = "U", !.prv = s.MPP]
Sret(s) == [s EXCEPT !.pc = s.sepc, !.SIE = s.SPIE, !.SPIE = TRUE, !.SPP = "U", !.prv = s.SPP]

-----------------------------------------------------------------------------
(* The loop of processor_t::step().  cores is core after the instruction;  *)
(* m is the MMU of the hart after it.                                      *)

Add(s, n) == [s EXCEPT !.minstret = (@ + n) % Counts]

\* The batch ends with n more instructions retired and left ones to execute.
Leave(m, cores, n, left) ==
    /\ mmu' = [mmu EXCEPT ![p] = m]
    /\ core' = [cores EXCEPT ![p] = Add(@, instret + n)]
    /\ todo' = left /\ batch' = FALSE /\ instret' = 0
    /\ UNCHANGED current_proc

Retire(m, cores) ==
    IF instret + 1 = todo THEN Leave(m, cores, 1, 0)
    ELSE /\ mmu' = [mmu EXCEPT ![p] = m]
         /\ core' = cores
         /\ instret' = instret + 1
         /\ UNCHANGED <<current_proc, todo, batch>>

Serialize(m, cores, n) == Leave(m, cores, n, todo - instret - n)

Counted == executed' = [executed EXCEPT ![p] = (@ + 1) % Counts]
Data == <<memory, pt, mtime, mtimecmp, intact, sc_broken>>

\* Mutant: the instruction that trapped is counted.
Trap_Counts(m, s, cause) ==
    /\ Leave(m, [core EXCEPT ![p] = TakeTrap(s, cause)], 1, 0)
    /\ UNCHANGED <<Data, executed>>

\* An exception or an interrupt in state s: step() returns.
Trap(m, s, cause) ==
    /\ Leave(m, [core EXCEPT ![p] = TakeTrap(s, cause)], 0, 0)
    /\ UNCHANGED <<Data, executed>>

\* Mutant: no instruction lets an interrupt in.
Interruptible_Never(insn) == FALSE

\* (bits & 0x2f) != 0x2f: meant for the atomics, it also holds back a jal.
Interruptible(insn) == insn \notin {"amo", "lr", "sc", "jal"}

\* The top of the outer loop: the instruction at pc is fetched, and an interrupt taken.
Outer ==
    /\ todo > 0 /\ ~batch
    /\ \E l \in {LoadInsn(mmu[p], pt, memory, c.pc, Context(c))}, irqs \in {Enabled(c)} :
        IF l.fault # "none" THEN Trap(l.mmu, c, l.fault)
        ELSE IF Interruptible(l.insn) /\ irqs # {} THEN Trap(l.mmu, c, First(irqs))
        ELSE /\ mmu' = [mmu EXCEPT ![p] = l.mmu]
             /\ batch' = TRUE
             /\ UNCHANGED <<core, current_proc, todo, instret, Data, executed>>

-----------------------------------------------------------------------------
(* The instructions: one iteration of the inner loop each, in which m is   *)
(* the MMU after the fetch.                                                *)

Next_pc == (c.pc + 1) % 2^LEVELS
Advanced(s) == [core EXCEPT ![p] = [s EXCEPT !.pc = Next_pc]]

Nop(m) == Retire(m, Advanced(c)) /\ Counted /\ UNCHANGED Data

Jal(m) == /\ \E target \in system.targets : Retire(m, [core EXCEPT ![p].pc = target])
          /\ Counted /\ UNCHANGED Data

\* A load goes to memory or to a device that has a register at its offset.
Load(m) ==
    \E vpn \in system.operands : \E a \in {Access(m, pt, vpn, "LOAD", Context(c))} :
        IF a.fault # "none" THEN Trap(a.mmu, c, a.fault)
        ELSE \/ a.page \notin Memory /\ Trap(a.mmu, c, "access")
             \/ a.page \in Memory \union {Clint} /\ Nop(a.mmu)

Lr(m) ==
    \E vpn \in system.operands : \E a \in {LoadReserved(m, pt, vpn, Context(c))} :
        IF a.fault # "none" THEN Trap(a.mmu, c, a.fault)
        ELSE /\ Retire(a.mmu, Advanced(c)) /\ Counted
             /\ intact' = [intact EXCEPT ![p] = TRUE]
             /\ UNCHANGED <<memory, pt, mtime, mtimecmp, sc_broken>>

\* clint_t::increment(): MTIP follows the comparison in every hart.
Compared(cores, now, cmp) ==
    [q \in Procs |-> [cores[q] EXCEPT !.mip =
        (@ \ {"MTI"}) \union (IF now >= cmp[q] THEN {"MTI"} ELSE {})]]

Msip(cores, q, on) == [cores EXCEPT ![q].mip = IF on THEN @ \union {"MSI"} ELSE @ \ {"MSI"}]

\* What a store to a page may do: another word, another entry of a page table, or
\* msip or mtimecmp of a hart, or mtime.
Outcome(words, tables, now, cmp, cores) ==
    [memory |-> words, pt |-> tables, mtime |-> now, mtimecmp |-> cmp, cores |-> cores]
Outcomes(page, cores) ==
    IF page \in DOMAIN pt
    THEN {Outcome(memory, t, mtime, mtimecmp, cores) :
             t \in {t \in system.pts : \A q \in DOMAIN pt \ {page} : t[q] = pt[q]}}
    ELSE IF page \in Memory
    THEN {Outcome([memory EXCEPT ![page] = w], pt, mtime, mtimecmp, cores) : w \in system.words}
    ELSE {Outcome(memory, pt, mtime, mtimecmp, Compared(Msip(cores, q, on), mtime, mtimecmp)) :
             q \in Procs, on \in BOOLEAN}
         \union {Outcome(memory, pt, mtime, cmp, Compared(cores, mtime, cmp)) :
             cmp \in {[mtimecmp EXCEPT ![q] = t] : q \in Procs, t \in system.times}}
         \union {Outcome(memory, pt, now, mtimecmp, Compared(cores, now, mtimecmp)) :
             now \in {t \in system.times : t <= system.maxtime}}

\* The store of an instruction whose access is a; broken says that it should have failed.
Stored(a, broken) ==
    IF a.fault # "none" THEN Trap(a.mmu, c, a.fault)
    ELSE \/ a.page \notin Memory /\ Trap(a.mmu, c, "access")
         \/ /\ a.page \in Memory \union {Clint}
            /\ \E o \in Outcomes(a.page, Advanced(c)) :
                  /\ Retire(a.mmu, o.cores) /\ Counted
                  /\ memory' = o.memory /\ pt' = o.pt
                  /\ mtime' = o.mtime /\ mtimecmp' = o.mtimecmp
            /\ intact' = [q \in Procs |-> intact[q] /\ (q = p \/ mmu[q].reservation # a.page)]
            /\ sc_broken' = (sc_broken \/ broken)

Store(m) == \E vpn \in system.operands :
                \E a \in {Access(m, pt, vpn, "STORE", Context(c))} : Stored(a, FALSE)

AmoInsn(m) == \E vpn \in system.operands :
                \E a \in {Amo(m, pt, vpn, Context(c))} : Stored(a, FALSE)

Sc(m) == \E vpn \in system.operands : \E a \in {StoreConditional(m, pt, vpn, Context(c))} :
            IF a.fault = "none" /\ a.page = None THEN Nop(a.mmu)
            ELSE Stored(a, ~intact[p] \/ a.page # mmu[p].reservation)

Privileged(floor) == Rank(c.prv) >= Rank(floor)

SfenceVma(m) == IF Privileged("S") THEN Nop(FlushTlb(m)) ELSE Trap(m, c, "illegal")

FenceI(m) == Nop(FlushIcache(m))

\* The other instructions of the quantum are not executed.
Wfi(m) == IF Privileged("S") THEN Leave(m, Advanced(c), 1, 0) /\ Counted /\ UNCHANGED Data
                             ELSE Trap(m, c, "illegal")

Ecall(m) == Trap(m, c, "ecall")

Return(m, s) == Serialize(m, [core EXCEPT ![p] = s], 1) /\ Counted /\ UNCHANGED Data
MretInsn(m) == IF Privileged("M") THEN Return(m, Mret(c)) ELSE Trap(m, c, "illegal")
SretInsn(m) == IF Privileged("S") THEN Return(m, Sret(c)) ELSE Trap(m, c, "illegal")

\* set_csr(): the write of w in state s.  A write of minstret makes up for the count of
\* the instruction that does it.
Written(s, w) ==
    CASE w.csr = "satp" -> [s EXCEPT !.satp = w.val]
      [] w.csr = "MIE"  -> [s EXCEPT !.MIE = w.val]
      [] w.csr = "SIE"  -> [s EXCEPT !.SIE = w.val]
      [] w.csr = "sum"  -> [s EXCEPT !.sum = w.val]
      [] w.csr = "mie"  -> [s EXCEPT !.mie = w.val]
      [] w.csr = "SSIP" -> [s EXCEPT !.mip =
            IF "SSI" \notin system.mideleg THEN @
            ELSE IF w.val THEN @ \union {"SSI"} ELSE @ \ {"SSI"}]
      [] w.csr = "mip" -> [s EXCEPT !.mip =
            IF w.val THEN @ \union {"SSI"} ELSE @ \ {"SSI"}]
      [] w.csr = "minstret" -> [s EXCEPT !.minstret = (w.val + Counts - 1) % Counts]

CsrPrivilege(csr) == IF csr \in {"MIE", "mie", "mip", "minstret"} THEN "M" ELSE "S"

\* Writing satp flushes the TLB.
Satp(m, w) == IF w.csr = "satp" THEN FlushTlb(m) ELSE m

\* A CSR instruction ends the batch before it, so that minstret is up to date, then
\* executes and ends the batch again.
Csr(m) ==
    \/ /\ ~c.serialized
       /\ Serialize(m, [core EXCEPT ![p].serialized = TRUE], 0)
       /\ UNCHANGED <<Data, executed>>
    \/ /\ c.serialized
       /\ \E w \in system.csrs, s \in {[c EXCEPT !.serialized = FALSE]} :
            IF ~Privileged(CsrPrivilege(w.csr)) THEN Trap(m, s, "illegal")
            ELSE /\ \E written \in {Written(s, w)} : Serialize(Satp(m, w), Advanced(written), 1)
                 /\ IF w.csr = "minstret" THEN executed' = [executed EXCEPT ![p] = w.val]
                                          ELSE Counted
                 /\ UNCHANGED Data

Instruction ==
    /\ todo > 0 /\ batch
    /\ \E f \in {AccessIcache(mmu[p], pt, memory, c.pc, Context(c))} :
        \/ f.fault # "none" /\ Trap(f.mmu, c, f.fault)
        \/ f.insn = "nop"     /\ Nop(f.mmu)
        \/ f.insn = "jal"     /\ Jal(f.mmu)
        \/ f.insn = "load"    /\ Load(f.mmu)
        \/ f.insn = "store"   /\ Store(f.mmu)
        \/ f.insn = "amo"     /\ AmoInsn(f.mmu)
        \/ f.insn = "lr"      /\ Lr(f.mmu)
        \/ f.insn = "sc"      /\ Sc(f.mmu)
        \/ f.insn = "sfence"  /\ SfenceVma(f.mmu)
        \/ f.insn = "fence.i" /\ FenceI(f.mmu)
        \/ f.insn = "csr"     /\ Csr(f.mmu)
        \/ f.insn = "wfi"     /\ Wfi(f.mmu)
        \/ f.insn = "ecall"   /\ Ecall(f.mmu)
        \/ f.insn = "mret"    /\ MretInsn(f.mmu)
        \/ f.insn = "sret"    /\ SretInsn(f.mmu)

-----------------------------------------------------------------------------
(* sim_t::step(): the next hart, the clock after a round, and the host,    *)
(* which may write a word while the target waits for it.                   *)

\* Mutant: the hart keeps its reservation.
Preempted_Reserved(q) == mmu
Preempted(q) == [mmu EXCEPT ![q] = Yield(@)]

EndQuantum ==
    LET next  == (p + 1) % Len(system.cores)
        now   == IF next = 0 /\ mtime < system.maxtime THEN mtime + 1 ELSE mtime
    IN  /\ todo = 0
        /\ mmu' = Preempted(p)
        /\ current_proc' = next /\ todo' = INTERLEAVE
        /\ mtime' = now
        /\ core' = IF next = 0 THEN Compared(core, now, mtimecmp) ELSE core
        /\ \/ UNCHANGED <<memory, intact>>
           \/ \E page \in Memory \ DOMAIN pt, w \in system.host :
                /\ memory' = [memory EXCEPT ![page] = w]
                /\ intact' = [q \in Procs |-> intact[q] /\ mmu[q].reservation # page]
        /\ UNCHANGED <<pt, mtimecmp, batch, instret, executed, sc_broken>>

-----------------------------------------------------------------------------
(* The specification. *)

\* A translation or a word of code changed under what the caches of the hart hold.
Histories ==
    /\ system' = system
    /\ tlb_stale' = [q \in Procs |-> /\ mmu'[q].tag # FlushedTags
                                     /\ \/ tlb_stale[q] \/ pt' # pt
                                        \/ Context(core'[q]) # Context(core[q])]
    /\ code_stale' = [q \in Procs |->
            /\ \E i \in 0 .. ICACHE_ENTRIES - 1 : mmu'[q].icache[i].tag # None
            /\ code_stale[q] \/ memory' # memory]

Next == (Outer \/ Instruction \/ EndQuantum) /\ Histories

Spec == Init /\ [][Next]_vars

\* main() loops for as long as the simulation lasts.
FairSpec == Spec /\ WF_vars(Next)

-----------------------------------------------------------------------------
(* Properties. *)

\* Type invariant.
SimTypeOK ==
    /\ DOMAIN core = Procs /\ \A q \in Procs : core[q] \in State
    /\ memory \in [Memory -> Words] /\ pt \in system.pts
    /\ mtime \in 0 .. system.maxtime /\ mtimecmp \in [Procs -> Nat]
    /\ current_proc \in Procs /\ todo \in 0 .. INTERLEAVE
    /\ batch \in BOOLEAN /\ instret \in 0 .. INTERLEAVE - 1
    /\ executed \in [Procs -> 0 .. Counts - 1]
    /\ \A q \in Procs :
        /\ mmu[q].reservation \in Memory \union {None}
        /\ \A t \in Types, i \in 0 .. TLB_ENTRIES - 1 :
              mmu[q].tag[t][i] # None => mmu[q].tag[t][i] \in Vpns \union system.operands /\ TlbIndex(mmu[q].tag[t][i]) = i
        /\ \A i \in 0 .. TLB_ENTRIES - 1 : mmu[q].data[i] \in Memory \union {None}
        /\ \A i \in 0 .. ICACHE_ENTRIES - 1 :
              mmu[q].icache[i].tag # None => mmu[q].icache[i].data \in Words

\* As long as no page table and no register that translation depends on changed since a
\* hart filled its TLB, every hit of the TLB gives what the walk would: the tags of the
\* three types of access may share one translation only if they are for the same page.
HitsMatchWalk ==
    \A q \in Procs, type \in Types, vpn \in Vpns :
        ~tlb_stale[q] /\ Hit(mmu[q], type, vpn)
            => Walk(pt, vpn, type, Context(core[q])) = Found(mmu[q].data[TlbIndex(vpn)])

\* If the code did not change either since the instruction cache was filled, what the
\* cache gives for an address is what a walk and the memory would, fault included: an
\* entry is the one of its address, and no entry is left by a fetch that failed.
FetchesMatchMemory ==
    \A q \in Procs : ~tlb_stale[q] /\ ~code_stale[q] =>
        \A vpn \in Vpns :
            LET f == AccessIcache(mmu[q], pt, memory, vpn, Context(core[q]))
                w == Walk(pt, vpn, "FETCH", Context(core[q]))
            IN  f.fault = w.fault /\ (w.fault = "none" => f.insn = memory[w.page])

\* A store conditional succeeds only if nobody else, hart or host, stored to the page
\* since the load that reserved it, and it stores to that page: the reservation is not
\* watched, it is given up whenever another actor may run.
ScIsAtomic == ~sc_broken

\* Between two batches minstret is the number of instructions executed since it was
\* written: a trap, a CSR access and wfi each leave a batch with their own count.
InstretExact == \A q \in Procs : batch \/ core[q].minstret = executed[q]

Waiting(q) == q \in Procs /\ Enabled(core[q]) # {}

\* An interrupt that is pending and enabled is taken in the end, or disabled: it is
\* only looked at between two batches.
InterruptTaken ==
    \A i \in UNION {DOMAIN s.cores : s \in Systems} : Waiting(i - 1) ~> ~Waiting(i - 1)

=============================================================================
