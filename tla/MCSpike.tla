------------------------------ MODULE MCSpike ------------------------------
(* Systems for SpikeSim. *)
EXTENDS SpikeSim

Boot == [pc |-> 0, prv |-> "M", MPP |-> "U", SPP |-> "U", MIE |-> FALSE, MPIE |-> FALSE,
         SIE |-> FALSE, SPIE |-> FALSE, mprv |-> FALSE, sum |-> FALSE, mxr |-> FALSE,
         satp |-> None, mip |-> {}, mie |-> {}, mepc |-> 0, sepc |-> 0,
         serialized |-> FALSE, minstret |-> 0]

\* Six pages: four are mapped when translation is off, 4 and 5 hold page tables.
Pages == 0 .. 5
Bare == [t \in {4, 5} |-> [i \in {0, 1} |-> [ppn |-> 0, bits |-> {}]]]
System == [cores |-> <<Boot>>, memory |-> [page \in Pages |-> "nop"], words |-> {"nop"},
           host |-> {}, pt |-> Bare, pts |-> {Bare}, operands |-> {0}, targets |-> {0},
           csrs |-> {}, mideleg |-> {}, medeleg |-> {}, mtvec |-> 3, stvec |-> 3,
           times |-> {}, maxtime |-> 0]
Code(words) == [page \in Pages |-> IF page < Len(words) THEN words[page + 1] ELSE "nop"]

\* S mode with two levels of page tables, of which the second is mapped and changes; the
\* trap handler is in M mode.
RW == {"V", "R", "W", "A", "D"}
RX == {"V", "R", "X", "A"}
Leaf(ppn, bits) == [ppn |-> ppn, bits |-> bits]
Tables(leaf0, leaf1, root1) ==
    [t \in {4, 5} |-> IF t = 4 THEN [i \in {0, 1} |-> IF i = 0 THEN Leaf(5, {"V"}) ELSE root1]
                               ELSE [i \in {0, 1} |-> IF i = 0 THEN leaf0 ELSE leaf1]]
PagingPts == {Tables(Leaf(0, RX), leaf, Leaf(2, RW \union {"X"})) :
                 leaf \in {Leaf(5, RW), Leaf(1, RW \union {"X"}), Leaf(1, RW \ {"D"}), Leaf(6, RW)}}
Paging == [System EXCEPT
    !.cores = <<[Boot EXCEPT !.prv = "S", !.satp = 4]>>,
    !.memory = Code(<<"store", "load", "sfence", "mret">>), !.words = {"load", "fence.i", "csr", "amo"},
    !.pt = Tables(Leaf(0, RX), Leaf(5, RW), Leaf(2, RW \union {"X"})), !.pts = PagingPts,
    !.csrs = [csr : {"satp"}, val : {None, 4}],
    !.operands = {1, 2, 3}, !.mtvec = 2]

\* A user program under S mode, whose page is the user's and whose handler is not.
UserPts == {Tables(Leaf(0, RX \union {"U"}), Leaf(1, RW \union {"U"}), Leaf(2, bits)) : bits \in {RX, RX \union {"W", "D"}}}
User == [System EXCEPT
    !.cores = <<[Boot EXCEPT !.prv = "U", !.satp = 4]>>,
    !.memory = Code(<<"ecall", "nop", "csr", "load">>), !.words = {"sret", "sfence", "store"},
    !.pt = CHOOSE t \in UserPts : TRUE, !.pts = UserPts,
    !.csrs = [csr : {"sum"}, val : BOOLEAN] \union [csr : {"SSIP"}, val : {TRUE}],
    !.host = {"sret", "sfence"}, !.medeleg = {"page", "ecall"}, !.mideleg = {"SSI"},
    !.operands = {1, 2}, !.stvec = 2, !.mtvec = 3]

\* Two harts in M mode that contend for a word.
Reservations == [System EXCEPT
    !.cores = <<Boot, Boot>>, !.memory = Code(<<"lr", "store", "sc", "amo">>),
    !.words = {"jal"}, !.host = {"nop"}, !.operands = {1, 3}]

\* Interrupts: a program that enables them, sends them and waits for them.
Interrupts(cores, handler) == [System EXCEPT
    !.cores = cores,
    !.memory = Code(<<"csr", "store", "wfi", handler>>),
    !.operands = {6}, !.csrs = {[csr |-> "MIE", val |-> TRUE], [csr |-> "mie", val |-> {"MSI", "MTI"}]},
    !.times = {0, 1}, !.maxtime = 1, !.mtvec = 3]

\* Interrupts that the program raises and withdraws itself, and a timer.
Software == [Interrupts(<<Boot>>, "nop") EXCEPT
    !.csrs = {[csr |-> "MIE", val |-> TRUE], [csr |-> "mie", val |-> {"SSI", "MTI"}]}
             \union [csr : {"mip"}, val : BOOLEAN]]

\* A program that counts its instructions: no interrupt, which would break the count
\* between the two halves of a CSR instruction.
Counting == [System EXCEPT
    !.cores = <<Boot>>, !.memory = Code(<<"csr", "nop", "jal", "ecall">>), !.targets = {0, 3},
    !.csrs = {[csr |-> "minstret", val |-> 0], [csr |-> "sum", val |-> TRUE]}, !.mtvec = 0]

AllSystems == {Paging, User, Reservations, Counting, Software, Interrupts(<<Boot, Boot>>, "mret")}

\* The timer is set, then the program waits in a jump to itself.
Waits == [Interrupts(<<Boot>>, "jal") EXCEPT
    !.memory = Code(<<"csr", "csr", "store", "jal">>), !.targets = {3}, !.mtvec = 0]
WaitingSystems == {Waits}

=============================================================================
