-------------------------- MODULE IssueOrderProofs --------------------------
(***************************************************************************)
(* Theorems about the data in IssueStage: results, operands and the        *)
(* register file, and that issue, out-of-order completion and commit       *)
(* together are the machine of InOrder.                                    *)
(***************************************************************************)
EXTENDS IssueUnitProofs

-----------------------------------------------------------------------------
(* What holds of the data.  An instruction is sure to commit its operand   *)
(* if neither it nor an older one has raised an exception.  Among sure     *)
(* instructions a register has one writer, and an operand is the result of *)
(* the older one that writes it, or else the register.                     *)

Values ==
  /\ DOMAIN regs = Regs
  /\ \A i \in Ids : mem[i].issued =>
       /\ ~mem[i].wrong_path
       /\ mem[i].fu = "NONE" => mem[i].ex
       /\ mem[i].valid /\ ~mem[i].ex =>
            mem[i].result = IF mem[i].fu = "CSR" THEN -mem[i].n ELSE mem[i].n

Older(i, j) == mem[i].issued /\ mem[j].issued /\ Age(i) < Age(j)
Sure(j) == mem[j].issued /\ ~mem[j].ex /\ \A i \in Ids : Older(i, j) => ~mem[i].ex

OneWriter(j) == \A i \in Ids : Older(i, j) => mem[i].rd = 0 \/ mem[i].rd # mem[j].rd
Forwarded(j) ==
  \A i \in Ids : Older(i, j) /\ mem[i].rd # 0 /\ mem[i].rd = mem[j].rs =>
    mem[j].operand = mem[i].n
FromRegister(j) ==
  (\A i \in Ids : Older(i, j) => mem[i].rd = 0 \/ mem[i].rd # mem[j].rs) =>
    mem[j].operand = regs[mem[j].rs]
Operands == \A j \in Ids : Sure(j) => OneWriter(j) /\ Forwarded(j) /\ FromRegister(j)

Order == Holding /\ Values /\ Operands

(* The state as numbers, to reason about ages.                             *)
LEMMA Ages ==
  ASSUME Ring
  PROVE  /\ Count \in 0 .. N /\ N \in Nat \ {0, 1} /\ next \in Nat
         /\ \A i \in Ids : /\ Age(i) \in 0 .. N - 1
                           /\ mem[i].issued <=> Age(i) < Count
                           /\ mem[i].issued => mem[i].n = next + Age(i)
                           /\ mem[i].rd \in Regs /\ mem[i].rs \in Regs /\ mem[i].n \in Nat
                           /\ i \in Int
         /\ \A i, j \in Ids : Age(i) = Age(j) => i = j
<1>1. config \in Configs /\ HeadSlot \in Ids
  BY DEF Ring, Pointers
<1>2. N \in Nat \ {0, 1} /\ Ids = 0 .. N - 1
  BY <1>1, Sizes
<1>3. /\ \A i \in Ids : Age(i) \in 0 .. N - 1
      /\ \A i, j \in Ids : Age(i) = Age(j) => i = j
  BY <1>1, AgeRange
<1>4. Count \in 0 .. N /\ next \in Nat
  BY DEF Ring, Pointers
<1>5. \A i \in Ids : /\ mem[i].issued <=> Age(i) < Count
                     /\ mem[i].issued => mem[i].n = next + Age(i)
                     /\ mem[i].rd \in Regs /\ mem[i].rs \in Regs /\ mem[i].n \in Nat
  BY DEF Ring, Entries, IsEntry
<1>6. \A i \in Ids : i \in Int
  BY <1>2
<1> QED
  BY <1>2, <1>3, <1>4, <1>5, <1>6

-----------------------------------------------------------------------------
(* The operand read at issue.                                              *)

LEMMA FirstPortExists ==
  ASSUME NEW u, NEW S \in SUBSET Ports(u), S # {}
  PROVE  FirstPort(S) \in S
<1>1. ASSUME NEW w \in Ports(u)
      PROVE  w.port \in {0, 1, 2, 4}
  BY DEF Ports, Writebacks, XWriteback, Port
<1>2. \E w \in S : \A v \in S : w.port <= v.port
  <2>1. \A w \in S : w.port \in {0, 1, 2, 4}
    BY <1>1
  <2>2. CASE \E w \in S : w.port = 0
    BY <2>1, <2>2
  <2>3. CASE (\E w \in S : w.port = 1) /\ ~\E w \in S : w.port = 0
    BY <2>1, <2>3
  <2>4. CASE (\E w \in S : w.port = 2) /\ ~\E w \in S : w.port \in {0, 1}
    BY <2>1, <2>4
  <2>5. CASE ~\E w \in S : w.port \in {0, 1, 2}
    BY <2>1, <2>5
  <2> QED
    BY <2>2, <2>3, <2>4, <2>5
<1> QED
  BY <1>2 DEF FirstPort

(* With no exception in the ring a register has at most one writer.        *)
LEMMA TheWriter ==
  ASSUME Order, \A i \in Ids : mem[i].issued => ~mem[i].ex,
         NEW r, NEW i \in Clobbers(r)
  PROVE  Clobbers(r) = {i} /\ Lowest(Clobbers(r)) = i
<1>1. ASSUME NEW j \in Clobbers(r)
      PROVE  j = i
  <2>1. i \in Ids /\ j \in Ids /\ mem[i].issued /\ mem[j].issued
        /\ mem[i].rd = r /\ mem[j].rd = r /\ r # 0
    BY DEF Clobbers
  <2>2. Sure(i) /\ Sure(j)
    BY <2>1 DEF Sure, Older
  <2>3. ~Older(i, j) /\ ~Older(j, i)
    BY <2>1, <2>2 DEF Order, Operands, OneWriter
  <2>4. Age(i) \in Int /\ Age(j) \in Int
    BY <2>1, Ages DEF Order, Holding, Registers
  <2>5. Age(i) = Age(j)
    BY <2>1, <2>3, <2>4 DEF Older
  <2> QED
    BY <2>1, <2>5, Ages DEF Order, Holding, Registers
<1>2. Clobbers(r) = {i}
  BY <1>1
<1>3. i \in Int
  BY Ages DEF Clobbers, Order, Holding, Registers
<1>4. Lowest({i}) = i
  BY <1>3 DEF Lowest
<1> QED
  BY <1>2, <1>4

(* Then what is read is the result of that writer, or else the register.   *)
LEMMA OperandRead ==
  ASSUME Order, \A i \in Ids : mem[i].issued => ~mem[i].ex,
         NEW u \in UnitChoices, NEW r, ~stall_raw(r, Ports(u))
  PROVE  /\ \A i \in Clobbers(r) : operand(r, Ports(u)) = mem[i].n
         /\ Clobbers(r) = {} => operand(r, Ports(u)) = regs[r]
<1>1. Clobbers(r) = {} => operand(r, Ports(u)) = regs[r]
  BY DEF operand, rd_clobber
<1>2. ASSUME NEW i \in Clobbers(r)
      PROVE  operand(r, Ports(u)) = mem[i].n
  <2>1. Clobbers(r) = {i} /\ Lowest(Clobbers(r)) = i
    BY TheWriter
  <2>2. rd_clobber(r) = mem[i].fu
    BY <2>1 DEF rd_clobber
  <2>3. i \in Ids /\ mem[i].issued /\ mem[i].rd = r /\ r # 0 /\ ~mem[i].ex
    BY DEF Clobbers
  <2>4. mem[i].fu # "NONE"
    BY <2>3 DEF Order, Values
  <2>5. /\ mem[i].fu # "CSR"
        /\ FromPorts(r, Ports(u)) # {} \/ FromEntries(r) # {}
        /\ rs_valid(r, Ports(u))
    BY <2>2, <2>4 DEF stall_raw, rs_valid
  <2>6. CASE FromPorts(r, Ports(u)) # {}
    <3> DEFINE S == FromPorts(r, Ports(u))
               w == FirstPort(S)
    <3>1. w \in S
      BY <2>6, FirstPortExists DEF FromPorts
    <3>2. operand(r, Ports(u)) = w.result
      BY <2>2, <2>4, <2>5, <2>6 DEF operand
    <3> HIDE DEF w
    <3>3. w \in Ports(u) /\ mem[w.tid].issued /\ mem[w.tid].rd = r
      BY <3>1 DEF FromPorts
    <3>4. /\ w.tid \in Ids
          /\ w.result = IF mem[w.tid].fu = "CSR" THEN -mem[w.tid].n ELSE mem[w.tid].n
      BY <3>3, PortIsOwn DEF Order
    <3>5. w.tid = i
      BY <2>1, <2>3, <3>3, <3>4 DEF Clobbers
    <3> QED
      BY <2>5, <3>2, <3>4, <3>5
  <2>7. CASE FromPorts(r, Ports(u)) = {}
    <3>1. FromEntries(r) \subseteq Clobbers(r) /\ FromEntries(r) # {}
      BY <2>3, <2>5, <2>7 DEF FromEntries, Clobbers
    <3>2. FromEntries(r) = {i}
      BY <2>1, <3>1
    <3>3. Lowest(FromEntries(r)) = i /\ mem[i].valid
      BY <2>1, <3>2 DEF FromEntries
    <3>4. operand(r, Ports(u)) = mem[i].result
      BY <2>2, <2>4, <2>5, <2>7, <3>3 DEF operand
    <3> QED
      BY <2>3, <2>5, <3>3, <3>4 DEF Order, Values
  <2> QED
    BY <2>6, <2>7
<1> QED
  BY <1>1, <1>2

-----------------------------------------------------------------------------
(* The instructions that commit, and the registers they leave.             *)

LEMMA RetiringEntries ==
  ASSUME Order, NEW c, NEW s, s = Retiring(Acks(c)), NEW d, d = Leaving(Acks(c))
  PROVE  /\ d \in 0 .. 2 /\ Len(s) = d
         /\ d = 0 => s = <<>>
         /\ \A k \in 1 .. d :
              \E i \in Ids : /\ Age(i) = k - 1 /\ mem[i].issued /\ Sure(i)
                             /\ s[k].n = mem[i].n /\ s[k].rd = mem[i].rd /\ s[k].rs = mem[i].rs
                             /\ s[k].operand = mem[i].operand /\ s[k].result = mem[i].n
                             /\ s[k].wrong_path = mem[i].wrong_path
<1>0. Ring /\ Values
  BY DEF Order, Holding, Registers
<1>1. d \in 0 .. 2 /\ Len(s) = d
  <2>1. d \in 0 .. 2
    BY <1>0, AcksAreOldest
  <2>2. config \in Configs
    BY <1>0 DEF Ring, Pointers
  <2> QED
    BY <2>1, <2>2, RetiringLength
<1>2. d = 0 => s = <<>>
  <2>1. s = <<>> \/ (\E a : s = <<a>>) \/ (\E a, b : s = <<a, b>>)
    BY DEF Retiring
  <2>2. \A a, b : Len(<<a, b>>) = 2 /\ Len(<<a>>) = 1
    OBVIOUS
  <2> QED
    BY <1>1, <2>1, <2>2
<1>3. ASSUME NEW k \in 1 .. d
      PROVE  /\ commit_pointer[k] \in Ids /\ Age(commit_pointer[k]) = k - 1
             /\ s[k] = [commit_instr(k) EXCEPT !.result = wdata(commit_instr(k))]
  <2>1. k = 1 \/ (k = 2 /\ d = 2)
    BY <1>1
  <2>2. /\ HeadSlot \in Ids /\ commit_pointer[1] = HeadSlot /\ Ids = 0 .. N - 1 /\ N \in Nat \ {0, 1}
    BY <1>0, Sizes DEF Ring, Pointers, HeadSlot
  <2>3. CASE k = 1
    <3>1. Age(HeadSlot) = 0
      BY <2>2 DEF Age
    <3>2. s[1] = [commit_instr(1) EXCEPT !.result = wdata(commit_instr(1))]
      BY <1>1, <2>3 DEF Retiring, Leaving
    <3> QED
      BY <2>2, <2>3, <3>1, <3>2
  <2>4. CASE k = 2 /\ d = 2
    <3>1. NrCommitPorts = 2 /\ commit_pointer[2] = Add(HeadSlot, 1)
      BY <1>0, <2>4, AcksAreOldest
    <3>2. Add(HeadSlot, 1) \in Ids /\ Age(Add(HeadSlot, 1)) = 1
      <4>1. config \in Configs /\ 1 \in 0 .. N - 1
        BY <1>0, <2>2 DEF Ring, Pointers
      <4> QED
        BY <2>2, <4>1, AgeRange
    <3>3. s[2] = [commit_instr(2) EXCEPT !.result = wdata(commit_instr(2))]
      <4>1. Acks(c)[2]
        BY <2>4, <3>1 DEF Leaving
      <4>2. s = <<[commit_instr(1) EXCEPT !.result = wdata(commit_instr(1))],
                  [commit_instr(2) EXCEPT !.result = wdata(commit_instr(2))]>>
        BY <3>1, <4>1 DEF Retiring
      <4> QED
        BY <4>2
    <3> QED
      BY <2>4, <3>1, <3>2, <3>3
  <2> QED
    BY <2>1, <2>3, <2>4
<1>4. ASSUME NEW k \in 1 .. d, NEW i \in Ids, i = commit_pointer[k], Age(i) = k - 1
      PROVE  /\ mem[i].issued /\ Sure(i) /\ wdata(commit_instr(k)) = mem[i].n
  <2>1. Age(i) < d /\ d <= Count
    BY <1>0, <1>1, <1>4, AcksAreOldest
  <2>2. mem[i].valid /\ ~mem[i].ex /\ mem[i].issued
    BY <1>0, <2>1, AcksAreOldest DEF Ring, Entries
  <2>3. Sure(i)
    <3> SUFFICES ASSUME NEW j \in Ids, Older(j, i)
                 PROVE  ~mem[j].ex
      BY <2>2 DEF Sure
    <3>1. Age(j) < d
      BY <1>0, <1>1, <1>4, Ages DEF Older
    <3> QED
      BY <1>0, <3>1, AcksAreOldest
  <2>4. wdata(commit_instr(k)) = mem[i].n
    BY <1>0, <1>4, <2>2 DEF wdata, commit_instr, Values
  <2> QED
    BY <2>2, <2>3, <2>4
<1>5. ASSUME NEW k \in 1 .. d
      PROVE  \E i \in Ids : /\ Age(i) = k - 1 /\ mem[i].issued /\ Sure(i)
                            /\ s[k].n = mem[i].n /\ s[k].rd = mem[i].rd /\ s[k].rs = mem[i].rs
                            /\ s[k].operand = mem[i].operand /\ s[k].result = mem[i].n
                            /\ s[k].wrong_path = mem[i].wrong_path
  <2>1. PICK i \in Ids : i = commit_pointer[k] /\ Age(i) = k - 1
    BY <1>3
  <2>2. mem[i].issued /\ Sure(i) /\ wdata(commit_instr(k)) = mem[i].n
    BY <1>4, <2>1
  <2>3. s[k] = [mem[i] EXCEPT !.result = wdata(commit_instr(k))]
    BY <1>3, <2>1 DEF commit_instr
  <2>4. DOMAIN mem[i] = {"issued", "valid", "fu", "rd", "ex", "result", "n", "rs", "operand",
                         "wrong_path"}
    BY <1>0 DEF Ring, Entries, IsEntry
  <2>5. /\ s[k].n = mem[i].n /\ s[k].rd = mem[i].rd /\ s[k].rs = mem[i].rs
        /\ s[k].operand = mem[i].operand /\ s[k].result = mem[i].n
        /\ s[k].wrong_path = mem[i].wrong_path
    BY <2>2, <2>3, <2>4
  <2> QED
    BY <2>1, <2>2, <2>5
<1> QED
  BY <1>1, <1>2, <1>5

(* A register holds the result of the leaving instruction that writes it,  *)
(* and is unchanged when none does.                                        *)
LEMMA CommittedRegisters ==
  ASSUME Order, NEW c, CommitRegisters(Retiring(Acks(c)))
  PROVE  /\ DOMAIN regs' = Regs
         /\ \A i \in Ids : Age(i) < Leaving(Acks(c)) /\ mem[i].rd # 0 =>
              regs'[mem[i].rd] = mem[i].n
         /\ \A r \in Regs : (r = 0 \/ \A i \in Ids : Age(i) < Leaving(Acks(c)) => mem[i].rd # r) =>
              regs'[r] = regs[r]
<1> DEFINE s == Retiring(Acks(c))
           d == Leaving(Acks(c))
<1>1. /\ d \in 0 .. 2 /\ Len(s) = d /\ (d = 0 => s = <<>>)
      /\ \A k \in 1 .. d :
           \E i \in Ids : /\ Age(i) = k - 1 /\ mem[i].issued /\ Sure(i)
                          /\ s[k].rd = mem[i].rd /\ s[k].result = mem[i].n
  BY RetiringEntries
<1>2. DOMAIN regs = Regs /\ Ring
  BY DEF Order, Values, Holding, Registers
<1>3. /\ \A i \in Ids : Age(i) \in Nat /\ mem[i].rd \in Regs
      /\ \A i, j \in Ids : Age(i) = Age(j) => i = j
  BY <1>2, Ages
<1>4. CASE d = 0
  <2>1. regs' = regs
    BY <1>1, <1>4 DEF CommitRegisters
  <2> QED
    BY <1>2, <1>3, <1>4, <2>1
<1>5. CASE d = 1
  <2>1. PICK i \in Ids : Age(i) = 0 /\ s[1].rd = mem[i].rd /\ s[1].result = mem[i].n
    BY <1>1, <1>5
  <2>2. \A j \in Ids : Age(j) < d => j = i
    BY <1>3, <1>5, <2>1
  <2>3. regs' = IF mem[i].rd = 0 THEN regs ELSE [regs EXCEPT ![mem[i].rd] = mem[i].n]
    BY <1>1, <1>5, <2>1 DEF CommitRegisters, WriteRegister
  <2> QED
    BY <1>2, <1>3, <1>5, <2>1, <2>2, <2>3
<1>6. CASE d = 2
  <2>1. PICK i \in Ids : Age(i) = 0 /\ mem[i].issued /\ s[1].rd = mem[i].rd /\ s[1].result = mem[i].n
    BY <1>1, <1>6
  <2>2. PICK j \in Ids : Age(j) = 1 /\ Sure(j) /\ s[2].rd = mem[j].rd /\ s[2].result = mem[j].n
    BY <1>1, <1>6
  <2>3. \A m \in Ids : Age(m) < d => m = i \/ m = j
    BY <1>3, <1>6, <2>1, <2>2
  <2>4. mem[i].rd = 0 \/ mem[i].rd # mem[j].rd
    <3>1. Older(i, j)
      BY <2>1, <2>2 DEF Older, Sure
    <3> QED
      BY <2>2, <3>1 DEF Order, Operands, OneWriter
  <2> DEFINE first == IF mem[i].rd = 0 THEN regs ELSE [regs EXCEPT ![mem[i].rd] = mem[i].n]
  <2>5. regs' = IF mem[j].rd = 0 THEN first ELSE [first EXCEPT ![mem[j].rd] = mem[j].n]
    BY <1>1, <1>6, <2>1, <2>2 DEF CommitRegisters, WriteRegister
  <2>6. /\ DOMAIN first = Regs /\ (mem[i].rd # 0 => first[mem[i].rd] = mem[i].n)
        /\ \A r \in Regs : r = 0 \/ r # mem[i].rd => first[r] = regs[r]
    BY <1>2, <1>3
  <2> HIDE DEF first
  <2>7. /\ DOMAIN regs' = Regs /\ (mem[j].rd # 0 => regs'[mem[j].rd] = mem[j].n)
        /\ \A r \in Regs : r = 0 \/ r # mem[j].rd => regs'[r] = first[r]
    BY <1>3, <2>5, <2>6
  <2>8. mem[i].rd # 0 => regs'[mem[i].rd] = mem[i].n
    BY <1>3, <2>4, <2>6, <2>7
  <2>9. \A r \in Regs : (r = 0 \/ (mem[i].rd # r /\ mem[j].rd # r)) => regs'[r] = regs[r]
    BY <2>6, <2>7
  <2>10. Age(i) < d /\ Age(j) < d
    BY <1>6, <2>1, <2>2
  <2> HIDE DEF d
  <2> QED
    BY <2>3, <2>7, <2>8, <2>9, <2>10 DEF d
<1> QED
  BY <1>1, <1>4, <1>5, <1>6


-----------------------------------------------------------------------------
(* One entry over an edge that does not flush.                             *)

LEMMA EntryMoves ==
  ASSUME Holding, Values,
         NEW offer, NEW fu, NEW rd, NEW rs, NEW mispredict, NEW c, NEW u, NEW x,
         Inputs(offer, fu, rd, rs, mispredict, c, u, x),
         Edge(offer, fu, rd, rs, mispredict, c, u, x),
         NEW i \in Ids, mem'[i].issued, NEW d, d = Leaving(Acks(c))
  PROVE  /\ ~Flush(c) /\ Age(i) >= d /\ Age(i)' = Age(i) - d
         /\ \/ /\ Issue(offer, fu, rd, rs, c, u, x) /\ Age(i) = Count /\ ~mem[i].issued
               /\ Enters(mem'[i], Instr(fu, rd, rs, u),
                         Accepted(offer, fu, rd, rs, c, u, x) /\ ~x.writeback)
            \/ /\ mem[i].issued /\ Age(i) < Count
               /\ Keeps(mem[i], mem'[i]) /\ mem'[i].rd = mem[i].rd
               /\ mem[i].ex => mem'[i].ex
               /\ mem'[i].valid /\ ~mem'[i].ex =>
                    mem'[i].result = IF mem[i].fu = "CSR" THEN -mem[i].n ELSE mem[i].n
<1>1. Ring /\ u \in UnitChoices
  BY DEF Holding, Registers, Inputs
<1>2. \/ /\ ~Flush(c) /\ Age(i) >= d /\ Issue(offer, fu, rd, rs, c, u, x)
         /\ i = issue_pointer /\ Age(i) = Count
         /\ Enters(mem'[i], Instr(fu, rd, rs, u),
                   Accepted(offer, fu, rd, rs, c, u, x) /\ ~x.writeback)
      \/ ~Flush(c) /\ Age(i) >= d /\ Stays(mem'[i], i, Ports(u))
  BY <1>1, EdgeEntry DEF Gone
<1>3. ~Flush(c) /\ Age(i) >= d
  BY <1>2
<1>4. Age(i)' = Age(i) - d
  BY <1>1, <1>3, EdgePointers
<1>5. CASE /\ Issue(offer, fu, rd, rs, c, u, x) /\ i = issue_pointer /\ Age(i) = Count
           /\ Enters(mem'[i], Instr(fu, rd, rs, u),
                     Accepted(offer, fu, rd, rs, c, u, x) /\ ~x.writeback)
  BY <1>1, <1>3, <1>4, <1>5, Signals
<1>6. CASE Stays(mem'[i], i, Ports(u))
  <2>1. Keeps(mem[i], mem'[i]) /\ mem[i].issued
    BY <1>6 DEF Stays, Keeps
  <2>2. Age(i) < Count /\ IsEntry(mem[i])
    BY <1>1, <2>1 DEF Ring, Entries
  <2>3. CASE Untouched(mem[i], mem'[i])
    <3>1. /\ mem'[i].rd = mem[i].rd /\ mem'[i].ex = mem[i].ex /\ mem'[i].result = mem[i].result
          /\ mem'[i].valid /\ ~mem'[i].ex => mem[i].valid
      BY <2>1, <2>3 DEF Untouched, Values
    <3> QED
      BY <1>3, <1>4, <2>1, <2>2, <3>1 DEF Values
  <2>4. ASSUME NEW w \in Ports(u), w.tid = i, Taken(mem[i], mem'[i], w)
        PROVE  /\ mem'[i].rd = mem[i].rd /\ (mem[i].ex => mem'[i].ex)
               /\ mem'[i].result = IF mem[i].fu = "CSR" THEN -mem[i].n ELSE mem[i].n
    <3>1. /\ w.result = IF mem[i].fu = "CSR" THEN -mem[i].n ELSE mem[i].n
          /\ ~w.we => mem[i].rd = 0
      BY <1>1, <2>4, PortIsOwn
    <3> QED
      BY <2>4, <3>1 DEF Taken
  <2> QED
    BY <1>3, <1>4, <1>6, <2>1, <2>2, <2>3, <2>4 DEF Stays
<1> QED
  BY <1>2, <1>3, <1>4, <1>5, <1>6

(* What issue requires of an instruction that goes to a unit.              *)
LEMMA IssueConditions ==
  ASSUME Holding, NeverKills,
         NEW offer, NEW fu, NEW rd, NEW rs, NEW mispredict, NEW c, NEW u, NEW x,
         Inputs(offer, fu, rd, rs, mispredict, c, u, x),
         Issue(offer, fu, rd, rs, c, u, x)
  PROVE  /\ ~off_path
         /\ fu # "NONE" => ~stall_raw(rs, Ports(u)) /\ ~stall_waw(rd, Retiring(Acks(c)))
<1>1. ~off_path
  BY DEF Issue, FlushUnissued, Holding, Registers, IssueRegister
<1>2. ~Rejected(offer, fu, rd, c, x)
  BY NothingRefused DEF Holding, Registers, Ring, Pointers
<1> QED
  BY <1>1, <1>2 DEF Issue, IssueAck

LEMMA ValuesStep ==
  ASSUME NeverKills, Order,
         NEW offer, NEW fu, NEW rd, NEW rs, NEW mispredict, NEW c, NEW u, NEW x,
         Inputs(offer, fu, rd, rs, mispredict, c, u, x),
         Edge(offer, fu, rd, rs, mispredict, c, u, x)
  PROVE  Values'
<1>1. Holding /\ Values /\ Ring
  BY DEF Order, Holding, Registers
<1>2. CommitRegisters(Retiring(Acks(c))) /\ Ids' = Ids
  BY <1>1, EdgeParts, EdgePointers
<1>3. DOMAIN regs' = Regs
  BY <1>2, CommittedRegisters
<1>4. ASSUME NEW i \in Ids, mem'[i].issued
      PROVE  /\ ~mem'[i].wrong_path
             /\ mem'[i].fu = "NONE" => mem'[i].ex
             /\ mem'[i].valid /\ ~mem'[i].ex =>
                  mem'[i].result = IF mem'[i].fu = "CSR" THEN -mem'[i].n ELSE mem'[i].n
  <2>1. CASE /\ Issue(offer, fu, rd, rs, c, u, x)
             /\ Enters(mem'[i], Instr(fu, rd, rs, u),
                       Accepted(offer, fu, rd, rs, c, u, x) /\ ~x.writeback)
    <3>1. ~off_path
      BY <1>1, <2>1, IssueConditions
    <3>2. /\ mem'[i].wrong_path = off_path /\ mem'[i].fu = fu
          /\ mem'[i].valid = (fu = "NONE") /\ mem'[i].ex = (fu = "NONE")
      BY <2>1 DEF Enters, Keeps, Instr, FreeEntry
    <3> QED
      BY <3>1, <3>2
  <2>2. CASE /\ mem[i].issued /\ Keeps(mem[i], mem'[i])
             /\ mem[i].ex => mem'[i].ex
             /\ mem'[i].valid /\ ~mem'[i].ex =>
                  mem'[i].result = IF mem[i].fu = "CSR" THEN -mem[i].n ELSE mem[i].n
    BY <1>1, <2>2 DEF Values, Keeps
  <2> QED
    BY <1>1, <1>4, <2>1, <2>2, EntryMoves
<1> QED
  BY <1>2, <1>3, <1>4 DEF Values


(* The instructions older than j before and after the edge: those that     *)
(* leave have raised no exception, the others keep what j depends on.      *)
LEMMA OlderEntries ==
  ASSUME Holding, Values,
         NEW offer, NEW fu, NEW rd, NEW rs, NEW mispredict, NEW c, NEW u, NEW x,
         Inputs(offer, fu, rd, rs, mispredict, c, u, x),
         Edge(offer, fu, rd, rs, mispredict, c, u, x),
         NEW j \in Ids, mem'[j].issued, NEW d, d = Leaving(Acks(c))
  PROVE  /\ \A i \in Ids : Older(i, j)' =>
              /\ mem[i].issued /\ Age(i) >= d /\ Age(i) < Age(j)
              /\ mem'[i].rd = mem[i].rd /\ mem'[i].n = mem[i].n /\ (mem[i].ex => mem'[i].ex)
         /\ \A i \in Ids : mem[i].issued /\ Age(i) >= d /\ Age(i) < Age(j) =>
              Older(i, j)' /\ mem'[i].rd = mem[i].rd
         /\ \A i \in Ids : Age(i) < d => mem[i].issued /\ ~mem[i].ex /\ Age(i) < Age(j)
<1>0. Ring
  BY DEF Holding, Registers
<1>1. /\ d \in 0 .. 2 /\ d <= Count /\ Count \in 0 .. N /\ N \in Nat
      /\ \A i \in Ids : /\ Age(i) \in 0 .. N - 1
                        /\ mem[i].issued <=> Age(i) < Count
                        /\ Age(i) < d => mem[i].valid /\ ~mem[i].ex
  BY <1>0, Ages, AcksAreOldest
<1>2. ~Flush(c) /\ Age(j) >= d /\ Age(j)' = Age(j) - d /\ Age(j) <= Count
  <2>1. Age(j) = Count \/ Age(j) < Count
    BY EntryMoves
  <2> QED
    BY <1>1, <2>1, EntryMoves
<1>3. ASSUME NEW i \in Ids, Older(i, j)'
      PROVE  /\ mem[i].issued /\ Age(i) >= d /\ Age(i) < Age(j)
             /\ mem'[i].rd = mem[i].rd /\ mem'[i].n = mem[i].n /\ (mem[i].ex => mem'[i].ex)
  <2>1. mem'[i].issued /\ Age(i)' < Age(j)'
    BY <1>3 DEF Older
  <2>2. /\ Age(i) >= d /\ Age(i)' = Age(i) - d
        /\ \/ Age(i) = Count
           \/ /\ mem[i].issued /\ Keeps(mem[i], mem'[i]) /\ mem'[i].rd = mem[i].rd
              /\ mem[i].ex => mem'[i].ex
    BY <2>1, EntryMoves
  <2>3. Age(i) < Age(j)
    BY <1>1, <1>2, <2>1, <2>2
  <2>4. Age(i) # Count
    BY <1>1, <1>2, <2>3
  <2> QED
    BY <2>2, <2>3, <2>4 DEF Keeps
<1>4. ASSUME NEW i \in Ids, mem[i].issued, Age(i) >= d, Age(i) < Age(j)
      PROVE  Older(i, j)' /\ mem'[i].rd = mem[i].rd
  <2>1. ~(Flush(c) \/ Age(i) < d)
    BY <1>1, <1>2, <1>4
  <2>2. ~(Issue(offer, fu, rd, rs, c, u, x) /\ i = issue_pointer)
    BY <1>0, <1>4, Signals
  <2>3. Stays(mem'[i], i, Ports(u))
    BY <1>0, <2>1, <2>2, EdgeEntry
  <2>4. mem'[i].issued
    BY <1>4, <2>3 DEF Stays, Keeps
  <2>5. Age(i)' = Age(i) - d /\ Age(i) < Count
    BY <1>1, <1>4, <2>4, EntryMoves
  <2>6. mem'[i].rd = mem[i].rd
    BY <1>1, <1>4, <2>4, EntryMoves
  <2>7. Age(i)' < Age(j)'
    BY <1>1, <1>2, <1>4, <2>5
  <2> QED
    BY <2>4, <2>6, <2>7 DEF Older
<1>5. ASSUME NEW i \in Ids, Age(i) < d
      PROVE  mem[i].issued /\ ~mem[i].ex /\ Age(i) < Age(j)
  <2>1. Age(i) < Count /\ Age(i) < Age(j)
    BY <1>1, <1>2, <1>5
  <2> QED
    BY <1>1, <1>5, <2>1
<1> QED
  BY <1>3, <1>4, <1>5

LEMMA OperandsStep ==
  ASSUME NeverKills, Order,
         NEW offer, NEW fu, NEW rd, NEW rs, NEW mispredict, NEW c, NEW u, NEW x,
         Inputs(offer, fu, rd, rs, mispredict, c, u, x),
         Edge(offer, fu, rd, rs, mispredict, c, u, x)
  PROVE  Operands'
<1> DEFINE d == Leaving(Acks(c))
<1>0. Holding /\ Values /\ Operands /\ Ring
  BY DEF Order, Holding, Registers
<1>1. /\ Ids' = Ids
      /\ CommitRegisters(Retiring(Acks(c)))
  BY <1>0, EdgeParts, EdgePointers
<1>2. /\ \A i \in Ids : Age(i) < d /\ mem[i].rd # 0 => regs'[mem[i].rd] = mem[i].n
      /\ \A r \in Regs : (r = 0 \/ \A i \in Ids : Age(i) < d => mem[i].rd # r) => regs'[r] = regs[r]
  BY <1>1, CommittedRegisters
<1> SUFFICES ASSUME NEW j \in Ids, Sure(j)'
             PROVE  OneWriter(j)' /\ Forwarded(j)' /\ FromRegister(j)'
  BY <1>1 DEF Operands
<1>3. mem'[j].issued /\ ~mem'[j].ex /\ \A i \in Ids : Older(i, j)' => ~mem'[i].ex
  BY <1>1 DEF Sure
<1>4. /\ \A i \in Ids : Older(i, j)' =>
           /\ mem[i].issued /\ Age(i) >= d /\ Age(i) < Age(j)
           /\ mem'[i].rd = mem[i].rd /\ mem'[i].n = mem[i].n /\ (mem[i].ex => mem'[i].ex)
      /\ \A i \in Ids : mem[i].issued /\ Age(i) >= d /\ Age(i) < Age(j) =>
           Older(i, j)' /\ mem'[i].rd = mem[i].rd
      /\ \A i \in Ids : Age(i) < d => mem[i].issued /\ ~mem[i].ex /\ Age(i) < Age(j)
  BY <1>0, <1>3, OlderEntries
<1>5. /\ \A i \in Ids : /\ Age(i) \in Int /\ mem[i].rd \in Regs /\ mem[i].rs \in Regs
                        /\ mem[i].issued <=> Age(i) < Count
      /\ d \in 0 .. 2
  BY <1>0, Ages, AcksAreOldest
<1>6. \A i \in Ids : mem[i].issued /\ Age(i) < Age(j) => ~mem[i].ex
  <2> SUFFICES ASSUME NEW i \in Ids, mem[i].issued, Age(i) < Age(j)
               PROVE  ~mem[i].ex
    OBVIOUS
  <2>1. Age(i) < d \/ Age(i) >= d
    BY <1>5
  <2> QED
    BY <1>3, <1>4, <2>1
<1> HIDE DEF d
<1>7. CASE /\ mem[j].issued /\ Keeps(mem[j], mem'[j]) /\ mem'[j].rd = mem[j].rd
           /\ mem[j].ex => mem'[j].ex
  <2>1. Sure(j)
    BY <1>3, <1>6, <1>7 DEF Sure, Older
  <2>2. OneWriter(j) /\ Forwarded(j) /\ FromRegister(j)
    BY <1>0, <2>1 DEF Operands
  <2>3. mem'[j].rs = mem[j].rs /\ mem'[j].operand = mem[j].operand
    BY <1>7 DEF Keeps
  <2>4. \A i \in Ids : Older(i, j)' => Older(i, j)
    BY <1>4, <1>7 DEF Older
  <2>5. \A i \in Ids : Older(i, j) => Age(i) < d \/ Older(i, j)'
    BY <1>4, <1>5 DEF Older
  <2>6. \A i \in Ids : Age(i) < d => Older(i, j)
    BY <1>4, <1>7 DEF Older
  <2>7. OneWriter(j)'
    BY <1>1, <1>4, <1>7, <2>2, <2>4 DEF OneWriter
  <2>8. Forwarded(j)'
    BY <1>1, <1>4, <2>2, <2>3, <2>4 DEF Forwarded
  <2>9. ASSUME \A i \in Ids : Older(i, j)' => mem'[i].rd = 0 \/ mem'[i].rd # mem'[j].rs
        PROVE  mem[j].operand = regs'[mem[j].rs]
    <3>1. CASE \E i \in Ids : Age(i) < d /\ mem[i].rd # 0 /\ mem[i].rd = mem[j].rs
      <4>1. PICK i \in Ids : Age(i) < d /\ mem[i].rd # 0 /\ mem[i].rd = mem[j].rs
        BY <3>1
      <4> QED
        BY <1>2, <2>2, <2>6, <4>1 DEF Forwarded
    <3>2. CASE ~\E i \in Ids : Age(i) < d /\ mem[i].rd # 0 /\ mem[i].rd = mem[j].rs
      <4>1. \A i \in Ids : Older(i, j) => mem[i].rd = 0 \/ mem[i].rd # mem[j].rs
        BY <1>4, <2>3, <2>5, <2>9, <3>2
      <4>2. mem[j].operand = regs[mem[j].rs]
        BY <2>2, <4>1 DEF FromRegister
      <4>3. regs'[mem[j].rs] = regs[mem[j].rs]
        BY <1>2, <1>5, <3>2
      <4> QED
        BY <4>2, <4>3
    <3> QED
      BY <3>1, <3>2
  <2>10. FromRegister(j)'
    BY <1>1, <2>3, <2>9 DEF FromRegister
  <2> QED
    BY <2>7, <2>8, <2>10
<1>8. CASE /\ Issue(offer, fu, rd, rs, c, u, x) /\ Age(j) = Count
           /\ Enters(mem'[j], Instr(fu, rd, rs, u),
                     Accepted(offer, fu, rd, rs, c, u, x) /\ ~x.writeback)
  <2>1. \A i \in Ids : mem[i].issued => ~mem[i].ex
    BY <1>5, <1>6, <1>8
  <2>2. /\ mem'[j].rs = rs /\ mem'[j].operand = operand(rs, Ports(u))
        /\ mem'[j].rd = 0 \/ mem'[j].rd = rd
        /\ mem'[j].ex = (fu = "NONE")
    BY <1>8 DEF Enters, Keeps, Instr, FreeEntry
  <2>3. /\ ~stall_raw(rs, Ports(u)) /\ ~stall_waw(rd, Retiring(Acks(c)))
        /\ rs \in Regs /\ u \in UnitChoices
    <3>1. fu # "NONE"
      BY <1>3, <2>2
    <3>2. rs \in Regs /\ u \in UnitChoices
      BY DEF Inputs
    <3>3. ~stall_raw(rs, Ports(u)) /\ ~stall_waw(rd, Retiring(Acks(c)))
      BY <1>0, <1>8, <3>1, IssueConditions
    <3> QED
      BY <3>2, <3>3
  <2>4. /\ \A i \in Clobbers(rs) : operand(rs, Ports(u)) = mem[i].n
        /\ Clobbers(rs) = {} => operand(rs, Ports(u)) = regs[rs]
    BY <2>1, <2>3, OperandRead
  <2>5. OneWriter(j)'
    <3> SUFFICES ASSUME NEW i \in Ids, Older(i, j)', mem[i].rd # 0, mem[i].rd = mem'[j].rd
                 PROVE  FALSE
      BY <1>1, <1>4 DEF OneWriter
    <3>1. mem[i].issued /\ Age(i) >= d /\ mem[i].rd = rd /\ rd # 0
      BY <1>4, <2>2
    <3>2. i \in Clobbers(rd)
      BY <3>1 DEF Clobbers
    <3>3. Clobbers(rd) = {i} /\ Lowest(Clobbers(rd)) = i
      BY <2>1, <3>2, TheWriter
    <3>4. mem[i].fu # "NONE"
      BY <1>0, <2>1, <3>1 DEF Values
    <3>5. rd_clobber(rd) # "NONE"
      BY <3>3, <3>4 DEF rd_clobber
    <3>6. PICK k \in 1 .. Len(Retiring(Acks(c))) : Retiring(Acks(c))[k].rd = rd
      BY <2>3, <3>5 DEF stall_waw
    <3>7. PICK m \in Ids : Age(m) = k - 1 /\ mem[m].issued /\ mem[m].rd = rd /\ k \in 1 .. d
      BY <3>6, RetiringEntries DEF d
    <3>8. m = i
      BY <3>1, <3>3, <3>7 DEF Clobbers
    <3> QED
      BY <1>5, <3>1, <3>7, <3>8
  <2>6. Forwarded(j)'
    <3> SUFFICES ASSUME NEW i \in Ids, Older(i, j)', mem[i].rd # 0, mem[i].rd = rs
                 PROVE  operand(rs, Ports(u)) = mem[i].n
      BY <1>1, <1>4, <2>2 DEF Forwarded
    <3>1. i \in Clobbers(rs)
      BY <1>4 DEF Clobbers
    <3> QED
      BY <2>4, <3>1
  <2>7. ASSUME \A i \in Ids : Older(i, j)' => mem'[i].rd = 0 \/ mem'[i].rd # rs
        PROVE  operand(rs, Ports(u)) = regs'[rs]
    <3>1. CASE Clobbers(rs) = {}
      <4>1. rs = 0 \/ \A i \in Ids : Age(i) < d => mem[i].rd # rs
        BY <1>4, <3>1 DEF Clobbers
      <4> QED
        BY <1>2, <2>3, <2>4, <3>1, <4>1
    <3>2. ASSUME NEW i \in Clobbers(rs)
          PROVE  operand(rs, Ports(u)) = regs'[rs]
      <4>1. i \in Ids /\ mem[i].issued /\ mem[i].rd = rs /\ rs # 0
        BY DEF Clobbers
      <4>2. Age(i) < Age(j)
        BY <1>5, <1>8, <4>1
      <4>3. Age(i) < d
        BY <1>4, <1>5, <2>7, <4>1, <4>2
      <4> QED
        BY <1>2, <2>4, <4>1, <4>3
    <3> QED
      BY <3>1, <3>2
  <2>8. FromRegister(j)'
    BY <1>1, <2>2, <2>7 DEF FromRegister
  <2> QED
    BY <2>5, <2>6, <2>8
<1>9. \/ /\ Issue(offer, fu, rd, rs, c, u, x) /\ Age(j) = Count
         /\ Enters(mem'[j], Instr(fu, rd, rs, u),
                   Accepted(offer, fu, rd, rs, c, u, x) /\ ~x.writeback)
      \/ /\ mem[j].issued /\ Keeps(mem[j], mem'[j]) /\ mem'[j].rd = mem[j].rd
         /\ mem[j].ex => mem'[j].ex
  BY <1>0, <1>3, EntryMoves
<1> QED
  BY <1>7, <1>8, <1>9


-----------------------------------------------------------------------------
(* The two theorems.                                                       *)

LEMMA OrderInitially ==
  ASSUME Init
  PROVE  Order
<1>1. Holding
  BY HoldingInitially
<1>2. \A i \in Ids : ~mem[i].issued
  BY DEF Init, ScoreboardReset, FreeEntry
<1>3. DOMAIN regs = Regs
  BY DEF Init
<1> QED
  BY <1>1, <1>2, <1>3 DEF Order, Values, Operands, Sure

LEMMA OrderUnchanged ==
  ASSUME Order, UNCHANGED vars
  PROVE  Order'
<1>1. Holding'
  BY RegistersUnchanged, HoldingUnchanged DEF Order, Holding
<1>2. Ids' = Ids /\ mem' = mem /\ regs' = regs /\ commit_pointer' = commit_pointer /\ N' = N
  BY DEF vars, scoreboardVars, pipelineVars, Ids, N, NR_SB_ENTRIES
<1>3. \A i : Age(i)' = Age(i)
  BY <1>2 DEF Age, HeadSlot
<1>4. Values'
  BY <1>2 DEF Order, Values
<1>5. Operands'
  BY <1>2, <1>3 DEF Order, Operands, Sure, Older, OneWriter, Forwarded, FromRegister
<1> QED
  BY <1>1, <1>4, <1>5 DEF Order

(* Results, operands and registers at every edge: what forwarding in       *)
(* issue_read_operands.sv hands out is the value program order asks for.   *)
THEOREM OrderInductive ==
  ASSUME NeverKills
  PROVE  Spec => []Order
<1>1. Init => Order
  BY OrderInitially
<1>2. Order /\ [Next]_vars /\ Holding' => Order'
  <2> SUFFICES ASSUME Order, [Next]_vars, Holding'
               PROVE  Order'
    OBVIOUS
  <2>1. CASE Next
    <3>1. PICK offer, fu, rd, rs, mispredict, c, u, x :
            /\ Inputs(offer, fu, rd, rs, mispredict, c, u, x)
            /\ Edge(offer, fu, rd, rs, mispredict, c, u, x)
      BY <2>1, NextInputs DEF Order, Holding, Registers, Ring, Pointers
    <3>2. Values' /\ Operands'
      BY <3>1, ValuesStep, OperandsStep
    <3> QED
      BY <3>2 DEF Order
  <2>2. CASE UNCHANGED vars
    BY <2>2, OrderUnchanged
  <2> QED
    BY <2>1, <2>2
<1>3. Spec => []Holding
  BY HoldingInductive
<1> QED
  BY <1>1, <1>2, <1>3, PTL DEF Spec

(* scoreboard.sv takes a writeback for any instruction that is issued: a   *)
(* completed instruction has its own result, not that of an instruction    *)
(* flushed before it that had the same identifier.                         *)
THEOREM OwnResults ==
  ASSUME NeverKills
  PROVE  Spec => []ResultsAreOwn
<1>1. Order => ResultsAreOwn
  BY DEF Order, Holding, Registers, Ring, Entries, Values, ResultsAreOwn
<1>2. Spec => []Order
  BY OrderInductive
<1> QED
  BY <1>1, <1>2, PTL

LEMMA StepRetires ==
  ASSUME Order, NEW c, CommitRegisters(Retiring(Acks(c))), retired' = Retiring(Acks(c))
  PROVE  Architecture!Retires(retired')
<1> DEFINE s == Retiring(Acks(c))
           d == Leaving(Acks(c))
<1>1. /\ d \in 0 .. 2 /\ Len(s) = d /\ (d = 0 => s = <<>>)
      /\ \A k \in 1 .. d :
           \E i \in Ids : /\ Age(i) = k - 1 /\ mem[i].issued /\ Sure(i)
                          /\ s[k].n = mem[i].n /\ s[k].rd = mem[i].rd /\ s[k].rs = mem[i].rs
                          /\ s[k].operand = mem[i].operand /\ s[k].result = mem[i].n
                          /\ s[k].wrong_path = mem[i].wrong_path
  BY RetiringEntries
<1>2. DOMAIN regs = Regs /\ Ring /\ Values /\ Operands
  BY DEF Order, Values, Holding, Registers
<1>3. /\ next \in Nat
      /\ \A i \in Ids : /\ Age(i) \in Nat /\ mem[i].rd \in Regs /\ mem[i].rs \in Regs
                        /\ mem[i].issued => mem[i].n = next + Age(i) /\ ~mem[i].wrong_path
      /\ \A i, j \in Ids : Age(i) = Age(j) => i = j
  BY <1>2, Ages DEF Values
<1>4. CASE d = 0
  BY <1>1, <1>4 DEF CommitRegisters, Architecture!Retires
<1>5. ASSUME d \in {1, 2}
      PROVE  /\ Architecture!Fits(regs, s[1], next)
             /\ WriteRegister(regs, s[1]) = Architecture!Write(regs, s[1])
  <2>1. PICK i \in Ids : /\ Age(i) = 0 /\ mem[i].issued /\ Sure(i)
                         /\ s[1].n = mem[i].n /\ s[1].rs = mem[i].rs
                         /\ s[1].operand = mem[i].operand /\ s[1].result = mem[i].n
                         /\ s[1].wrong_path = mem[i].wrong_path
    BY <1>1, <1>5
  <2>2. \A m \in Ids : ~Older(m, i)
    BY <1>3, <2>1 DEF Older
  <2>3. mem[i].operand = regs[mem[i].rs]
    BY <1>2, <2>1, <2>2 DEF Operands, FromRegister
  <2>4. mem[i].n = next /\ ~mem[i].wrong_path
    BY <1>3, <2>1
  <2> QED
    BY <2>1, <2>3, <2>4 DEF Architecture!Fits, Architecture!Write, WriteRegister
<1>6. ASSUME d = 2
      PROVE  /\ Architecture!Fits(Architecture!Write(regs, s[1]), s[2], next + 1)
             /\ \A r : WriteRegister(r, s[2]) = Architecture!Write(r, s[2])
  <2>1. PICK i \in Ids : /\ Age(i) = 0 /\ mem[i].issued
                         /\ s[1].n = mem[i].n /\ s[1].rd = mem[i].rd
    BY <1>1, <1>6
  <2>2. PICK j \in Ids : /\ Age(j) = 1 /\ mem[j].issued /\ Sure(j)
                         /\ s[2].n = mem[j].n /\ s[2].rd = mem[j].rd /\ s[2].rs = mem[j].rs
                         /\ s[2].operand = mem[j].operand /\ s[2].result = mem[j].n
                         /\ s[2].wrong_path = mem[j].wrong_path
    BY <1>1, <1>6
  <2>3. \A m \in Ids : Older(m, j) <=> m = i
    BY <1>3, <2>1, <2>2 DEF Older
  <2>4. mem[j].operand = IF mem[i].rd # 0 /\ mem[i].rd = mem[j].rs THEN mem[i].n
                         ELSE regs[mem[j].rs]
    BY <1>2, <2>1, <2>2, <2>3 DEF Operands, Forwarded, FromRegister
  <2>5. mem[j].operand = Architecture!Write(regs, s[1])[mem[j].rs]
    BY <1>2, <1>3, <2>1, <2>4 DEF Architecture!Write
  <2>6. mem[j].n = next + 1 /\ ~mem[j].wrong_path
    BY <1>3, <2>2
  <2> QED
    BY <2>2, <2>5, <2>6 DEF Architecture!Fits, Architecture!Write, WriteRegister
<1>7. CASE d = 1
  <2>1. regs' = WriteRegister(regs, s[1])
    BY <1>1, <1>7 DEF CommitRegisters
  <2> QED
    BY <1>1, <1>5, <1>7, <2>1 DEF Architecture!Retires
<1>8. CASE d = 2
  <2>1. regs' = WriteRegister(WriteRegister(regs, s[1]), s[2])
    BY <1>1, <1>8 DEF CommitRegisters
  <2> QED
    BY <1>1, <1>5, <1>6, <1>8, <2>1 DEF Architecture!Retires
<1> QED
  BY <1>1, <1>4, <1>7, <1>8

(* Out-of-order completion, forwarding and speculation are invisible: the  *)
(* registers and the retired instructions are those of InOrder.            *)
THEOREM InOrderRefinement ==
  ASSUME NeverKills
  PROVE  Spec => ImplementsInOrder
<1>1. Init => Architecture!Init
  BY DEF Init, Architecture!Init
<1>2. Order /\ [Next]_vars => [Architecture!Step]_(Architecture!vars)
  <2> SUFFICES ASSUME Order, [Next]_vars
               PROVE  [Architecture!Step]_(Architecture!vars)
    OBVIOUS
  <2>1. CASE Next
    <3>0. Ring
      BY DEF Order, Holding, Registers
    <3>1. PICK offer, fu, rd, rs, mispredict, c, u, x :
            /\ Inputs(offer, fu, rd, rs, mispredict, c, u, x)
            /\ Edge(offer, fu, rd, rs, mispredict, c, u, x)
      BY <2>1, <3>0, NextInputs DEF Ring, Pointers
    <3> DEFINE d == Leaving(Acks(c))
    <3>2. /\ CommitRegisters(Retiring(Acks(c))) /\ retired' = Retiring(Acks(c))
          /\ flushed' = Flush(c)
          /\ next' = IF Flush(c) THEN last_issued' + 1 ELSE next + Len(Retiring(Acks(c)))
      BY <3>1, EdgeParts
    <3>3. Architecture!Retires(retired')
      BY <3>2, StepRetires
    <3>4. /\ d \in 0 .. 2 /\ Len(retired') = d /\ d <= Count
          /\ next \in Nat /\ last_issued \in Nat /\ Flush(c) \in BOOLEAN
          /\ last_issued' = last_issued \/ last_issued' = last_issued + 1
      <4>1. d \in 0 .. 2 /\ d <= Count
        BY <3>0, AcksAreOldest
      <4>2. Len(retired') = d
        BY <3>2, RetiringEntries
      <4>3. next \in Nat /\ last_issued \in Nat
        BY <3>0 DEF Ring, Pointers
      <4>4. Flush(c) \in BOOLEAN
        BY <3>0, <3>1, Signals
      <4>5. last_issued' = last_issued \/ last_issued' = last_issued + 1
        BY <3>1, EdgeParts
      <4> QED
        BY <4>1, <4>2, <4>3, <4>4, <4>5
    <3> HIDE DEF d
    <3>5. next' \in Nat /\ next' >= next + d /\ (~flushed' => next' = next + d)
      BY <3>2, <3>4 DEF Count
    <3>6. Architecture!Discards(retired')
      BY <3>2, <3>4, <3>5 DEF Architecture!Discards
    <3> QED
      BY <3>3, <3>6 DEF Architecture!Step
  <2>2. CASE UNCHANGED vars
    BY <2>2 DEF vars, pipelineVars, historyVars, Architecture!vars
  <2> QED
    BY <2>1, <2>2
<1>3. Spec => []Order
  BY OrderInductive
<1> QED
  BY <1>1, <1>2, <1>3, PTL DEF Spec, ImplementsInOrder, Architecture!Spec

=============================================================================
