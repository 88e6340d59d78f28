--------------------------- MODULE IssueRingProofs ---------------------------
(***************************************************************************)
(* Theorems about IssueStage, for every number of entries, one or two      *)
(* commit ports, and every mix of units: the port of the fixed latency     *)
(* units, then the ring of the scoreboard.                                 *)
(***************************************************************************)
EXTENDS IssueStage, FiniteSetTheorems, TLAPS

-----------------------------------------------------------------------------
(* The port of the fixed latency units.                                    *)

(* An instruction that enters a one-cycle unit found the divider idle and  *)
(* neither a product nor a division in the issue register.                 *)
LEMMA FreeUnit ==
  ASSUME NEW fu \in OneCycle, NEW csr_commit,
         ~fu_busy(fu, flu_ready(fu_data, csr_commit))
  PROVE  /\ div_state = "IDLE"
         /\ fu_data.fu \notin {"MULT", "DIV"}
BY DEF fu_busy, flu_ready, mult_ready, OneCycle

(* Then the edge starts neither of them.                                   *)
LEMMA NothingStarts ==
  ASSUME NEW known, NEW last, NEW csr_commit, NEW flush,
         div_state = "IDLE", fu_data.fu \notin {"MULT", "DIV"},
         FixedLatencyClock(fu_data, known, last, csr_commit, flush)
  PROVE  ~mult_pipe'.valid /\ div_state' = "IDLE"
BY DEF FixedLatencyClock, NextDivState, NoOp

(* One edge, whatever is offered and whatever the environment chooses.     *)
LEMMA EdgeKeepsPort ==
  ASSUME NEW offer, NEW fu, NEW rd, NEW rs, NEW mispredict, NEW c, NEW u, NEW x,
         Edge(offer, fu, rd, rs, mispredict, c, u, x)
  PROVE  OneResultAtPort'
<1> DEFINE ack == commit_ack(c.halt, c.csr_ex, c.lsu_ready)
           csr_commit == ack[1] /\ commit_instr(1).fu = "CSR"
           flush == exception(c.halt, c.csr_ex) \/ (csr_commit /\ c.csr_flush)
           flush_unissued == flush \/ fu_data.mispredict
<1>1. SUFFICES ASSUME fu_data'.fu \in OneCycle
               PROVE  ~mult_pipe'.valid /\ div_state' = "IDLE"
  BY DEF OneResultAtPort
<1>2. PICK issue_ack, rejected :
        /\ issue_ack => ~fu_busy(fu, flu_ready(fu_data, csr_commit))
        /\ fu_data' = NextFuData(issue_ack, fu, flush_unissued, mispredict, rejected)
  BY DEF Edge
<1>3. issue_ack /\ fu \in OneCycle
  BY <1>1, <1>2 DEF NextFuData, NoIssue, OneCycle
<1>4. div_state = "IDLE" /\ fu_data.fu \notin {"MULT", "DIV"}
  BY <1>2, <1>3, FreeUnit
<1>5. FixedLatencyClock(fu_data, u.known, u.last, csr_commit, flush)
  BY DEF Edge
<1> QED
  BY <1>4, <1>5, NothingStarts

(* Results never meet at the port of the fixed latency units (ex_stage.sv):*)
(* the structural hazards checked at issue (issue_read_operands.sv) are    *)
(* enough, with any number of instructions in flight.                      *)
THEOREM PortIsFree == Spec => []OneResultAtPort
<1>1. Init => OneResultAtPort
  BY DEF Init, NoIssue, OneResultAtPort, OneCycle
<1>2. OneResultAtPort /\ [Next]_vars => OneResultAtPort'
  <2> SUFFICES ASSUME OneResultAtPort, [Next]_vars
               PROVE  OneResultAtPort'
    OBVIOUS
  <2>1. CASE Next
    BY <2>1, EdgeKeepsPort DEF Next, Idle, OfferInstruction, OfferToCoprocessor, Offer
  <2>2. CASE UNCHANGED vars
    BY <2>2 DEF vars, pipelineVars, fixedLatencyVars, OneResultAtPort
  <2> QED
    BY <2>1, <2>2
<1> QED
  BY <1>1, <1>2, PTL DEF Spec

-----------------------------------------------------------------------------
(* The signals of an edge, as its definition names them.                   *)

Acks(c) == commit_ack(c.halt, c.csr_ex, c.lsu_ready)
CsrCommit(c) == Acks(c)[1] /\ commit_instr(1).fu = "CSR"
Flush(c) == exception(c.halt, c.csr_ex) \/ (CsrCommit(c) /\ c.csr_flush)
FlushUnissued(c) == Flush(c) \/ fu_data.mispredict
Ports(u) == Writebacks(u.known, u.done, u.fault, u.answer)

Free(offer, fu, c) == offer /\ ~issue_full /\ ~fu_busy(fu, flu_ready(fu_data, CsrCommit(c)))
XIssue(offer, fu, rd, c) ==
  /\ Free(offer, fu, c) /\ fu = "CVXIF"
  /\ ~stall_waw(rd, Retiring(Acks(c))) /\ ~FlushUnissued(c)
Accepted(offer, fu, rd, rs, c, u, x) ==
  XIssue(offer, fu, rd, c) /\ x.ready /\ x.accept /\ ~stall_raw(rs, Ports(u))
Rejected(offer, fu, rd, c, x) == XIssue(offer, fu, rd, c) /\ x.ready /\ ~x.accept
IssueAck(offer, fu, rd, rs, c, u, x) ==
  /\ Free(offer, fu, c)
  /\ \/ fu = "NONE"
     \/ /\ ~stall_raw(rs, Ports(u)) \/ Rejected(offer, fu, rd, c, x)
        /\ ~stall_waw(rd, Retiring(Acks(c)))
  /\ fu = "CVXIF" => Accepted(offer, fu, rd, rs, c, u, x) \/ Rejected(offer, fu, rd, c, x)
Issue(offer, fu, rd, rs, c, u, x) == IssueAck(offer, fu, rd, rs, c, u, x) /\ ~FlushUnissued(c)
Instr(fu, rd, rs, u) ==
  [FreeEntry EXCEPT !.issued = TRUE, !.valid = fu = "NONE", !.ex = fu = "NONE",
     !.fu = fu, !.rd = rd, !.n = last_issued + 1, !.rs = rs,
     !.operand = operand(rs, Ports(u)), !.wrong_path = off_path]

LEMMA EdgeParts ==
  ASSUME NEW offer, NEW fu, NEW rd, NEW rs, NEW mispredict, NEW c, NEW u, NEW x,
         Edge(offer, fu, rd, rs, mispredict, c, u, x)
  PROVE  /\ config' = config
         /\ ScoreboardClock(Issue(offer, fu, rd, rs, c, u, x), Instr(fu, rd, rs, u), Ports(u),
                            Acks(c), Flush(c), Accepted(offer, fu, rd, rs, c, u, x) /\ ~x.writeback)
         /\ FixedLatencyClock(fu_data, u.known, u.last, CsrCommit(c), Flush(c))
         /\ fu_data' = NextFuData(IssueAck(offer, fu, rd, rs, c, u, x), fu, FlushUnissued(c),
                                  mispredict, Rejected(offer, fu, rd, c, x))
         /\ CommitRegisters(Retiring(Acks(c)))
         /\ LsuClock(u.done, Flush(c))
         /\ CoproClock(u.answer, Accepted(offer, fu, rd, rs, c, u, x), last_issued + 1, x.writeback)
         /\ last_issued' = IF Issue(offer, fu, rd, rs, c, u, x) THEN last_issued + 1 ELSE last_issued
         /\ off_path' = IF FlushUnissued(c) THEN FALSE
                        ELSE off_path \/ (Issue(offer, fu, rd, rs, c, u, x) /\ mispredict /\ fu = "CTRL_FLOW")
         /\ retired' = Retiring(Acks(c))
         /\ flushed' = Flush(c)
         /\ next' = IF Flush(c) THEN last_issued' + 1 ELSE next + Len(Retiring(Acks(c)))
<1>1. /\ config' = config
      /\ ScoreboardClock(Issue(offer, fu, rd, rs, c, u, x), Instr(fu, rd, rs, u), Ports(u),
                         Acks(c), Flush(c), Accepted(offer, fu, rd, rs, c, u, x) /\ ~x.writeback)
  BY DEF Edge, Fixed, Acks, CsrCommit, Flush, FlushUnissued, Ports, Free, XIssue, Accepted,
         Rejected, IssueAck, Issue, Instr
<1>2. /\ FixedLatencyClock(fu_data, u.known, u.last, CsrCommit(c), Flush(c))
      /\ CommitRegisters(Retiring(Acks(c)))
      /\ LsuClock(u.done, Flush(c))
      /\ retired' = Retiring(Acks(c))
      /\ flushed' = Flush(c)
  BY DEF Edge, Acks, CsrCommit, Flush
<1>3. /\ fu_data' = NextFuData(IssueAck(offer, fu, rd, rs, c, u, x), fu, FlushUnissued(c),
                               mispredict, Rejected(offer, fu, rd, c, x))
      /\ CoproClock(u.answer, Accepted(offer, fu, rd, rs, c, u, x), last_issued + 1, x.writeback)
  BY DEF Edge, Fixed, Acks, CsrCommit, Flush, FlushUnissued, Ports, Free, XIssue, Accepted,
         Rejected, IssueAck, Issue
<1>4. /\ last_issued' = IF Issue(offer, fu, rd, rs, c, u, x) THEN last_issued + 1 ELSE last_issued
      /\ off_path' = IF FlushUnissued(c) THEN FALSE
                     ELSE off_path \/ (Issue(offer, fu, rd, rs, c, u, x) /\ mispredict /\ fu = "CTRL_FLOW")
      /\ next' = IF Flush(c) THEN last_issued' + 1 ELSE next + Len(Retiring(Acks(c)))
  BY DEF Edge, Fixed, Acks, CsrCommit, Flush, FlushUnissued, Ports, Free, XIssue, Accepted,
         Rejected, IssueAck, Issue
<1> QED
  BY <1>1, <1>2, <1>3, <1>4

-----------------------------------------------------------------------------
(* The ring.  The age of a slot is its distance from the commit pointer;   *)
(* the instructions in flight are those from next to last_issued.          *)

N == NR_SB_ENTRIES
HeadSlot == commit_pointer[1]
Age(i) == IF i >= HeadSlot THEN i - HeadSlot ELSE i - HeadSlot + N
Count == last_issued + 1 - next

IsEntry(e) ==
  /\ DOMAIN e = {"issued", "valid", "fu", "rd", "ex", "result", "n", "rs", "operand", "wrong_path"}
  /\ e.issued \in BOOLEAN /\ e.valid \in BOOLEAN /\ e.ex \in BOOLEAN
  /\ e.fu \in Units /\ e.rd \in Regs /\ e.rs \in Regs /\ e.n \in Nat

Pointers ==
  /\ config \in Configs
  /\ last_issued \in Nat /\ next \in Nat /\ Count \in 0 .. N
  /\ HeadSlot \in Ids /\ DOMAIN commit_pointer = CommitPorts
  /\ \A k \in CommitPorts : commit_pointer[k] \in Ids
  /\ \A k \in CommitPorts : Count # 0 => commit_pointer[k] = Add(HeadSlot, k - 1)
  /\ issue_pointer = Add(HeadSlot, Count)

Entries ==
  /\ DOMAIN mem = Ids
  /\ \A i \in Ids : /\ IsEntry(mem[i])
                    /\ mem[i].issued <=> Age(i) < Count
                    /\ mem[i].issued => mem[i].n = next + Age(i)
                    /\ mem[i].valid => mem[i].issued

Ring == Pointers /\ Entries /\ \A o \in copro : o.writeback \in BOOLEAN

LEMMA Sizes ==
  ASSUME config \in Configs
  PROVE  /\ N \in Nat \ {0, 1} /\ Ids = 0 .. N - 1
         /\ CommitPorts = {1} \/ CommitPorts = {1, 2}
         /\ NrCommitPorts \in {1, 2} /\ CommitPorts = 1 .. NrCommitPorts
<1>1. N \in Nat \ {0, 1} /\ NrCommitPorts \in {1, 2}
  BY EntriesAssumption, CommitPortsAssumption DEF N, NR_SB_ENTRIES, NrCommitPorts
<1>2. NrCommitPorts = 1 => CommitPorts = {1}
  BY DEF CommitPorts
<1>3. NrCommitPorts = 2 => CommitPorts = {1, 2}
  BY DEF CommitPorts
<1> QED
  BY <1>1, <1>2, <1>3 DEF N, Ids, CommitPorts

(* Add without the modulus.                                                *)
LEMMA AddWraps ==
  ASSUME config \in Configs, NEW p \in Ids, NEW k \in 0 .. N
  PROVE  /\ Add(p, k) = IF p + k < N THEN p + k ELSE p + k - N
         /\ Add(p, k) \in Ids
<1>1. N \in Nat \ {0, 1} /\ p \in 0 .. N - 1
  BY Sizes
<1>2. (p + k) % N = IF p + k < N THEN p + k ELSE p + k - N
  BY <1>1
<1> QED
  BY <1>1, <1>2, Sizes DEF Add, N

(* The commit pointer moves by d, the issue pointer by nothing or by one.  *)
LEMMA PointersMove ==
  ASSUME config \in Configs, NEW p \in Ids, NEW k \in 0 .. N, NEW d \in 0 .. N, d <= k
  PROVE  /\ Add(p, d) \in Ids
         /\ Add(p, d) = IF p + d < N THEN p + d ELSE p + d - N
         /\ Add(p, k) = Add(Add(p, d), k - d)
         /\ k < N => Add(Add(p, k), 1) = Add(Add(p, d), k + 1 - d)
<1>1. N \in Nat \ {0, 1} /\ Ids = 0 .. N - 1
  BY Sizes
<1>2. \A q \in Ids : \A m \in 0 .. N :
        Add(q, m) = (IF q + m < N THEN q + m ELSE q + m - N) /\ Add(q, m) \in Ids
  BY AddWraps
<1>3. k - d \in 0 .. N /\ 1 \in 0 .. N /\ (k < N => k + 1 - d \in 0 .. N)
  BY <1>1
<1>4. /\ Add(p, d) = (IF p + d < N THEN p + d ELSE p + d - N) /\ Add(p, d) \in Ids
      /\ Add(p, k) = (IF p + k < N THEN p + k ELSE p + k - N) /\ Add(p, k) \in Ids
  BY <1>2
<1>5. Add(Add(p, d), k - d) =
        IF Add(p, d) + (k - d) < N THEN Add(p, d) + (k - d) ELSE Add(p, d) + (k - d) - N
  BY <1>2, <1>3, <1>4
<1>6. k < N => Add(Add(p, d), k + 1 - d) =
                 IF Add(p, d) + (k + 1 - d) < N THEN Add(p, d) + (k + 1 - d)
                 ELSE Add(p, d) + (k + 1 - d) - N
  BY <1>2, <1>3, <1>4
<1>7. Add(Add(p, k), 1) = IF Add(p, k) + 1 < N THEN Add(p, k) + 1 ELSE Add(p, k) + 1 - N
  BY <1>2, <1>3, <1>4
<1> QED
  BY <1>1, <1>4, <1>5, <1>6, <1>7

LEMMA AgeRange ==
  ASSUME config \in Configs, HeadSlot \in Ids
  PROVE  /\ \A i \in Ids : Age(i) \in 0 .. N - 1 /\ Age(i) \in Int
         /\ \A i, j \in Ids : Age(i) = Age(j) => i = j
         /\ \A k \in 0 .. N - 1 : Add(HeadSlot, k) \in Ids /\ Age(Add(HeadSlot, k)) = k
<1>1. N \in Nat \ {0, 1} /\ Ids = 0 .. N - 1
  BY Sizes
<1>2. ASSUME NEW k \in 0 .. N - 1
      PROVE  Add(HeadSlot, k) \in Ids /\ Age(Add(HeadSlot, k)) = k
  <2>1. Add(HeadSlot, k) = IF HeadSlot + k < N THEN HeadSlot + k ELSE HeadSlot + k - N
    BY <1>1, AddWraps
  <2> QED
    BY <1>1, <2>1 DEF Age
<1>3. \A i \in Ids : Age(i) \in 0 .. N - 1 /\ Age(i) \in Int
  BY <1>1 DEF Age
<1>4. \A i, j \in Ids : Age(i) = Age(j) => i = j
  BY <1>1 DEF Age
<1> QED
  BY <1>2, <1>3, <1>4

(* The number of entries that leave at the commit ports.                   *)
Leaving(ack) == IF ack[1] THEN IF NrCommitPorts = 2 /\ ack[NrCommitPorts] THEN 2 ELSE 1 ELSE 0

LEMMA AcksAreOldest ==
  ASSUME Ring, NEW c
  PROVE  LET d == Leaving(Acks(c))
         IN  /\ d \in 0 .. 2 /\ d <= Count /\ d <= N
             /\ \A i \in Ids : Age(i) < d => mem[i].valid /\ ~mem[i].ex
             /\ \A i \in Ids : (\E k \in CommitPorts : Acks(c)[k] /\ commit_pointer[k] = i)
                                 <=> Age(i) < d
             /\ d >= 1 => ~exception(c.halt, c.csr_ex)
             /\ d = 2 => /\ NrCommitPorts = 2 /\ commit_instr(1).fu # "CSR"
                         /\ commit_pointer[2] = Add(HeadSlot, 1)
                         /\ commit_instr(2).fu # "CSR"
<1> DEFINE d == Leaving(Acks(c))
           ack0 == ack_0(c.halt, c.csr_ex, c.lsu_ready)
           ack1 == ack_1(c.halt, ack0)
<1>1. /\ config \in Configs /\ HeadSlot \in Ids /\ N \in Nat \ {0, 1} /\ Ids = 0 .. N - 1
      /\ Count \in 0 .. N
      /\ \A k \in CommitPorts : commit_pointer[k] \in Ids
      /\ \A k \in CommitPorts : Count # 0 => commit_pointer[k] = Add(HeadSlot, k - 1)
      /\ \A i \in Ids : Age(i) \in 0 .. N - 1 /\ Age(i) \in Int
      /\ \A i \in Ids : mem[i].valid => Age(i) < Count
      /\ \A i, j \in Ids : Age(i) = Age(j) => i = j
  BY Sizes, AgeRange DEF Ring, Pointers, Entries
<1>2. /\ Acks(c) = [k \in CommitPorts |-> IF k = 1 THEN ack0 ELSE ack1]
      /\ ack0 \in BOOLEAN /\ ack1 \in BOOLEAN
  BY DEF Acks, commit_ack, ack_0, ack_1
<1>3. /\ 1 \in CommitPorts /\ (NrCommitPorts = 2 => CommitPorts = {1, 2})
      /\ NrCommitPorts # 2 => CommitPorts = {1}
      /\ NrCommitPorts \in {1, 2}
  BY <1>1, Sizes
<1>4. ack0 => mem[HeadSlot].valid /\ ~mem[HeadSlot].ex /\ ~exception(c.halt, c.csr_ex)
  BY DEF ack_0, head_valid, commit_instr, HeadSlot, exception
<1>5. ack1 => /\ NrCommitPorts = 2 /\ ack0 /\ commit_instr(1).fu # "CSR"
              /\ mem[commit_pointer[2]].valid /\ ~mem[commit_pointer[2]].ex
              /\ commit_instr(2).fu # "CSR"
  BY DEF ack_1, commit_instr
<1> HIDE DEF ack0, ack1
<1>6. Age(HeadSlot) = 0
  BY <1>1 DEF Age
<1>7. ack0 => Count >= 1
  BY <1>1, <1>4, <1>6
<1>8. ack1 => commit_pointer[2] = Add(HeadSlot, 1) /\ Age(commit_pointer[2]) = 1 /\ Count >= 2
  <2> SUFFICES ASSUME ack1 PROVE commit_pointer[2] = Add(HeadSlot, 1) /\ Age(commit_pointer[2]) = 1 /\ Count >= 2
    OBVIOUS
  <2>1. commit_pointer[2] = Add(HeadSlot, 2 - 1) /\ commit_pointer[2] \in Ids
    BY <1>1, <1>3, <1>5, <1>7
  <2>2. Age(Add(HeadSlot, 1)) = 1
    BY <1>1, AgeRange
  <2> QED
    BY <1>1, <1>5, <2>1, <2>2
<1>9. d = IF ack0 THEN IF ack1 THEN 2 ELSE 1 ELSE 0
  BY <1>2, <1>3, <1>5 DEF Leaving
<1> HIDE DEF d
<1>10. \A i \in Ids : Age(i) < d => i = HeadSlot \/ (d = 2 /\ i = commit_pointer[2])
  <2> SUFFICES ASSUME NEW i \in Ids, Age(i) < d
               PROVE  i = HeadSlot \/ (d = 2 /\ i = commit_pointer[2])
    OBVIOUS
  <2>1. Age(i) \in 0 .. N - 1 /\ N \in Nat
    BY <1>1
  <2>2. Age(i) = 0 \/ (Age(i) = 1 /\ d = 2 /\ ack1)
    BY <1>9, <2>1
  <2>3. CASE Age(i) = 0
    BY <1>1, <1>6, <2>3
  <2>4. CASE Age(i) = 1 /\ d = 2 /\ ack1
    <3>1. commit_pointer[2] \in Ids
      BY <1>1, <1>3, <1>5, <2>4
    <3> QED
      BY <1>1, <1>8, <2>4, <3>1
  <2> QED
    BY <2>2, <2>3, <2>4
<1>11. ASSUME NEW i \in Ids
       PROVE  (\E k \in CommitPorts : Acks(c)[k] /\ commit_pointer[k] = i) <=> Age(i) < d
  <2>1. (\E k \in CommitPorts : Acks(c)[k] /\ commit_pointer[k] = i)
           <=> (ack0 /\ i = HeadSlot) \/ (ack1 /\ i = commit_pointer[2])
    BY <1>2, <1>3, <1>5 DEF HeadSlot
  <2>2. ack1 => ack0 /\ commit_pointer[2] \in Ids
    BY <1>1, <1>3, <1>5
  <2> QED
    BY <1>1, <1>6, <1>8, <1>9, <1>10, <2>1, <2>2
<1>12. d \in 0 .. 2 /\ d <= Count /\ d <= N
  BY <1>1, <1>5, <1>7, <1>8, <1>9
<1>13. \A i \in Ids : Age(i) < d => mem[i].valid /\ ~mem[i].ex
  BY <1>4, <1>5, <1>6, <1>9, <1>10, <1>12
<1>14. /\ d >= 1 => ~exception(c.halt, c.csr_ex)
       /\ d = 2 => /\ NrCommitPorts = 2 /\ commit_instr(1).fu # "CSR"
                   /\ commit_pointer[2] = Add(HeadSlot, 1)
                   /\ commit_instr(2).fu # "CSR"
  BY <1>4, <1>5, <1>8, <1>9
<1> QED
  BY <1>11, <1>12, <1>13, <1>14 DEF d

-----------------------------------------------------------------------------
(* One entry over one edge.  A writeback port names entry i when w.tid = i.  *)
(* An offloaded instruction that writes no register has just been issued.    *)

Keeps(e, f) ==
  /\ f.issued = e.issued /\ f.fu = e.fu /\ f.n = e.n /\ f.rs = e.rs
  /\ f.operand = e.operand /\ f.wrong_path = e.wrong_path
Taken(e, f, w) ==
  /\ f.valid = TRUE /\ f.result = w.result /\ f.ex = (e.ex \/ w.ex)
  /\ f.rd = IF e.fu = "CVXIF" /\ ~w.we THEN 0 ELSE e.rd
Untouched(e, f) ==
  /\ f.valid = (e.valid \/ (e.issued /\ e.fu = "NONE"))
  /\ f.result = e.result /\ f.ex = e.ex /\ f.rd = e.rd

Gone(f) == ~f.issued /\ ~f.valid /\ ~f.ex /\ f.fu = "NONE" /\ f.n = 0
Enters(f, instr, nw) ==
  /\ Keeps(instr, f)
  /\ f.valid = instr.valid /\ f.ex = instr.ex /\ f.result = instr.result
  /\ f.rd = IF nw THEN 0 ELSE instr.rd
Stays(f, i, wb) ==
  /\ Keeps(mem[i], f)
  /\ \/ Untouched(mem[i], f) /\ ~(mem[i].issued /\ \E w \in wb : w.tid = i)
     \/ mem[i].issued /\ \E w \in wb : w.tid = i /\ Taken(mem[i], f, w)

LEMMA EntryLeaves ==
  ASSUME NEW i, NEW issue, NEW instr, NEW wb, NEW ack, NEW flush, NEW nw,
         NEW f, f = EntryAfter(i, issue, instr, wb, ack, flush, nw),
         Leaves(i, ack, flush)
  PROVE  IsEntry(f) /\ Gone(f)
BY RegsAssumption DEF EntryAfter, FreeEntry, IsEntry, Units, Gone

LEMMA EntryEnters ==
  ASSUME NEW i, NEW issue, NEW instr, NEW wb, NEW ack, NEW flush, NEW nw,
         NEW f, f = EntryAfter(i, issue, instr, wb, ack, flush, nw),
         ~Leaves(i, ack, flush), issue, i = issue_pointer, ~mem[i].issued, IsEntry(instr),
         nw \in BOOLEAN
  PROVE  IsEntry(f) /\ Enters(f, instr, nw)
<1>1. Completed(i, issue, instr, wb) = [instr EXCEPT !.valid = instr.valid \/ FALSE]
  BY DEF Completed
<1> QED
  BY <1>1, RegsAssumption DEF EntryAfter, IsEntry, Keeps, Enters

LEMMA EntryStays ==
  ASSUME NEW i, NEW issue, NEW instr, NEW wb, NEW ack, NEW flush, NEW nw,
         NEW f, f = EntryAfter(i, issue, instr, wb, ack, flush, nw),
         ~Leaves(i, ack, flush), ~(issue /\ i = issue_pointer), nw => issue,
         IsEntry(mem[i]), \A w \in wb : w.ex \in BOOLEAN /\ w.we \in BOOLEAN
  PROVE  IsEntry(f) /\ Stays(f, i, wb)
<1> DEFINE none == [mem[i] EXCEPT !.valid = @ \/ (mem[i].issued /\ mem[i].fu = "NONE")]
           taken == {w \in wb : mem[i].issued /\ w.tid = i}
           done == Completed(i, issue, instr, wb)
<1>1. done = IF taken = {} THEN none ELSE WriteBack(none, CHOOSE w \in taken : TRUE)
  BY DEF Completed
<1>2. /\ IsEntry(none) /\ Keeps(mem[i], none) /\ Untouched(mem[i], none)
  BY DEF IsEntry, Keeps, Untouched
<1>3. f = [done EXCEPT !.rd = done.rd]
  BY DEF EntryAfter
<1>4. CASE taken = {}
  <2>1. f = [none EXCEPT !.rd = none.rd]
    BY <1>1, <1>3, <1>4
  <2> HIDE DEF none
  <2>2. IsEntry(f) /\ Keeps(none, f) /\ f.valid = none.valid /\ f.result = none.result
        /\ f.ex = none.ex /\ f.rd = none.rd
    BY <1>2, <2>1 DEF IsEntry, Keeps
  <2> QED
    BY <1>2, <1>4, <2>2 DEF Keeps, Untouched, Stays
<1>5. CASE taken # {}
  <2>1. PICK w \in taken : w = CHOOSE v \in taken : TRUE
    BY <1>5
  <2>2. f = [WriteBack(none, w) EXCEPT !.rd = WriteBack(none, w).rd]
    BY <1>1, <1>3, <1>5, <2>1
  <2>3. w \in wb /\ mem[i].issued /\ w.tid = i /\ w.ex \in BOOLEAN /\ w.we \in BOOLEAN
    BY <2>1
  <2> HIDE DEF none
  <2>4. none.rd = mem[i].rd /\ none.ex = mem[i].ex /\ none.fu = mem[i].fu
    BY <1>2 DEF Untouched, Keeps
  <2>5. IsEntry(f) /\ Keeps(none, f) /\ Taken(none, f, w)
    <3> DEFINE rd2 == IF none.fu = "CVXIF" /\ ~w.we THEN 0 ELSE none.rd
    <3>1. f = [none EXCEPT !.valid = TRUE, !.result = w.result, !.ex = none.ex \/ w.ex,
                           !.rd = rd2]
      BY <1>2, <2>2 DEF IsEntry, WriteBack
    <3>2. rd2 \in Regs /\ (none.ex \/ w.ex) \in BOOLEAN
      BY <1>2, <2>3, RegsAssumption DEF IsEntry
    <3>3. Taken(none, f, w)
      BY <1>2, <3>1 DEF IsEntry, Taken
    <3> HIDE DEF rd2
    <3>4. IsEntry(f) /\ Keeps(none, f)
      BY <1>2, <3>1, <3>2 DEF IsEntry, Keeps
    <3> QED
      BY <3>3, <3>4
  <2> QED
    <3>1. Keeps(mem[i], f) /\ Taken(mem[i], f, w)
      BY <1>2, <2>4, <2>5 DEF Keeps, Taken
    <3> QED
      BY <2>3, <2>5, <3>1 DEF Stays
<1> QED
  BY <1>4, <1>5

-----------------------------------------------------------------------------
(* What the inputs of an edge are, and its signals under Ring.             *)

Inputs(offer, fu, rd, rs, mispredict, c, u, x) ==
  /\ offer \in BOOLEAN /\ fu \in Units /\ rd \in Regs /\ rs \in Regs /\ mispredict \in BOOLEAN
  /\ c \in CommitChoices /\ u \in UnitChoices /\ x \in CoproChoices \cup {NoCopro}
  /\ offer => fu \in Fus /\ last_issued < MaxInstr
  /\ mispredict => fu = "CTRL_FLOW"
  /\ fu = "STORE" => rd = 0
  /\ offer /\ fu = "CVXIF" => x \in CoproChoices

LEMMA NextInputs ==
  ASSUME config \in Configs, Next
  PROVE  \E offer, fu, rd, rs, mispredict, c, u, x :
           /\ Inputs(offer, fu, rd, rs, mispredict, c, u, x)
           /\ Edge(offer, fu, rd, rs, mispredict, c, u, x)
<1>1. Fus \subseteq Units /\ 0 \in Regs
  BY FusAssumption, RegsAssumption DEF Fus
<1>2. CASE Idle
  <2>1. PICK c \in CommitChoices, u \in UnitChoices :
          Edge(FALSE, "NONE", 0, 0, FALSE, c, u, NoCopro)
    BY <1>2 DEF Idle, Offer
  <2>2. Inputs(FALSE, "NONE", 0, 0, FALSE, c, u, NoCopro)
    BY <1>1, <2>1 DEF Inputs, Units
  <2> QED
    BY <2>1, <2>2
<1>3. CASE OfferInstruction
  <2>1. PICK fu \in Fus \ {"CVXIF"} :
          \E rd \in HasRd(fu), rs \in Regs,
             mispredict \in (IF fu = "CTRL_FLOW" THEN BOOLEAN ELSE {FALSE}) :
            Offer(TRUE, fu, rd, rs, mispredict, NoCopro)
    BY <1>3 DEF OfferInstruction
  <2>2. PICK rd \in HasRd(fu), rs \in Regs,
             mispredict \in (IF fu = "CTRL_FLOW" THEN BOOLEAN ELSE {FALSE}) :
            Offer(TRUE, fu, rd, rs, mispredict, NoCopro)
    BY <2>1
  <2>3. PICK c \in CommitChoices, u \in UnitChoices :
          Edge(TRUE, fu, rd, rs, mispredict, c, u, NoCopro)
    BY <2>2 DEF Offer
  <2>4. /\ fu \in Units /\ rd \in Regs /\ (fu = "STORE" => rd = 0)
        /\ mispredict \in BOOLEAN /\ (mispredict => fu = "CTRL_FLOW")
        /\ last_issued < MaxInstr
    BY <1>1, <1>3, <2>1, <2>2 DEF HasRd, OfferInstruction
  <2>5. Inputs(TRUE, fu, rd, rs, mispredict, c, u, NoCopro)
    BY <2>1, <2>2, <2>3, <2>4 DEF Inputs
  <2> QED
    BY <2>3, <2>5
<1>4. CASE OfferToCoprocessor
  <2>1. PICK rd \in Regs, rs \in Regs, x \in CoproChoices : Offer(TRUE, "CVXIF", rd, rs, FALSE, x)
    BY <1>4 DEF OfferToCoprocessor
  <2>2. PICK c \in CommitChoices, u \in UnitChoices :
          Edge(TRUE, "CVXIF", rd, rs, FALSE, c, u, x)
    BY <2>1 DEF Offer
  <2>3. last_issued < MaxInstr /\ "CVXIF" \in Fus
    BY <1>4 DEF OfferToCoprocessor
  <2>4. Inputs(TRUE, "CVXIF", rd, rs, FALSE, c, u, x)
    BY <1>1, <2>1, <2>2, <2>3 DEF Inputs
  <2> QED
    BY <2>2, <2>4
<1> QED
  BY <1>2, <1>3, <1>4 DEF Next

(* The four kinds of writeback.                                            *)
FluPort(u, w) ==
  /\ flu_valid(fu_data, u.known)
  /\ w.tid = FluResult(fu_data, u.known).tid /\ w.result = FluResult(fu_data, u.known).result
  /\ w.ex = FALSE /\ w.we = TRUE
LsuPort(u, w) ==
  \E o \in u.done : /\ w.tid = o.tid /\ w.result = o.n /\ w.we = TRUE
                    /\ w.ex \in BOOLEAN /\ (w.ex <=> o \in u.fault)
RefusedPort(w) ==
  fu_data.rejected /\ w.tid = fu_data.tid /\ w.result = fu_data.n /\ w.ex = TRUE /\ w.we = FALSE
CoproPort(u, w) ==
  \E o \in u.answer : /\ ~fu_data.rejected
                      /\ w.tid = o.tid /\ w.result = o.n /\ w.ex = FALSE /\ w.we = o.writeback

(* Membership, stored in a field.                                          *)
LEMMA Flag ==
  ASSUME NEW x, NEW S, NEW y, y = (x \in S)
  PROVE  y \in BOOLEAN /\ (y <=> x \in S)
<1>1. CASE x \in S
  <2>1. y = TRUE
    BY <1>1, Zenon
  <2> QED
    BY <2>1, <1>1
<1>2. CASE x \notin S
  <2>1. (x \in S) = FALSE
    BY <1>2
  <2>2. y = FALSE
    BY <2>1, Zenon
  <2>3. ~y
    BY <2>2
  <2> QED
    BY <1>2, <2>2, <2>3
<1> QED
  BY <1>1, <1>2

LEMMA PortKinds ==
  ASSUME NEW u \in UnitChoices, NEW w \in Ports(u)
  PROVE  /\ FluPort(u, w) \/ LsuPort(u, w) \/ RefusedPort(w) \/ CoproPort(u, w)
         /\ u.done \subseteq lsu /\ u.answer \subseteq copro
<1>1. u.done \subseteq lsu /\ u.answer \subseteq copro
  BY DEF UnitChoices, Done, Answers
<1>2. \/ w \in IF flu_valid(fu_data, u.known)
               THEN LET f == FluResult(fu_data, u.known) IN {Port(0, f.tid, f.result, FALSE, TRUE)}
               ELSE {}
      \/ w \in {Port(IF o.fu = "STORE" THEN 1 ELSE 2, o.tid, o.n, o \in u.fault, TRUE) : o \in u.done}
      \/ w \in XWriteback(u.answer)
  BY DEF Ports, Writebacks
<1>3. CASE w \in IF flu_valid(fu_data, u.known)
                 THEN LET f == FluResult(fu_data, u.known) IN {Port(0, f.tid, f.result, FALSE, TRUE)}
                 ELSE {}
  BY <1>1, <1>3 DEF Port, FluPort
<1>4. CASE w \in {Port(IF o.fu = "STORE" THEN 1 ELSE 2, o.tid, o.n, o \in u.fault, TRUE) : o \in u.done}
  <2>1. PICK o \in u.done : w = Port(IF o.fu = "STORE" THEN 1 ELSE 2, o.tid, o.n, o \in u.fault, TRUE)
    BY <1>4
  <2>2. w.tid = o.tid /\ w.result = o.n /\ w.we = TRUE
    BY <2>1 DEF Port
  <2>3. w.ex \in BOOLEAN /\ (w.ex <=> o \in u.fault)
    <3>1. w.ex = (o \in u.fault)
      BY <2>1 DEF Port
    <3> QED
      BY <3>1, Flag
  <2> QED
    BY <1>1, <2>2, <2>3 DEF LsuPort
<1>5. CASE w \in XWriteback(u.answer)
  BY <1>1, <1>5 DEF Port, XWriteback, RefusedPort, CoproPort
<1> QED
  BY <1>2, <1>3, <1>4, <1>5

LEMMA Signals ==
  ASSUME Ring, NEW offer, NEW fu, NEW rd, NEW rs, NEW mispredict, NEW c, NEW u, NEW x,
         Inputs(offer, fu, rd, rs, mispredict, c, u, x)
  PROVE  /\ Issue(offer, fu, rd, rs, c, u, x) =>
              offer /\ ~Flush(c) /\ Count < N /\ ~mem[issue_pointer].issued
         /\ Accepted(offer, fu, rd, rs, c, u, x) => Issue(offer, fu, rd, rs, c, u, x)
         /\ issue_pointer \in Ids /\ (Count < N => Age(issue_pointer) = Count)
         /\ IsEntry(Instr(fu, rd, rs, u)) /\ Instr(fu, rd, rs, u).issued
         /\ Instr(fu, rd, rs, u).n = last_issued + 1
         /\ Instr(fu, rd, rs, u).valid = (fu = "NONE")
         /\ \A w \in Ports(u) : w.ex \in BOOLEAN /\ w.we \in BOOLEAN
         /\ Flush(c) \in BOOLEAN /\ Issue(offer, fu, rd, rs, c, u, x) \in BOOLEAN
         /\ x.writeback \in BOOLEAN
<1>1. /\ config \in Configs /\ HeadSlot \in Ids /\ N \in Nat \ {0, 1} /\ Ids = 0 .. N - 1
      /\ Count \in 0 .. N /\ issue_pointer = Add(HeadSlot, Count) /\ last_issued \in Nat
      /\ \A i \in Ids : mem[i].issued <=> Age(i) < Count
      /\ \A o \in copro : o.writeback \in BOOLEAN
  BY Sizes DEF Ring, Pointers, Entries
<1>2. issue_pointer \in Ids /\ (Count < N => Age(issue_pointer) = Count)
  BY <1>1, AddWraps, AgeRange
<1>3. Count < N => ~mem[issue_pointer].issued
  BY <1>1, <1>2
<1>4. Count = N => issue_full
  BY <1>1, AgeRange DEF issue_full
<1>5. Issue(offer, fu, rd, rs, c, u, x) => offer /\ ~Flush(c) /\ Count < N
  BY <1>1, <1>4 DEF Issue, IssueAck, Free, FlushUnissued
<1>6. Accepted(offer, fu, rd, rs, c, u, x) => Issue(offer, fu, rd, rs, c, u, x)
  BY DEF Accepted, Issue, IssueAck, XIssue
<1>7. /\ IsEntry(Instr(fu, rd, rs, u)) /\ Instr(fu, rd, rs, u).issued
      /\ Instr(fu, rd, rs, u).n = last_issued + 1
      /\ Instr(fu, rd, rs, u).valid = (fu = "NONE")
  <2>1. fu \in Units /\ rd \in Regs /\ rs \in Regs /\ last_issued + 1 \in Nat
    BY <1>1 DEF Inputs
  <2> QED
    BY <2>1 DEF Instr, FreeEntry, IsEntry
<1>8. ASSUME NEW w \in Ports(u)
      PROVE  w.ex \in BOOLEAN /\ w.we \in BOOLEAN
  <2>1. /\ FluPort(u, w) \/ LsuPort(u, w) \/ RefusedPort(w) \/ CoproPort(u, w)
        /\ u.answer \subseteq copro
    BY PortKinds DEF Inputs
  <2>2. CASE FluPort(u, w)
    BY <2>2 DEF FluPort
  <2>3. CASE LsuPort(u, w)
    BY <2>3 DEF LsuPort
  <2>4. CASE RefusedPort(w)
    BY <2>4 DEF RefusedPort
  <2>5. CASE CoproPort(u, w)
    <3>1. PICK o \in copro : w.ex = FALSE /\ w.we = o.writeback
      BY <2>1, <2>5 DEF CoproPort
    <3>2. o.writeback \in BOOLEAN
      BY <1>1
    <3> QED
      BY <3>1, <3>2
  <2> QED
    BY <2>1, <2>2, <2>3, <2>4, <2>5
<1>9. Flush(c) \in BOOLEAN /\ Issue(offer, fu, rd, rs, c, u, x) \in BOOLEAN
  BY DEF Flush, Issue
<1>10. x.writeback \in BOOLEAN
  <2>1. CASE x \in CoproChoices
    <3>1. x \in [ready : BOOLEAN, accept : IF Rejects THEN BOOLEAN ELSE {TRUE}, writeback : BOOLEAN]
      BY <2>1 DEF CoproChoices
    <3> QED
      BY <3>1, Zenon
  <2>2. CASE x = NoCopro
    BY <2>2 DEF NoCopro
  <2> QED
    BY <2>1, <2>2 DEF Inputs
<1> QED
  BY <1>2, <1>3, <1>5, <1>6, <1>7, <1>8, <1>9, <1>10

-----------------------------------------------------------------------------
(* One edge of the ring: what becomes of each entry, and of the pointers.  *)

LEMMA EdgeEntry ==
  ASSUME Ring, NEW offer, NEW fu, NEW rd, NEW rs, NEW mispredict, NEW c, NEW u, NEW x,
         Inputs(offer, fu, rd, rs, mispredict, c, u, x),
         Edge(offer, fu, rd, rs, mispredict, c, u, x),
         NEW i \in Ids, NEW d, d = Leaving(Acks(c))
  PROVE  /\ IsEntry(mem'[i])
         /\ \/ (Flush(c) \/ Age(i) < d) /\ Gone(mem'[i])
            \/ /\ ~Flush(c) /\ Age(i) >= d /\ Issue(offer, fu, rd, rs, c, u, x)
               /\ i = issue_pointer /\ Age(i) = Count
               /\ Enters(mem'[i], Instr(fu, rd, rs, u),
                         Accepted(offer, fu, rd, rs, c, u, x) /\ ~x.writeback)
            \/ /\ ~Flush(c) /\ Age(i) >= d
               /\ ~(Issue(offer, fu, rd, rs, c, u, x) /\ i = issue_pointer)
               /\ Stays(mem'[i], i, Ports(u))
<1> DEFINE issue == Issue(offer, fu, rd, rs, c, u, x)
           instr == Instr(fu, rd, rs, u)
           nw == Accepted(offer, fu, rd, rs, c, u, x) /\ ~x.writeback
           wb == Ports(u)
<1>1. /\ issue => ~Flush(c) /\ Count < N /\ ~mem[issue_pointer].issued
      /\ nw => issue
      /\ Count < N => Age(issue_pointer) = Count
      /\ IsEntry(instr) /\ nw \in BOOLEAN
      /\ \A w \in wb : w.ex \in BOOLEAN /\ w.we \in BOOLEAN
  BY Signals
<1>2. mem'[i] = EntryAfter(i, issue, instr, wb, Acks(c), Flush(c), nw)
  <2>1. ScoreboardClock(issue, instr, wb, Acks(c), Flush(c), nw)
    BY EdgeParts
  <2> HIDE DEF issue, instr, wb, nw
  <2>2. mem' = [k \in Ids |-> EntryAfter(k, issue, instr, wb, Acks(c), Flush(c), nw)]
    BY <2>1 DEF ScoreboardClock
  <2> QED
    BY <2>2
<1>3. Leaves(i, Acks(c), Flush(c)) <=> Flush(c) \/ Age(i) < d
  BY AcksAreOldest DEF Leaves
<1>4. IsEntry(mem[i]) /\ Age(i) \in Int /\ d \in Int
  BY AgeRange, AcksAreOldest DEF Ring, Pointers, Entries
<1> HIDE DEF issue, instr, nw, wb
<1>5. CASE Leaves(i, Acks(c), Flush(c))
  BY <1>2, <1>3, <1>5, EntryLeaves
<1>6. CASE ~Leaves(i, Acks(c), Flush(c)) /\ issue /\ i = issue_pointer
  <2>1. ~Leaves(i, Acks(c), Flush(c)) /\ issue /\ i = issue_pointer /\ ~mem[i].issued
    BY <1>1, <1>6
  <2>3. IsEntry(mem'[i]) /\ Enters(mem'[i], instr, nw)
    BY <1>1, <1>2, <2>1, EntryEnters
  <2> QED
    BY <1>1, <1>3, <1>4, <1>6, <2>3 DEF issue, instr, nw
<1>7. CASE ~Leaves(i, Acks(c), Flush(c)) /\ ~(issue /\ i = issue_pointer)
  <2>1. IsEntry(mem'[i]) /\ Stays(mem'[i], i, wb)
    BY <1>1, <1>2, <1>4, <1>7, EntryStays
  <2> QED
    BY <1>3, <1>4, <1>7, <2>1 DEF issue, wb
<1> QED
  BY <1>5, <1>6, <1>7

LEMMA RetiringLength ==
  ASSUME config \in Configs, NEW c
  PROVE  /\ Len(Retiring(Acks(c))) = Leaving(Acks(c))
         /\ Acks(c)[1] <=> Leaving(Acks(c)) # 0
<1>1. Acks(c)[1] \in BOOLEAN /\ (NrCommitPorts = 2 /\ Acks(c)[NrCommitPorts] => Acks(c)[1])
  <2> DEFINE ack0 == ack_0(c.halt, c.csr_ex, c.lsu_ready)
  <2>1. /\ Acks(c) = [k \in CommitPorts |-> IF k = 1 THEN ack0 ELSE ack_1(c.halt, ack0)]
        /\ ack0 \in BOOLEAN
    BY DEF Acks, commit_ack, ack_0
  <2> HIDE DEF ack0
  <2>2. ack_1(c.halt, ack0) => ack0
    BY DEF ack_1
  <2> QED
    BY <2>1, <2>2, Sizes
<1>2. \A a, b : Len(<<a, b>>) = 2 /\ Len(<<a>>) = 1 /\ Len(<<>>) = 0
  OBVIOUS
<1> QED
  BY <1>1, <1>2 DEF Retiring, Leaving

LEMMA EdgePointers ==
  ASSUME Ring, NEW offer, NEW fu, NEW rd, NEW rs, NEW mispredict, NEW c, NEW u, NEW x,
         Inputs(offer, fu, rd, rs, mispredict, c, u, x),
         Edge(offer, fu, rd, rs, mispredict, c, u, x),
         NEW d, d = Leaving(Acks(c))
  PROVE  /\ config' = config /\ N' = N /\ Ids' = Ids
         /\ last_issued' = IF Issue(offer, fu, rd, rs, c, u, x) THEN last_issued + 1 ELSE last_issued
         /\ Flush(c) => HeadSlot' = 0 /\ Count' = 0
         /\ ~Flush(c) => /\ HeadSlot' = Add(HeadSlot, d) /\ next' = next + d
                         /\ Count' = (IF Issue(offer, fu, rd, rs, c, u, x) THEN Count + 1 ELSE Count) - d
                         /\ \A i \in Ids : Age(i)' = IF Age(i) >= d THEN Age(i) - d ELSE Age(i) - d + N
         /\ Pointers'
<1> DEFINE issue == Issue(offer, fu, rd, rs, c, u, x)
<1>1. /\ config \in Configs /\ HeadSlot \in Ids /\ N \in Nat \ {0, 1} /\ Ids = 0 .. N - 1
      /\ Count \in 0 .. N /\ issue_pointer = Add(HeadSlot, Count)
      /\ last_issued \in Nat /\ next \in Nat
      /\ CommitPorts = {1} \/ CommitPorts = {1, 2}
  BY Sizes DEF Ring, Pointers
<1>2. config' = config /\ N' = N /\ Ids' = Ids /\ CommitPorts' = CommitPorts
  BY EdgeParts DEF N, Ids, CommitPorts, NR_SB_ENTRIES, NrCommitPorts
<1>3. /\ d \in 0 .. 2 /\ d <= Count /\ d <= N
      /\ issue => ~Flush(c) /\ Count < N
      /\ issue \in BOOLEAN
  BY AcksAreOldest, Signals
<1>4. /\ last_issued' = IF issue THEN last_issued + 1 ELSE last_issued
      /\ next' = IF Flush(c) THEN last_issued' + 1 ELSE next + d
      /\ issue_pointer' = IF Flush(c) THEN 0 ELSE IF issue THEN Add(issue_pointer, 1) ELSE issue_pointer
      /\ commit_pointer' = [k \in CommitPorts |->
                              IF Flush(c) THEN 0 ELSE Add(Add(HeadSlot, d), k - 1)]
  <2>1. /\ ScoreboardClock(issue, Instr(fu, rd, rs, u), Ports(u), Acks(c), Flush(c),
                           Accepted(offer, fu, rd, rs, c, u, x) /\ ~x.writeback)
        /\ last_issued' = IF issue THEN last_issued + 1 ELSE last_issued
        /\ next' = IF Flush(c) THEN last_issued' + 1 ELSE next + Len(Retiring(Acks(c)))
    BY EdgeParts
  <2>2. Len(Retiring(Acks(c))) = d
    BY <1>1, RetiringLength
  <2> HIDE DEF issue
  <2> QED
    BY <2>1, <2>2 DEF ScoreboardClock, Leaving, HeadSlot
<1>5. \A p, k : Add(p, k)' = Add(p', k')
  BY <1>2 DEF Add, N
<1> HIDE DEF issue
<1>6. CASE Flush(c)
  <2>1. /\ HeadSlot' = 0 /\ Count' = 0 /\ last_issued' \in Nat /\ next' \in Nat
        /\ DOMAIN commit_pointer' = CommitPorts
        /\ \A k \in CommitPorts : commit_pointer'[k] = 0
    BY <1>1, <1>3, <1>4, <1>6 DEF HeadSlot, Count
  <2>2. Add(0, 0) = 0
    BY <1>1, AddWraps
  <2>3. issue_pointer' = Add(HeadSlot', Count')
    BY <1>4, <1>6, <2>1, <2>2
  <2> QED
    BY <1>1, <1>2, <1>4, <1>5, <1>6, <2>1, <2>3 DEF Pointers, issue
<1>7. CASE ~Flush(c)
  <2> DEFINE b == IF issue THEN 1 ELSE 0
  <2>0. d \in 0 .. N /\ b \in {0, 1} /\ Count + b <= N /\ (issue <=> b = 1) /\ (~issue <=> b = 0)
    BY <1>1, <1>3
  <2> HIDE DEF b
  <2>1. HeadSlot' = Add(HeadSlot, d) /\ next' = next + d /\ last_issued' = last_issued + b
    <3>1. HeadSlot' = Add(Add(HeadSlot, d), 1 - 1)
      BY <1>1, <1>4, <1>7 DEF HeadSlot
    <3>2. Add(HeadSlot, d) \in Ids
      BY <1>1, <2>0, AddWraps
    <3>3. Add(Add(HeadSlot, d), 0) = Add(HeadSlot, d)
      BY <1>1, <3>2, AddWraps
    <3> QED
      BY <1>1, <1>4, <1>7, <2>0, <3>1, <3>3
  <2>2. /\ HeadSlot' = IF HeadSlot + d < N THEN HeadSlot + d ELSE HeadSlot + d - N
        /\ HeadSlot' \in Ids
        /\ Add(HeadSlot, Count) = Add(HeadSlot', Count - d)
        /\ Count < N => Add(Add(HeadSlot, Count), 1) = Add(HeadSlot', Count + 1 - d)
    <3>1. d <= Count /\ config \in Configs /\ HeadSlot \in Ids /\ Count \in 0 .. N /\ d \in 0 .. N
      BY <1>1, <1>3, <2>0
    <3>2. /\ Add(HeadSlot, d) \in Ids
          /\ Add(HeadSlot, d) = IF HeadSlot + d < N THEN HeadSlot + d ELSE HeadSlot + d - N
          /\ Add(HeadSlot, Count) = Add(Add(HeadSlot, d), Count - d)
          /\ Count < N => Add(Add(HeadSlot, Count), 1) = Add(Add(HeadSlot, d), Count + 1 - d)
      BY <3>1, PointersMove
    <3> QED
      BY <2>1, <3>2
  <2>3. \A i \in Ids : Age(i)' = IF Age(i) >= d THEN Age(i) - d ELSE Age(i) - d + N
    <3> SUFFICES ASSUME NEW i \in Ids
                 PROVE  Age(i)' = IF Age(i) >= d THEN Age(i) - d ELSE Age(i) - d + N
      OBVIOUS
    <3>1. Age(i)' = IF i >= HeadSlot' THEN i - HeadSlot' ELSE i - HeadSlot' + N
      BY <1>2 DEF Age
    <3>2. i \in 0 .. N - 1 /\ HeadSlot \in 0 .. N - 1 /\ N \in Nat
      BY <1>1
    <3> QED
      BY <2>0, <2>2, <3>1, <3>2 DEF Age
  <2>4. /\ Count' = Count + b - d /\ Count' \in 0 .. N /\ last_issued' \in Nat /\ next' \in Nat
        /\ issue_pointer' = Add(HeadSlot', Count')
    <3>1. Count' = Count + b - d
      BY <1>1, <1>3, <2>0, <2>1 DEF Count
    <3>2. issue_pointer' = Add(HeadSlot', Count')
      <4>1. CASE issue
        <5>1. Count' = Count + 1 - d /\ Count < N
          BY <1>1, <1>3, <2>0, <3>1, <4>1
        <5> QED
          BY <1>1, <1>4, <1>7, <2>2, <4>1, <5>1
      <4>2. CASE ~issue
        <5>1. Count' = Count - d
          BY <1>1, <1>3, <2>0, <3>1, <4>2
        <5> QED
          BY <1>1, <1>4, <1>7, <2>2, <4>2, <5>1
      <4> QED
        BY <4>1, <4>2
    <3>3. Count + b - d \in 0 .. N
      <4>1. Count \in Nat /\ b \in Nat /\ d \in Nat /\ N \in Nat /\ d <= Count /\ Count + b <= N
        BY <1>1, <1>3, <2>0
      <4> QED
        BY <4>1
    <3>4. last_issued' \in Nat /\ next' \in Nat
      BY <1>1, <1>3, <2>0, <2>1
    <3> QED
      BY <3>1, <3>2, <3>3, <3>4
  <2>5. /\ DOMAIN commit_pointer' = CommitPorts
        /\ \A k \in CommitPorts : commit_pointer'[k] = Add(HeadSlot', k - 1) /\ commit_pointer'[k] \in Ids
    <3>1. HeadSlot' \in Ids /\ \A k \in CommitPorts : k - 1 \in 0 .. N
      BY <1>1, <2>2
    <3>2. \A k \in CommitPorts : Add(HeadSlot', k - 1) \in Ids
      BY <1>1, <3>1, AddWraps
    <3> QED
      BY <1>4, <1>7, <2>1, <3>2
  <2>6. Pointers'
    <3>1. HeadSlot' \in Ids'
      BY <1>2, <2>2
    <3>2. \A k \in CommitPorts' : commit_pointer'[k] \in Ids' /\ commit_pointer'[k] = Add(HeadSlot, k - 1)'
      BY <1>2, <1>5, <2>5
    <3>3. issue_pointer' = Add(HeadSlot, Count)'
      BY <1>5, <2>4
    <3> QED
      BY <1>1, <1>2, <2>4, <2>5, <3>1, <3>2, <3>3 DEF Pointers
  <2> QED
    <3>1. Count' = (IF issue THEN Count + 1 ELSE Count) - d
      BY <1>1, <2>0, <2>4
    <3> QED
      BY <1>2, <1>4, <1>7, <2>1, <2>3, <2>6, <3>1 DEF issue
<1> QED
  BY <1>6, <1>7

LEMMA RingStep ==
  ASSUME Ring, NEW offer, NEW fu, NEW rd, NEW rs, NEW mispredict, NEW c, NEW u, NEW x,
         Inputs(offer, fu, rd, rs, mispredict, c, u, x),
         Edge(offer, fu, rd, rs, mispredict, c, u, x)
  PROVE  Ring'
<1> DEFINE d == Leaving(Acks(c))
           issue == Issue(offer, fu, rd, rs, c, u, x)
           instr == Instr(fu, rd, rs, u)
           nw == Accepted(offer, fu, rd, rs, c, u, x) /\ ~x.writeback
<1>1. /\ config \in Configs /\ HeadSlot \in Ids /\ N \in Nat \ {0, 1} /\ Ids = 0 .. N - 1
      /\ Count \in 0 .. N /\ last_issued \in Nat /\ next \in Nat
      /\ \A i \in Ids : Age(i) \in 0 .. N - 1
      /\ \A i \in Ids : /\ IsEntry(mem[i])
                        /\ mem[i].issued <=> Age(i) < Count
                        /\ mem[i].issued => mem[i].n = next + Age(i)
                        /\ mem[i].valid => mem[i].issued
  BY Sizes, AgeRange DEF Ring, Pointers, Entries
<1>2. /\ d \in 0 .. 2 /\ d <= Count /\ d <= N
      /\ issue => ~Flush(c) /\ Count < N
      /\ Count < N => Age(issue_pointer) = Count
      /\ instr.issued /\ instr.n = last_issued + 1
      /\ x.writeback \in BOOLEAN
  BY AcksAreOldest, Signals
<1>3. /\ Ids' = Ids
      /\ last_issued' = IF issue THEN last_issued + 1 ELSE last_issued
      /\ Flush(c) => HeadSlot' = 0 /\ Count' = 0
      /\ ~Flush(c) => /\ next' = next + d
                      /\ Count' = (IF issue THEN Count + 1 ELSE Count) - d
                      /\ \A i \in Ids : Age(i)' = IF Age(i) >= d THEN Age(i) - d ELSE Age(i) - d + N
      /\ Pointers'
  BY EdgePointers
<1>4. \A i \in Ids :
        /\ IsEntry(mem'[i])
        /\ \/ (Flush(c) \/ Age(i) < d) /\ Gone(mem'[i])
           \/ /\ ~Flush(c) /\ Age(i) >= d /\ issue /\ i = issue_pointer /\ Age(i) = Count
              /\ Enters(mem'[i], instr, nw)
           \/ /\ ~Flush(c) /\ Age(i) >= d /\ ~(issue /\ i = issue_pointer)
              /\ Stays(mem'[i], i, Ports(u))
  BY EdgeEntry
<1>5. DOMAIN mem' = Ids'
  BY <1>3, EdgeParts DEF ScoreboardClock
<1>6. \A o \in copro' : o.writeback \in BOOLEAN
  <2>1. CoproClock(u.answer, Accepted(offer, fu, rd, rs, c, u, x), last_issued + 1, x.writeback)
    BY EdgeParts
  <2>2. \A o \in copro' : o \in copro \/ o = [tid |-> issue_pointer, n |-> last_issued + 1, writeback |-> x.writeback]
    BY <2>1 DEF CoproClock
  <2> QED
    BY <1>2, <2>2 DEF Ring
<1> HIDE DEF d, issue, instr, nw
<1>7. ASSUME NEW i \in Ids'
      PROVE  /\ IsEntry(mem'[i])
             /\ mem'[i].issued <=> Age(i)' < Count'
             /\ mem'[i].issued => mem'[i].n = next' + Age(i)'
             /\ mem'[i].valid => mem'[i].issued
  <2>1. i \in Ids /\ IsEntry(mem[i]) /\ IsEntry(mem'[i]) /\ Age(i) \in 0 .. N - 1
    BY <1>1, <1>3, <1>4
  <2> DEFINE age == Age(i)
             age2 == Age(i)'
             count2 == Count'
  <2>a. /\ age \in Nat /\ age < N /\ N \in Nat /\ d \in Nat /\ Count \in Nat /\ Count <= N
        /\ next \in Nat /\ last_issued \in Nat /\ last_issued = next + Count - 1
    <3>1. last_issued \in Nat /\ next \in Nat
      BY <1>1
    <3>2. last_issued = next + Count - 1
      BY <3>1 DEF Count
    <3>3. N \in Nat /\ Count \in 0 .. N /\ age \in 0 .. N - 1
      BY <1>1, <2>1
    <3>4. age \in Nat /\ age < N /\ Count \in Nat /\ Count <= N
      <4> HIDE DEF age
      <4> QED
        BY <3>3
    <3>5. d \in Nat
      BY <1>2
    <3> QED
      BY <3>1, <3>2, <3>3, <3>4, <3>5
  <2>b. /\ ~Flush(c) => next' = next + d
        /\ ~Flush(c) /\ issue => count2 = Count + 1 - d
        /\ ~Flush(c) /\ ~issue => count2 = Count - d
        /\ ~Flush(c) /\ age >= d => age2 = age - d
        /\ ~Flush(c) /\ age < d => age2 = age - d + N
    BY <1>3, <2>1, <2>a
  <2>c. \/ (Flush(c) \/ age < d) /\ Gone(mem'[i])
        \/ /\ ~Flush(c) /\ age >= d /\ issue /\ i = issue_pointer /\ age = Count
           /\ Enters(mem'[i], instr, nw)
        \/ /\ ~Flush(c) /\ age >= d /\ ~(issue /\ i = issue_pointer)
           /\ Stays(mem'[i], i, Ports(u))
    BY <1>4, <2>1
  <2> HIDE DEF age, age2, count2
  <2>2. CASE Flush(c) /\ Gone(mem'[i])
    <3>1. Age(i)' \in Nat
      <4>1. Age(i)' = IF i >= HeadSlot' THEN i - HeadSlot' ELSE i - HeadSlot' + N'
        BY DEF Age
      <4> QED
        BY <1>1, <1>3, <2>1, <2>2, <4>1
    <3> QED
      <4>1. count2 = 0 /\ age2 \in Int /\ ~(age2 < count2)
        BY <1>1, <1>3, <2>2, <3>1 DEF age2, count2
      <4> QED
        BY <2>1, <2>2, <4>1 DEF Gone, age2, count2
  <2>3. CASE ~Flush(c) /\ age < d /\ Gone(mem'[i])
    <3>1. ~(age2 < count2)
      BY <1>2, <2>3, <2>a, <2>b
    <3> QED
      BY <2>1, <2>3, <3>1 DEF Gone, age2, count2
  <2>4. CASE /\ ~Flush(c) /\ age >= d /\ issue /\ i = issue_pointer /\ age = Count
            /\ Enters(mem'[i], instr, nw)
    <3>1. age2 = Count - d /\ count2 = Count + 1 - d /\ next' = next + d
      BY <2>4, <2>a, <2>b
    <3>2. mem'[i].issued /\ mem'[i].n = last_issued + 1
      BY <1>2, <2>4 DEF Enters, Keeps
    <3>3. age2 < count2 /\ mem'[i].n = next' + age2
      BY <2>a, <3>1, <3>2
    <3> QED
      BY <2>1, <3>2, <3>3 DEF age2, count2
  <2>5. CASE /\ ~Flush(c) /\ age >= d /\ ~(issue /\ i = issue_pointer)
            /\ Stays(mem'[i], i, Ports(u))
    <3>1. age2 = age - d /\ next' = next + d
      BY <2>5, <2>a, <2>b
    <3>2. mem'[i].issued = mem[i].issued /\ mem'[i].n = mem[i].n
      BY <2>5 DEF Stays, Keeps
    <3>3. mem'[i].valid => mem[i].issued
      BY <1>1, <2>1, <2>5 DEF Stays, Untouched, Taken
    <3>4. issue => Age(i) # Count
      <4>1. issue => issue_pointer \in Ids /\ Age(issue_pointer) = Count
        BY <1>2, Signals
      <4> QED
        BY <1>1, <2>1, <2>5, <4>1, AgeRange
    <3>5. age2 < count2 <=> age < Count
      <4>1. issue => age # Count
        BY <3>4 DEF age
      <4> QED
        BY <2>5, <2>a, <2>b, <3>1, <4>1
    <3>6. mem[i].issued => mem[i].n = next' + age2
      <4>1. mem[i].issued => mem[i].n = next + age
        BY <1>1, <2>1 DEF age
      <4> QED
        BY <2>a, <3>1, <4>1
    <3>7. mem[i].issued <=> age2 < count2
      BY <1>1, <2>1, <3>5 DEF age
    <3> QED
      BY <2>1, <3>2, <3>3, <3>6, <3>7 DEF age2, count2
  <2> QED
    BY <2>c, <2>2, <2>3, <2>4, <2>5
<1> QED
  BY <1>3, <1>5, <1>6, <1>7 DEF Ring, Entries

LEMMA RingInitially ==
  ASSUME Init
  PROVE  Ring
<1>1. config \in Configs /\ N \in Nat \ {0, 1} /\ Ids = 0 .. N - 1
  BY Sizes DEF Init, Elaborated
<1>2. HeadSlot = 0 /\ Count = 0
  BY <1>1, Sizes DEF Init, ScoreboardReset, HeadSlot, Count
<1>3. Pointers
  <2>1. Add(0, 0) = 0
    BY <1>1, AddWraps
  <2> QED
    BY <1>1, <1>2, <2>1 DEF Pointers, Init, ScoreboardReset
<1>4. Entries
  <2> SUFFICES ASSUME NEW i \in Ids
               PROVE  /\ IsEntry(mem[i])
                      /\ mem[i].issued <=> Age(i) < Count
                      /\ mem[i].issued => mem[i].n = next + Age(i)
                      /\ mem[i].valid => mem[i].issued
    BY DEF Entries, Init, ScoreboardReset
  <2>1. mem[i] = FreeEntry
    BY DEF Init, ScoreboardReset
  <2>2. IsEntry(mem[i]) /\ ~mem[i].issued /\ ~mem[i].valid
    BY <2>1, RegsAssumption DEF FreeEntry, IsEntry, Units
  <2>3. ~(Age(i) < Count)
    BY <1>1, <1>2 DEF Age
  <2> QED
    BY <2>2, <2>3
<1> QED
  BY <1>3, <1>4 DEF Ring, Init

LEMMA RingUnchanged ==
  ASSUME Ring, UNCHANGED vars
  PROVE  Ring'
BY DEF vars, scoreboardVars, fixedLatencyVars, pipelineVars, historyVars, Ring, Pointers, Entries,
       Count, HeadSlot, Age, N, NR_SB_ENTRIES, Ids, CommitPorts, NrCommitPorts, Add

(* The ring of scoreboard.sv at every edge: pointers and entries agree.    *)
THEOREM RingInductive == Spec => []Ring
<1>1. Init => Ring
  BY RingInitially
<1>2. Ring /\ [Next]_vars => Ring'
  <2> SUFFICES ASSUME Ring, [Next]_vars
               PROVE  Ring'
    OBVIOUS
  <2>1. CASE Next
    <3>1. PICK offer, fu, rd, rs, mispredict, c, u, x :
            /\ Inputs(offer, fu, rd, rs, mispredict, c, u, x)
            /\ Edge(offer, fu, rd, rs, mispredict, c, u, x)
      BY <2>1, NextInputs DEF Ring, Pointers
    <3> QED
      BY <3>1, RingStep
  <2> QED
    BY <2>1, RingUnchanged
<1> QED
  BY <1>1, <1>2, PTL DEF Spec

-----------------------------------------------------------------------------
(* The issued entries are the ones between the pointers, oldest first: the *)
(* scoreboard is a queue, whatever completes out of order (scoreboard.sv). *)

LEMMA UsedSlots ==
  ASSUME Ring
  PROVE  LET used == {i \in Ids : mem[i].issued}
         IN  /\ used = {Add(HeadSlot, k) : k \in 0 .. Count - 1}
             /\ Cardinality(used) = Count
<1> DEFINE used == {i \in Ids : mem[i].issued}
           f == [m \in 1 .. Count |-> Add(HeadSlot, m - 1)]
<1>1. /\ config \in Configs /\ HeadSlot \in Ids /\ N \in Nat /\ Count \in 0 .. N
      /\ \A i \in Ids : mem[i].issued <=> Age(i) < Count
  BY Sizes DEF Ring, Pointers, Entries
<1>2. /\ \A i \in Ids : Age(i) \in 0 .. N - 1
      /\ \A i, j \in Ids : Age(i) = Age(j) => i = j
      /\ \A k \in 0 .. N - 1 : Add(HeadSlot, k) \in Ids /\ Age(Add(HeadSlot, k)) = k
  BY <1>1, AgeRange
<1>3. \A k \in 0 .. Count - 1 : Add(HeadSlot, k) \in used /\ Age(Add(HeadSlot, k)) = k
  BY <1>1, <1>2
<1>4. ASSUME NEW i \in used
      PROVE  Age(i) \in 0 .. Count - 1 /\ i = Add(HeadSlot, Age(i))
  BY <1>1, <1>2
<1>5. used = {Add(HeadSlot, k) : k \in 0 .. Count - 1}
  BY <1>3, <1>4
<1> HIDE DEF used
<1>6. f \in Bijection(1 .. Count, used)
  <2>1. f \in [1 .. Count -> used]
    BY <1>1, <1>3
  <2>2. \A a, b \in 1 .. Count : f[a] = f[b] => a = b
    <3> SUFFICES ASSUME NEW a \in 1 .. Count, NEW b \in 1 .. Count, f[a] = f[b]
                 PROVE  a = b
      OBVIOUS
    <3>1. Age(f[a]) = a - 1 /\ Age(f[b]) = b - 1
      BY <1>1, <1>3
    <3> QED
      BY <1>1, <3>1
  <2>3. \A i \in used : \E a \in 1 .. Count : f[a] = i
    <3> SUFFICES ASSUME NEW i \in used
                 PROVE  \E a \in 1 .. Count : f[a] = i
      OBVIOUS
    <3>1. Age(i) + 1 \in 1 .. Count /\ (Age(i) + 1) - 1 = Age(i)
      BY <1>1, <1>4
    <3>2. f[Age(i) + 1] = i
      BY <1>4, <3>1
    <3> QED
      BY <3>1, <3>2
  <2> QED
    BY <2>1, <2>2, <2>3 DEF Bijection, Injection, Surjection, IsInjective
<1>7. Cardinality(used) = Count
  BY <1>1, <1>6, FS_CountingElements DEF ExistsBijection
<1> QED
  BY <1>5, <1>7 DEF used

(* scoreboard.sv keeps issue order although units complete out of order,   *)
(* mispredictions stop issue and exceptions flush: the entries in use are   *)
(* exactly those from the commit pointer on, each younger than the one     *)
(* before it.                                                              *)
THEOREM RingOrder == Spec => []RingInOrder
<1>1. Ring => RingInOrder
  <2> SUFFICES ASSUME Ring
               PROVE  RingInOrder
    OBVIOUS
  <2>1. /\ N \in Nat \ {0, 1} /\ Ids = 0 .. N - 1 /\ HeadSlot \in Ids
        /\ \A i \in Ids : mem[i].issued => mem[i].n = next + Age(i)
        /\ issue_pointer = Add(HeadSlot, Count)
    BY Sizes DEF Ring, Pointers, Entries
  <2>2. ASSUME NEW i \in Ids
        PROVE  (i - commit_pointer[1]) % NR_SB_ENTRIES = Age(i)
    <3>1. i \in 0 .. N - 1 /\ HeadSlot \in 0 .. N - 1 /\ N \in Nat \ {0, 1}
      BY <2>1
    <3>2. (i - HeadSlot) % N = IF i >= HeadSlot THEN i - HeadSlot ELSE i - HeadSlot + N
      BY <3>1
    <3> QED
      BY <3>2 DEF Age, HeadSlot, N
  <2> QED
    BY <2>1, <2>2, UsedSlots DEF RingInOrder, HeadSlot
<1> QED
  BY <1>1, RingInductive, PTL

=============================================================================
