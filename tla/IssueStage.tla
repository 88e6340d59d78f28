----------------------------- MODULE IssueStage -----------------------------
(***************************************************************************)
(* The path of an instruction from decode to the register file: issue and  *)
(* operand forwarding (issue_read_operands.sv), the scoreboard, the fixed  *)
(* latency units, and the commit stage with the flush it causes, among the *)
(* load-store unit and a CV-X-IF coprocessor, which answer when they like. *)
(* A step is one clock edge.  One issue port, one source operand for each  *)
(* instruction (the circuit of the second is a copy).                      *)
(***************************************************************************)
EXTENDS Scoreboard, FixedLatencyUnits, FiniteSets

CONSTANT Regs

Fus == config.Fus               \* units the program uses; NONE: a trap found in decode
Exceptions == config.Exceptions \* loads may fault, CSR instructions trap or flush
Rejects == config.Rejects       \* the coprocessor may refuse an instruction
MaxInstr == config.MaxInstr     \* bound: instructions issued

Units == {"NONE", "ALU", "CTRL_FLOW", "CSR", "MULT", "DIV", "LOAD", "STORE", "CVXIF"}
ASSUME RegsAssumption == Regs \subseteq Nat /\ 0 \in Regs
ASSUME FusAssumption == \A c \in Configs : c.Fus \subseteq Units
ASSUME BoundAssumption == \A c \in Configs : c.MaxInstr \in Nat

VARIABLES
  fu_data,                  \* the issue register: fu_data_q and the units' valid bits
  regs,                     \* the integer register file
  lsu,                      \* loads and stores in the load-store unit
  copro,                    \* instructions the coprocessor has accepted
  last_issued,              \* history: instructions issued so far
  off_path,                 \* the front end follows a mispredicted branch
  next, retired, flushed    \* history, for InOrder

pipelineVars == <<fu_data, regs, lsu, copro>>
historyVars == <<last_issued, off_path, next, retired, flushed>>
vars == <<config, scoreboardVars, fixedLatencyVars, pipelineVars, historyVars>>

Architecture == INSTANCE InOrder

NoIssue == [fu |-> "NONE", tid |-> 0, n |-> 0, mispredict |-> FALSE, rejected |-> FALSE]

----------------------------------------------------------------------------
(* Commit.  A CSR instruction may trap in this cycle (csr_ex) and its side *)
(* effects may flush (csr_flush); a store waits for the store buffer.      *)
head_valid(halt) == commit_instr(1).valid /\ ~halt
exception(halt, csr_ex) ==
  head_valid(halt) /\ (commit_instr(1).ex \/ (commit_instr(1).fu = "CSR" /\ csr_ex))

ack_0(halt, csr_ex, commit_lsu_ready) ==
  /\ head_valid(halt)
  /\ ~commit_instr(1).ex
  /\ commit_instr(1).fu = "CSR" => ~csr_ex
  /\ commit_instr(1).fu = "STORE" => commit_lsu_ready

ack_1(halt, ack0) ==
  LET second == commit_instr(NrCommitPorts)
  IN  /\ NrCommitPorts = 2
      /\ ack0 /\ ~halt /\ commit_instr(1).fu # "CSR"
      /\ second.valid /\ ~second.ex
      /\ second.fu \in {"ALU", "LOAD", "CTRL_FLOW", "MULT", "DIV"}

commit_ack(halt, csr_ex, commit_lsu_ready) ==
  LET ack0 == ack_0(halt, csr_ex, commit_lsu_ready)
  IN  [k \in CommitPorts |-> IF k = 1 THEN ack0 ELSE ack_1(halt, ack0)]

(* The value written to rd: a CSR instruction reads the CSR file now.      *)
wdata(e) == IF e.fu = "CSR" THEN e.n ELSE e.result
Retiring(ack) ==
  LET entry(k) == [commit_instr(k) EXCEPT !.result = wdata(commit_instr(k))]
  IN  IF NrCommitPorts = 2 /\ ack[NrCommitPorts] THEN <<entry(1), entry(NrCommitPorts)>>
      ELSE IF ack[1] THEN <<entry(1)>> ELSE <<>>

WriteRegister(r, e) == IF e.rd = 0 THEN r ELSE [r EXCEPT ![e.rd] = e.result]
CommitRegisters(s) ==
  regs' = CASE Len(s) = 0 -> regs
            [] Len(s) = 1 -> WriteRegister(regs, s[1])
            [] Len(s) = 2 -> WriteRegister(WriteRegister(regs, s[1]), s[2])

----------------------------------------------------------------------------
(* Operands.  rd_clobber takes the unit of the lowest entry that writes r; *)
(* NONE reads as "nobody".                                                 *)
Clobbers(r) == {i \in Ids : r # 0 /\ mem[i].issued /\ mem[i].rd = r}
Lowest(s) == CHOOSE i \in s : \A j \in s : i <= j
rd_clobber(r) == IF Clobbers(r) = {} THEN "NONE" ELSE mem[Lowest(Clobbers(r))].fu

(* Forwarding: the writeback ports of this cycle first, then the entries.  *)
FromPorts(r, wb) ==
  {w \in wb : mem[w.tid].issued /\ mem[w.tid].rd = r /\ ~w.ex}
FromEntries(r) == {i \in Ids : mem[i].issued /\ mem[i].rd = r /\ mem[i].valid}

(* No instruction is an SFENCE.VMA, which may read behind a CSR instruction.*)
rs_valid(r, wb) ==
  /\ FromPorts(r, wb) # {} \/ FromEntries(r) # {}
  /\ rd_clobber(r) # "CSR"

stall_raw(r, wb) == rd_clobber(r) # "NONE" /\ ~rs_valid(r, wb)

FirstPort(s) == CHOOSE w \in s : \A v \in s : w.port <= v.port
operand(r, wb) ==
  IF rd_clobber(r) = "NONE" \/ ~rs_valid(r, wb) THEN regs[r]
  ELSE IF FromPorts(r, wb) # {} THEN FirstPort(FromPorts(r, wb)).result
  ELSE mem[Lowest(FromEntries(r))].result

(* Mutant of stall_waw: any commit in this cycle frees the register.       *)
stall_waw_AnyCommit(rd, retiring) == rd_clobber(rd) # "NONE" /\ Len(retiring) = 0

(* A second writer waits, unless the first is written in this cycle.       *)
stall_waw(rd, retiring) ==
  /\ rd_clobber(rd) # "NONE"
  /\ \A k \in 1 .. Len(retiring) : retiring[k].rd # rd

(* Mutant of fu_busy: one-cycle results may meet a product.                *)
fu_busy_NoMult(fu, ready) == fu \in OneCycle \cup {"MULT", "DIV"} /\ ~ready

fu_busy(fu, ready) ==
  \/ fu \in OneCycle \cup {"MULT", "DIV"} /\ ~ready
  \/ fu \in OneCycle /\ fu_data.fu \in {"MULT", "DIV"}

----------------------------------------------------------------------------
(* Writebacks, by port of cva6.sv.  cvxif_fu.sv raises the exception of a  *)
(* rejected instruction, or else passes the coprocessor's result on; it is *)
(* always ready for a result.                                              *)
Port(p, tid, result, ex, we) ==
  [port |-> p, tid |-> tid, result |-> result, ex |-> ex, we |-> we]

XWriteback(answer) ==
  IF fu_data.rejected THEN {Port(4, fu_data.tid, fu_data.n, TRUE, FALSE)}
  ELSE {Port(4, c.tid, c.n, FALSE, c.writeback) : c \in answer}

Writebacks(known, done, fault, answer) ==
  (IF flu_valid(fu_data, known)
   THEN LET f == FluResult(fu_data, known) IN {Port(0, f.tid, f.result, FALSE, TRUE)} ELSE {})
    \cup {Port(IF o.fu = "STORE" THEN 1 ELSE 2, o.tid, o.n, o \in fault, TRUE) : o \in done}
    \cup XWriteback(answer)

(* The load-store unit ends at most one load and one store in a cycle.  A  *)
(* flush empties it: its part of that promise is checked in Lsu.           *)
Done == {d \in SUBSET lsu : \A f \in {"LOAD", "STORE"} :
                             Cardinality({o \in d : o.fu = f}) <= 1}
LsuClock(done, flush) ==
  lsu' = IF flush THEN {}
         ELSE (lsu \ done) \cup (IF fu_data.fu \in {"LOAD", "STORE"}
                                 THEN {[fu |-> fu_data.fu, tid |-> fu_data.tid, n |-> fu_data.n]}
                                 ELSE {})

(* The coprocessor is not told of a flush (commit_kill is 0).  It answers  *)
(* each accepted instruction once; the answer is consumed when given.      *)
Answers == {{}} \cup {{c} : c \in copro}
CoproClock(answer, accepted, offered, writeback) ==
  copro' = (copro \ answer)
             \cup (IF accepted THEN {[tid |-> issue_pointer, n |-> offered, writeback |-> writeback]}
                   ELSE {})

(* Mutant of NextFuData: the unit starts on an instruction that was not    *)
(* put into the scoreboard.                                                *)
NextFuData_NoFlush(ack, fu, flush_unissued, mispredict, rejected) ==
  IF ack /\ fu # "NONE"
  THEN [fu |-> fu, tid |-> issue_pointer, n |-> last_issued + 1,
        mispredict |-> mispredict /\ fu = "CTRL_FLOW", rejected |-> rejected]
  ELSE NoIssue

NextFuData(ack, fu, flush_unissued, mispredict, rejected) ==
  IF ack /\ fu # "NONE" /\ ~flush_unissued
  THEN [fu |-> fu, tid |-> issue_pointer, n |-> last_issued + 1,
        mispredict |-> mispredict /\ fu = "CTRL_FLOW", rejected |-> rejected]
  ELSE NoIssue

(* One edge.  The instruction offered by decode goes to unit fu, reads rs  *)
(* and writes rd; c are the choices of commit stage and CSR file, u those  *)
(* of the units, x those of the coprocessor on the instruction offered,    *)
(* which it accepts only with its operands.                                *)
Edge(offer, fu, rd, rs, mispredict, c, u, x) ==
  LET ack == commit_ack(c.halt, c.csr_ex, c.lsu_ready)
      retiring == Retiring(ack)
      csr_commit == ack[1] /\ commit_instr(1).fu = "CSR"
      flush == exception(c.halt, c.csr_ex) \/ (csr_commit /\ c.csr_flush)
      flush_unissued == flush \/ fu_data.mispredict
      wb == Writebacks(u.known, u.done, u.fault, u.answer)
      free == offer /\ ~issue_full /\ ~fu_busy(fu, flu_ready(fu_data, csr_commit))
      x_issue == free /\ fu = "CVXIF" /\ ~stall_waw(rd, retiring) /\ ~flush_unissued
      accepted == x_issue /\ x.ready /\ x.accept /\ ~stall_raw(rs, wb)
      rejected == x_issue /\ x.ready /\ ~x.accept
      issue_ack == /\ free
                   /\ \/ fu = "NONE"
                      \/ (~stall_raw(rs, wb) \/ rejected) /\ ~stall_waw(rd, retiring)
                   /\ fu = "CVXIF" => accepted \/ rejected
      issue == issue_ack /\ ~flush_unissued
      instr == [FreeEntry EXCEPT !.issued = TRUE, !.valid = fu = "NONE", !.ex = fu = "NONE",
                  !.fu = fu, !.rd = rd, !.n = last_issued + 1, !.rs = rs,
                  !.operand = operand(rs, wb), !.wrong_path = off_path]
  IN  /\ Fixed
      /\ ScoreboardClock(issue, instr, wb, ack, flush, accepted /\ ~x.writeback)
      /\ FixedLatencyClock(fu_data, u.known, u.last, csr_commit, flush)
      /\ fu_data' = NextFuData(issue_ack, fu, flush_unissued, mispredict, rejected)
      /\ CommitRegisters(retiring)
      /\ LsuClock(u.done, flush)
      /\ CoproClock(u.answer, accepted, last_issued + 1, x.writeback)
      /\ last_issued' = IF issue THEN last_issued + 1 ELSE last_issued
      /\ off_path' = IF flush_unissued THEN FALSE
                     ELSE off_path \/ (issue /\ mispredict /\ fu = "CTRL_FLOW")
      /\ retired' = retiring
      /\ flushed' = flush
      /\ next' = IF flush THEN last_issued' + 1 ELSE next + Len(retiring)

(* What is offered, and the choices of the environment where they matter.  *)
HasRd(fu) == IF fu = "STORE" THEN {0} ELSE Regs
CsrAtHead == commit_instr(1).valid /\ commit_instr(1).fu = "CSR"
Dividing == IF div_state = "DIVIDE" THEN BOOLEAN ELSE {FALSE}

CommitChoices ==
  [halt : BOOLEAN,
   lsu_ready : IF commit_instr(1).fu = "STORE" THEN BOOLEAN ELSE {TRUE},
   csr_ex : IF CsrAtHead /\ Exceptions THEN BOOLEAN ELSE {FALSE},
   csr_flush : IF CsrAtHead /\ Exceptions THEN BOOLEAN ELSE {FALSE}]
UnitChoices ==
  {u \in [known : Dividing, last : Dividing, done : Done, answer : Answers,
          fault : IF Exceptions THEN SUBSET lsu ELSE {{}}] : u.fault \subseteq u.done}
CoproChoices ==
  [ready : BOOLEAN, accept : IF Rejects THEN BOOLEAN ELSE {TRUE}, writeback : BOOLEAN]
NoCopro == [ready |-> FALSE, accept |-> FALSE, writeback |-> FALSE]

Offer(offer, fu, rd, rs, mispredict, x) ==
  \E c \in CommitChoices, u \in UnitChoices : Edge(offer, fu, rd, rs, mispredict, c, u, x)

Idle == Offer(FALSE, "NONE", 0, 0, FALSE, NoCopro)
OfferInstruction ==
  /\ last_issued < MaxInstr
  /\ \E fu \in Fus \ {"CVXIF"} : \E rd \in HasRd(fu), rs \in Regs,
                                   mispredict \in (IF fu = "CTRL_FLOW" THEN BOOLEAN ELSE {FALSE}) :
       Offer(TRUE, fu, rd, rs, mispredict, NoCopro)
OfferToCoprocessor ==
  /\ last_issued < MaxInstr /\ "CVXIF" \in Fus
  /\ \E rd \in Regs, rs \in Regs, x \in CoproChoices : Offer(TRUE, "CVXIF", rd, rs, FALSE, x)

Next == Idle \/ OfferInstruction \/ OfferToCoprocessor

Init ==
  /\ Elaborated
  /\ ScoreboardReset
  /\ FixedLatencyReset
  /\ fu_data = NoIssue
  /\ regs = [r \in Regs |-> 0]
  /\ lsu = {} /\ copro = {}
  /\ last_issued = 0 /\ off_path = FALSE
  /\ next = 1 /\ retired = <<>> /\ flushed = FALSE

Spec == Init /\ [][Next]_vars

----------------------------------------------------------------------------
Numbers == 0 .. MaxInstr
TypeOK ==
  /\ \A i \in Ids : /\ mem[i].n \in Numbers /\ mem[i].rd \in Regs /\ mem[i].fu \in Units
                    /\ mem[i].valid => mem[i].issued
  /\ issue_pointer \in Ids /\ commit_pointer \in [CommitPorts -> Ids]
  /\ div_state \in DivStates /\ fu_data.fu \in Units
  /\ regs \in [Regs -> Numbers]

(* Out-of-order completion, forwarding and speculation are invisible: the  *)
(* registers and the retired instructions are those of InOrder.            *)
ImplementsInOrder == Architecture!Spec

(* The issued entries are the ones between the pointers, oldest first.     *)
RingInOrder ==
  LET used == {i \in Ids : mem[i].issued}
      age(i) == (i - commit_pointer[1]) % NR_SB_ENTRIES
  IN  /\ used = {Add(commit_pointer[1], k) : k \in 0 .. Cardinality(used) - 1}
      /\ issue_pointer = Add(commit_pointer[1], Cardinality(used))
      /\ \A i \in used : mem[i].n = next + age(i)

(* An issued instruction without a result is in exactly one unit; results  *)
(* never meet at the shared port, so none is lost or given twice.          *)
Holders(i) ==
  {<<f, "issue">> : f \in {g \in {fu_data} : /\ g.fu # "NONE" /\ g.tid = i
                                             /\ g.fu = "CVXIF" => g.rejected}}
    \cup {<<o, "mult">> : o \in {p \in {mult_pipe} : p.valid /\ p.tid = i}}
    \cup {<<o, "div">> : o \in {p \in {div_op} : p.valid /\ p.tid = i}}
    \cup {<<o, "lsu">> : o \in {p \in lsu : p.tid = i}}
    \cup {<<o, "copro">> : o \in {p \in copro : p.tid = i}}
NothingLost ==
  \A i \in Ids : mem[i].issued =>
    Cardinality(Holders(i)) = IF mem[i].valid THEN 0 ELSE 1

(* The port of the fixed latency units has no arbiter and no queue for the *)
(* one-cycle units: when one of them has a result, no product and no       *)
(* quotient is due.                                                        *)
OneResultAtPort ==
  fu_data.fu \in OneCycle => ~mult_pipe.valid /\ div_state = "IDLE"

(* scoreboard.sv: "check if this instruction was issued (e.g.: it could    *)
(* happen after a flush that there is still something in the pipeline".    *)
(* A completed instruction has its own result, not that of an instruction  *)
(* flushed before it that had the same identifier.                         *)
ResultsAreOwn ==
  \A i \in Ids : mem[i].valid /\ ~mem[i].ex => mem[i].result \in {mem[i].n, -mem[i].n}

(* The CSR address the commit stage uses is the one of the instruction it  *)
(* commits.                                                                *)
CsrAddressIsHeads ==
  CsrAtHead /\ ~commit_instr(1).ex => csr_reg.valid /\ csr_reg.n = commit_instr(1).n

=============================================================================
