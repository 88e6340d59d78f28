--------------------------- MODULE IssueUnitProofs ---------------------------
(***************************************************************************)
(* Theorems about the units between issue and the scoreboard in            *)
(* IssueStage: which instruction each of them holds.                       *)
(***************************************************************************)
EXTENDS IssueRingProofs

-----------------------------------------------------------------------------
(* The issue register holds the youngest instruction of the ring, and      *)
(* nothing is issued behind a mispredicted branch.                         *)

IssueRegister ==
  /\ fu_data.fu # "NONE" =>
       /\ fu_data.tid \in Ids /\ fu_data.n = last_issued
       /\ mem[fu_data.tid].issued /\ ~mem[fu_data.tid].valid
       /\ mem[fu_data.tid].fu = fu_data.fu /\ mem[fu_data.tid].n = last_issued
  /\ fu_data.fu \in Units
  /\ fu_data.rejected => fu_data.fu = "CVXIF"
  /\ fu_data.mispredict => fu_data.fu = "CTRL_FLOW"
  /\ fu_data.fu \in OneCycle \cup {"MULT", "DIV"} => div_state = "IDLE"
  /\ OneResultAtPort
  /\ off_path => fu_data.mispredict

LEMMA IssueRegisterStep ==
  ASSUME Ring, IssueRegister,
         NEW offer, NEW fu, NEW rd, NEW rs, NEW mispredict, NEW c, NEW u, NEW x,
         Inputs(offer, fu, rd, rs, mispredict, c, u, x),
         Edge(offer, fu, rd, rs, mispredict, c, u, x)
  PROVE  /\ IssueRegister'
         /\ fu_data'.fu # "NONE" =>
              /\ Issue(offer, fu, rd, rs, c, u, x) /\ ~Flush(c)
              /\ fu_data' = [fu |-> fu, tid |-> issue_pointer, n |-> last_issued + 1,
                             mispredict |-> mispredict /\ fu = "CTRL_FLOW",
                             rejected |-> Rejected(offer, fu, rd, c, x)]
<1> DEFINE ack == IssueAck(offer, fu, rd, rs, c, u, x)
           issue == Issue(offer, fu, rd, rs, c, u, x)
           rejected == Rejected(offer, fu, rd, c, x)
           d == Leaving(Acks(c))
<1>1. /\ fu_data' = NextFuData(ack, fu, FlushUnissued(c), mispredict, rejected)
      /\ issue <=> ack /\ ~FlushUnissued(c)
      /\ ack => ~fu_busy(fu, flu_ready(fu_data, CsrCommit(c)))
      /\ rejected => fu = "CVXIF"
      /\ last_issued' = IF issue THEN last_issued + 1 ELSE last_issued
      /\ FixedLatencyClock(fu_data, u.known, u.last, CsrCommit(c), Flush(c))
      /\ off_path' = IF FlushUnissued(c) THEN FALSE
                     ELSE off_path \/ (issue /\ mispredict /\ fu = "CTRL_FLOW")
  <2>1. /\ issue <=> ack /\ ~FlushUnissued(c)
        /\ ack => ~fu_busy(fu, flu_ready(fu_data, CsrCommit(c)))
        /\ rejected => fu = "CVXIF"
    BY DEF Issue, IssueAck, Free, Rejected, XIssue
  <2>2. /\ fu_data' = NextFuData(ack, fu, FlushUnissued(c), mispredict, rejected)
        /\ last_issued' = IF issue THEN last_issued + 1 ELSE last_issued
        /\ FixedLatencyClock(fu_data, u.known, u.last, CsrCommit(c), Flush(c))
        /\ off_path' = IF FlushUnissued(c) THEN FALSE
                       ELSE off_path \/ (issue /\ mispredict /\ fu = "CTRL_FLOW")
    BY EdgeParts
  <2> QED
    BY <2>1, <2>2
<1>2. /\ issue => ~Flush(c) /\ Count < N
      /\ Count < N => Age(issue_pointer) = Count
      /\ issue_pointer \in Ids /\ d <= Count /\ d \in 0 .. 2
      /\ Instr(fu, rd, rs, u).issued /\ Instr(fu, rd, rs, u).n = last_issued + 1
      /\ Instr(fu, rd, rs, u).valid = (fu = "NONE") /\ Instr(fu, rd, rs, u).fu = fu
  <2>1. Instr(fu, rd, rs, u).fu = fu
    BY DEF Instr, FreeEntry
  <2> QED
    BY <2>1, Signals, AcksAreOldest
<1>3. fu \in Units /\ mispredict \in BOOLEAN /\ Ids' = Ids
  BY EdgePointers DEF Inputs
<1>4. issue => Enters(mem'[issue_pointer], Instr(fu, rd, rs, u),
                      Accepted(offer, fu, rd, rs, c, u, x) /\ ~x.writeback)
  <2> SUFFICES ASSUME issue
               PROVE  Enters(mem'[issue_pointer], Instr(fu, rd, rs, u),
                             Accepted(offer, fu, rd, rs, c, u, x) /\ ~x.writeback)
    OBVIOUS
  <2>1. ~(Flush(c) \/ Age(issue_pointer) < d) /\ issue_pointer \in Ids
    BY <1>2 DEF Ring, Pointers
  <2> QED
    BY <2>1, EdgeEntry
<1>5. issue => /\ mem'[issue_pointer].issued /\ mem'[issue_pointer].fu = fu
               /\ mem'[issue_pointer].n = last_issued + 1
               /\ mem'[issue_pointer].valid = (fu = "NONE")
  BY <1>2, <1>4 DEF Enters, Keeps
<1> HIDE DEF ack, issue, rejected, d
<1>6. CASE issue /\ fu # "NONE"
  <2>1. fu_data' = [fu |-> fu, tid |-> issue_pointer, n |-> last_issued + 1,
                    mispredict |-> mispredict /\ fu = "CTRL_FLOW", rejected |-> rejected]
    BY <1>1, <1>6 DEF NextFuData
  <2>2. /\ fu_data'.fu = fu /\ fu_data'.tid = issue_pointer /\ fu_data'.n = last_issued + 1
        /\ fu_data'.mispredict = (mispredict /\ fu = "CTRL_FLOW")
        /\ fu_data'.rejected = rejected
    BY <2>1
  <2>3. OneResultAtPort'
    BY EdgeKeepsPort
  <2>4. fu \in OneCycle \cup {"MULT", "DIV"} => div_state' = "IDLE"
    BY <1>1, <1>6 DEF fu_busy, flu_ready, mult_ready, FixedLatencyClock, NextDivState
  <2>5. off_path' => fu_data'.mispredict
    BY <1>1, <1>6, <2>2 DEF IssueRegister, FlushUnissued
  <2>6. IssueRegister'
    BY <1>1, <1>2, <1>3, <1>5, <1>6, <2>2, <2>3, <2>4, <2>5 DEF IssueRegister
  <2> QED
    BY <1>2, <1>6, <2>1, <2>6 DEF issue, rejected
<1>7. CASE ~(issue /\ fu # "NONE")
  <2>1. fu_data' = NoIssue
    BY <1>1, <1>7 DEF NextFuData
  <2>2. fu_data'.fu = "NONE" /\ ~fu_data'.mispredict /\ ~fu_data'.rejected
    BY <2>1 DEF NoIssue
  <2>3. ~off_path'
    <3>1. ~FlushUnissued(c) => ~off_path
      BY DEF IssueRegister, FlushUnissued
    <3> QED
      BY <1>1, <1>7, <3>1
  <2> QED
    BY <2>2, <2>3 DEF IssueRegister, OneResultAtPort, OneCycle, Units
<1> QED
  BY <1>6, <1>7

-----------------------------------------------------------------------------
(* The CSR buffer: one register, so at most one CSR instruction in the     *)
(* ring has left the issue register, and its address is the one held.      *)

CsrRegister ==
  /\ csr_reg.valid => fu_data.fu # "CSR"
  /\ \A i \in Ids : mem[i].issued /\ mem[i].fu = "CSR" =>
       \/ fu_data.fu = "CSR" /\ fu_data.tid = i
       \/ csr_reg.valid /\ csr_reg.tid = i /\ csr_reg.n = mem[i].n

LEMMA HeadLeaves ==
  ASSUME Ring, NEW c, Acks(c)[1]
  PROVE  /\ Leaving(Acks(c)) \in {1, 2} /\ HeadSlot \in Ids /\ Age(HeadSlot) = 0
         /\ commit_instr(1).valid /\ ~commit_instr(1).ex
<1>1. /\ HeadSlot \in Ids /\ config \in Configs /\ Ids = 0 .. N - 1 /\ N \in Nat \ {0, 1}
  BY Sizes DEF Ring, Pointers
<1>2. Leaving(Acks(c)) \in {1, 2}
  <2>1. Leaving(Acks(c)) # 0
    BY <1>1, RetiringLength
  <2>2. Leaving(Acks(c)) \in 0 .. 2
    BY AcksAreOldest
  <2> QED
    BY <2>1, <2>2
<1>3. Age(HeadSlot) = 0
  BY <1>1 DEF Age
<1> QED
  BY <1>1, <1>2, <1>3, AcksAreOldest DEF commit_instr, HeadSlot

LEMMA CsrHead ==
  ASSUME Ring, IssueRegister, CsrRegister, CsrAtHead
  PROVE  csr_reg.valid /\ csr_reg.tid = HeadSlot /\ csr_reg.n = commit_instr(1).n
<1>1. HeadSlot \in Ids /\ mem[HeadSlot].valid /\ mem[HeadSlot].issued /\ mem[HeadSlot].fu = "CSR"
  BY DEF Ring, Pointers, Entries, CsrAtHead, commit_instr, HeadSlot
<1>2. ~(fu_data.fu = "CSR" /\ fu_data.tid = HeadSlot)
  BY <1>1 DEF IssueRegister
<1> QED
  BY <1>1, <1>2 DEF CsrRegister, commit_instr, HeadSlot

LEMMA CsrRegisterStep ==
  ASSUME Ring, IssueRegister, CsrRegister,
         NEW offer, NEW fu, NEW rd, NEW rs, NEW mispredict, NEW c, NEW u, NEW x,
         Inputs(offer, fu, rd, rs, mispredict, c, u, x),
         Edge(offer, fu, rd, rs, mispredict, c, u, x)
  PROVE  CsrRegister'
<1> DEFINE issue == Issue(offer, fu, rd, rs, c, u, x)
           d == Leaving(Acks(c))
<1>1. csr_reg' = NextCsr(fu_data, CsrCommit(c), Flush(c))
  BY EdgeParts DEF FixedLatencyClock
<1>2. CsrCommit(c) => csr_reg.valid /\ csr_reg.tid = HeadSlot /\ fu_data.fu # "CSR" /\ d \in {1, 2}
  <2> SUFFICES ASSUME CsrCommit(c)
               PROVE  csr_reg.valid /\ csr_reg.tid = HeadSlot /\ fu_data.fu # "CSR" /\ d \in {1, 2}
    OBVIOUS
  <2>1. CsrAtHead
    BY HeadLeaves DEF CsrCommit, CsrAtHead
  <2> QED
    BY <2>1, HeadLeaves, CsrHead DEF CsrRegister, CsrCommit
<1>3. fu_data'.fu = "CSR" => ~csr_reg'.valid
  <2> SUFFICES ASSUME fu_data'.fu = "CSR"
               PROVE  ~csr_reg'.valid
    OBVIOUS
  <2>1. fu = "CSR" /\ ~fu_busy(fu, flu_ready(fu_data, CsrCommit(c)))
    BY IssueRegisterStep DEF Issue, IssueAck, Free
  <2>2. CsrCommit(c) \/ ~(csr_reg.valid \/ fu_data.fu = "CSR")
    BY <2>1 DEF fu_busy, flu_ready, csr_ready, OneCycle
  <2> QED
    BY <1>1, <1>2, <2>2 DEF NextCsr, NoOp
<1>4. ASSUME NEW i \in Ids', mem'[i].issued /\ mem'[i].fu = "CSR"
      PROVE  \/ fu_data'.fu = "CSR" /\ fu_data'.tid = i
             \/ csr_reg'.valid /\ csr_reg'.tid = i /\ csr_reg'.n = mem'[i].n
  <2>1. i \in Ids
    BY EdgePointers
  <2>2. \/ ~Flush(c) /\ issue /\ i = issue_pointer /\ Enters(mem'[i], Instr(fu, rd, rs, u),
                          Accepted(offer, fu, rd, rs, c, u, x) /\ ~x.writeback)
        \/ ~Flush(c) /\ Age(i) >= d /\ Stays(mem'[i], i, Ports(u))
    BY <1>4, <2>1, EdgeEntry DEF Gone
  <2>3. CASE issue /\ i = issue_pointer /\ Enters(mem'[i], Instr(fu, rd, rs, u),
                          Accepted(offer, fu, rd, rs, c, u, x) /\ ~x.writeback)
    <3>1. fu = "CSR"
      BY <1>4, <2>3 DEF Enters, Keeps, Instr, FreeEntry
    <3>2. fu_data' = NextFuData(IssueAck(offer, fu, rd, rs, c, u, x), fu, FlushUnissued(c),
                                mispredict, Rejected(offer, fu, rd, c, x))
      BY EdgeParts
    <3>3. IssueAck(offer, fu, rd, rs, c, u, x) /\ ~FlushUnissued(c)
      BY <2>3 DEF Issue
    <3> QED
      BY <2>3, <3>1, <3>2, <3>3 DEF NextFuData
  <2>4. CASE ~Flush(c) /\ Age(i) >= d /\ Stays(mem'[i], i, Ports(u))
    <3>1. mem[i].issued /\ mem[i].fu = "CSR" /\ mem'[i].n = mem[i].n
      BY <1>4, <2>4 DEF Stays, Keeps
    <3>2. CASE fu_data.fu = "CSR" /\ fu_data.tid = i
      <4>1. csr_reg' = Op(fu_data) /\ fu_data.n = mem[i].n
        BY <1>1, <2>4, <3>1, <3>2 DEF NextCsr, IssueRegister
      <4> QED
        BY <3>1, <3>2, <4>1 DEF Op
    <3>3. CASE csr_reg.valid /\ csr_reg.tid = i /\ csr_reg.n = mem[i].n
      <4>1. ~CsrCommit(c)
        <5>1. CsrCommit(c) => Age(HeadSlot) = 0
          BY HeadLeaves DEF CsrCommit
        <5> QED
          BY <1>2, <2>4, <3>3, <5>1
      <4>2. csr_reg' = csr_reg
        BY <1>1, <2>4, <3>3, <4>1 DEF NextCsr, CsrRegister
      <4> QED
        BY <3>1, <3>3, <4>2
    <3> QED
      BY <2>1, <3>1, <3>2, <3>3 DEF CsrRegister
  <2> QED
    BY <2>2, <2>3, <2>4
<1> QED
  BY <1>3, <1>4 DEF CsrRegister

Registers == Ring /\ IssueRegister /\ CsrRegister

LEMMA RegistersInitially ==
  ASSUME Init
  PROVE  Registers
<1>1. Ring
  BY RingInitially
<1>2. \A i \in Ids : ~mem[i].issued
  BY DEF Init, ScoreboardReset, FreeEntry
<1>3. IssueRegister
  BY DEF IssueRegister, Init, NoIssue, Units, OneCycle, OneResultAtPort
<1>4. CsrRegister
  BY <1>2 DEF CsrRegister, Init, FixedLatencyReset, NoOp
<1> QED
  BY <1>1, <1>3, <1>4 DEF Registers

LEMMA RegistersUnchanged ==
  ASSUME Registers, UNCHANGED vars
  PROVE  Registers'
<1>1. Ring'
  BY RingUnchanged DEF Registers
<1>2. Ids' = Ids
  BY DEF vars, Ids, NR_SB_ENTRIES
<1>3. IssueRegister'
  BY <1>2 DEF vars, scoreboardVars, fixedLatencyVars, pipelineVars, historyVars, Registers,
              IssueRegister, OneResultAtPort
<1>4. CsrRegister'
  BY <1>2 DEF vars, scoreboardVars, fixedLatencyVars, pipelineVars, historyVars, Registers,
              CsrRegister
<1> QED
  BY <1>1, <1>3, <1>4 DEF Registers

(* The ring with the issue register of issue_read_operands.sv and the      *)
(* buffer of csr_buffer.sv: each names an instruction of the ring.         *)
THEOREM RegistersInductive == Spec => []Registers
<1>1. Init => Registers
  BY RegistersInitially
<1>2. Registers /\ [Next]_vars => Registers'
  <2> SUFFICES ASSUME Registers, [Next]_vars
               PROVE  Registers'
    OBVIOUS
  <2>1. CASE Next
    <3>1. PICK offer, fu, rd, rs, mispredict, c, u, x :
            /\ Inputs(offer, fu, rd, rs, mispredict, c, u, x)
            /\ Edge(offer, fu, rd, rs, mispredict, c, u, x)
      BY <2>1, NextInputs DEF Registers, Ring, Pointers
    <3>2. Ring' /\ IssueRegister' /\ CsrRegister'
      BY <3>1, RingStep, IssueRegisterStep, CsrRegisterStep DEF Registers
    <3> QED
      BY <3>2 DEF Registers
  <2>2. CASE UNCHANGED vars
    BY <2>2, RegistersUnchanged
  <2> QED
    BY <2>1, <2>2
<1> QED
  BY <1>1, <1>2, PTL DEF Spec

(* The CSR address the commit stage uses is the one of the instruction it  *)
(* commits: csr_buffer.sv keeps one address, and flu_ready keeps the next  *)
(* CSR instruction out until that one has committed.                       *)
THEOREM CsrAddress == Spec => []CsrAddressIsHeads
<1>1. Registers => CsrAddressIsHeads
  BY CsrHead DEF Registers, CsrAddressIsHeads
<1> QED
  BY <1>1, RegistersInductive, PTL

-----------------------------------------------------------------------------
(* The other holders.  An offloaded instruction is not killed when the     *)
(* pipeline is flushed (commit_kill is 0), and a refused one drives the    *)
(* port of an answer: what follows needs a program whose configuration has *)
(* neither.  The runs cvxif_flush and cvxif_reject show why.               *)

KillFree(c) == "CVXIF" \in c.Fus => ~c.Exceptions /\ ~c.Rejects /\ "NONE" \notin c.Fus
NeverKills == \A c \in Configs : KillFree(c)

Quiet ==
  /\ ~fu_data.rejected
  /\ copro # {} => "CVXIF" \in Fus
  /\ "CVXIF" \in Fus => \A i \in Ids : ~mem[i].ex

Pending(h) == h.tid \in Ids /\ mem[h.tid].issued /\ ~mem[h.tid].valid /\ mem[h.tid].n = h.n
Behind(h) == fu_data.fu # "NONE" => h.tid # fu_data.tid
Latched ==
  /\ mult_pipe.valid => Pending(mult_pipe) /\ mem[mult_pipe.tid].fu = "MULT" /\ Behind(mult_pipe)
  /\ div_op.valid => Pending(div_op) /\ mem[div_op.tid].fu = "DIV" /\ Behind(div_op)
  /\ div_op.valid <=> div_state # "IDLE"
  /\ \A o \in lsu : /\ Pending(o) /\ mem[o.tid].fu = o.fu /\ Behind(o)
                    /\ o.fu \in {"LOAD", "STORE"}
  /\ \A a, b \in lsu : a.tid = b.tid => a = b
Offloaded ==
  /\ \A o \in copro : /\ Pending(o) /\ mem[o.tid].fu = "CVXIF"
                      /\ ~o.writeback => mem[o.tid].rd = 0
  /\ \A a, b \in copro : a.tid = b.tid => a = b

HeldBy(i) ==
  \/ fu_data.fu \notin {"NONE", "CVXIF"} /\ fu_data.tid = i
  \/ mult_pipe.valid /\ mult_pipe.tid = i
  \/ div_op.valid /\ div_op.tid = i
  \/ \E o \in lsu : o.tid = i
  \/ \E o \in copro : o.tid = i
Held == \A i \in Ids : mem[i].issued /\ ~mem[i].valid => HeldBy(i)

Holding == Registers /\ Quiet /\ Latched /\ Offloaded /\ Held

(* Who drives a writeback port, and that the result is the instruction's.  *)
Own(w, h) == w.tid = h.tid /\ w.result = h.n /\ w.we = TRUE
DrivenBy(u, w) ==
  \/ /\ fu_data.fu \in OneCycle /\ w.tid = fu_data.tid /\ w.we = TRUE /\ w.ex = FALSE
     /\ w.result = IF fu_data.fu = "CSR" THEN -fu_data.n ELSE fu_data.n
  \/ mult_pipe.valid /\ Own(w, mult_pipe) /\ w.ex = FALSE
  \/ ~mult_pipe.valid /\ div_valid(u.known) /\ div_op.valid /\ Own(w, div_op) /\ w.ex = FALSE
  \/ \E o \in u.done : Own(w, o) /\ (w.ex => o \in u.fault)
  \/ \E o \in u.answer : w.tid = o.tid /\ w.result = o.n /\ w.we = o.writeback /\ w.ex = FALSE

LEMMA PortDriver ==
  ASSUME Holding, NEW u \in UnitChoices, NEW w \in Ports(u)
  PROVE  /\ DrivenBy(u, w)
         /\ u.done \subseteq lsu /\ u.answer \subseteq copro
<1>1. /\ FluPort(u, w) \/ LsuPort(u, w) \/ CoproPort(u, w)
      /\ u.done \subseteq lsu /\ u.answer \subseteq copro
  BY PortKinds DEF Holding, Quiet, RefusedPort
<1> SUFFICES DrivenBy(u, w)
  BY <1>1
<1>2. /\ fu_data.fu \in OneCycle => ~mult_pipe.valid /\ div_state = "IDLE"
      /\ div_op.valid <=> div_state # "IDLE"
  BY DEF Holding, Registers, IssueRegister, OneResultAtPort, Latched
<1>3. CASE FluPort(u, w)
  <2>1. CASE fu_data.fu \in OneCycle
    <3>1. FluResult(fu_data, u.known) = [tid |-> fu_data.tid,
             result |-> IF fu_data.fu = "CSR" THEN -fu_data.n ELSE fu_data.n]
      BY <1>2, <2>1 DEF FluResult, div_valid, OneCycle
    <3> QED
      BY <1>3, <2>1, <3>1 DEF FluPort, DrivenBy
  <2>2. CASE fu_data.fu \notin OneCycle
    <3>1. mult_pipe.valid \/ div_valid(u.known)
      BY <1>3, <2>2 DEF FluPort, flu_valid
    <3>2. CASE mult_pipe.valid
      <4>1. FluResult(fu_data, u.known) = [tid |-> mult_pipe.tid, result |-> mult_pipe.n]
        BY <2>2, <3>2 DEF FluResult, OneCycle
      <4>2. Own(w, mult_pipe) /\ w.ex = FALSE
        <5>1. /\ FluResult(fu_data, u.known).tid = mult_pipe.tid
              /\ FluResult(fu_data, u.known).result = mult_pipe.n
          BY <4>1
        <5> QED
          BY <1>3, <5>1 DEF FluPort, Own
      <4> QED
        BY <3>2, <4>2 DEF DrivenBy
    <3>3. CASE ~mult_pipe.valid /\ div_valid(u.known)
      <4>1. FluResult(fu_data, u.known) = [tid |-> div_op.tid, result |-> div_op.n]
        BY <2>2, <3>3 DEF FluResult, OneCycle
      <4>2. div_op.valid
        BY <1>2, <3>3 DEF div_valid
      <4>3. Own(w, div_op) /\ w.ex = FALSE
        <5>1. /\ FluResult(fu_data, u.known).tid = div_op.tid
              /\ FluResult(fu_data, u.known).result = div_op.n
          BY <4>1
        <5> QED
          BY <1>3, <5>1 DEF FluPort, Own
      <4> QED
        BY <3>3, <4>2, <4>3 DEF DrivenBy
    <3> QED
      BY <3>1, <3>2, <3>3
  <2> QED
    BY <2>1, <2>2
<1>4. CASE LsuPort(u, w)
  BY <1>4 DEF LsuPort, DrivenBy, Own
<1>5. CASE CoproPort(u, w)
  BY <1>5 DEF CoproPort, DrivenBy
<1> QED
  BY <1>1, <1>3, <1>4, <1>5

LEMMA PortIsOwn ==
  ASSUME Holding, NEW u \in UnitChoices, NEW w \in Ports(u)
  PROVE  /\ w.tid \in Ids /\ mem[w.tid].issued /\ ~mem[w.tid].valid
         /\ w.result = IF mem[w.tid].fu = "CSR" THEN -mem[w.tid].n ELSE mem[w.tid].n
         /\ ~w.we => mem[w.tid].rd = 0
<1>1. DrivenBy(u, w) /\ u.done \subseteq lsu /\ u.answer \subseteq copro
  BY PortDriver
<1>2. CASE fu_data.fu \in OneCycle /\ w.tid = fu_data.tid /\ w.we = TRUE
           /\ w.result = IF fu_data.fu = "CSR" THEN -fu_data.n ELSE fu_data.n
  BY <1>2 DEF Holding, Registers, IssueRegister, OneCycle
<1>3. CASE mult_pipe.valid /\ Own(w, mult_pipe)
  BY <1>3 DEF Holding, Latched, Pending, Own
<1>4. CASE div_op.valid /\ Own(w, div_op)
  BY <1>4 DEF Holding, Latched, Pending, Own
<1>5. CASE \E o \in u.done : Own(w, o)
  BY <1>1, <1>5 DEF Holding, Latched, Pending, Own
<1>6. CASE \E o \in u.answer : w.tid = o.tid /\ w.result = o.n /\ w.we = o.writeback
  BY <1>1, <1>6 DEF Holding, Offloaded, Pending
<1> QED
  BY <1>1, <1>2, <1>3, <1>4, <1>5, <1>6 DEF DrivenBy

(* A unit that has a result drives a port, and the result is taken.        *)
LEMMA Drives ==
  ASSUME NEW u \in UnitChoices
  PROVE  /\ flu_valid(fu_data, u.known) =>
              \E w \in Ports(u) : w.tid = FluResult(fu_data, u.known).tid
         /\ \A o \in u.done : \E w \in Ports(u) : w.tid = o.tid
         /\ ~fu_data.rejected => \A o \in u.answer : \E w \in Ports(u) : w.tid = o.tid
<1>1. ASSUME flu_valid(fu_data, u.known)
      PROVE  \E w \in Ports(u) : w.tid = FluResult(fu_data, u.known).tid
  <2> DEFINE f == FluResult(fu_data, u.known)
             w == Port(0, f.tid, f.result, FALSE, TRUE)
  <2>1. w \in Ports(u)
    BY <1>1 DEF Ports, Writebacks
  <2>2. w.tid = f.tid
    BY DEF Port
  <2> QED
    BY <2>1, <2>2
<1>2. ASSUME NEW o \in u.done
      PROVE  \E w \in Ports(u) : w.tid = o.tid
  <2> DEFINE w == Port(IF o.fu = "STORE" THEN 1 ELSE 2, o.tid, o.n, o \in u.fault, TRUE)
  <2>1. w \in Ports(u)
    BY DEF Ports, Writebacks
  <2>2. w.tid = o.tid
    BY DEF Port
  <2> QED
    BY <2>1, <2>2
<1>3. ASSUME ~fu_data.rejected, NEW o \in u.answer
      PROVE  \E w \in Ports(u) : w.tid = o.tid
  <2> DEFINE w == Port(4, o.tid, o.n, FALSE, o.writeback)
  <2>1. w \in Ports(u)
    BY <1>3 DEF Ports, Writebacks, XWriteback
  <2>2. w.tid = o.tid
    BY DEF Port
  <2> QED
    BY <2>1, <2>2
<1> QED
  BY <1>1, <1>2, <1>3

(* An instruction without a result does not commit; it keeps its entry     *)
(* unless the pipeline is flushed, and completes if a port names it.       *)
LEMMA Survives ==
  ASSUME Ring, NEW offer, NEW fu, NEW rd, NEW rs, NEW mispredict, NEW c, NEW u, NEW x,
         Inputs(offer, fu, rd, rs, mispredict, c, u, x),
         Edge(offer, fu, rd, rs, mispredict, c, u, x),
         ~Flush(c), NEW i \in Ids, mem[i].issued, ~mem[i].valid, mem[i].fu # "NONE"
  PROVE  /\ Age(i) >= Leaving(Acks(c))
         /\ ~(Issue(offer, fu, rd, rs, c, u, x) /\ i = issue_pointer)
         /\ Keeps(mem[i], mem'[i]) /\ i \in Ids' /\ mem'[i].issued
         /\ mem'[i].valid <=> \E w \in Ports(u) : w.tid = i
         /\ (\A w \in Ports(u) : w.tid # i) => mem'[i].ex = mem[i].ex /\ mem'[i].rd = mem[i].rd
<1>1. ~(Age(i) < Leaving(Acks(c)))
  BY AcksAreOldest
<1>2. Age(i) >= Leaving(Acks(c))
  BY <1>1, AgeRange, AcksAreOldest DEF Ring, Pointers
<1>3. ~(Issue(offer, fu, rd, rs, c, u, x) /\ i = issue_pointer)
  BY Signals
<1>4. Stays(mem'[i], i, Ports(u))
  BY <1>1, <1>3, EdgeEntry
<1>5. Ids' = Ids
  BY EdgePointers
<1>6. Keeps(mem[i], mem'[i]) /\ mem'[i].issued = mem[i].issued
  BY <1>4 DEF Stays, Keeps
<1>7. /\ mem'[i].valid <=> \E w \in Ports(u) : w.tid = i
      /\ (\A w \in Ports(u) : w.tid # i) => mem'[i].ex = mem[i].ex /\ mem'[i].rd = mem[i].rd
  BY <1>4 DEF Stays, Untouched, Taken
<1> QED
  BY <1>2, <1>3, <1>5, <1>6, <1>7

(* A holder that keeps its instruction, or passes it on, over an edge that *)
(* does not flush.                                                         *)
LEMMA KeepsHolding ==
  ASSUME Registers, NEW offer, NEW fu, NEW rd, NEW rs, NEW mispredict, NEW c, NEW u, NEW x,
         Inputs(offer, fu, rd, rs, mispredict, c, u, x),
         Edge(offer, fu, rd, rs, mispredict, c, u, x),
         ~Flush(c), NEW h, Pending(h), mem[h.tid].fu # "NONE", \A w \in Ports(u) : w.tid # h.tid
  PROVE  /\ Pending(h)' /\ Behind(h)'
         /\ mem'[h.tid].fu = mem[h.tid].fu /\ mem'[h.tid].rd = mem[h.tid].rd
<1>1. /\ h.tid \in Ids /\ mem[h.tid].issued /\ ~mem[h.tid].valid /\ mem[h.tid].n = h.n
      /\ Ring /\ IssueRegister
  BY DEF Pending, Registers
<1>2. /\ Keeps(mem[h.tid], mem'[h.tid]) /\ h.tid \in Ids' /\ mem'[h.tid].issued
      /\ ~mem'[h.tid].valid /\ mem'[h.tid].rd = mem[h.tid].rd
      /\ ~(Issue(offer, fu, rd, rs, c, u, x) /\ h.tid = issue_pointer)
  BY <1>1, Survives
<1>3. fu_data'.fu # "NONE" => Issue(offer, fu, rd, rs, c, u, x) /\ fu_data'.tid = issue_pointer
  BY <1>1, IssueRegisterStep
<1> QED
  BY <1>1, <1>2, <1>3 DEF Pending, Behind, Keeps

LEMMA NothingRefused ==
  ASSUME NeverKills, config \in Configs,
         NEW offer, NEW fu, NEW rd, NEW rs, NEW mispredict, NEW c, NEW u, NEW x,
         Inputs(offer, fu, rd, rs, mispredict, c, u, x)
  PROVE  ~Rejected(offer, fu, rd, c, x)
<1> SUFFICES ASSUME Rejected(offer, fu, rd, c, x)
             PROVE  FALSE
  OBVIOUS
<1>1. offer /\ fu = "CVXIF" /\ ~x.accept
  BY DEF Rejected, XIssue, Free
<1>2. x \in CoproChoices /\ "CVXIF" \in Fus
  BY <1>1 DEF Inputs
<1>3. ~Rejects
  BY <1>2 DEF NeverKills, KillFree, Fus, Rejects
<1>4. x.accept = TRUE
  BY <1>2, <1>3 DEF CoproChoices
<1> QED
  BY <1>1, <1>4

LEMMA QuietStep ==
  ASSUME NeverKills, Holding,
         NEW offer, NEW fu, NEW rd, NEW rs, NEW mispredict, NEW c, NEW u, NEW x,
         Inputs(offer, fu, rd, rs, mispredict, c, u, x),
         Edge(offer, fu, rd, rs, mispredict, c, u, x)
  PROVE  Quiet' /\ ("CVXIF" \in Fus => ~Flush(c))
<1>1. /\ config \in Configs /\ KillFree(config) /\ Fus' = Fus
  BY EdgePointers DEF NeverKills, Holding, Registers, Ring, Pointers, Fus
<1>2. "CVXIF" \in Fus => ~Exceptions /\ ~Rejects /\ "NONE" \notin Fus
  BY <1>1 DEF KillFree, Fus, Exceptions, Rejects
<1>3. ~fu_data'.rejected
  <2>1. fu_data'.fu # "NONE" => fu_data'.rejected = Rejected(offer, fu, rd, c, x)
    BY IssueRegisterStep DEF Holding, Registers
  <2>2. ~Rejected(offer, fu, rd, c, x)
    BY <1>1, NothingRefused
  <2>3. fu_data'.rejected => fu_data'.fu # "NONE"
    BY IssueRegisterStep DEF Holding, Registers, IssueRegister
  <2> QED
    BY <2>1, <2>2, <2>3
<1>4. copro' # {} => "CVXIF" \in Fus
  <2>1. CoproClock(u.answer, Accepted(offer, fu, rd, rs, c, u, x), last_issued + 1, x.writeback)
    BY EdgeParts
  <2>2. Accepted(offer, fu, rd, rs, c, u, x) => "CVXIF" \in Fus
    BY DEF Accepted, XIssue, Free, Inputs
  <2> QED
    BY <2>1, <2>2 DEF CoproClock, Holding, Quiet
<1>5. ASSUME "CVXIF" \in Fus
      PROVE  ~Flush(c) /\ \A i \in Ids : ~mem'[i].ex
  <2>1. /\ \A i \in Ids : ~mem[i].ex
        /\ Ring /\ commit_pointer[1] \in Ids
    BY <1>5 DEF Holding, Quiet, Registers, Ring, Pointers, HeadSlot
  <2>2. ~c.csr_ex /\ ~c.csr_flush
    BY <1>2, <1>5 DEF Inputs, CommitChoices
  <2>3. ~Flush(c)
    BY <2>1, <2>2 DEF Flush, exception, commit_instr
  <2>4. u \in UnitChoices /\ u.fault = {}
    BY <1>2, <1>5 DEF Inputs, UnitChoices
  <2>5. ASSUME NEW w \in Ports(u)
        PROVE  ~w.ex
    BY <2>4, PortDriver DEF DrivenBy, Own
  <2>6. Issue(offer, fu, rd, rs, c, u, x) => fu # "NONE"
    BY <1>2, <1>5, Signals, <2>1 DEF Inputs
  <2>7. ASSUME NEW i \in Ids
        PROVE  ~mem'[i].ex
    <3>1. \/ Gone(mem'[i])
          \/ /\ Issue(offer, fu, rd, rs, c, u, x)
             /\ Enters(mem'[i], Instr(fu, rd, rs, u),
                       Accepted(offer, fu, rd, rs, c, u, x) /\ ~x.writeback)
          \/ Stays(mem'[i], i, Ports(u))
      BY <2>1, EdgeEntry
    <3>2. CASE Gone(mem'[i])
      BY <3>2 DEF Gone
    <3>3. CASE /\ Issue(offer, fu, rd, rs, c, u, x)
               /\ Enters(mem'[i], Instr(fu, rd, rs, u),
                         Accepted(offer, fu, rd, rs, c, u, x) /\ ~x.writeback)
      BY <2>6, <3>3 DEF Enters, Instr, FreeEntry
    <3>4. CASE Stays(mem'[i], i, Ports(u))
      BY <2>1, <2>5, <3>4 DEF Stays, Untouched, Taken
    <3> QED
      BY <3>1, <3>2, <3>3, <3>4
  <2> QED
    BY <2>3, <2>7
<1>6. Ids' = Ids
  BY EdgePointers DEF Holding, Registers
<1> QED
  BY <1>1, <1>3, <1>4, <1>5, <1>6 DEF Quiet

(* The instruction in the issue register, handed to its unit.              *)
LEMMA StartsUnit ==
  ASSUME Holding, NEW u \in UnitChoices, fu_data.fu \in {"MULT", "DIV", "LOAD", "STORE"}
  PROVE  \A w \in Ports(u) : w.tid # fu_data.tid
<1> SUFFICES ASSUME NEW w \in Ports(u), w.tid = fu_data.tid
             PROVE  FALSE
  OBVIOUS
<1>1. DrivenBy(u, w) /\ u.done \subseteq lsu /\ u.answer \subseteq copro
  BY PortDriver
<1>2. mem[fu_data.tid].fu = fu_data.fu /\ fu_data.fu \notin OneCycle /\ fu_data.fu # "NONE"
  BY DEF Holding, Registers, IssueRegister, OneCycle
<1>3. CASE mult_pipe.valid /\ w.tid = mult_pipe.tid
  BY <1>2, <1>3 DEF Holding, Latched, Behind
<1>4. CASE div_op.valid /\ w.tid = div_op.tid
  BY <1>2, <1>4 DEF Holding, Latched, Behind
<1>5. CASE \E o \in lsu : w.tid = o.tid
  BY <1>2, <1>5 DEF Holding, Latched, Behind
<1>6. CASE \E o \in copro : w.tid = o.tid
  BY <1>2, <1>6 DEF Holding, Offloaded
<1> QED
  BY <1>1, <1>2, <1>3, <1>4, <1>5, <1>6 DEF DrivenBy, Own

LEMMA LatchedStep ==
  ASSUME Holding, NEW offer, NEW fu, NEW rd, NEW rs, NEW mispredict, NEW c, NEW u, NEW x,
         Inputs(offer, fu, rd, rs, mispredict, c, u, x),
         Edge(offer, fu, rd, rs, mispredict, c, u, x)
  PROVE  Latched'
<1>1. /\ FixedLatencyClock(fu_data, u.known, u.last, CsrCommit(c), Flush(c))
      /\ LsuClock(u.done, Flush(c))
      /\ u \in UnitChoices /\ Registers /\ Latched /\ Offloaded
  BY EdgeParts DEF Inputs, Holding
<1>2. CASE Flush(c)
  <2>1. mult_pipe' = NoOp /\ div_state' = "IDLE" /\ div_op' = NoOp /\ lsu' = {}
    BY <1>1, <1>2 DEF FixedLatencyClock, NextDivState, LsuClock
  <2> QED
    BY <2>1 DEF Latched, NoOp
<1>3. CASE ~Flush(c)
  <2>1. ASSUME fu_data.fu \in {"MULT", "DIV", "LOAD", "STORE"},
               NEW h, h.tid = fu_data.tid, h.n = fu_data.n
        PROVE  Pending(h)' /\ Behind(h)' /\ mem'[h.tid].fu = fu_data.fu
    <3>1. Pending(h) /\ mem[h.tid].fu = fu_data.fu /\ fu_data.fu # "NONE"
      BY <1>1, <2>1 DEF Registers, IssueRegister, Pending
    <3>2. \A w \in Ports(u) : w.tid # h.tid
      BY <1>1, <2>1, StartsUnit
    <3> QED
      BY <1>1, <1>3, <3>1, <3>2, KeepsHolding
  <2>2. mult_pipe'.valid => Pending(mult_pipe)' /\ mem'[mult_pipe'.tid].fu = "MULT" /\ Behind(mult_pipe)'
    <3> SUFFICES ASSUME mult_pipe'.valid
                 PROVE  Pending(mult_pipe)' /\ mem'[mult_pipe'.tid].fu = "MULT" /\ Behind(mult_pipe)'
      OBVIOUS
    <3>1. mult_pipe' = Op(fu_data) /\ fu_data.fu = "MULT"
      BY <1>1 DEF FixedLatencyClock, NoOp
    <3>2. mult_pipe'.tid = fu_data.tid /\ mult_pipe'.n = fu_data.n
      BY <3>1 DEF Op
    <3> QED
      BY <2>1, <3>1, <3>2 DEF Pending, Behind
  <2>3. div_op'.valid <=> div_state' # "IDLE"
    <3>1. fu_data.fu = "DIV" => div_state = "IDLE"
      BY <1>1 DEF Registers, IssueRegister
    <3> QED
      BY <1>1, <1>3, <3>1 DEF FixedLatencyClock, NextDivState, Latched, Op, NoOp
  <2>4. div_op'.valid => Pending(div_op)' /\ mem'[div_op'.tid].fu = "DIV" /\ Behind(div_op)'
    <3> SUFFICES ASSUME div_op'.valid
                 PROVE  Pending(div_op)' /\ mem'[div_op'.tid].fu = "DIV" /\ Behind(div_op)'
      OBVIOUS
    <3>1. CASE div_state = "IDLE" /\ fu_data.fu = "DIV"
      <4>1. div_op' = Op(fu_data)
        BY <1>1, <1>3, <3>1 DEF FixedLatencyClock
      <4>2. div_op'.tid = fu_data.tid /\ div_op'.n = fu_data.n
        BY <4>1 DEF Op
      <4> QED
        BY <2>1, <3>1, <4>2 DEF Pending, Behind
    <3>2. CASE ~(div_state = "IDLE" /\ fu_data.fu = "DIV")
      <4>1. div_op' = div_op /\ div_state' # "IDLE"
        BY <1>1, <2>3, <3>2 DEF FixedLatencyClock, NoOp
      <4>2. div_state # "IDLE" /\ (~div_valid(u.known) \/ mult_pipe.valid)
        BY <1>1, <1>3, <3>2, <4>1 DEF FixedLatencyClock, NextDivState
      <4>3. \A w \in Ports(u) : w.tid # div_op.tid
        <5> SUFFICES ASSUME NEW w \in Ports(u), w.tid = div_op.tid
                     PROVE  FALSE
          OBVIOUS
        <5>1. DrivenBy(u, w) /\ u.done \subseteq lsu /\ u.answer \subseteq copro
          BY <1>1, PortDriver
        <5>2. div_op.valid /\ mem[div_op.tid].fu = "DIV" /\ fu_data.fu \notin OneCycle
          BY <1>1, <4>2 DEF Latched, Registers, IssueRegister
        <5> QED
          BY <1>1, <4>2, <5>1, <5>2 DEF DrivenBy, Own, Latched, Offloaded
      <4>4. Pending(div_op) /\ mem[div_op.tid].fu = "DIV"
        BY <1>1, <4>2 DEF Latched
      <4> QED
        BY <1>1, <1>3, <4>1, <4>3, <4>4, KeepsHolding DEF Pending, Behind
    <3> QED
      BY <3>1, <3>2
  <2>5. \A o \in lsu' : \/ o \in lsu \ u.done
                        \/ /\ fu_data.fu \in {"LOAD", "STORE"}
                           /\ o = [fu |-> fu_data.fu, tid |-> fu_data.tid, n |-> fu_data.n]
    BY <1>1, <1>3 DEF LsuClock
  <2>6. ASSUME NEW o \in lsu \ u.done
        PROVE  \A w \in Ports(u) : w.tid # o.tid
    <3> SUFFICES ASSUME NEW w \in Ports(u), w.tid = o.tid
                 PROVE  FALSE
      OBVIOUS
    <3>1. DrivenBy(u, w) /\ u.done \subseteq lsu /\ u.answer \subseteq copro
      BY <1>1, PortDriver
    <3>2. mem[o.tid].fu \in {"LOAD", "STORE"} /\ Behind(o) /\ \A p \in u.done : p.tid # o.tid
      BY <1>1, <3>1 DEF Latched
    <3>3. ~(fu_data.fu \in OneCycle /\ w.tid = fu_data.tid)
      BY <3>2 DEF Behind, OneCycle
    <3> QED
      BY <1>1, <3>1, <3>2, <3>3 DEF DrivenBy, Own, Latched, Offloaded
  <2>7. ASSUME NEW o \in lsu'
        PROVE  /\ Pending(o)' /\ mem'[o.tid].fu = o.fu /\ Behind(o)' /\ o.fu \in {"LOAD", "STORE"}
    <3>1. CASE o \in lsu \ u.done
      <4>1. Pending(o) /\ mem[o.tid].fu = o.fu /\ o.fu \in {"LOAD", "STORE"}
        BY <1>1, <3>1 DEF Latched
      <4>2. \A w \in Ports(u) : w.tid # o.tid
        BY <2>6, <3>1
      <4> QED
        BY <1>1, <1>3, <4>1, <4>2, KeepsHolding
    <3>2. CASE /\ fu_data.fu \in {"LOAD", "STORE"}
               /\ o = [fu |-> fu_data.fu, tid |-> fu_data.tid, n |-> fu_data.n]
      BY <2>1, <3>2
    <3> QED
      BY <2>5, <3>1, <3>2
  <2>8. ASSUME NEW a \in lsu', NEW b \in lsu', a.tid = b.tid
        PROVE  a = b
    <3>1. \A o \in lsu : fu_data.fu # "NONE" => o.tid # fu_data.tid
      BY <1>1 DEF Latched, Behind
    <3> QED
      BY <1>1, <2>5, <2>8, <3>1 DEF Latched
  <2> QED
    BY <2>2, <2>3, <2>4, <2>7, <2>8 DEF Latched
<1> QED
  BY <1>2, <1>3

LEMMA OffloadedStep ==
  ASSUME Holding, NEW offer, NEW fu, NEW rd, NEW rs, NEW mispredict, NEW c, NEW u, NEW x,
         Inputs(offer, fu, rd, rs, mispredict, c, u, x),
         Edge(offer, fu, rd, rs, mispredict, c, u, x),
         "CVXIF" \in Fus => ~Flush(c)
  PROVE  Offloaded'
<1> DEFINE accepted == Accepted(offer, fu, rd, rs, c, u, x)
           offload == [tid |-> issue_pointer, n |-> last_issued + 1, writeback |-> x.writeback]
<1>1. /\ CoproClock(u.answer, accepted, last_issued + 1, x.writeback)
      /\ u \in UnitChoices /\ Registers /\ Quiet /\ Latched /\ Offloaded
      /\ accepted => "CVXIF" \in Fus /\ fu = "CVXIF"
  BY EdgeParts DEF Inputs, Holding, Accepted, XIssue, Free
<1>2. \A o \in copro' : (o \in copro \ u.answer) \/ (accepted /\ o = offload)
  BY <1>1 DEF CoproClock
<1>3. ASSUME NEW o \in copro \ u.answer
      PROVE  /\ Pending(o)' /\ mem'[o.tid].fu = "CVXIF" /\ (~o.writeback => mem'[o.tid].rd = 0)
             /\ accepted => o.tid # issue_pointer
  <2>1. ~Flush(c) /\ Pending(o) /\ mem[o.tid].fu = "CVXIF" /\ (~o.writeback => mem[o.tid].rd = 0)
    BY <1>1, <1>3 DEF Quiet, Offloaded
  <2>2. \A w \in Ports(u) : w.tid # o.tid
    <3> SUFFICES ASSUME NEW w \in Ports(u), w.tid = o.tid
                 PROVE  FALSE
      OBVIOUS
    <3>1. DrivenBy(u, w) /\ u.done \subseteq lsu /\ u.answer \subseteq copro
      BY <1>1, PortDriver
    <3>2. \A p \in u.answer : p.tid # o.tid
      BY <1>1, <1>3, <3>1 DEF Offloaded
    <3>3. ~(fu_data.fu \in OneCycle /\ w.tid = fu_data.tid)
      BY <1>1, <2>1 DEF Registers, IssueRegister, OneCycle
    <3> QED
      BY <1>1, <2>1, <3>1, <3>2, <3>3 DEF DrivenBy, Own, Latched
  <2>3. accepted => o.tid # issue_pointer
    BY <1>1, <2>1, Signals DEF Pending, Registers
  <2> QED
    BY <1>1, <2>1, <2>2, <2>3, KeepsHolding
<1>4. ASSUME accepted, NEW o, o = offload
      PROVE  Pending(o)' /\ mem'[o.tid].fu = "CVXIF" /\ (~o.writeback => mem'[o.tid].rd = 0)
  <2>1. /\ Issue(offer, fu, rd, rs, c, u, x) /\ ~Flush(c) /\ fu = "CVXIF"
        /\ issue_pointer \in Ids /\ Ids' = Ids
    BY <1>1, <1>4, Signals, EdgePointers DEF Registers
  <2>2. ~(Flush(c) \/ Age(issue_pointer) < Leaving(Acks(c)))
    <3>1. /\ Age(issue_pointer) = Count /\ Leaving(Acks(c)) <= Count
          /\ Leaving(Acks(c)) \in 0 .. 2 /\ Count \in 0 .. N
      BY <1>1, <2>1, Signals, AcksAreOldest DEF Registers, Ring, Pointers
    <3> QED
      BY <2>1, <3>1, Sizes DEF Registers, Ring, Pointers
  <2>3. Enters(mem'[issue_pointer], Instr(fu, rd, rs, u),
               Accepted(offer, fu, rd, rs, c, u, x) /\ ~x.writeback)
    BY <1>1, <2>1, <2>2, EdgeEntry DEF Registers
  <2>4. /\ mem'[issue_pointer].issued /\ ~mem'[issue_pointer].valid
        /\ mem'[issue_pointer].n = last_issued + 1 /\ mem'[issue_pointer].fu = "CVXIF"
    BY <2>1, <2>3 DEF Enters, Keeps, Instr, FreeEntry
  <2>5. ~x.writeback => mem'[issue_pointer].rd = 0
    BY <1>4, <2>3 DEF Enters
  <2>6. o.tid = issue_pointer /\ o.n = last_issued + 1 /\ o.writeback = x.writeback
    BY <1>4
  <2> QED
    BY <2>1, <2>4, <2>5, <2>6 DEF Pending
<1>5. ASSUME NEW a \in copro', NEW b \in copro', a.tid = b.tid
      PROVE  a = b
  <2>1. accepted => offload.tid = issue_pointer
    OBVIOUS
  <2> HIDE DEF accepted, offload
  <2> QED
    BY <1>1, <1>2, <1>3, <1>5, <2>1 DEF Offloaded
<1> HIDE DEF accepted, offload
<1>6. ASSUME NEW o \in copro'
      PROVE  Pending(o)' /\ mem'[o.tid].fu = "CVXIF" /\ (~o.writeback => mem'[o.tid].rd = 0)
  BY <1>2, <1>3, <1>4
<1> QED
  BY <1>5, <1>6 DEF Offloaded

(* Every instruction without a result has a holder: it starts in the unit  *)
(* that issue hands it to, which keeps it until a port names it.           *)
LEMMA HeldStep ==
  ASSUME Holding, NEW offer, NEW fu, NEW rd, NEW rs, NEW mispredict, NEW c, NEW u, NEW x,
         Inputs(offer, fu, rd, rs, mispredict, c, u, x),
         Edge(offer, fu, rd, rs, mispredict, c, u, x), Quiet', Latched'
  PROVE  Held'
<1>1. /\ FixedLatencyClock(fu_data, u.known, u.last, CsrCommit(c), Flush(c))
      /\ LsuClock(u.done, Flush(c))
      /\ CoproClock(u.answer, Accepted(offer, fu, rd, rs, c, u, x), last_issued + 1, x.writeback)
      /\ fu_data' = NextFuData(IssueAck(offer, fu, rd, rs, c, u, x), fu, FlushUnissued(c),
                               mispredict, Rejected(offer, fu, rd, c, x))
      /\ u \in UnitChoices /\ Ring /\ IssueRegister /\ Quiet /\ Latched /\ Held /\ Ids' = Ids
  <2>1. u \in UnitChoices /\ Ring /\ IssueRegister /\ Quiet /\ Latched /\ Held
    BY DEF Inputs, Holding, Registers
  <2>2. Ids' = Ids
    BY <2>1, EdgePointers
  <2> QED
    BY <2>1, <2>2, EdgeParts
<1> SUFFICES ASSUME NEW i \in Ids, mem'[i].issued, ~mem'[i].valid
             PROVE  HeldBy(i)'
  BY <1>1 DEF Held
<1>2. ~Flush(c)
  BY <1>1, EdgeEntry DEF Gone
<1>3. \/ /\ Issue(offer, fu, rd, rs, c, u, x) /\ i = issue_pointer
         /\ Enters(mem'[i], Instr(fu, rd, rs, u),
                   Accepted(offer, fu, rd, rs, c, u, x) /\ ~x.writeback)
      \/ Stays(mem'[i], i, Ports(u))
  BY <1>1, EdgeEntry DEF Gone
<1>4. CASE /\ Issue(offer, fu, rd, rs, c, u, x) /\ i = issue_pointer
           /\ Enters(mem'[i], Instr(fu, rd, rs, u),
                     Accepted(offer, fu, rd, rs, c, u, x) /\ ~x.writeback)
  <2>1. fu # "NONE"
    BY <1>1, <1>4, Signals DEF Enters
  <2>2. fu_data' = [fu |-> fu, tid |-> issue_pointer, n |-> last_issued + 1,
                    mispredict |-> mispredict /\ fu = "CTRL_FLOW",
                    rejected |-> Rejected(offer, fu, rd, c, x)]
    BY <1>1, <1>4, <2>1 DEF Issue, NextFuData
  <2>3. fu_data'.fu = fu /\ fu_data'.tid = issue_pointer
    BY <2>2
  <2>4. CASE fu = "CVXIF"
    <3>1. ~Rejected(offer, fu, rd, c, x)
      BY <2>2 DEF Quiet
    <3>2. Accepted(offer, fu, rd, rs, c, u, x)
      BY <1>4, <2>4, <3>1 DEF Issue, IssueAck
    <3> DEFINE o == [tid |-> issue_pointer, n |-> last_issued + 1, writeback |-> x.writeback]
    <3>3. o \in copro' /\ o.tid = issue_pointer
      BY <1>1, <3>2 DEF CoproClock
    <3> QED
      BY <1>4, <3>3 DEF HeldBy
  <2> QED
    BY <1>4, <2>1, <2>3, <2>4 DEF HeldBy
<1>5. CASE Stays(mem'[i], i, Ports(u))
  <2>1. /\ mem[i].issued /\ ~mem[i].valid /\ mem[i].fu # "NONE"
        /\ \A w \in Ports(u) : w.tid # i
    BY <1>5 DEF Stays, Keeps, Untouched, Taken
  <2>2. /\ flu_valid(fu_data, u.known) => FluResult(fu_data, u.known).tid # i
        /\ \A o \in u.done : o.tid # i
        /\ \A o \in u.answer : o.tid # i
    BY <1>1, <2>1, Drives DEF Quiet
  <2>3. CASE fu_data.fu \notin {"NONE", "CVXIF"} /\ fu_data.tid = i
    <3>1. CASE fu_data.fu \in OneCycle
      <4>1. flu_valid(fu_data, u.known) /\ ~mult_pipe.valid /\ div_state = "IDLE"
        BY <1>1, <3>1 DEF flu_valid, IssueRegister, OneResultAtPort
      <4>2. FluResult(fu_data, u.known) = [tid |-> fu_data.tid,
              result |-> IF fu_data.fu = "CSR" THEN -fu_data.n ELSE fu_data.n]
        BY <3>1, <4>1 DEF FluResult, div_valid, OneCycle
      <4>3. FluResult(fu_data, u.known).tid = fu_data.tid
        BY <4>2
      <4> QED
        BY <2>2, <2>3, <4>1, <4>3
    <3>2. CASE fu_data.fu = "MULT"
      <4>1. mult_pipe' = Op(fu_data)
        BY <1>1, <1>2, <3>2 DEF FixedLatencyClock
      <4>2. mult_pipe'.valid /\ mult_pipe'.tid = i
        BY <2>3, <4>1 DEF Op
      <4> QED
        BY <4>2 DEF HeldBy
    <3>3. CASE fu_data.fu = "DIV"
      <4>1. div_op' = Op(fu_data)
        BY <1>1, <1>2, <3>3 DEF FixedLatencyClock, IssueRegister
      <4>2. div_op'.valid /\ div_op'.tid = i
        BY <2>3, <4>1 DEF Op
      <4> QED
        BY <4>2 DEF HeldBy
    <3>4. CASE fu_data.fu \in {"LOAD", "STORE"}
      <4> DEFINE o == [fu |-> fu_data.fu, tid |-> fu_data.tid, n |-> fu_data.n]
      <4>1. o \in lsu' /\ o.tid = i
        BY <1>1, <1>2, <2>3, <3>4 DEF LsuClock
      <4> QED
        BY <4>1 DEF HeldBy
    <3> QED
      BY <1>1, <2>3, <3>1, <3>2, <3>3, <3>4 DEF IssueRegister, Units, OneCycle
  <2>4. CASE mult_pipe.valid /\ mult_pipe.tid = i
    <3>1. fu_data.fu \notin OneCycle /\ flu_valid(fu_data, u.known)
      BY <1>1, <2>4 DEF flu_valid, IssueRegister, OneResultAtPort
    <3>2. FluResult(fu_data, u.known) = [tid |-> mult_pipe.tid, result |-> mult_pipe.n]
      BY <2>4, <3>1 DEF FluResult, OneCycle
    <3>3. FluResult(fu_data, u.known).tid = mult_pipe.tid
      BY <3>2
    <3> QED
      BY <2>2, <2>4, <3>1, <3>3
  <2>5. CASE div_op.valid /\ div_op.tid = i
    <3>1. div_state # "IDLE" /\ fu_data.fu \notin OneCycle
      BY <1>1, <2>5 DEF Latched, IssueRegister, OneResultAtPort
    <3>2. ~div_valid(u.known) \/ mult_pipe.valid
      <4> SUFFICES ASSUME div_valid(u.known), ~mult_pipe.valid
                   PROVE  FALSE
        OBVIOUS
      <4>1. FluResult(fu_data, u.known) = [tid |-> div_op.tid, result |-> div_op.n]
        BY <3>1 DEF FluResult, OneCycle
      <4>2. FluResult(fu_data, u.known).tid = div_op.tid
        BY <4>1
      <4> QED
        BY <2>2, <2>5, <4>2 DEF flu_valid
    <3>3. div_op' = div_op
      BY <1>1, <1>2, <3>1, <3>2 DEF FixedLatencyClock, NextDivState
    <3> QED
      BY <2>5, <3>3 DEF HeldBy
  <2>6. CASE \E o \in lsu : o.tid = i
    BY <1>1, <1>2, <2>2, <2>6 DEF LsuClock, HeldBy
  <2>7. CASE \E o \in copro : o.tid = i
    BY <1>1, <2>2, <2>7 DEF CoproClock, HeldBy
  <2> QED
    BY <1>1, <2>1, <2>3, <2>4, <2>5, <2>6, <2>7 DEF Held, HeldBy
<1> QED
  BY <1>3, <1>4, <1>5

LEMMA HoldingInitially ==
  ASSUME Init
  PROVE  Holding
<1>1. Registers
  BY RegistersInitially
<1>2. \A i \in Ids : ~mem[i].issued /\ ~mem[i].ex
  BY DEF Init, ScoreboardReset, FreeEntry
<1>3. fu_data = NoIssue /\ lsu = {} /\ copro = {}
  BY DEF Init
<1>4. Quiet /\ Offloaded /\ Held
  BY <1>2, <1>3 DEF Quiet, Offloaded, Held, NoIssue
<1>5. Latched
  BY <1>3 DEF Latched, Init, FixedLatencyReset, NoOp
<1> QED
  BY <1>1, <1>4, <1>5 DEF Holding

LEMMA HoldingUnchanged ==
  ASSUME Holding, UNCHANGED vars, Registers'
  PROVE  Holding'
<1>1. Ids' = Ids /\ Fus' = Fus
  BY DEF vars, Ids, NR_SB_ENTRIES, Fus
<1>2. /\ fu_data' = fu_data /\ copro' = copro /\ lsu' = lsu /\ mem' = mem
      /\ mult_pipe' = mult_pipe /\ div_op' = div_op /\ div_state' = div_state
  BY DEF vars, scoreboardVars, fixedLatencyVars, pipelineVars
<1>3. Quiet'
  BY <1>1, <1>2 DEF Holding, Quiet
<1>4. Latched'
  BY <1>1, <1>2 DEF Holding, Latched, Pending, Behind
<1>5. Offloaded'
  BY <1>1, <1>2 DEF Holding, Offloaded, Pending
<1>6. Held'
  BY <1>1, <1>2 DEF Holding, Held, HeldBy
<1> QED
  BY <1>3, <1>4, <1>5, <1>6 DEF Holding

(* Which instruction each unit holds: one that the scoreboard waits for,   *)
(* and no instruction it waits for is without a holder.                    *)
THEOREM HoldingInductive ==
  ASSUME NeverKills
  PROVE  Spec => []Holding
<1>1. Init => Holding
  BY HoldingInitially
<1>2. Holding /\ [Next]_vars => Holding'
  <2> SUFFICES ASSUME Holding, [Next]_vars
               PROVE  Holding'
    OBVIOUS
  <2>1. CASE Next
    <3>1. PICK offer, fu, rd, rs, mispredict, c, u, x :
            /\ Inputs(offer, fu, rd, rs, mispredict, c, u, x)
            /\ Edge(offer, fu, rd, rs, mispredict, c, u, x)
      BY <2>1, NextInputs DEF Holding, Registers, Ring, Pointers
    <3>2. Ring' /\ IssueRegister' /\ CsrRegister'
      BY <3>1, RingStep, IssueRegisterStep, CsrRegisterStep DEF Holding, Registers
    <3>3. Quiet' /\ ("CVXIF" \in Fus => ~Flush(c))
      BY <3>1, QuietStep
    <3>4. Latched' /\ Offloaded'
      BY <3>1, <3>3, LatchedStep, OffloadedStep
    <3>5. Held'
      BY <3>1, <3>3, <3>4, HeldStep
    <3> QED
      BY <3>2, <3>3, <3>4, <3>5 DEF Holding, Registers
  <2>2. CASE UNCHANGED vars
    BY <2>2, RegistersUnchanged, HoldingUnchanged DEF Holding
  <2> QED
    BY <2>1, <2>2
<1> QED
  BY <1>1, <1>2, PTL DEF Spec

(* An instruction without a result is in exactly one unit, and one with a  *)
(* result is in none: results never meet at the port that has no queue,    *)
(* so none is lost (ex_stage.sv) or given twice.                           *)
LEMMA OneHolder ==
  ASSUME Holding, NEW i \in Ids, mem[i].issued
  PROVE  /\ mem[i].valid => Holders(i) = {}
         /\ ~mem[i].valid => \E h : Holders(i) = {h}
<1> DEFINE atIssue == {<<f, "issue">> : f \in {g \in {fu_data} : /\ g.fu # "NONE" /\ g.tid = i
                                                                 /\ g.fu = "CVXIF" => g.rejected}}
           atMult == {<<o, "mult">> : o \in {p \in {mult_pipe} : p.valid /\ p.tid = i}}
           atDiv == {<<o, "div">> : o \in {p \in {div_op} : p.valid /\ p.tid = i}}
           atLsu == {<<o, "lsu">> : o \in {p \in lsu : p.tid = i}}
           atCopro == {<<o, "copro">> : o \in {p \in copro : p.tid = i}}
<1>1. Holders(i) = atIssue \cup atMult \cup atDiv \cup atLsu \cup atCopro
  BY DEF Holders
<1>2. /\ atIssue # {} => /\ atIssue = {<<fu_data, "issue">>} /\ ~mem[i].valid /\ fu_data.tid = i
                         /\ mem[i].fu = fu_data.fu /\ fu_data.fu \notin {"NONE", "CVXIF"}
      /\ fu_data.fu \notin {"NONE", "CVXIF"} /\ fu_data.tid = i => atIssue = {<<fu_data, "issue">>}
  BY DEF Holding, Registers, IssueRegister, Quiet
<1>3. /\ atMult # {} => /\ atMult = {<<mult_pipe, "mult">>} /\ ~mem[i].valid /\ mem[i].fu = "MULT"
                        /\ (fu_data.fu # "NONE" => fu_data.tid # i)
      /\ mult_pipe.valid /\ mult_pipe.tid = i => atMult = {<<mult_pipe, "mult">>}
  BY DEF Holding, Latched, Pending, Behind
<1>4. /\ atDiv # {} => /\ atDiv = {<<div_op, "div">>} /\ ~mem[i].valid /\ mem[i].fu = "DIV"
                       /\ (fu_data.fu # "NONE" => fu_data.tid # i)
      /\ div_op.valid /\ div_op.tid = i => atDiv = {<<div_op, "div">>}
  BY DEF Holding, Latched, Pending, Behind
<1>5. \A o \in lsu : o.tid = i => /\ atLsu = {<<o, "lsu">>} /\ ~mem[i].valid
                                  /\ mem[i].fu \in {"LOAD", "STORE"}
                                  /\ (fu_data.fu # "NONE" => fu_data.tid # i)
  <2> SUFFICES ASSUME NEW o \in lsu, o.tid = i
               PROVE  /\ atLsu = {<<o, "lsu">>} /\ ~mem[i].valid
                      /\ mem[i].fu \in {"LOAD", "STORE"}
                      /\ (fu_data.fu # "NONE" => fu_data.tid # i)
    OBVIOUS
  <2>1. {p \in lsu : p.tid = i} = {o}
    BY DEF Holding, Latched
  <2>2. atLsu = {<<o, "lsu">>}
    BY <2>1
  <2> QED
    BY <2>2 DEF Holding, Latched, Pending, Behind
<1>6. \A o \in copro : o.tid = i => /\ atCopro = {<<o, "copro">>} /\ ~mem[i].valid
                                    /\ mem[i].fu = "CVXIF"
  <2> SUFFICES ASSUME NEW o \in copro, o.tid = i
               PROVE  /\ atCopro = {<<o, "copro">>} /\ ~mem[i].valid /\ mem[i].fu = "CVXIF"
    OBVIOUS
  <2>1. {p \in copro : p.tid = i} = {o}
    BY DEF Holding, Offloaded
  <2>2. atCopro = {<<o, "copro">>}
    BY <2>1
  <2> QED
    BY <2>2 DEF Holding, Offloaded, Pending
<1>7. /\ atLsu # {} => \E o \in lsu : o.tid = i
      /\ atCopro # {} => \E o \in copro : o.tid = i
  OBVIOUS
<1> HIDE DEF atIssue, atMult, atDiv, atLsu, atCopro
<1>8. ASSUME mem[i].valid
      PROVE  Holders(i) = {}
  <2>1. atIssue = {} /\ atMult = {} /\ atDiv = {} /\ atLsu = {} /\ atCopro = {}
    BY <1>2, <1>3, <1>4, <1>5, <1>6, <1>7, <1>8
  <2> QED
    BY <1>1, <2>1
<1>9. ASSUME ~mem[i].valid
      PROVE  \E h : Holders(i) = {h}
  <2>1. HeldBy(i)
    BY <1>9 DEF Holding, Held
  <2>2. CASE fu_data.fu \notin {"NONE", "CVXIF"} /\ fu_data.tid = i
    <3>1. atIssue = {<<fu_data, "issue">>} /\ mem[i].fu # "CVXIF"
      BY <1>2, <2>2
    <3>2. atMult = {} /\ atDiv = {} /\ atLsu = {} /\ atCopro = {}
      BY <1>3, <1>4, <1>5, <1>6, <1>7, <2>2, <3>1
    <3> QED
      BY <1>1, <3>1, <3>2
  <2>3. CASE mult_pipe.valid /\ mult_pipe.tid = i
    <3>1. atMult = {<<mult_pipe, "mult">>} /\ mem[i].fu = "MULT"
      BY <1>3, <2>3
    <3>2. atIssue = {} /\ atDiv = {} /\ atLsu = {} /\ atCopro = {}
      BY <1>2, <1>3, <1>4, <1>5, <1>6, <1>7, <3>1
    <3> QED
      BY <1>1, <3>1, <3>2
  <2>4. CASE div_op.valid /\ div_op.tid = i
    <3>1. atDiv = {<<div_op, "div">>} /\ mem[i].fu = "DIV"
      BY <1>4, <2>4
    <3>2. atIssue = {} /\ atMult = {} /\ atLsu = {} /\ atCopro = {}
      BY <1>2, <1>3, <1>4, <1>5, <1>6, <1>7, <3>1
    <3> QED
      BY <1>1, <3>1, <3>2
  <2>5. ASSUME NEW o \in lsu, o.tid = i
        PROVE  \E h : Holders(i) = {h}
    <3>1. atLsu = {<<o, "lsu">>} /\ mem[i].fu \in {"LOAD", "STORE"}
      BY <1>5, <2>5
    <3>2. atIssue = {} /\ atMult = {} /\ atDiv = {} /\ atCopro = {}
      BY <1>2, <1>3, <1>4, <1>5, <1>6, <1>7, <2>5, <3>1
    <3> QED
      BY <1>1, <3>1, <3>2
  <2>6. ASSUME NEW o \in copro, o.tid = i
        PROVE  \E h : Holders(i) = {h}
    <3>1. atCopro = {<<o, "copro">>} /\ mem[i].fu = "CVXIF"
      BY <1>6, <2>6
    <3>2. atIssue = {} /\ atMult = {} /\ atDiv = {} /\ atLsu = {}
      BY <1>2, <1>3, <1>4, <1>5, <1>7, <2>6, <3>1
    <3> QED
      BY <1>1, <3>1, <3>2
  <2> QED
    BY <2>1, <2>2, <2>3, <2>4, <2>5, <2>6 DEF HeldBy
<1> QED
  BY <1>8, <1>9

(* An issued instruction is in exactly one place until its result is in    *)
(* the scoreboard, and then in none: neither lost by the shared port of    *)
(* ex_stage.sv or a flush nor answered twice.                              *)
THEOREM EachHasOneUnit ==
  ASSUME NeverKills
  PROVE  Spec => []NothingLost
<1>1. Holding => NothingLost
  <2> SUFFICES ASSUME Holding, NEW i \in Ids, mem[i].issued
               PROVE  Cardinality(Holders(i)) = IF mem[i].valid THEN 0 ELSE 1
    BY DEF NothingLost
  <2>1. CASE mem[i].valid
    BY <2>1, OneHolder, FS_EmptySet
  <2>2. CASE ~mem[i].valid
    <3>1. PICK h : Holders(i) = {h}
      BY <2>2, OneHolder
    <3> QED
      BY <2>2, <3>1, FS_Singleton
  <2> QED
    BY <2>1, <2>2
<1>2. Spec => []Holding
  BY HoldingInductive
<1> QED
  BY <1>1, <1>2, PTL

-----------------------------------------------------------------------------
(* The values.  Whatever a unit holds or the register file has is the      *)
(* number of an instruction that was issued; only the entry of a CSR       *)
(* instruction has something else for a result, its operand, which the     *)
(* commit stage replaces.                                                  *)

UnitNumbers ==
  /\ last_issued <= MaxInstr /\ div_state \in DivStates
  /\ fu_data.n \in Numbers /\ mult_pipe.n \in Numbers /\ div_op.n \in Numbers
  /\ \A o \in lsu : o.n \in Numbers
  /\ \A o \in copro : o.n \in Numbers

EntryNumbers ==
  /\ regs \in [Regs -> Numbers] /\ commit_pointer \in [CommitPorts -> Ids]
  /\ \A i \in Ids : /\ mem[i].n \in Numbers
                    /\ mem[i].issued /\ mem[i].fu # "CSR" => mem[i].result \in Numbers

Typed == Registers /\ UnitNumbers /\ EntryNumbers

LEMMA PortNumber ==
  ASSUME Registers, UnitNumbers, NEW u \in UnitChoices, NEW w \in Ports(u),
         mem[w.tid].fu # "CSR"
  PROVE  w.result \in Numbers
<1>1. u.done \subseteq lsu /\ u.answer \subseteq copro
  BY PortKinds
<1>2. CASE FluPort(u, w)
  <2>1. fu_data.fu # "CSR"
    <3> SUFFICES ASSUME fu_data.fu = "CSR"
                 PROVE  FALSE
      OBVIOUS
    <3>1. w.tid = fu_data.tid
      BY <1>2 DEF FluPort, FluResult
    <3> QED
      BY <3>1 DEF Registers, IssueRegister
  <2>2. FluResult(fu_data, u.known).result \in {fu_data.n, mult_pipe.n, div_op.n}
    BY <2>1 DEF FluResult
  <2> QED
    BY <1>2, <2>2 DEF FluPort, UnitNumbers
<1>3. CASE LsuPort(u, w)
  BY <1>1, <1>3 DEF LsuPort, UnitNumbers
<1>4. CASE RefusedPort(w)
  BY <1>4 DEF RefusedPort, UnitNumbers
<1>5. CASE CoproPort(u, w)
  BY <1>1, <1>5 DEF CoproPort, UnitNumbers
<1> QED
  BY <1>2, <1>3, <1>4, <1>5, PortKinds

LEMMA UnitNumbersStep ==
  ASSUME Ring, UnitNumbers,
         NEW offer, NEW fu, NEW rd, NEW rs, NEW mispredict, NEW c, NEW u, NEW x,
         Inputs(offer, fu, rd, rs, mispredict, c, u, x),
         Edge(offer, fu, rd, rs, mispredict, c, u, x)
  PROVE  UnitNumbers' /\ Numbers' = Numbers
<1> DEFINE issue == Issue(offer, fu, rd, rs, c, u, x)
           ack == IssueAck(offer, fu, rd, rs, c, u, x)
           accepted == Accepted(offer, fu, rd, rs, c, u, x)
           flush == Flush(c)
<1>1. /\ config' = config
      /\ FixedLatencyClock(fu_data, u.known, u.last, CsrCommit(c), flush)
      /\ fu_data' = NextFuData(ack, fu, FlushUnissued(c), mispredict,
                               Rejected(offer, fu, rd, c, x))
      /\ LsuClock(u.done, flush)
      /\ CoproClock(u.answer, accepted, last_issued + 1, x.writeback)
      /\ last_issued' = IF issue THEN last_issued + 1 ELSE last_issued
  BY EdgeParts
<1>2. /\ issue => offer /\ last_issued < MaxInstr
      /\ accepted => issue
      /\ ack => offer
      /\ last_issued \in Nat /\ MaxInstr \in Nat
  <2>1. config \in Configs /\ last_issued \in Nat
    BY DEF Ring, Pointers
  <2>2. ack => offer
    BY DEF IssueAck, Free
  <2>3. issue => ack
    BY DEF Issue
  <2>4. accepted => issue
    BY Signals
  <2> QED
    BY <2>1, <2>2, <2>3, <2>4, BoundAssumption DEF Inputs, MaxInstr
<1>3. MaxInstr' = MaxInstr /\ Numbers' = Numbers
  BY <1>1 DEF MaxInstr, Numbers
<1>4. 0 \in Numbers /\ (offer => last_issued + 1 \in Numbers)
  <2>1. offer => last_issued < MaxInstr
    BY DEF Inputs
  <2> QED
    BY <1>2, <2>1 DEF Numbers
<1> HIDE DEF issue, ack, accepted, flush
<1>5. last_issued' <= MaxInstr'
  BY <1>1, <1>2, <1>3 DEF UnitNumbers
<1>6. fu_data'.n \in Numbers
  BY <1>1, <1>2, <1>4 DEF NextFuData, NoIssue
<1>7. mult_pipe'.n \in Numbers /\ div_op'.n \in Numbers
  BY <1>1, <1>4 DEF FixedLatencyClock, Op, NoOp, UnitNumbers
<1>8. div_state' \in DivStates
  BY <1>1 DEF FixedLatencyClock, NextDivState, DivStates, UnitNumbers
<1>9. \A o \in lsu' : o.n \in Numbers
  BY <1>1 DEF LsuClock, UnitNumbers
<1>10. \A o \in copro' : o.n \in Numbers
  BY <1>1, <1>2, <1>4 DEF CoproClock, UnitNumbers
<1> QED
  BY <1>3, <1>5, <1>6, <1>7, <1>8, <1>9, <1>10 DEF UnitNumbers

LEMMA RetiringNumbers ==
  ASSUME Ring, EntryNumbers, NEW c, NEW s, s = Retiring(Acks(c))
  PROVE  /\ s = <<>> \/ (\E a : s = <<a>>) \/ (\E a, b : s = <<a, b>>)
         /\ \A k \in 1 .. Len(s) : s[k].rd \in Regs /\ s[k].result \in Numbers
<1> DEFINE entry(k) == [commit_instr(k) EXCEPT !.result = wdata(commit_instr(k))]
<1>1. ASSUME NEW k \in CommitPorts, Acks(c)[k]
      PROVE  entry(k).rd \in Regs /\ entry(k).result \in Numbers
  <2>1. commit_pointer[k] \in Ids /\ mem[commit_pointer[k]].valid
    BY <1>1, AcksAreOldest DEF Ring, Pointers
  <2>2. /\ IsEntry(commit_instr(k)) /\ commit_instr(k).issued /\ commit_instr(k).n \in Numbers
        /\ commit_instr(k).fu # "CSR" => commit_instr(k).result \in Numbers
    BY <2>1 DEF Ring, Entries, EntryNumbers, commit_instr
  <2>3. wdata(commit_instr(k)) \in Numbers
    BY <2>2 DEF wdata
  <2> QED
    BY <2>2, <2>3 DEF IsEntry
<1>2. /\ CommitPorts = 1 .. NrCommitPorts /\ NrCommitPorts \in {1, 2}
      /\ Acks(c)[1] <=> Leaving(Acks(c)) # 0
  BY Sizes, RetiringLength DEF Ring, Pointers
<1> HIDE DEF entry
<1>3. \/ s = <<entry(1), entry(2)>> /\ NrCommitPorts = 2 /\ Acks(c)[1] /\ Acks(c)[2]
      \/ s = <<entry(1)>> /\ Acks(c)[1]
      \/ s = <<>>
  <2>1. NrCommitPorts = 2 /\ Acks(c)[2] => Acks(c)[1]
    <3>1. Leaving(Acks(c)) \in 0 .. 2
      BY AcksAreOldest
    <3>2. \A i \in Ids : (\E k \in CommitPorts : Acks(c)[k] /\ commit_pointer[k] = i)
                            <=> Age(i) < Leaving(Acks(c))
      BY AcksAreOldest
    <3>3. NrCommitPorts = 2 => commit_pointer[2] \in Ids
      BY <1>2 DEF Ring, Pointers
    <3>4. NrCommitPorts = 2 /\ Acks(c)[2] => Age(commit_pointer[2]) < Leaving(Acks(c))
      BY <1>2, <3>2, <3>3
    <3>5. NrCommitPorts = 2 => Age(commit_pointer[2]) \in Nat
      BY <3>3, AgeRange, Sizes DEF Ring, Pointers
    <3> QED
      BY <1>2, <3>1, <3>4, <3>5
  <2> QED
    BY <1>2, <2>1 DEF Retiring, entry
<1>4. CASE s = <<entry(1), entry(2)>> /\ NrCommitPorts = 2 /\ Acks(c)[1] /\ Acks(c)[2]
  BY <1>1, <1>2, <1>4
<1>5. CASE s = <<entry(1)>> /\ Acks(c)[1]
  BY <1>1, <1>2, <1>5
<1>6. CASE s = <<>>
  BY <1>6
<1> QED
  BY <1>3, <1>4, <1>5, <1>6

LEMMA EntryNumbersStep ==
  ASSUME Typed,
         NEW offer, NEW fu, NEW rd, NEW rs, NEW mispredict, NEW c, NEW u, NEW x,
         Inputs(offer, fu, rd, rs, mispredict, c, u, x),
         Edge(offer, fu, rd, rs, mispredict, c, u, x)
  PROVE  EntryNumbers'
<1>1. Ring /\ Registers /\ UnitNumbers /\ EntryNumbers
  BY DEF Typed, Registers
<1>2. Ids' = Ids /\ Numbers' = Numbers
  BY <1>1, EdgePointers, UnitNumbersStep
<1>3. /\ last_issued \in Nat /\ MaxInstr \in Nat /\ (offer => last_issued < MaxInstr)
      /\ Issue(offer, fu, rd, rs, c, u, x) => offer
      /\ u \in UnitChoices
  <2>1. config \in Configs /\ last_issued \in Nat
    BY <1>1 DEF Ring, Pointers
  <2> QED
    BY <1>1, <2>1, Signals, BoundAssumption DEF Inputs, MaxInstr
<1>4. ASSUME NEW i \in Ids
      PROVE  /\ mem'[i].n \in Numbers
             /\ mem'[i].issued /\ mem'[i].fu # "CSR" => mem'[i].result \in Numbers
  <2>1. \/ Gone(mem'[i])
        \/ /\ Issue(offer, fu, rd, rs, c, u, x)
           /\ Enters(mem'[i], Instr(fu, rd, rs, u),
                     Accepted(offer, fu, rd, rs, c, u, x) /\ ~x.writeback)
        \/ Stays(mem'[i], i, Ports(u))
    BY <1>1, EdgeEntry
  <2>2. CASE Gone(mem'[i])
    BY <1>3, <2>2 DEF Gone, Numbers
  <2>3. CASE /\ Issue(offer, fu, rd, rs, c, u, x)
             /\ Enters(mem'[i], Instr(fu, rd, rs, u),
                       Accepted(offer, fu, rd, rs, c, u, x) /\ ~x.writeback)
    <3>1. mem'[i].n = last_issued + 1 /\ mem'[i].result = 0
      BY <2>3 DEF Enters, Keeps, Instr, FreeEntry
    <3> QED
      BY <1>3, <2>3, <3>1 DEF Numbers
  <2>4. CASE Stays(mem'[i], i, Ports(u))
    <3>1. /\ mem'[i].issued = mem[i].issued /\ mem'[i].fu = mem[i].fu /\ mem'[i].n = mem[i].n
          /\ mem'[i].result = mem[i].result
               \/ \E w \in Ports(u) : w.tid = i /\ mem'[i].result = w.result
      BY <2>4 DEF Stays, Keeps, Untouched, Taken
    <3>2. CASE mem'[i].result = mem[i].result
      BY <1>1, <3>1, <3>2 DEF EntryNumbers
    <3>3. CASE \E w \in Ports(u) : w.tid = i /\ mem'[i].result = w.result
      BY <1>1, <1>3, <3>1, <3>3, PortNumber DEF EntryNumbers
    <3> QED
      BY <3>1, <3>2, <3>3
  <2> QED
    BY <2>1, <2>2, <2>3, <2>4
<1>5. regs' \in [Regs -> Numbers]
  <2> DEFINE s == Retiring(Acks(c))
  <2>1. CommitRegisters(s)
    BY EdgeParts
  <2>2. /\ s = <<>> \/ (\E a : s = <<a>>) \/ (\E a, b : s = <<a, b>>)
        /\ \A k \in 1 .. Len(s) : s[k].rd \in Regs /\ s[k].result \in Numbers
    BY <1>1, RetiringNumbers
  <2>3. ASSUME NEW r \in [Regs -> Numbers], NEW e, e.rd \in Regs, e.result \in Numbers
        PROVE  WriteRegister(r, e) \in [Regs -> Numbers]
    BY <2>3 DEF WriteRegister
  <2> HIDE DEF s
  <2>4. regs \in [Regs -> Numbers]
    BY <1>1 DEF EntryNumbers
  <2>5. CASE s = <<>>
    <3>1. Len(s) = 0
      BY <2>5
    <3> QED
      BY <2>1, <2>4, <3>1 DEF CommitRegisters
  <2>6. CASE \E a : s = <<a>>
    <3>1. Len(s) = 1 /\ s[1].rd \in Regs /\ s[1].result \in Numbers
      <4>1. Len(s) = 1
        BY <2>6
      <4> QED
        BY <2>2, <4>1
    <3>2. regs' = WriteRegister(regs, s[1])
      BY <2>1, <3>1 DEF CommitRegisters
    <3> QED
      BY <2>3, <2>4, <3>1, <3>2
  <2>7. CASE \E a, b : s = <<a, b>>
    <3>1. Len(s) = 2
      BY <2>7
    <3>2. s[1].rd \in Regs /\ s[1].result \in Numbers /\ s[2].rd \in Regs /\ s[2].result \in Numbers
      BY <2>2, <3>1
    <3>3. regs' = WriteRegister(WriteRegister(regs, s[1]), s[2])
      BY <2>1, <3>1 DEF CommitRegisters
    <3>4. WriteRegister(regs, s[1]) \in [Regs -> Numbers]
      BY <2>3, <2>4, <3>2
    <3> QED
      BY <2>3, <3>2, <3>3, <3>4
  <2> QED
    BY <2>2, <2>5, <2>6, <2>7
<1>6. commit_pointer' \in [CommitPorts -> Ids] /\ CommitPorts' = CommitPorts
  <2>1. /\ config' = config
        /\ ScoreboardClock(Issue(offer, fu, rd, rs, c, u, x), Instr(fu, rd, rs, u), Ports(u),
                           Acks(c), Flush(c), Accepted(offer, fu, rd, rs, c, u, x) /\ ~x.writeback)
    BY EdgeParts
  <2>2. CommitPorts' = CommitPorts
    BY <2>1 DEF CommitPorts, NrCommitPorts
  <2>3. \E f : commit_pointer' = [k \in CommitPorts |-> f[k]]
    <3> DEFINE first == Add(commit_pointer[1], IF Acks(c)[1]
                              THEN IF NrCommitPorts = 2 /\ Acks(c)[NrCommitPorts] THEN 2 ELSE 1
                              ELSE 0)
               f == [k \in CommitPorts |-> IF Flush(c) THEN 0 ELSE Add(first, k - 1)]
    <3>1. commit_pointer' = f
      BY <2>1 DEF ScoreboardClock
    <3>2. f = [k \in CommitPorts |-> f[k]]
      OBVIOUS
    <3> HIDE DEF f
    <3> QED
      BY <3>1, <3>2
  <2>4. \A k \in CommitPorts : commit_pointer'[k] \in Ids
    BY <1>1, <1>2, <2>2, EdgePointers DEF Pointers
  <2> QED
    BY <2>2, <2>3, <2>4
<1> QED
  BY <1>2, <1>4, <1>5, <1>6 DEF EntryNumbers

(* Entries, pointers, units and registers keep their types; above all no   *)
(* register ever gets the operand that csr_buffer.sv sends in place of a   *)
(* result, whatever the coprocessor answers to whom.                       *)
THEOREM TypeCorrect == Spec => []TypeOK
<1>1. Init => Typed
  <2> SUFFICES ASSUME Init
               PROVE  Typed
    OBVIOUS
  <2>1. 0 \in Numbers /\ 0 <= MaxInstr
    BY BoundAssumption DEF Init, Elaborated, Numbers, MaxInstr
  <2>2. UnitNumbers
    BY <2>1 DEF Init, FixedLatencyReset, NoOp, NoIssue, UnitNumbers, DivStates
  <2>3. 0 \in Ids
    BY Sizes DEF Init, Elaborated
  <2>4. EntryNumbers
    BY <2>1, <2>3 DEF Init, ScoreboardReset, FreeEntry, EntryNumbers
  <2> QED
    BY <2>2, <2>4, RegistersInitially DEF Typed
<1>2. Typed /\ [Next]_vars /\ Registers' => Typed'
  <2> SUFFICES ASSUME Typed, [Next]_vars, Registers'
               PROVE  Typed'
    OBVIOUS
  <2>1. CASE Next
    <3>1. PICK offer, fu, rd, rs, mispredict, c, u, x :
            /\ Inputs(offer, fu, rd, rs, mispredict, c, u, x)
            /\ Edge(offer, fu, rd, rs, mispredict, c, u, x)
      BY <2>1, NextInputs DEF Typed, Registers, Ring, Pointers
    <3>2. Ring /\ UnitNumbers
      BY DEF Typed, Registers
    <3> QED
      BY <3>1, <3>2, UnitNumbersStep, EntryNumbersStep DEF Typed
  <2>2. CASE UNCHANGED vars
    <3>1. /\ Ids' = Ids /\ Numbers' = Numbers /\ MaxInstr' = MaxInstr
          /\ CommitPorts' = CommitPorts
      BY <2>2 DEF vars, Ids, NR_SB_ENTRIES, Numbers, MaxInstr, CommitPorts, NrCommitPorts
    <3> QED
      BY <2>2, <3>1 DEF vars, scoreboardVars, fixedLatencyVars, pipelineVars, historyVars,
                        Typed, UnitNumbers, EntryNumbers
  <2> QED
    BY <2>1, <2>2
<1>3. Typed => TypeOK
  <2> SUFFICES ASSUME Typed
               PROVE  TypeOK
    OBVIOUS
  <2>1. /\ Ring /\ IssueRegister /\ UnitNumbers /\ EntryNumbers
    BY DEF Typed, Registers
  <2>2. issue_pointer \in Ids
    BY <2>1, AddWraps DEF Ring, Pointers
  <2> QED
    BY <2>1, <2>2 DEF TypeOK, Ring, Entries, IsEntry, IssueRegister, UnitNumbers, EntryNumbers
<1> QED
  BY <1>1, <1>2, <1>3, RegistersInductive, PTL DEF Spec

=============================================================================
