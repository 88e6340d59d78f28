------------------------- MODULE FixedLatencyUnits -------------------------
(***************************************************************************)
(* The units that share one writeback port of ex_stage.sv: ALU, branch     *)
(* unit and CSR buffer (one cycle), the multiplier (one more cycle) and    *)
(* the serial divider (as many as the operands need).  There is no queue   *)
(* in front of the port: only the timing of issue keeps two results apart. *)
(***************************************************************************)
EXTENDS Integers

VARIABLES mult_pipe,        \* the register of multiplier.sv
          div_state, div_op,\* serdiv.sv: state_q, and the instruction it divides for
          csr_reg           \* csr_buffer.sv: the instruction whose CSR address is held

fixedLatencyVars == <<mult_pipe, div_state, div_op, csr_reg>>

NoOp == [valid |-> FALSE, tid |-> 0, n |-> 0]
DivStates == {"IDLE", "DIVIDE", "FINISH"}

FixedLatencyReset ==
  /\ mult_pipe = NoOp
  /\ div_state = "IDLE"
  /\ div_op = NoOp
  /\ csr_reg = NoOp

(* f is the issue register; f.fu is NONE when it holds no instruction.     *)
OneCycle == {"ALU", "CTRL_FLOW", "CSR"}
Op(f) == [valid |-> TRUE, tid |-> f.tid, n |-> f.n]

(* Mutant of mult_ready: only a division that starts now is seen.           *)
mult_ready_Dividing(f) == f.fu # "DIV"

mult_ready(f) == div_state = "IDLE" /\ f.fu # "DIV"
(* Mutant of csr_ready: looks at the register, not at what arrives now.     *)
csr_ready_Registered(f, csr_commit) == csr_commit \/ ~csr_reg.valid

csr_ready(f, csr_commit) == csr_commit \/ ~(csr_reg.valid \/ f.fu = "CSR")
flu_ready(f, csr_commit) == csr_ready(f, csr_commit) /\ mult_ready(f)

(* The number of cycles of a division depends on its operands: known is    *)
(* the early end, last the end of the count.                               *)
div_valid(known) == div_state = "FINISH" \/ (div_state = "DIVIDE" /\ known)
NextDivState(f, known, last, flush) ==
  IF flush THEN "IDLE"
  ELSE IF div_state = "IDLE" THEN IF f.fu = "DIV" THEN "DIVIDE" ELSE "IDLE"
  ELSE IF div_valid(known) THEN IF mult_pipe.valid THEN "FINISH" ELSE "IDLE"
  ELSE IF last THEN "FINISH" ELSE "DIVIDE"

(* The result mux: the ALU and the CSR buffer first, then multiplier and   *)
(* divider, then the branch unit.  A CSR instruction yields its operand    *)
(* here (-n) and the value of rd only when it commits.                     *)
FluResult(f, known) ==
  LET mult == IF mult_pipe.valid THEN mult_pipe ELSE div_op
  IN  CASE f.fu = "ALU" -> [tid |-> f.tid, result |-> f.n]
        [] f.fu = "CSR" -> [tid |-> f.tid, result |-> -f.n]
        [] f.fu \notin {"ALU", "CSR"} /\ (mult_pipe.valid \/ div_valid(known)) ->
             [tid |-> mult.tid, result |-> mult.n]
        [] OTHER -> [tid |-> f.tid, result |-> f.n]
flu_valid(f, known) == f.fu \in OneCycle \/ mult_pipe.valid \/ div_valid(known)

NextCsr(f, csr_commit, flush) ==
  IF flush THEN NoOp
  ELSE IF f.fu = "CSR" THEN Op(f)
  ELSE IF csr_commit THEN NoOp ELSE csr_reg

FixedLatencyClock(f, known, last, csr_commit, flush) ==
  /\ mult_pipe' = IF f.fu = "MULT" /\ ~flush THEN Op(f) ELSE NoOp
  /\ div_state' = NextDivState(f, known, last, flush)
  /\ div_op' = IF div_state = "IDLE" /\ f.fu = "DIV" /\ ~flush THEN Op(f)
               ELSE IF div_state' = "IDLE" THEN NoOp ELSE div_op
  /\ csr_reg' = NextCsr(f, csr_commit, flush)

=============================================================================
