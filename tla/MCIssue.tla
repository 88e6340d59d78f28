------------------------------ MODULE MCIssue ------------------------------
(***************************************************************************)
(* Configurations of IssueStage for TLC.                                   *)
(***************************************************************************)
EXTENDS IssueStage

CVA6(entries, ports, fus, exceptions, rejects, max) ==
  [NR_SB_ENTRIES |-> entries, NrCommitPorts |-> ports, Fus |-> fus,
   Exceptions |-> exceptions, Rejects |-> rejects, MaxInstr |-> max]

(* Units of every latency, a full ring and two commits in a cycle; traps   *)
(* and CSR flushes, with a ring that wraps twice; a coprocessor that       *)
(* accepts everything where nothing traps, one commit port.                *)
Latencies == CVA6(4, 2, {"ALU", "MULT", "DIV"}, FALSE, FALSE, 4)
Traps == CVA6(2, 2, {"ALU", "CSR", "LOAD", "STORE", "NONE"}, TRUE, FALSE, 5)
Coprocessor == CVA6(2, 1, {"MULT", "CTRL_FLOW", "CVXIF"}, FALSE, FALSE, 4)
AllConfigs == {Latencies, Traps, Coprocessor}

(* An offloaded instruction behind a load that faults; an instruction the  *)
(* coprocessor refuses behind one it accepted.                             *)
FlushedOffload == {CVA6(2, 1, {"LOAD", "CVXIF"}, TRUE, FALSE, 5)}
RefusedOffload == {CVA6(2, 1, {"CVXIF"}, FALSE, TRUE, 5)}

=============================================================================
