----------------------------- MODULE Scoreboard -----------------------------
(***************************************************************************)
(* core/scoreboard.sv: the ring of issued instructions.  They enter at the *)
(* issue pointer, are completed out of order by identifier (the position   *)
(* in the ring) and leave in order at the commit pointers.  One issue      *)
(* port, so no instruction is ever cancelled (SpeculativeSb = 0).  An      *)
(* entry that is not issued is cleared here: the code keeps its fields,    *)
(* and reads them only under "issued" or "valid".                          *)
(***************************************************************************)
EXTENDS Integers, Sequences, Config

NR_SB_ENTRIES == config.NR_SB_ENTRIES
NrCommitPorts == config.NrCommitPorts

ASSUME EntriesAssumption == \A c \in Configs : c.NR_SB_ENTRIES \in Nat \ {0, 1}
(* Pointers have $clog2(NR_SB_ENTRIES) bits: scoreboard.sv:323.            *)
ASSUME PowersAssumption ==
  \A c \in Configs : \E k \in 1 .. c.NR_SB_ENTRIES : c.NR_SB_ENTRIES = 2^k
ASSUME CommitPortsAssumption == \A c \in Configs : c.NrCommitPorts \in {1, 2}

VARIABLES mem,              \* mem_q
          issue_pointer,
          commit_pointer    \* one for each commit port

scoreboardVars == <<mem, issue_pointer, commit_pointer>>

Ids == 0 .. NR_SB_ENTRIES - 1
CommitPorts == 1 .. NrCommitPorts
(* Mutant of Add: the pointer does not wrap.                               *)
Add_NoWrap(p, k) == p + k

Add(p, k) == (p + k) % NR_SB_ENTRIES

(* n, rs, operand and wrong_path are history: number in program order, the *)
(* source register, the value read from it, and whether the front end was  *)
(* on the wrong path of a branch.  result is the number of the instruction *)
(* that computed the value.                                                *)
FreeEntry == [issued |-> FALSE, valid |-> FALSE, fu |-> "NONE", rd |-> 0, ex |-> FALSE,
              result |-> 0, n |-> 0, rs |-> 0, operand |-> 0, wrong_path |-> FALSE]

ScoreboardReset ==
  /\ mem = [i \in Ids |-> FreeEntry]
  /\ issue_pointer = 0
  /\ commit_pointer = [k \in CommitPorts |-> 0]

issue_full == \A i \in Ids : mem[i].issued
commit_instr(k) == mem[commit_pointer[k]]

(* A writeback is taken if the instruction with its identifier is issued.  *)
(* The coprocessor says with its result whether rd is written; the rd that *)
(* it repeats (x_rd_i) is the one it was given, so the entry keeps its own.*)
WriteBack(e, w) ==
  [e EXCEPT !.valid = TRUE, !.result = w.result, !.ex = e.ex \/ w.ex,
            !.rd = IF e.fu = "CVXIF" /\ ~w.we THEN 0 ELSE e.rd]

(* The first part of one edge for entry i: issue, units NONE, writeback.    *)
Completed(i, issue, instr, wb) ==
  LET put == IF issue /\ i = issue_pointer THEN instr ELSE mem[i]
      none == [put EXCEPT !.valid = @ \/ (mem[i].issued /\ mem[i].fu = "NONE")]
      taken == {w \in wb : mem[i].issued /\ w.tid = i}
  IN  IF taken = {} THEN none ELSE WriteBack(none, CHOOSE w \in taken : TRUE)
(* Mutant of Leaves: the second commit port releases nothing.              *)
Leaves_FirstPort(i, ack, flush) == flush \/ (ack[1] /\ commit_pointer[1] = i)

Leaves(i, ack, flush) == flush \/ \E k \in CommitPorts : ack[k] /\ commit_pointer[k] = i

(* Then commit and flush; at last rd of an offloaded instruction that      *)
(* writes no register.                                                     *)
EntryAfter(i, issue, instr, wb, ack, flush, no_writeback) ==
  LET kept == IF Leaves(i, ack, flush) THEN FreeEntry ELSE Completed(i, issue, instr, wb)
  IN  [kept EXCEPT !.rd = IF no_writeback /\ i = issue_pointer THEN 0 ELSE @]

ScoreboardClock(issue, instr, wb, ack, flush, no_writeback) ==
  /\ mem' = [i \in Ids |-> EntryAfter(i, issue, instr, wb, ack, flush, no_writeback)]
  /\ issue_pointer' = IF flush THEN 0 ELSE IF issue THEN Add(issue_pointer, 1) ELSE issue_pointer
  /\ LET first == Add(commit_pointer[1], IF ack[1] THEN IF NrCommitPorts = 2 /\ ack[NrCommitPorts]
                                                        THEN 2 ELSE 1
                                         ELSE 0)
     IN  commit_pointer' = [k \in CommitPorts |-> IF flush THEN 0 ELSE Add(first, k - 1)]

=============================================================================
