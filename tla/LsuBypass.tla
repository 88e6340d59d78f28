----------------------------- MODULE LsuBypass -----------------------------
(***************************************************************************)
(* core/lsu_bypass.sv: the two-entry FIFO in front of the load and store   *)
(* units.  An empty FIFO passes the arriving request through in the same   *)
(* cycle.  A request names the dynamic instruction n it belongs to (0 when *)
(* the issue register holds none): n is for the properties, the hardware   *)
(* only has the transaction identifier tid.                                *)
(***************************************************************************)
EXTENDS Integers

VARIABLES bypass_mem, bypass_read_pointer, bypass_write_pointer, bypass_status_cnt

bypassVars == <<bypass_mem, bypass_read_pointer, bypass_write_pointer, bypass_status_cnt>>

(* lsu_ctrl_t, and what '0 makes of it.                                    *)
NoRequest == [valid |-> FALSE, fu |-> "NONE", n |-> 0, tid |-> 0, addr |-> 0,
              misaligned |-> FALSE]

BypassReset ==
  /\ bypass_mem = [i \in {0, 1} |-> NoRequest]
  /\ bypass_read_pointer = 0
  /\ bypass_write_pointer = 0
  /\ bypass_status_cnt = 0

bypass_empty == bypass_status_cnt = 0
lsu_ready_o == bypass_empty
(* Mutant of lsu_ctrl_o: reads where the next request will be written.     *)
lsu_ctrl_o_AtWritePointer(lsu_req_i) ==
  IF bypass_empty THEN lsu_req_i ELSE bypass_mem[bypass_write_pointer]

lsu_ctrl_o(lsu_req_i) == IF bypass_empty THEN lsu_req_i ELSE bypass_mem[bypass_read_pointer]

(* Pops are not guarded: a pop of an empty FIFO wraps the two-bit counter. *)
BypassClock(lsu_req_i, pop_ld_i, pop_st_i, flush_i) ==
  LET pops == (IF pop_ld_i THEN 1 ELSE 0) + (IF pop_st_i THEN 1 ELSE 0)
      pushes == IF lsu_req_i.valid THEN 1 ELSE 0
      pushed == IF lsu_req_i.valid
                THEN [bypass_mem EXCEPT ![bypass_write_pointer] = lsu_req_i]
                ELSE bypass_mem
  IN  \/ /\ flush_i
         /\ bypass_mem' = [i \in {0, 1} |-> NoRequest]
         /\ bypass_read_pointer' = 0
         /\ bypass_write_pointer' = 0
         /\ bypass_status_cnt' = 0
      \/ /\ ~flush_i
         /\ bypass_mem' =
              IF pops = 2 THEN [i \in {0, 1} |-> NoRequest]
              ELSE IF pops = 1 THEN [pushed EXCEPT ![bypass_read_pointer].valid = FALSE]
              ELSE pushed
         /\ bypass_read_pointer' = (bypass_read_pointer + pops) % 2
         /\ bypass_write_pointer' = (bypass_write_pointer + pushes) % 2
         /\ bypass_status_cnt' = (bypass_status_cnt + pushes - pops) % 4
=============================================================================
