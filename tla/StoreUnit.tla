----------------------------- MODULE StoreUnit -----------------------------
(***************************************************************************)
(* core/store_unit.sv and core/amo_buffer.sv without an MMU: the state     *)
(* machine that takes a store or an atomic from the bypass FIFO and, one   *)
(* cycle later, puts it in the store buffer or in the one-entry AMO buffer.*)
(***************************************************************************)
EXTENDS Integers, Config

RVA == config.RVA           \* atomics are implemented

VARIABLES store_state,
          store_req,        \* lsu_ctrl_i of the cycle before (trans_id_q, st_data_q, amo_op_q, paddr)
          amo_buffer        \* the instruction in the AMO buffer, 0 when it is empty

storeUnitVars == <<store_state, store_req, amo_buffer>>

StoreStates == {"IDLE", "VALID_STORE", "WAIT_STORE_READY"}

StoreUnitReset(none) ==
  /\ store_state = "IDLE"
  /\ store_req = none
  /\ amo_buffer = 0

is_amo(req) == RVA /\ req.fu = "AMO"
amo_buffer_ready == amo_buffer = 0

(* Outputs that depend on the state only.  A store raises its exception in *)
(* the cycle after its request, when the state is not IDLE any more.       *)
store_exception(ex_i) == ex_i /\ store_state # "IDLE"
st_valid(ex_i, flush_i) == store_state = "VALID_STORE" /\ ~flush_i /\ ~store_exception(ex_i)
st_valid_without_flush == store_state = "VALID_STORE"
store_buffer_valid(ex_i, flush_i) == st_valid(ex_i, flush_i) /\ ~is_amo(store_req)
amo_buffer_valid(ex_i, flush_i) == st_valid(ex_i, flush_i) /\ is_amo(store_req)
store_valid_o(ex_i) == store_state = "VALID_STORE" \/ store_exception(ex_i)

(* Taken: the machine looks at the request and the buffers have room.  In  *)
(* VALID_STORE an atomic is not taken, the AMO buffer has only one entry.  *)
store_accepts(valid_i, lsu_ctrl_i) ==
  valid_i /\ (store_state = "IDLE" \/ (store_state = "VALID_STORE" /\ ~is_amo(lsu_ctrl_i)))

(* Mutant of pop_st_o: pops a store the buffer has no room for.            *)
pop_st_o_NotReady(valid_i, lsu_ctrl_i, st_ready, ex_i) ==
  store_accepts(valid_i, lsu_ctrl_i) \/ store_exception(ex_i)

pop_st_o(valid_i, lsu_ctrl_i, st_ready, ex_i) ==
  (store_accepts(valid_i, lsu_ctrl_i) /\ st_ready) \/ store_exception(ex_i)

NextStoreState(valid_i, lsu_ctrl_i, st_ready, ex_i, flush_i) ==
  IF flush_i \/ store_exception(ex_i) THEN "IDLE"
  ELSE IF store_accepts(valid_i, lsu_ctrl_i)
       THEN IF st_ready THEN "VALID_STORE" ELSE "WAIT_STORE_READY"
  ELSE IF store_state = "WAIT_STORE_READY" /\ ~st_ready THEN "WAIT_STORE_READY"
  ELSE "IDLE"

(* amo_buffer.sv: the atomic goes out when it is at the commit stage and   *)
(* every store has drained; a flush spares the one that is committing.     *)
amo_req_o(no_st_pending, amo_valid_commit_i) ==
  no_st_pending /\ amo_valid_commit_i /\ amo_buffer # 0

NextAmoBuffer(ex_i, flush_i, amo_valid_commit_i, ack) ==
  IF ack \/ (flush_i /\ ~amo_valid_commit_i) THEN 0
  ELSE IF amo_buffer_valid(ex_i, flush_i) /\ amo_buffer = 0 THEN store_req.n
  ELSE amo_buffer

StoreUnitClock(valid_i, lsu_ctrl_i, st_ready, ex_i, flush_i, amo_valid_commit_i, ack) ==
  /\ store_state' = NextStoreState(valid_i, lsu_ctrl_i, st_ready, ex_i, flush_i)
  /\ store_req' = lsu_ctrl_i
  /\ amo_buffer' = NextAmoBuffer(ex_i, flush_i, amo_valid_commit_i, ack)
=============================================================================
