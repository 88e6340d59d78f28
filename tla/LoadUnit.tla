------------------------------ MODULE LoadUnit ------------------------------
(***************************************************************************)
(* core/load_unit.sv without an MMU: the state machine that sends a load   *)
(* to the data cache (index in one cycle, tag or kill in the next), and    *)
(* the load buffer that remembers the loads in flight, whose index is the  *)
(* request identifier.  Responses may come in any order.                   *)
(***************************************************************************)
EXTENDS Integers, FiniteSets, Config

NrLoadBufEntries == config.NrLoadBufEntries     \* loads in flight
NonIdempotent == config.NonIdempotent           \* addresses of non-idempotent regions

ASSUME LoadBufAssumption == \A c \in Configs : c.NrLoadBufEntries \in Nat \ {0}

VARIABLES load_state,
          ldbuf,            \* per entry: valid, flushed, the load's n, tid and address
          ldbuf_last_id

loadUnitVars == <<load_state, ldbuf, ldbuf_last_id>>

LoadStates == {"IDLE", "WAIT_GNT", "SEND_TAG", "WAIT_PAGE_OFFSET", "ABORT_TRANSACTION_NI",
               "WAIT_TRANSLATION", "WAIT_FLUSH", "WAIT_WB_EMPTY"}
LoadIds == 0 .. NrLoadBufEntries - 1
NoResponse == -1            \* no data_rvalid in this cycle
FreeEntry == [valid |-> FALSE, flushed |-> FALSE, n |-> 0, tid |-> 0, addr |-> 0]

LoadUnitReset ==
  /\ load_state = "IDLE"
  /\ ldbuf = [i \in LoadIds |-> FreeEntry]
  /\ ldbuf_last_id = 0

(* With a single entry the buffer falls through: a response makes room for *)
(* a request in the same cycle.                                            *)
LDBUF_FALLTHROUGH == NrLoadBufEntries = 1
FreeIds == {i \in LoadIds : ~ldbuf[i].valid}
ldbuf_windex(rid) ==
  IF FreeIds = {} THEN 0 ELSE CHOOSE i \in FreeIds : \A j \in FreeIds : i <= j

(* Mutants of accept_req: does not look at ldbuf_full; is full one entry   *)
(* too early.                                                              *)
accept_req_Full(valid_i, rid) == valid_i
accept_req_Early(valid_i, rid) ==
  valid_i /\ (Cardinality(FreeIds) > 1 \/ (LDBUF_FALLTHROUGH /\ rid # NoResponse))

accept_req(valid_i, rid) ==
  valid_i /\ (FreeIds # {} \/ (LDBUF_FALLTHROUGH /\ rid # NoResponse))

data_req_o(valid_i, matches, rid) ==
  \/ load_state = "WAIT_GNT"
  \/ load_state \in {"IDLE", "SEND_TAG"} /\ accept_req(valid_i, rid) /\ ~matches

kill_req_o(ex_i) ==
  load_state \in {"WAIT_FLUSH", "ABORT_TRANSACTION_NI"} \/ (load_state = "SEND_TAG" /\ ex_i)

(* A non-idempotent load waits until it is the oldest instruction and no   *)
(* store is left in front of it.                                           *)
(* Mutant of stall_ni: does not wait for the commit stage.                 *)
stall_ni_NotCommitTime(lsu_ctrl_i, commit_tran_id_i, dcache_wbuffer_not_ni_i, store_buffer_empty_i) ==
  /\ lsu_ctrl_i.addr \in NonIdempotent
  /\ ~dcache_wbuffer_not_ni_i \/ ~store_buffer_empty_i

stall_ni(lsu_ctrl_i, commit_tran_id_i, dcache_wbuffer_not_ni_i, store_buffer_empty_i) ==
  /\ lsu_ctrl_i.addr \in NonIdempotent
  /\ \/ ~dcache_wbuffer_not_ni_i
     \/ ~store_buffer_empty_i
     \/ commit_tran_id_i # lsu_ctrl_i.tid

pop_ld_o(granted, stall, ex_i, rid) ==
  \/ granted /\ ~stall
  \/ load_state = "WAIT_TRANSLATION" /\ ex_i /\ rid = NoResponse

NextLoadState(valid_i, matches, granted, stall, wbuffer_not_ni, ex_i, flush_i, rid) ==
  CASE flush_i -> "WAIT_FLUSH"
    [] ~flush_i /\ granted -> IF stall THEN "ABORT_TRANSACTION_NI" ELSE "SEND_TAG"
    [] ~flush_i /\ ~granted /\ data_req_o(valid_i, matches, rid) -> "WAIT_GNT"
    [] ~flush_i /\ load_state \in {"IDLE", "SEND_TAG"} /\ matches
                /\ accept_req(valid_i, rid) -> "WAIT_PAGE_OFFSET"
    [] ~flush_i /\ load_state = "WAIT_PAGE_OFFSET" ->
         IF matches THEN "WAIT_PAGE_OFFSET" ELSE "WAIT_GNT"
    [] ~flush_i /\ load_state = "ABORT_TRANSACTION_NI" -> "WAIT_WB_EMPTY"
    [] ~flush_i /\ load_state = "WAIT_WB_EMPTY" ->
         IF wbuffer_not_ni THEN "WAIT_TRANSLATION" ELSE "IDLE"
    [] ~flush_i /\ load_state = "WAIT_TRANSLATION" -> IF ex_i THEN "IDLE" ELSE "WAIT_GNT"
    [] OTHER -> "IDLE"

(* Mutant of NextLdbuf: a flush does not mark the loads in flight.         *)
NextLdbuf_NoFlush(granted, lsu_ctrl_i, flush_i, rid) ==
  [i \in LoadIds |->
     IF granted /\ i = ldbuf_windex(rid)
     THEN [valid |-> TRUE, flushed |-> FALSE, n |-> lsu_ctrl_i.n, tid |-> lsu_ctrl_i.tid,
           addr |-> lsu_ctrl_i.addr]
     ELSE IF i = rid THEN FreeEntry ELSE ldbuf[i]]

(* ldbuf_comb, in its order: a flush marks every entry, a response frees   *)
(* its entry, a granted request takes one, not flushed even in the cycle   *)
(* of a flush.  The contents of a freed entry are never read.              *)
NextLdbuf(granted, lsu_ctrl_i, flush_i, rid) ==
  [i \in LoadIds |->
     IF granted /\ i = ldbuf_windex(rid)
     THEN [valid |-> TRUE, flushed |-> FALSE, n |-> lsu_ctrl_i.n, tid |-> lsu_ctrl_i.tid,
           addr |-> lsu_ctrl_i.addr]
     ELSE IF i = rid THEN FreeEntry
     ELSE [ldbuf[i] EXCEPT !.flushed = ldbuf[i].valid /\ (ldbuf[i].flushed \/ flush_i)]]

(* rvalid_output: which load writes back, with which exception bit.        *)
NoWriteback == [valid |-> FALSE, n |-> 0, tid |-> 0, ex |-> FALSE]

LoadWriteback(valid_i, lsu_ctrl_i, ex_i, rid) ==
  IF /\ rid # NoResponse
     /\ ~ldbuf[rid].flushed
     /\ \/ ldbuf_last_id # rid \/ ~kill_req_o(ex_i)
        \/ load_state = "SEND_TAG" /\ ex_i
  THEN [valid |-> TRUE, n |-> ldbuf[rid].n, tid |-> ldbuf[rid].tid,
        ex |-> load_state = "SEND_TAG" /\ ex_i]
  ELSE IF rid = NoResponse /\ load_state = "WAIT_TRANSLATION" /\ ex_i /\ valid_i
  THEN [valid |-> TRUE, n |-> lsu_ctrl_i.n, tid |-> lsu_ctrl_i.tid, ex |-> TRUE]
  ELSE NoWriteback

LoadUnitClock(valid_i, lsu_ctrl_i, matches, granted, stall, wbuffer_not_ni, ex_i, flush_i, rid) ==
  /\ load_state' =
       NextLoadState(valid_i, matches, granted, stall, wbuffer_not_ni, ex_i, flush_i, rid)
  /\ ldbuf' = NextLdbuf(granted, lsu_ctrl_i, flush_i, rid)
  /\ ldbuf_last_id' = IF granted THEN ldbuf_windex(rid) ELSE ldbuf_last_id
=============================================================================
