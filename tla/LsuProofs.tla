------------------------------ MODULE LsuProofs ------------------------------
(***************************************************************************)
(* Theorems about the load-store unit in the pipeline (Lsu.tla), for every *)
(* number of scoreboard and load buffer entries, every depth of the store  *)
(* queues and every program without misaligned stores: where a memory      *)
(* instruction is between issue and its result.                            *)
(***************************************************************************)
EXTENDS Lsu, FiniteSetTheorems, WellFoundedInduction, TLAPS

(* A misaligned store pops the bypass FIFO twice (LsuMisaligned.cfg), and  *)
(* what follows it is lost.                                                *)
Aligned == "STORE_X" \notin Kinds

-----------------------------------------------------------------------------
(* Arithmetic.                                                             *)

LEMMA LeastElement ==
  ASSUME NEW T \in SUBSET Nat, T # {}
  PROVE  \E x \in T : \A y \in T : x <= y
<1> DEFINE R == OpToRel(<, Nat)
<1>1. IsWellFoundedOn(R, Nat)
  BY NatLessThanWellFounded
<1>2. \A x, y \in Nat : y < x => <<y, x>> \in R
  BY DEF OpToRel
<1> HIDE DEF R
<1>3. PICK x \in T : \A y \in T : ~ (<<y, x>> \in R)
  BY <1>1, WFMin
<1>4. \A y \in T : y \in Nat /\ x \in Nat /\ ~(y < x)
  BY <1>2, <1>3
<1> QED
  BY <1>4

(* Fewer than N numbers in a row differ modulo N.                          *)
LEMMA ModInjective ==
  ASSUME NEW N \in Nat \ {0}, NEW a \in Nat, NEW b \in Nat,
         a <= b, b - a < N, a % N = b % N
  PROVE  a = b
<1>1. /\ a = (N * (a \div N)) + (a % N) /\ b = (N * (b \div N)) + (b % N)
      /\ a \div N \in Int /\ b \div N \in Int
  OBVIOUS
<1> DEFINE p == a \div N
           q == b \div N
<1>2. p \in Int /\ q \in Int /\ b - a = N * (q - p)
  BY <1>1
<1> HIDE DEF p, q
<1>3. q - p < 1
  BY <1>2
<1>4. q - p > -1
  BY <1>2
<1> QED
  BY <1>2, <1>3, <1>4

-----------------------------------------------------------------------------
(* The bypass FIFO as a queue of at most two requests: the front, which    *)
(* the units see, and one behind it.  The request in the issue register is *)
(* the last of them.                                                       *)
Requests == [valid : BOOLEAN, fu : {"LOAD", "STORE", "AMO", "NONE"}, n : Nat,
             tid : 0 .. NR_SB_ENTRIES - 1, addr : Addrs \cup {0}, misaligned : BOOLEAN]

Front == lsu_ctrl_o(fu_data)
Behind == IF bypass_status_cnt = 0 THEN NoRequest
          ELSE IF bypass_status_cnt = 1 THEN fu_data
          ELSE bypass_mem[1 - bypass_read_pointer]

Fifo ==
  /\ fu_data \in Requests /\ bypass_mem \in [{0, 1} -> Requests]
  /\ bypass_status_cnt \in {0, 1, 2}
  /\ bypass_read_pointer \in {0, 1} /\ bypass_write_pointer \in {0, 1}
  /\ bypass_write_pointer = bypass_read_pointer <=> bypass_status_cnt # 1
  /\ bypass_mem[bypass_read_pointer].valid <=> bypass_status_cnt # 0
  /\ bypass_mem[1 - bypass_read_pointer].valid <=> bypass_status_cnt = 2
  /\ bypass_status_cnt = 2 => ~fu_data.valid

(* What an edge without a flush does to the queue, when a pop takes its    *)
(* front and a request is only issued to an empty FIFO.                    *)
FifoMoves(pop) ==
  /\ fu_data'.valid => ~Behind.valid
  /\ Front.valid /\ ~pop => /\ Front' = Front
                            /\ Behind.valid => Behind' = Behind
                            /\ ~Behind.valid /\ Behind'.valid => Behind' = fu_data'
                            /\ fu_data'.valid => Behind' = fu_data'
  /\ ~(Front.valid /\ ~pop) => /\ Behind.valid => Front' = Behind
                               /\ ~Behind.valid => Front' = fu_data'
                               /\ ~Behind'.valid

LEMMA NoRequestType == ASSUME Elaborated PROVE NoRequest \in Requests
BY ScoreboardAssumption DEF NoRequest, Requests, Elaborated, NR_SB_ENTRIES

LEMMA FifoStep ==
  ASSUME NEW pop_ld \in BOOLEAN, NEW pop_st \in BOOLEAN, Elaborated, Fixed, Fifo,
         BypassClock(fu_data, pop_ld, pop_st, FALSE), fu_data' \in Requests,
         ~(pop_ld /\ pop_st), pop_ld \/ pop_st => Front.valid,
         fu_data'.valid => bypass_empty
  PROVE  Fifo' /\ FifoMoves(pop_ld \/ pop_st)
<1> DEFINE r == bypass_read_pointer
           pop == pop_ld \/ pop_st
           empty == [i \in {0, 1} |-> NoRequest]
           pushed == IF fu_data.valid THEN [bypass_mem EXCEPT ![bypass_write_pointer] = fu_data]
                     ELSE bypass_mem
           popped == IF pop THEN [pushed EXCEPT ![r].valid = FALSE] ELSE pushed
           pushes == IF fu_data.valid THEN 1 ELSE 0
           pops == IF pop THEN 1 ELSE 0
<1>1. NoRequest \in Requests /\ Requests' = Requests
  BY NoRequestType DEF Fixed, Requests, NR_SB_ENTRIES, Addrs
<1>2. /\ bypass_mem' = popped
      /\ bypass_read_pointer' = (r + pops) % 2
      /\ bypass_write_pointer' = (bypass_write_pointer + pushes) % 2
      /\ bypass_status_cnt' = (bypass_status_cnt + pushes - pops) % 4
  BY DEF BypassClock
<1>3. /\ pushed \in [{0, 1} -> Requests]
      /\ pushed[r] = IF fu_data.valid /\ bypass_status_cnt # 1 THEN fu_data ELSE bypass_mem[r]
      /\ pushed[1 - r] = IF fu_data.valid /\ bypass_status_cnt = 1 THEN fu_data
                         ELSE bypass_mem[1 - r]
  BY DEF Fifo
<1> HIDE DEF pushed
<1>4. /\ popped \in [{0, 1} -> Requests]
      /\ ~pop => popped[r] = pushed[r]
      /\ pop => ~popped[r].valid
      /\ popped[1 - r] = pushed[1 - r]
  <2>1. CASE pop
    <3>1. pushed[r] \in Requests /\ r \in {0, 1}
      BY <1>3 DEF Fifo
    <3>2. [pushed[r] EXCEPT !.valid = FALSE] \in Requests
      BY <3>1 DEF Requests
    <3>3. popped = [pushed EXCEPT ![r] = [pushed[r] EXCEPT !.valid = FALSE]]
      BY <2>1
    <3>4. ~[pushed[r] EXCEPT !.valid = FALSE].valid
      BY <3>1 DEF Requests
    <3> HIDE DEF popped, pop
    <3> QED
      BY <1>3, <2>1, <3>1, <3>2, <3>3, <3>4
  <2>2. CASE ~pop
    BY <1>3, <2>2
  <2> QED
    BY <2>1, <2>2
<1> HIDE DEF popped
<1>5. /\ fu_data.valid \in BOOLEAN /\ ~NoRequest.valid
      /\ r \in {0, 1} /\ bypass_status_cnt \in {0, 1, 2}
      /\ Front = IF bypass_status_cnt = 0 THEN fu_data ELSE bypass_mem[r]
      /\ Front' = IF bypass_status_cnt' = 0 THEN fu_data'
                  ELSE bypass_mem'[bypass_read_pointer']
      /\ Behind' = IF bypass_status_cnt' = 0 THEN NoRequest
                   ELSE IF bypass_status_cnt' = 1 THEN fu_data'
                   ELSE bypass_mem'[1 - bypass_read_pointer']
  BY DEF Fifo, Requests, NoRequest, Front, Behind, lsu_ctrl_o, bypass_empty
<1>6. CASE bypass_status_cnt = 0
  <2>1. pop => fu_data.valid
    BY <1>5, <1>6
  <2>2. bypass_status_cnt' = pushes - pops /\ pushes - pops \in {0, 1}
    BY <1>2, <1>6, <2>1
  <2>3. CASE pop
    BY <1>1, <1>2, <1>3, <1>4, <1>5, <1>6, <2>1, <2>2, <2>3
    DEF Fifo, FifoMoves, Behind, bypass_empty
  <2>4. CASE ~pop
    BY <1>1, <1>2, <1>3, <1>4, <1>5, <1>6, <2>2, <2>4
    DEF Fifo, FifoMoves, Behind, bypass_empty
  <2> QED
    BY <2>3, <2>4
<1>7. CASE bypass_status_cnt = 1
  <2>1. ~fu_data'.valid
    BY <1>7 DEF bypass_empty
  <2>2. bypass_status_cnt' = 1 + pushes - pops
    BY <1>2, <1>7
  <2>3. CASE pop
    BY <1>1, <1>2, <1>3, <1>4, <1>5, <1>7, <2>1, <2>2, <2>3
    DEF Fifo, FifoMoves, Behind
  <2>4. CASE ~pop
    BY <1>1, <1>2, <1>3, <1>4, <1>5, <1>7, <2>1, <2>2, <2>4
    DEF Fifo, FifoMoves, Behind
  <2> QED
    BY <2>3, <2>4
<1>8. CASE bypass_status_cnt = 2
  <2>1. ~fu_data'.valid /\ ~fu_data.valid
    BY <1>8 DEF bypass_empty, Fifo
  <2>2. bypass_status_cnt' = 2 - pops
    BY <1>2, <1>8, <2>1
  <2>3. CASE pop
    BY <1>1, <1>2, <1>3, <1>4, <1>5, <1>8, <2>1, <2>2, <2>3
    DEF Fifo, FifoMoves, Behind
  <2>4. CASE ~pop
    BY <1>1, <1>2, <1>3, <1>4, <1>5, <1>8, <2>1, <2>2, <2>4
    DEF Fifo, FifoMoves, Behind
  <2> QED
    BY <2>3, <2>4
<1> QED
  BY <1>5, <1>6, <1>7, <1>8

(* A flush leaves the FIFO empty and, as nothing issues, the issue         *)
(* register too.                                                           *)
LEMMA FifoFlush ==
  ASSUME NEW pop_ld, NEW pop_st, Elaborated, Fixed, Fifo,
         BypassClock(fu_data, pop_ld, pop_st, TRUE), fu_data' \in Requests, ~fu_data'.valid
  PROVE  Fifo' /\ ~Front'.valid /\ ~Behind'.valid
<1>1. NoRequest \in Requests /\ Requests' = Requests /\ ~NoRequest.valid
  BY NoRequestType DEF Fixed, Requests, NR_SB_ENTRIES, Addrs, NoRequest
<1> QED
  BY <1>1 DEF BypassClock, Fifo, Front, Behind, lsu_ctrl_o, bypass_empty

-----------------------------------------------------------------------------
(* The load unit.  A load is live when it is in the load buffer, was not   *)
(* flushed, and its request is not being killed to be repeated.            *)
LoadEntries == [valid : BOOLEAN, flushed : BOOLEAN, n : Nat, tid : 0 .. NR_SB_ENTRIES - 1,
                addr : Addrs \cup {0}]

LdValid == Front.valid /\ Front.fu = "LOAD"
Retrying == {"WAIT_GNT", "WAIT_PAGE_OFFSET", "WAIT_WB_EMPTY", "WAIT_TRANSLATION"}
Killed(i) == tag_phase /\ i = ldbuf_last_id /\ load_state \in {"ABORT_TRANSACTION_NI", "WAIT_FLUSH"}
Live(i) == ldbuf[i].valid /\ ~ldbuf[i].flushed /\ ~Killed(i)

LoadTypes ==
  /\ load_state \in LoadStates
  /\ ldbuf \in [LoadIds -> LoadEntries]
  /\ ldbuf_last_id \in LoadIds
  /\ tag_phase \in BOOLEAN /\ ex_q \in BOOLEAN

(* A load that waits to send its request has an entry of the buffer to     *)
(* itself; the flags of the entries say which requests the cache answers.  *)
LoadBuffer ==
  /\ LoadTypes
  /\ load_state \in Retrying => FreeIds # {}
  /\ load_state \in {"SEND_TAG", "ABORT_TRANSACTION_NI"} => tag_phase
  /\ tag_phase => /\ load_state \in {"SEND_TAG", "ABORT_TRANSACTION_NI", "WAIT_FLUSH"}
                  /\ ldbuf[ldbuf_last_id].valid /\ ~ldbuf[ldbuf_last_id].flushed
  /\ load_state = "WAIT_FLUSH" => \A i \in LoadIds : ~Live(i)

(* The load at the front waits for the unit, which sees it until it is     *)
(* sent.                                                                   *)
LoadWaits ==
  /\ load_state \in Retrying \cup {"ABORT_TRANSACTION_NI"} => LdValid
  /\ load_state = "ABORT_TRANSACTION_NI" => ldbuf[ldbuf_last_id].n = Front.n

LEMMA Windex ==
  ASSUME NEW rid, Elaborated
  PROVE  /\ ldbuf_windex(rid) \in LoadIds
         /\ FreeIds # {} => ldbuf_windex(rid) \in FreeIds
<1>1. NrLoadBufEntries \in Nat \ {0} /\ FreeIds \in SUBSET Nat /\ FreeIds \subseteq LoadIds
  BY LoadBufAssumption DEF Elaborated, NrLoadBufEntries, FreeIds, LoadIds
<1>2. CASE FreeIds = {}
  BY <1>1, <1>2 DEF ldbuf_windex, LoadIds
<1>3. CASE FreeIds # {}
  <2>1. \E i \in FreeIds : \A j \in FreeIds : i <= j
    BY <1>1, <1>3, LeastElement
  <2> QED
    BY <1>1, <1>3, <2>1 DEF ldbuf_windex
<1> QED
  BY <1>2, <1>3

LEMMA ResponseFacts ==
  ASSUME NEW rid \in Responses, LoadTypes
  PROVE  /\ rid # NoResponse => rid \in LoadIds
         /\ tag_phase /\ kill_req_o(ex_q) => rid = ldbuf_last_id
         /\ rid # NoResponse /\ ~(tag_phase /\ kill_req_o(ex_q)) => ldbuf[rid].valid
BY DEF Responses, LoadTypes, FreeIds

(* The next state of the state machine, state by state.                    *)
LoadStateMoves(accepts, matches, granted, stall, not_ni, ex, f) ==
  /\ f => load_state' = "WAIT_FLUSH"
  /\ ~f /\ granted => load_state' = IF stall THEN "ABORT_TRANSACTION_NI" ELSE "SEND_TAG"
  /\ ~f /\ ~granted =>
       /\ load_state \in {"IDLE", "SEND_TAG"} =>
            load_state' = IF accepts
                          THEN IF matches THEN "WAIT_PAGE_OFFSET" ELSE "WAIT_GNT"
                          ELSE "IDLE"
       /\ load_state = "WAIT_GNT" => load_state' = "WAIT_GNT"
       /\ load_state = "WAIT_PAGE_OFFSET" =>
            load_state' = IF matches THEN "WAIT_PAGE_OFFSET" ELSE "WAIT_GNT"
       /\ load_state = "ABORT_TRANSACTION_NI" => load_state' = "WAIT_WB_EMPTY"
       /\ load_state = "WAIT_WB_EMPTY" =>
            load_state' = IF not_ni THEN "WAIT_TRANSLATION" ELSE "IDLE"
       /\ load_state = "WAIT_TRANSLATION" =>
            load_state' = IF ex THEN "IDLE" ELSE "WAIT_GNT"
       /\ load_state = "WAIT_FLUSH" => load_state' = "IDLE"
  /\ granted => load_state \in {"IDLE", "SEND_TAG", "WAIT_GNT"}

LEMMA LoadMachine ==
  ASSUME NEW valid, NEW accepts, NEW matches, NEW granted, NEW stall, NEW not_ni, NEW ex, NEW f,
         NEW rid, load_state \in LoadStates, accepts <=> accept_req(valid, rid),
         granted => data_req_o(valid, matches, rid),
         load_state' = NextLoadState(valid, matches, granted, stall, not_ni, ex, f, rid)
  PROVE  LoadStateMoves(accepts, matches, granted, stall, not_ni, ex, f)
<1>1. accepts => valid
  BY DEF accept_req
<1>2. CASE f
  BY <1>2 DEF LoadStateMoves, NextLoadState, data_req_o
<1>3. CASE ~f /\ granted
  BY <1>1, <1>3 DEF LoadStateMoves, NextLoadState, data_req_o
<1>4. CASE ~f /\ ~granted
  <2>1. CASE load_state \in {"IDLE", "SEND_TAG"}
    BY <1>4, <2>1 DEF LoadStateMoves, NextLoadState, data_req_o
  <2>2. CASE load_state \notin {"IDLE", "SEND_TAG"}
    BY <1>4, <2>2 DEF LoadStateMoves, NextLoadState, data_req_o, LoadStates
  <2> QED
    BY <2>1, <2>2
<1> QED
  BY <1>2, <1>3, <1>4


(* One edge of the load unit: a granted request that is not stalled becomes*)
(* live, in an entry that was free or is answered in this cycle; the others*)
(* stay live until they are answered or a flush comes.                     *)
Sends(granted, stall, i, rid) == granted /\ ~stall /\ i = ldbuf_windex(rid)

LoadMoves(granted, stall, rid) ==
  \A i \in LoadIds :
    /\ Sends(granted, stall, i, rid) =>
         /\ Live(i)'
         /\ ldbuf'[i].n = Front.n /\ ldbuf'[i].tid = Front.tid /\ ldbuf'[i].addr = Front.addr
    /\ ~Sends(granted, stall, i, rid) =>
         /\ Live(i)' <=> Live(i) /\ i # rid
         /\ Live(i)' => /\ ldbuf'[i].n = ldbuf[i].n
                        /\ ldbuf'[i].tid = ldbuf[i].tid
                        /\ ldbuf'[i].addr = ldbuf[i].addr

LEMMA LdbufStep ==
  ASSUME NEW granted \in BOOLEAN, NEW f \in BOOLEAN, NEW rid, NEW i \in LoadIds,
         Elaborated, Fixed, LoadTypes, Front \in Requests,
         ldbuf' = NextLdbuf(granted, Front, f, rid)
  PROVE  /\ ldbuf'[i] \in LoadEntries
         /\ granted /\ i = ldbuf_windex(rid) =>
              /\ ldbuf'[i].valid /\ ~ldbuf'[i].flushed
              /\ ldbuf'[i].n = Front.n /\ ldbuf'[i].tid = Front.tid /\ ldbuf'[i].addr = Front.addr
         /\ ~(granted /\ i = ldbuf_windex(rid)) /\ i = rid =>
              ~ldbuf'[i].valid /\ ldbuf'[i].n = 0
         /\ ~(granted /\ i = ldbuf_windex(rid)) /\ i # rid =>
              /\ ldbuf'[i].valid <=> ldbuf[i].valid
              /\ ldbuf'[i].flushed <=> ldbuf[i].valid /\ (ldbuf[i].flushed \/ f)
              /\ ldbuf'[i].n = ldbuf[i].n /\ ldbuf'[i].tid = ldbuf[i].tid
              /\ ldbuf'[i].addr = ldbuf[i].addr
<1>1. /\ ldbuf[i] \in LoadEntries
      /\ FreeEntry \in LoadEntries /\ ~FreeEntry.valid /\ FreeEntry.n = 0
  BY ScoreboardAssumption
  DEF LoadTypes, LoadEntries, FreeEntry, Elaborated, NR_SB_ENTRIES
<1>2. /\ Front.n \in Nat /\ Front.tid \in 0 .. NR_SB_ENTRIES - 1
      /\ Front.addr \in Addrs \cup {0}
  BY DEF Requests
<1> DEFINE sent == [valid |-> TRUE, flushed |-> FALSE, n |-> Front.n, tid |-> Front.tid,
                    addr |-> Front.addr]
           kept == [ldbuf[i] EXCEPT !.flushed = ldbuf[i].valid /\ (ldbuf[i].flushed \/ f)]
<1>3. sent \in LoadEntries
  BY <1>2 DEF LoadEntries
<1>4. /\ kept \in LoadEntries
      /\ kept.valid = ldbuf[i].valid /\ kept.n = ldbuf[i].n /\ kept.tid = ldbuf[i].tid
      /\ kept.addr = ldbuf[i].addr
      /\ kept.flushed <=> ldbuf[i].valid /\ (ldbuf[i].flushed \/ f)
  BY <1>1 DEF LoadEntries
<1>5. ldbuf'[i] = IF granted /\ i = ldbuf_windex(rid) THEN sent
                  ELSE IF i = rid THEN FreeEntry ELSE kept
  BY DEF NextLdbuf
<1>6. sent.valid /\ ~sent.flushed /\ sent.n = Front.n /\ sent.tid = Front.tid /\ sent.addr = Front.addr
  OBVIOUS
<1> HIDE DEF sent, kept
<1> QED
  BY <1>1, <1>3, <1>4, <1>5, <1>6

LoadEdge(granted, stall, f, rid) ==
  /\ granted => /\ LdValid /\ ldbuf_last_id' = ldbuf_windex(rid)
                /\ \/ ldbuf_windex(rid) \in FreeIds
                   \/ ldbuf_windex(rid) = rid /\ LDBUF_FALLTHROUGH
  /\ f <=> load_state' = "WAIT_FLUSH"
  /\ f => \A i \in LoadIds : ~Live(i)'
  /\ ~f => LoadMoves(granted, stall, rid)
  /\ load_state' \in Retrying \cup {"ABORT_TRANSACTION_NI"} =>
       LdValid /\ ~f /\ ~pop_ld_o(granted, stall, ex_q, rid)
  /\ load_state' = "ABORT_TRANSACTION_NI" => ldbuf'[ldbuf_last_id'].n = Front.n

LEMMA LoadStep ==
  ASSUME NEW valid, NEW matches, NEW granted, NEW stall, NEW not_ni, NEW f, NEW rid,
         granted \in BOOLEAN, f \in BOOLEAN, rid \in Responses,
         Elaborated, Fixed, LoadBuffer, LoadWaits, Front \in Requests,
         valid <=> LdValid, granted => data_req_o(valid, matches, rid),
         LoadUnitClock(valid, Front, matches, granted, stall, not_ni, ex_q, f, rid),
         tag_phase' = granted, ex_q' \in BOOLEAN
  PROVE  LoadBuffer' /\ LoadEdge(granted, stall, f, rid)
<1> DEFINE w == ldbuf_windex(rid)
<1>1. /\ LoadTypes /\ NrLoadBufEntries \in Nat \ {0} /\ LoadIds = 0 .. NrLoadBufEntries - 1
      /\ LoadIds' = LoadIds /\ LoadStates' = LoadStates /\ LoadEntries' = LoadEntries
  BY LoadBufAssumption
  DEF LoadBuffer, Elaborated, Fixed, NrLoadBufEntries, LoadIds, LoadEntries, NR_SB_ENTRIES, Addrs,
      LoadStates
<1>2. /\ load_state' = NextLoadState(valid, matches, granted, stall, not_ni, ex_q, f, rid)
      /\ ldbuf' = NextLdbuf(granted, Front, f, rid)
      /\ ldbuf_last_id' = IF granted THEN w ELSE ldbuf_last_id
  BY DEF LoadUnitClock
<1>3. w \in LoadIds /\ (FreeIds # {} => w \in FreeIds)
  BY Windex
<1>4. ex_q \in BOOLEAN /\ load_state \in LoadStates
  BY <1>1 DEF LoadTypes
<1>5. granted => LdValid /\ (w \in FreeIds \/ (w = rid /\ LDBUF_FALLTHROUGH))
  <2> SUFFICES ASSUME granted
               PROVE  LdValid /\ (w \in FreeIds \/ (w = rid /\ LDBUF_FALLTHROUGH))
    OBVIOUS
  <2>1. CASE load_state = "WAIT_GNT"
    BY <1>3, <2>1 DEF LoadBuffer, LoadWaits, Retrying
  <2>2. CASE load_state # "WAIT_GNT"
    <3>1. LdValid /\ (FreeIds # {} \/ (LDBUF_FALLTHROUGH /\ rid # NoResponse))
      BY <2>2 DEF data_req_o, accept_req
    <3>2. rid # NoResponse => rid \in LoadIds
      BY <1>1, ResponseFacts
    <3> QED
      BY <1>1, <1>3, <3>1, <3>2 DEF LDBUF_FALLTHROUGH
  <2> QED
    BY <2>1, <2>2
<1>6. ASSUME NEW i \in LoadIds
      PROVE  /\ ldbuf'[i] \in LoadEntries
             /\ granted /\ i = w =>
                  /\ ldbuf'[i].valid /\ ~ldbuf'[i].flushed
                  /\ ldbuf'[i].n = Front.n /\ ldbuf'[i].tid = Front.tid
                  /\ ldbuf'[i].addr = Front.addr
             /\ ~(granted /\ i = w) /\ i = rid => ~ldbuf'[i].valid /\ ldbuf'[i].n = 0
             /\ ~(granted /\ i = w) /\ i # rid =>
                  /\ ldbuf'[i].valid <=> ldbuf[i].valid
                  /\ ldbuf'[i].flushed <=> ldbuf[i].valid /\ (ldbuf[i].flushed \/ f)
                  /\ ldbuf'[i].n = ldbuf[i].n /\ ldbuf'[i].tid = ldbuf[i].tid
                  /\ ldbuf'[i].addr = ldbuf[i].addr
  BY <1>1, <1>2, LdbufStep
<1>60. PICK accepts \in BOOLEAN : accepts <=> accept_req(valid, rid)
  OBVIOUS
<1>7. /\ f => load_state' = "WAIT_FLUSH"
      /\ ~f /\ granted => load_state' = IF stall THEN "ABORT_TRANSACTION_NI" ELSE "SEND_TAG"
      /\ ~f /\ ~granted =>
           /\ load_state \in {"IDLE", "SEND_TAG"} =>
                load_state' = IF accepts
                              THEN IF matches THEN "WAIT_PAGE_OFFSET" ELSE "WAIT_GNT"
                              ELSE "IDLE"
           /\ load_state = "WAIT_GNT" => load_state' = "WAIT_GNT"
           /\ load_state = "WAIT_PAGE_OFFSET" =>
                load_state' = IF matches THEN "WAIT_PAGE_OFFSET" ELSE "WAIT_GNT"
           /\ load_state = "ABORT_TRANSACTION_NI" => load_state' = "WAIT_WB_EMPTY"
           /\ load_state = "WAIT_WB_EMPTY" =>
                load_state' = IF not_ni THEN "WAIT_TRANSLATION" ELSE "IDLE"
           /\ load_state = "WAIT_TRANSLATION" =>
                load_state' = IF ex_q THEN "IDLE" ELSE "WAIT_GNT"
           /\ load_state = "WAIT_FLUSH" => load_state' = "IDLE"
      /\ granted => load_state \in {"IDLE", "SEND_TAG", "WAIT_GNT"}
  <2>1. load_state' = NextLoadState(valid, matches, granted, stall, not_ni, ex_q, f, rid)
    BY <1>2
  <2>2. LoadStateMoves(accepts, matches, granted, stall, not_ni, ex_q, f)
    BY ONLY <1>4, <1>60, <2>1, granted => data_req_o(valid, matches, rid), LoadMachine
  <2> QED
    BY <2>2 DEF LoadStateMoves
<1>8. accepts => LdValid /\ (FreeIds # {} \/ (LDBUF_FALLTHROUGH /\ rid # NoResponse))
  BY <1>60 DEF accept_req
<1> HIDE DEF w
<1>9. /\ rid # NoResponse => rid \in LoadIds
      /\ tag_phase /\ kill_req_o(ex_q) => rid = ldbuf_last_id
  BY <1>1, ResponseFacts
<1>10. LoadTypes'
  <2>1. ldbuf' \in [LoadIds -> LoadEntries]
    BY <1>2, <1>6 DEF NextLdbuf
  <2>2. load_state' \in LoadStates
    BY <1>4, <1>7 DEF LoadStates
  <2> QED
    BY <1>1, <1>2, <1>3, <2>1, <2>2 DEF LoadTypes
<1> DEFINE free == \E i \in LoadIds : ~ldbuf[i].valid
<1>11. (FreeIds # {} <=> free) /\ (FreeIds' # {} <=> \E i \in LoadIds : ~ldbuf'[i].valid)
  BY <1>1 DEF FreeIds
<1>12. ASSUME ~granted, free \/ rid \in LoadIds
       PROVE  \E i \in LoadIds : ~ldbuf'[i].valid
  BY <1>6, <1>12
<1>13. load_state' \in Retrying => FreeIds' # {}
  <2> SUFFICES ASSUME load_state' \in Retrying
               PROVE  ~granted /\ (free \/ rid \in LoadIds)
    BY <1>11, <1>12
  <2>1. ~f /\ ~granted
    BY <1>7 DEF Retrying
  <2>2. CASE load_state \in {"IDLE", "SEND_TAG"}
    BY <1>7, <1>8, <1>9, <1>11, <2>1, <2>2 DEF Retrying
  <2>3. CASE load_state \in Retrying
    BY <1>11, <2>1, <2>3 DEF LoadBuffer
  <2>4. CASE load_state = "ABORT_TRANSACTION_NI"
    <3>1. tag_phase /\ kill_req_o(ex_q) /\ ldbuf_last_id \in LoadIds
      BY <1>1, <2>4 DEF LoadBuffer, LoadTypes, kill_req_o
    <3> QED
      BY <1>9, <2>1, <3>1
  <2>5. CASE load_state = "WAIT_FLUSH"
    BY <1>7, <2>1, <2>5 DEF Retrying
  <2> QED
    BY <1>4, <2>2, <2>3, <2>4, <2>5 DEF LoadStates, Retrying
<1>14. /\ load_state' \in {"SEND_TAG", "ABORT_TRANSACTION_NI"} => granted
       /\ load_state' = "SEND_TAG" => ~stall
       /\ load_state' = "ABORT_TRANSACTION_NI" => stall
       /\ load_state' = "WAIT_FLUSH" <=> f
       /\ granted => load_state' \in {"SEND_TAG", "ABORT_TRANSACTION_NI", "WAIT_FLUSH"}
       /\ granted /\ load_state' = "ABORT_TRANSACTION_NI" <=> ~f /\ granted /\ stall
  BY <1>4, <1>7 DEF LoadStates
<1>15. ASSUME NEW i \in LoadIds
       PROVE  Live(i)' <=> /\ ldbuf'[i].valid /\ ~ldbuf'[i].flushed
                           /\ ~(granted /\ i = w /\ (f \/ stall))
  BY <1>2, <1>14 DEF Live, Killed, w
<1>16. ASSUME NEW i \in LoadIds, ldbuf[i].valid, ~ldbuf[i].flushed, i # rid
       PROVE  Live(i)
  <2>1. Killed(i) => tag_phase /\ kill_req_o(ex_q) /\ i = ldbuf_last_id
    BY DEF Killed, kill_req_o
  <2> QED
    BY <1>9, <1>16, <2>1 DEF Live
<1>17. f => \A i \in LoadIds : ~Live(i)'
  BY <1>6, <1>9, <1>15
<1>18. ASSUME ~f, NEW i \in LoadIds
       PROVE  /\ Sends(granted, stall, i, rid) <=> granted /\ ~stall /\ i = w
              /\ Live(i)' <=> \/ granted /\ ~stall /\ i = w
                              \/ Live(i) /\ i # rid
  <2>1. Live(i) => ldbuf[i].valid /\ ~ldbuf[i].flushed
    BY DEF Live
  <2>2. Sends(granted, stall, i, rid) <=> granted /\ ~stall /\ i = w
    BY DEF Sends, w
  <2>3. CASE granted /\ i = w
    <3>1. Live(i)' <=> ~stall
      BY <1>6, <1>15, <1>18, <2>3
    <3>2. Live(i) => i = rid
      BY <1>5, <2>1, <2>3 DEF FreeIds
    <3> QED
      BY <2>2, <2>3, <3>1, <3>2
  <2>4. CASE ~(granted /\ i = w) /\ i = rid
    BY <1>6, <1>15, <2>2, <2>4
  <2>5. CASE ~(granted /\ i = w) /\ i # rid
    <3>1. ldbuf'[i].valid /\ ~ldbuf'[i].flushed <=> ldbuf[i].valid /\ ~ldbuf[i].flushed
      BY <1>6, <1>18, <2>5
    <3> QED
      BY <1>15, <1>16, <2>1, <2>2, <2>5, <3>1
  <2> QED
    BY <2>3, <2>4, <2>5
<1>19. ~f => LoadMoves(granted, stall, rid)
  <2> SUFFICES ASSUME ~f, NEW i \in LoadIds
               PROVE  /\ Sends(granted, stall, i, rid) =>
                           /\ Live(i)'
                           /\ ldbuf'[i].n = Front.n /\ ldbuf'[i].tid = Front.tid
                           /\ ldbuf'[i].addr = Front.addr
                      /\ ~Sends(granted, stall, i, rid) =>
                           /\ Live(i)' <=> Live(i) /\ i # rid
                           /\ Live(i)' => /\ ldbuf'[i].n = ldbuf[i].n
                                          /\ ldbuf'[i].tid = ldbuf[i].tid
                                          /\ ldbuf'[i].addr = ldbuf[i].addr
    BY DEF LoadMoves
  <2>1. CASE Sends(granted, stall, i, rid)
    BY <1>6, <1>18, <2>1
  <2>2. CASE ~Sends(granted, stall, i, rid)
    <3>1. Live(i)' => ~(granted /\ i = w)
      BY <1>15, <1>18, <2>2
    <3> QED
      BY <1>6, <1>18, <2>2, <3>1
  <2> QED
    BY <2>1, <2>2
<1>20. LoadBuffer'
  <2>1. tag_phase' => ldbuf'[ldbuf_last_id'].valid /\ ~ldbuf'[ldbuf_last_id'].flushed
    BY <1>2, <1>3, <1>6 DEF w
  <2>2. load_state' = "WAIT_FLUSH" => \A i \in LoadIds : ~Live(i)'
    BY <1>14, <1>17
  <2>3. Retrying' = Retrying
    BY DEF Retrying
  <2> QED
    BY <1>1, <1>10, <1>13, <1>14, <2>1, <2>2, <2>3 DEF LoadBuffer
<1>21. ASSUME load_state' \in Retrying \cup {"ABORT_TRANSACTION_NI"}
       PROVE  LdValid /\ ~f /\ ~pop_ld_o(granted, stall, ex_q, rid)
  <2>1. ~f /\ (granted => stall)
    BY <1>7, <1>21 DEF Retrying
  <2>2. load_state = "WAIT_TRANSLATION" => ~ex_q
    BY <1>7, <1>21, <2>1 DEF Retrying
  <2>3. LdValid
    <3>1. CASE granted
      BY <1>5, <3>1
    <3>2. CASE load_state \in Retrying \cup {"ABORT_TRANSACTION_NI"}
      BY <3>2 DEF LoadWaits
    <3>3. CASE ~granted /\ load_state \in {"IDLE", "SEND_TAG"}
      BY <1>7, <1>8, <1>21, <2>1, <3>3 DEF Retrying
    <3>4. CASE ~granted /\ load_state = "WAIT_FLUSH"
      BY <1>7, <1>21, <2>1, <3>4 DEF Retrying
    <3> QED
      BY <1>4, <3>1, <3>2, <3>3, <3>4 DEF LoadStates, Retrying
  <2> QED
    BY <2>1, <2>2, <2>3 DEF pop_ld_o
<1>22. load_state' = "ABORT_TRANSACTION_NI" => ldbuf'[ldbuf_last_id'].n = Front.n
  BY <1>2, <1>3, <1>6, <1>14 DEF w
<1> QED
  BY <1>2, <1>5, <1>14, <1>17, <1>19, <1>20, <1>21, <1>22 DEF w, LoadEdge

-----------------------------------------------------------------------------
(* The instructions in the window of the scoreboard, and the results that  *)
(* come for them.                                                          *)
Instructions == [kind : MemKinds \cup OtherKinds \cup {"SQUASHED"}, addr : Addrs,
                 result : Int, ex : BOOLEAN]

Program ==
  /\ Elaborated
  /\ instr \in Seq(Instructions)
  /\ head \in Nat \ {0} /\ base \in 1 .. head /\ head <= Last + 1
  /\ Last + 1 - head <= NR_SB_ENTRIES
  /\ \A n \in Window : instr[n].kind \in Kinds /\ instr[n].result \in {NotDone, n}

(* Every result is for an instruction that waits for it, under its own     *)
(* identifier.                                                             *)
Own(wbs) ==
  \A w \in wbs : /\ w.n \in Window /\ w.tid = Tid(w.n)
                 /\ instr[w.n].result = NotDone /\ w.ex \in BOOLEAN
Completed(n, wbs) == \E w \in wbs : w.n = n

(* A request for a memory instruction of the window that is not done.      *)
UnitOf(kind) == IF kind \in LoadKinds THEN "LOAD" ELSE IF kind \in StoreKinds THEN "STORE" ELSE "AMO"
Pend(r) ==
  /\ r.n \in Window
  /\ instr[r.n].kind \in MemKinds /\ instr[r.n].result = NotDone
  /\ r.tid = Tid(r.n) /\ r.addr = instr[r.n].addr
  /\ r.fu = UnitOf(instr[r.n].kind)
  /\ r.misaligned <=> instr[r.n].kind \in {"LOAD_X", "STORE_X"}

Stays(n, ack) == n # head \/ ~ack

InstrMoves(ack, f, kind, wbs) ==
  /\ f => Window' = {} /\ ~fu_data'.valid
  /\ ~f =>
       /\ \A n \in Window : Stays(n, ack) =>
            /\ n \in Window' /\ Tid(n)' = Tid(n)
            /\ instr'[n].kind = instr[n].kind /\ instr'[n].addr = instr[n].addr
            /\ instr'[n].result = IF Completed(n, wbs) THEN n ELSE instr[n].result
       /\ \A n \in Window' : \/ n \in Window /\ Stays(n, ack)
                             \/ /\ n = Last + 1 /\ kind # "NONE"
                                /\ instr'[n].kind = kind /\ instr'[n].result = NotDone
  /\ fu_data'.valid <=> kind \in MemKinds
  /\ fu_data'.valid => fu_data'.n = Last + 1 /\ Pend(fu_data)'

LEMMA Parameters ==
  ASSUME Elaborated
  PROVE  /\ NR_SB_ENTRIES \in Nat \ {0, 1} /\ Kinds \subseteq MemKinds \cup OtherKinds
         /\ "NONE" \notin Kinds /\ Addrs # {} /\ Squashed \in Instructions
<1>1. /\ NR_SB_ENTRIES \in Nat \ {0, 1} /\ Kinds \subseteq MemKinds \cup OtherKinds
      /\ Addrs # {}
  BY ScoreboardAssumption, KindsAssumption, AddrsAssumption
  DEF Elaborated, NR_SB_ENTRIES, Kinds, Addrs
<1>2. "NONE" \notin Kinds
  BY <1>1 DEF MemKinds, OtherKinds, LoadKinds, StoreKinds
<1>3. (CHOOSE a \in Addrs : TRUE) \in Addrs
  BY <1>1
<1> QED
  BY <1>1, <1>2, <1>3 DEF Squashed, Instructions, NotDone

LEMMA Unchanged ==
  ASSUME Fixed
  PROVE  /\ NR_SB_ENTRIES' = NR_SB_ENTRIES /\ Kinds' = Kinds /\ Addrs' = Addrs
         /\ MaxInstr' = MaxInstr /\ RVA' = RVA /\ SingleStep' = SingleStep
         /\ Requests' = Requests /\ Instructions' = Instructions
BY DEF Fixed, NR_SB_ENTRIES, Kinds, Addrs, MaxInstr, RVA, SingleStep, Requests, Instructions

LEMMA TidType ==
  ASSUME NEW n \in Nat, Program, base <= n
  PROVE  Tid(n) \in 0 .. NR_SB_ENTRIES - 1
<1> DEFINE x == n - base
           N == NR_SB_ENTRIES
<1>1. N \in Nat \ {0, 1} /\ x \in Nat /\ Tid(n) = x % N
  BY Parameters DEF Program, Tid
<1> HIDE DEF x, N
<1>2. x % N \in 0 .. N - 1
  BY <1>1
<1> QED
  BY <1>1, <1>2 DEF N

LEMMA TidInjective ==
  ASSUME NEW m \in Window, NEW n \in Window, Program, Tid(m) = Tid(n)
  PROVE  m = n
<1>1. NR_SB_ENTRIES \in Nat \ {0, 1}
  BY Parameters DEF Program
<1>2. /\ m \in Nat /\ n \in Nat /\ m - base \in Nat /\ n - base \in Nat
      /\ m - n < NR_SB_ENTRIES /\ n - m < NR_SB_ENTRIES
  <2>1. /\ head \in Nat /\ base \in Nat /\ base <= head /\ Last \in Nat
        /\ Last + 1 - head <= NR_SB_ENTRIES
        /\ m \in head .. Last /\ n \in head .. Last
    BY DEF Program, Window, Last
  <2> QED
    BY ONLY <1>1, <2>1
<1>3. (m - base) % NR_SB_ENTRIES = (n - base) % NR_SB_ENTRIES
  BY DEF Tid
<1>4. base \in Int
  BY DEF Program
<1> DEFINE x == m - base
           y == n - base
           N == NR_SB_ENTRIES
<1>5. x - y = m - n /\ y - x = n - m
  BY <1>2, <1>4
<1>6. N \in Nat \ {0} /\ x \in Nat /\ y \in Nat /\ x % N = y % N /\ x - y < N /\ y - x < N
  BY <1>1, <1>2, <1>3, <1>5
<1> HIDE DEF x, y, N
<1>7. x = y
  <2>1. CASE x <= y
    BY <1>6, <2>1, ModInjective
  <2>2. CASE y <= x
    BY <1>6, <2>2, ModInjective
  <2> QED
    BY <1>6, <2>1, <2>2
<1> QED
  BY <1>2, <1>4, <1>7 DEF x, y

LEMMA TakenOwn ==
  ASSUME NEW wbs, NEW n \in Window, Program, Own(wbs)
  PROVE  /\ Taken(n, wbs) \in Instructions
         /\ Taken(n, wbs).kind = instr[n].kind /\ Taken(n, wbs).addr = instr[n].addr
         /\ Taken(n, wbs).result = IF Completed(n, wbs) THEN n ELSE instr[n].result
<1>1. instr[n] \in Instructions /\ n \in Nat
  BY DEF Program, Window, Last
<1>2. ASSUME NEW w \in wbs PROVE w.tid = Tid(n) <=> w.n = n
  <2>1. w.n \in Window /\ w.tid = Tid(w.n)
    BY DEF Own
  <2> QED
    BY <2>1, TidInjective
<1>3. CASE Completed(n, wbs)
  <2>1. PICK w : w = CHOOSE v \in wbs : v.tid = Tid(n)
    OBVIOUS
  <2>2. w \in wbs /\ w.tid = Tid(n)
    BY <1>2, <1>3, <2>1 DEF Completed
  <2>3. w.n = n /\ w.ex \in BOOLEAN
    BY <1>2, <2>2 DEF Own
  <2>4. PICK e \in BOOLEAN : e = (instr[n].ex \/ w.ex)
    OBVIOUS
  <2>5. Taken(n, wbs) = [instr[n] EXCEPT !.result = n, !.ex = e]
    BY <2>1, <2>2, <2>3, <2>4 DEF Taken
  <2>6. instr[n] \in Instructions /\ n \in Int
    BY <1>1
  <2> QED
    <3>1. PICK i \in Instructions : i = instr[n]
      BY <2>6
    <3>2. PICK j : j = Taken(n, wbs)
      OBVIOUS
    <3>3. j = [i EXCEPT !.result = n, !.ex = e]
      BY <2>5, <3>1, <3>2
    <3>4. j \in Instructions /\ j.kind = i.kind /\ j.addr = i.addr /\ j.result = n
      BY <2>6, <3>3 DEF Instructions
    <3> QED
      BY ONLY <1>3, <3>1, <3>2, <3>4
<1>4. CASE ~Completed(n, wbs)
  BY <1>1, <1>2, <1>4 DEF Taken, Completed
<1> QED
  BY <1>3, <1>4


(* What the scoreboard does to the instructions in one edge.               *)
Kept(n, wbs, ack, f) ==
  IF n < head \/ (n = head /\ ack) THEN instr[n] ELSE IF f THEN Squashed ELSE Taken(n, wbs)
Issued(kind, a) == [kind |-> kind, addr |-> IF kind \in MemKinds THEN a ELSE Squashed.addr,
                    result |-> NotDone, ex |-> kind = "TRAP"]

InstrStep(kind, a, wbs, ack, f) ==
  /\ Last' = IF kind = "NONE" THEN Last ELSE Last + 1
  /\ \A n \in 1 .. Last : instr'[n] = Kept(n, wbs, ack, f)
  /\ kind # "NONE" => instr'[Last + 1] = Issued(kind, a)

LEMMA KeptType ==
  ASSUME NEW n \in 1 .. Last, NEW wbs, NEW ack, NEW f, Program, Own(wbs)
  PROVE  Kept(n, wbs, ack, f) \in Instructions
<1>1. instr[n] \in Instructions /\ Squashed \in Instructions
  BY Parameters DEF Program, Last
<1>2. ~(n < head) => n \in Window
  BY DEF Window, Program, Last
<1>3. n \in Window => Taken(n, wbs) \in Instructions
  BY TakenOwn
<1> QED
  BY <1>1, <1>2, <1>3 DEF Kept

LEMMA IssuedType ==
  ASSUME NEW kind \in Kinds, NEW a \in Addrs, Program
  PROVE  /\ Issued(kind, a) \in Instructions
         /\ Issued(kind, a).kind = kind /\ Issued(kind, a).result = NotDone
         /\ kind \in MemKinds => Issued(kind, a).addr = a
<1>1. kind \in MemKinds \cup OtherKinds
  BY Parameters DEF Program
<1>2. Squashed.addr \in Addrs
  BY Parameters DEF Program, Instructions
<1>3. PICK x \in Addrs : x = IF kind \in MemKinds THEN a ELSE Squashed.addr
  BY <1>2
<1>4. PICK e \in BOOLEAN : e = (kind = "TRAP")
  OBVIOUS
<1>5. Issued(kind, a) = [kind |-> kind, addr |-> x, result |-> NotDone, ex |-> e]
  BY <1>3, <1>4 DEF Issued
<1> QED
  BY <1>1, <1>3, <1>5 DEF Instructions, NotDone

LEMMA IssueInstr ==
  ASSUME NEW kind \in Kinds \cup {"NONE"}, NEW a \in Addrs, NEW wbs, NEW ack, NEW f,
         Program, Own(wbs), Issue(kind, a, wbs, ack, f)
  PROVE  InstrStep(kind, a, wbs, ack, f) /\ instr' \in Seq(Instructions)
<1> DEFINE kept == [n \in DOMAIN instr |-> Kept(n, wbs, ack, f)]
<1>1. DOMAIN instr = 1 .. Last /\ Last \in Nat
  BY DEF Program, Last
<1>2. kept \in Seq(Instructions) /\ Len(kept) = Last /\ \A n \in 1 .. Last : kept[n] = Kept(n, wbs, ack, f)
  BY <1>1, KeptType
<1>3. instr' = IF kind = "NONE" THEN kept ELSE Append(kept, Issued(kind, a))
  BY DEF Issue, Issued, Kept
<1> HIDE DEF kept
<1>4. CASE kind = "NONE"
  BY <1>1, <1>2, <1>3, <1>4 DEF InstrStep, Last
<1>5. CASE kind # "NONE"
  <2>1. kind \in Kinds
    BY <1>5
  <2>2. Issued(kind, a) \in Instructions
    BY <2>1, IssuedType
  <2>3. instr' = Append(kept, Issued(kind, a))
    BY <1>3, <1>5
  <2>4. /\ instr' \in Seq(Instructions) /\ Len(instr') = Last + 1
        /\ instr'[Last + 1] = Issued(kind, a) /\ \A n \in 1 .. Last : instr'[n] = kept[n]
    BY <1>1, <1>2, <2>2, <2>3
  <2> QED
    BY <1>2, <1>5, <2>4 DEF InstrStep, Last
<1> QED
  BY <1>4, <1>5

LEMMA MembershipBoolean == \A x, S : (x \in S) \in BOOLEAN
OBVIOUS

LEMMA RequestType ==
  ASSUME NEW kind \in Kinds \cup {"NONE"}, NEW a \in Addrs, Program
  PROVE  /\ Request(kind, a) \in Requests
         /\ Request(kind, a).valid <=> kind \in MemKinds
         /\ kind \in MemKinds =>
              /\ Request(kind, a).n = Last + 1 /\ Request(kind, a).tid = Tid(Last + 1)
              /\ Request(kind, a).addr = a /\ Request(kind, a).fu = UnitOf(kind)
              /\ Request(kind, a).misaligned <=> kind \in {"LOAD_X", "STORE_X"}
<1>1. Last + 1 \in Nat /\ base <= Last + 1
  BY DEF Program, Last
<1>2. Tid(Last + 1) \in 0 .. NR_SB_ENTRIES - 1
  BY <1>1, TidType
<1>3. PICK t \in 0 .. NR_SB_ENTRIES - 1 : t = Tid(Last + 1)
  BY <1>2
<1> DEFINE v == kind \in MemKinds
           m == kind \in {"LOAD_X", "STORE_X"}
<1>4. v \in BOOLEAN /\ (v <=> kind \in MemKinds)
  BY MembershipBoolean
<1>5. m \in BOOLEAN /\ (m <=> kind \in {"LOAD_X", "STORE_X"})
  BY MembershipBoolean
<1>6. PICK n \in Nat : n = IF kind \in MemKinds THEN Last + 1 ELSE 0
  BY <1>1
<1> DEFINE unit == CASE kind \in LoadKinds -> "LOAD" [] kind \in StoreKinds -> "STORE"
                     [] kind = "AMO" -> "AMO" [] OTHER -> "NONE"
<1>7. /\ unit \in {"LOAD", "STORE", "AMO", "NONE"}
      /\ kind \in MemKinds => unit = UnitOf(kind)
  BY DEF LoadKinds, StoreKinds, MemKinds, UnitOf
<1>8. Request(kind, a) = [valid |-> v, fu |-> unit, n |-> n, tid |-> t, addr |-> a, misaligned |-> m]
  BY <1>3, <1>6 DEF Request
<1> HIDE DEF unit, v, m
<1> QED
  BY <1>3, <1>4, <1>5, <1>6, <1>7, <1>8 DEF Requests

(* One edge of the scoreboard.                                             *)
LEMMA ProgramStep ==
  ASSUME NEW kind \in Kinds \cup {"NONE"}, NEW a \in Addrs, NEW wbs, NEW ack, NEW f,
         Program, Fixed, Own(wbs), ack => head \in Window /\ instr[head].result # NotDone,
         CommitStage(ack, f), Issue(kind, a, wbs, ack, f)
  PROVE  /\ Program' /\ InstrMoves(ack, f, kind, wbs)
         /\ fu_data' \in Requests
         /\ fu_data'.valid => bypass_empty /\ ~f
         /\ Last' \in {Last, Last + 1} /\ (Last' # Last => Last < MaxInstr)
         /\ \A n \in 1 .. Last : ~(n \in Window /\ Stays(n, ack)) => instr'[n] = instr[n]
<1>1. InstrStep(kind, a, wbs, ack, f) /\ instr' \in Seq(Instructions)
  BY IssueInstr
<1>2. /\ NR_SB_ENTRIES' = NR_SB_ENTRIES /\ Kinds' = Kinds /\ Instructions' = Instructions
      /\ Elaborated'
  BY Unchanged DEF Program, Elaborated, Fixed
<1>3. /\ fu_data' = Request(kind, a) /\ fu_data' \in Requests
      /\ fu_data'.valid <=> kind \in MemKinds
  BY RequestType DEF Issue
<1>4. /\ kind # "NONE" => Last < MaxInstr /\ ~issue_full /\ ~f
      /\ kind \in MemKinds => bypass_empty
      /\ "NONE" \notin MemKinds
  BY DEF Issue, may_issue, lsu_ready_o, MemKinds, LoadKinds, StoreKinds
<1>5. /\ head' = IF f THEN Last + 1 ELSE IF ack THEN head + 1 ELSE head
      /\ base' = IF f THEN Last + 1 ELSE base
  BY DEF CommitStage
<1>6. /\ Last \in Nat /\ head \in Nat \ {0} /\ base \in 1 .. head /\ head <= Last + 1
      /\ Last + 1 - head <= NR_SB_ENTRIES /\ NR_SB_ENTRIES \in Nat
      /\ ack => head <= Last
      /\ Last' = IF kind = "NONE" THEN Last ELSE Last + 1
      /\ kind # "NONE" => Last + 1 - head # NR_SB_ENTRIES
  BY <1>1, <1>4, Parameters DEF Program, Last, Window, InstrStep, issue_full
<1>7. /\ head' \in Nat \ {0} /\ base' \in 1 .. head' /\ head' <= Last' + 1
      /\ Last' + 1 - head' <= NR_SB_ENTRIES
  <2>1. CASE f
    BY <1>4, <1>5, <1>6, <2>1
  <2>2. CASE ~f
    BY <1>5, <1>6, <2>2
  <2> QED
    BY <2>1, <2>2
<1>8. ASSUME ~f, NEW n \in Window, Stays(n, ack)
      PROVE  /\ n \in Window' /\ Tid(n)' = Tid(n)
             /\ instr'[n].kind = instr[n].kind /\ instr'[n].addr = instr[n].addr
             /\ instr'[n].result = IF Completed(n, wbs) THEN n ELSE instr[n].result
  <2>1. n \in Window' /\ n \in 1 .. Last /\ ~(n < head)
    BY <1>5, <1>6, <1>8 DEF Window, Stays
  <2>2. Tid(n)' = Tid(n)
    BY <1>2, <1>5, <1>8 DEF Tid
  <2>3. instr'[n] = Taken(n, wbs)
    BY <1>1, <1>8, <2>1 DEF InstrStep, Kept, Stays
  <2> QED
    BY <2>1, <2>2, <2>3, TakenOwn
<1>9. ASSUME ~f, NEW n \in Window'
      PROVE  \/ n \in Window /\ Stays(n, ack)
             \/ /\ n = Last + 1 /\ kind # "NONE"
                /\ instr'[n].kind = kind /\ instr'[n].result = NotDone
  <2>1. n \in head' .. Last'
    BY <1>9 DEF Window
  <2>2. CASE n <= Last
    BY <1>5, <1>6, <1>9, <2>1, <2>2 DEF Window, Stays
  <2>3. CASE ~(n <= Last)
    <3>1. n = Last + 1 /\ kind # "NONE"
      BY <1>6, <1>7, <2>1, <2>3
    <3>2. instr'[n] = Issued(kind, a) /\ kind \in Kinds
      BY <1>1, <3>1 DEF InstrStep
    <3> QED
      BY <3>1, <3>2, IssuedType
  <2> QED
    BY <2>2, <2>3
<1>10. f => Window' = {} /\ ~fu_data'.valid
  BY <1>3, <1>4, <1>5, <1>6 DEF Window
<1>11. ASSUME NEW n \in Window'
       PROVE  instr'[n].kind \in Kinds /\ instr'[n].result \in {NotDone, n}
  <2>1. CASE n \in Window /\ Stays(n, ack)
    BY <1>8, <1>10, <1>11, <2>1 DEF Program
  <2>2. CASE ~(n \in Window /\ Stays(n, ack))
    BY <1>9, <1>10, <1>11, <2>2
  <2> QED
    BY <2>1, <2>2
<1>12. Program'
  BY <1>1, <1>2, <1>7, <1>11 DEF Program
<1>13. fu_data'.valid => fu_data'.n = Last + 1 /\ Pend(fu_data)'
  <2> SUFFICES ASSUME kind \in MemKinds
               PROVE  fu_data'.n = Last + 1 /\ Pend(fu_data)'
    BY <1>3
  <2>1. /\ fu_data'.n = Last + 1 /\ fu_data'.tid = Tid(Last + 1)
        /\ fu_data'.addr = a /\ fu_data'.fu = UnitOf(kind)
        /\ fu_data'.misaligned <=> kind \in {"LOAD_X", "STORE_X"}
    BY <1>3, RequestType
  <2>2. kind # "NONE" /\ ~f /\ kind \in Kinds
    BY <1>4
  <2>3. Last' = Last + 1 /\ Last + 1 \in Window'
    BY <1>6, <1>7, <2>2, <1>5 DEF Window
  <2>4. base' = base
    BY <1>5, <2>2
  <2>7. Tid(Last + 1) = ((Last + 1) - base) % NR_SB_ENTRIES
    BY DEF Tid
  <2>5. instr'[Last + 1] = Issued(kind, a)
    BY <1>1, <2>2 DEF InstrStep
  <2>6. /\ instr'[Last + 1].kind = kind /\ instr'[Last + 1].result = NotDone
        /\ instr'[Last + 1].addr = a
    BY <2>2, <2>5, IssuedType
  <2> QED
    BY <1>2, <2>1, <2>3, <2>4, <2>6, <2>7 DEF Pend, Tid
<1>14. ASSUME NEW n \in 1 .. Last, ~(n \in Window /\ Stays(n, ack))
       PROVE  instr'[n] = instr[n]
  BY <1>1, <1>6, <1>14 DEF InstrStep, Kept, Window, Stays
<1> QED
  BY <1>3, <1>4, <1>6, <1>8, <1>9, <1>10, <1>12, <1>13, <1>14 DEF InstrMoves


-----------------------------------------------------------------------------
(* The store unit, where no store is misaligned: it raises no exception,   *)
(* and waits only for a store that stays at the front.                     *)
StValid == Front.valid /\ Front.fu \in {"STORE", "AMO"}

StoreMachine ==
  /\ store_state \in StoreStates /\ store_req \in Requests
  /\ ex_q <=> store_req.valid /\ store_req.misaligned
  /\ store_state # "IDLE" => /\ store_req.valid /\ store_req.fu \in {"STORE", "AMO"}
                             /\ ~store_req.misaligned
  /\ store_state = "WAIT_STORE_READY" => StValid

(* Where the memory instructions of the window are that are not done: in   *)
(* the FIFO, in the store unit or in the load buffer, in program order.    *)
Held(n) ==
  \/ Front.valid /\ Front.n = n
  \/ Behind.valid /\ Behind.n = n
  \/ store_state = "VALID_STORE" /\ store_req.n = n
  \/ \E i \in LoadIds : Live(i) /\ ldbuf[i].n = n

PendLoad(i) ==
  /\ ldbuf[i].n \in Window
  /\ instr[ldbuf[i].n].kind \in LoadKinds /\ instr[ldbuf[i].n].result = NotDone
  /\ ldbuf[i].tid = Tid(ldbuf[i].n) /\ ldbuf[i].addr = instr[ldbuf[i].n].addr

Holding ==
  /\ Front.valid => Pend(Front)
  /\ Behind.valid => Front.valid /\ Pend(Behind) /\ Front.n < Behind.n
  /\ store_state = "VALID_STORE" =>
       Pend(store_req) /\ (Front.valid => store_req.n < Front.n)
  /\ \A i \in LoadIds : Live(i) => PendLoad(i) /\ (Front.valid => ldbuf[i].n < Front.n)
  /\ \A i, j \in LoadIds : Live(i) /\ Live(j) /\ ldbuf[i].n = ldbuf[j].n => i = j
  /\ \A n \in Window : instr[n].kind \in MemKinds /\ instr[n].result = NotDone => Held(n)

HeldInv ==
  /\ Program /\ Fifo /\ LoadBuffer /\ LoadWaits /\ StoreMachine /\ Holding
  /\ load_state = "WAIT_FLUSH" => Window = {}


-----------------------------------------------------------------------------
(* The signals of one edge, by name.                                       *)
LoadTaken(rid) == LoadWriteback(LdValid, Front, ex_q, rid)
Writebacks(finish, rid) ==
  {[tid |-> w.tid, n |-> w.n, ex |-> w.ex] : w \in {v \in {LoadTaken(rid)} : v.valid}}
    \cup (IF store_valid_o(ex_q)
          THEN {[tid |-> store_req.tid, n |-> store_req.n, ex |-> ex_q]} ELSE {})
    \cup {FluResult(n) : n \in finish}

Wires(kind, a, finish, not_ni, amo_ack, st_gnt, rid, ack, f, valid, st, matches, granted, stall,
      push, st_ready) ==
  /\ rid \in Responses /\ Fixed
  /\ CommitStage(ack, f)
  /\ Issue(kind, a, Writebacks(finish, rid), ack, f)
  /\ BypassClock(fu_data, pop_ld_o(granted, stall, ex_q, rid), pop_st_o(st, Front, st_ready, ex_q), f)
  /\ StoreUnitClock(st, Front, st_ready, ex_q, f, amo_valid_commit, amo_ack)
  /\ SB!Clock(push, store_req.n, commit_lsu, f, FALSE, st_gnt)
  /\ LoadUnitClock(valid, Front, matches, granted, stall, not_ni, ex_q, f, rid)
  /\ ex_q' = (Front.valid /\ Front.misaligned)
  /\ tag_phase' = granted

Signals(wbuffer_empty, not_ni, amo_ack, ld_gnt, rid, ack, f, valid, st, matches, granted, stall,
        push, st_ready) ==
  /\ ack \in BOOLEAN /\ f \in BOOLEAN /\ valid \in BOOLEAN /\ st \in BOOLEAN
  /\ matches \in BOOLEAN /\ granted \in BOOLEAN /\ stall \in BOOLEAN
  /\ push \in BOOLEAN /\ st_ready \in BOOLEAN
  /\ ack = commit_ack(wbuffer_empty, amo_ack)
  /\ f = flush(ack)
  /\ valid = LdValid /\ st = StValid
  /\ matches = page_offset_matches(Front.addr)
  /\ granted = (ld_gnt /\ data_req_o(valid, matches, rid))
  /\ stall = stall_ni(Front, Tid(head), not_ni, SB!store_buffer_empty_o)
  /\ push = store_buffer_valid(ex_q, f)
  /\ st_ready = (SB!ready_o(push, commit_lsu, f) /\ (amo_buffer_ready \/ ~RVA))

LEMMA EdgeSignals ==
  ASSUME NEW kind, NEW a, NEW finish, NEW wbuffer_empty, NEW not_ni, NEW amo_ack, NEW wake,
         NEW st_gnt, NEW ld_gnt, NEW rid,
         Edge(kind, a, finish, wbuffer_empty, not_ni, amo_ack, wake, st_gnt, ld_gnt, rid)
  PROVE  \E ack, f, valid, st, matches, granted, stall, push, st_ready :
           /\ Signals(wbuffer_empty, not_ni, amo_ack, ld_gnt, rid, ack, f, valid, st, matches,
                      granted, stall, push, st_ready)
           /\ Wires(kind, a, finish, not_ni, amo_ack, st_gnt, rid, ack, f, valid, st, matches,
                    granted, stall, push, st_ready)
<1>1. PICK ack \in BOOLEAN : ack = commit_ack(wbuffer_empty, amo_ack)
  BY DEF commit_ack
<1>2. PICK f \in BOOLEAN : f = flush(ack)
  BY DEF flush
<1>3. PICK valid \in BOOLEAN : valid = LdValid
  BY DEF LdValid
<1>4. PICK st \in BOOLEAN : st = StValid
  BY DEF StValid
<1>5. PICK matches \in BOOLEAN : matches = page_offset_matches(Front.addr)
  BY DEF page_offset_matches
<1>6. PICK granted \in BOOLEAN : granted = (ld_gnt /\ data_req_o(valid, matches, rid))
  OBVIOUS
<1>7. PICK stall \in BOOLEAN :
        stall = stall_ni(Front, Tid(head), not_ni, SB!store_buffer_empty_o)
  BY DEF stall_ni
<1>8. PICK push \in BOOLEAN : push = store_buffer_valid(ex_q, f)
  BY DEF store_buffer_valid
<1>9. PICK st_ready \in BOOLEAN :
        st_ready = (SB!ready_o(push, commit_lsu, f) /\ (amo_buffer_ready \/ ~RVA))
  OBVIOUS
<1>10. Wires(kind, a, finish, not_ni, amo_ack, st_gnt, rid, ack, f, valid, st, matches,
             granted, stall, push, st_ready)
  <2> USE <1>1, <1>2, <1>3, <1>4, <1>5, <1>6, <1>7, <1>8, <1>9
      DEF Edge, LdValid, StValid, Front, Writebacks, LoadTaken
  <2>1. rid \in Responses /\ Fixed
    OBVIOUS
  <2>2. CommitStage(ack, f)
    OBVIOUS
  <2>3. Issue(kind, a, Writebacks(finish, rid), ack, f)
    OBVIOUS
  <2>4. BypassClock(fu_data, pop_ld_o(granted, stall, ex_q, rid),
                    pop_st_o(st, Front, st_ready, ex_q), f)
    OBVIOUS
  <2>5. StoreUnitClock(st, Front, st_ready, ex_q, f, amo_valid_commit, amo_ack)
    OBVIOUS
  <2>6. SB!Clock(push, store_req.n, commit_lsu, f, FALSE, st_gnt)
    OBVIOUS
  <2>7. LoadUnitClock(valid, Front, matches, granted, stall, not_ni, ex_q, f, rid)
    OBVIOUS
  <2>8. ex_q' = (Front.valid /\ Front.misaligned)
    OBVIOUS
  <2>9. tag_phase' = granted
    OBVIOUS
  <2> QED
    BY <2>1, <2>2, <2>3, <2>4, <2>5, <2>6, <2>7, <2>8, <2>9 DEF Wires
<1>11. Signals(wbuffer_empty, not_ni, amo_ack, ld_gnt, rid, ack, f, valid, st, matches,
               granted, stall, push, st_ready)
  BY <1>1, <1>2, <1>3, <1>4, <1>5, <1>6, <1>7, <1>8, <1>9 DEF Signals
<1> QED
  BY <1>10, <1>11

LEMMA AlignedStores ==
  ASSUME Aligned, Program, NEW r, Pend(r), r.fu \in {"STORE", "AMO"}
  PROVE  ~r.misaligned /\ instr[r.n].kind \in {"STORE", "AMO"} /\ instr[r.n].kind \notin LoadKinds
<1>1. instr[r.n].kind \in Kinds /\ "STORE_X" \notin Kinds
  BY DEF Pend, Program, Aligned, Elaborated, Kinds
<1> QED
  BY <1>1 DEF Pend, UnitOf, MemKinds, LoadKinds, StoreKinds

(* One edge of the store unit.                                             *)
LEMMA StoreStep ==
  ASSUME NEW st \in BOOLEAN, NEW st_ready \in BOOLEAN, NEW f \in BOOLEAN, NEW amo_ack,
         StoreMachine, st = StValid,
         StoreUnitClock(st, Front, st_ready, ex_q, f, amo_valid_commit, amo_ack)
  PROVE  /\ store_valid_o(ex_q) <=> store_state = "VALID_STORE"
         /\ pop_st_o(st, Front, st_ready, ex_q) => StValid
         /\ store_req' = Front
         /\ store_state' \in StoreStates
         /\ store_state' = "VALID_STORE" <=> ~f /\ pop_st_o(st, Front, st_ready, ex_q)
         /\ store_state' # "IDLE" => StValid /\ ~f
         /\ store_state' = "WAIT_STORE_READY" => ~pop_st_o(st, Front, st_ready, ex_q)
<1>1. store_state \in StoreStates /\ ~store_exception(ex_q)
  BY DEF StoreMachine, store_exception
<1>2. /\ store_req' = Front
      /\ store_state' = NextStoreState(st, Front, st_ready, ex_q, f)
  BY DEF StoreUnitClock
<1>3. store_accepts(st, Front) => st /\ store_state \in {"IDLE", "VALID_STORE"}
  BY DEF store_accepts
<1>4. store_state = "WAIT_STORE_READY" => StValid
  BY DEF StoreMachine
<1> QED
  BY <1>1, <1>2, <1>3, <1>4
  DEF store_valid_o, pop_st_o, NextStoreState, StoreStates


(* The load unit answers the live load that the data cache responds to or, *)
(* for a misaligned load that waits, the load at the front.                *)
Faults(rid) == rid = NoResponse /\ load_state = "WAIT_TRANSLATION" /\ ex_q
Answered(n, rid) ==
  \/ store_state = "VALID_STORE" /\ store_req.n = n
  \/ rid # NoResponse /\ Live(rid) /\ ldbuf[rid].n = n
  \/ Faults(rid) /\ Front.n = n

LEMMA LoadAnswers ==
  ASSUME NEW rid \in Responses, LoadBuffer, LoadWaits
  PROVE  /\ LoadTaken(rid).valid <=> (rid # NoResponse /\ Live(rid)) \/ Faults(rid)
         /\ LoadTaken(rid).valid /\ rid # NoResponse =>
              LoadTaken(rid).n = ldbuf[rid].n /\ LoadTaken(rid).tid = ldbuf[rid].tid
         /\ LoadTaken(rid).valid /\ rid = NoResponse =>
              LoadTaken(rid).n = Front.n /\ LoadTaken(rid).tid = Front.tid
         /\ LoadTaken(rid).ex \in BOOLEAN
<1>1. LoadTypes
  BY DEF LoadBuffer
<1>2. ex_q \in BOOLEAN /\ tag_phase \in BOOLEAN
  BY <1>1 DEF LoadTypes
<1>3. CASE rid # NoResponse
  <2>1. /\ rid \in LoadIds
        /\ tag_phase /\ kill_req_o(ex_q) => rid = ldbuf_last_id
        /\ ~(tag_phase /\ kill_req_o(ex_q)) => ldbuf[rid].valid
    BY <1>1, <1>3, ResponseFacts
  <2>2. tag_phase => ldbuf[ldbuf_last_id].valid
    BY DEF LoadBuffer
  <2>3. ldbuf[rid].valid
    BY <2>1, <2>2
  <2>4. load_state \in {"SEND_TAG", "ABORT_TRANSACTION_NI"} => tag_phase
    BY DEF LoadBuffer
  <2>5. load_state = "WAIT_FLUSH" => ~Live(rid)
    BY <2>1 DEF LoadBuffer
  <2> DEFINE case == /\ ~ldbuf[rid].flushed
                     /\ \/ ldbuf_last_id # rid \/ ~kill_req_o(ex_q)
                        \/ load_state = "SEND_TAG" /\ ex_q
  <2>6. case <=> Live(rid)
    <3>1. case => Live(rid)
      BY <2>3 DEF Live, Killed, kill_req_o
    <3>2. Live(rid) => case
      BY <2>4, <2>5 DEF Live, Killed, kill_req_o
    <3> QED
      BY <3>1, <3>2
  <2>7. PICK e \in BOOLEAN : e = (load_state = "SEND_TAG" /\ ex_q)
    OBVIOUS
  <2>8. LoadTaken(rid) = IF case THEN [valid |-> TRUE, n |-> ldbuf[rid].n,
                                       tid |-> ldbuf[rid].tid, ex |-> e]
                         ELSE NoWriteback
    BY <1>3, <2>7 DEF LoadTaken, LoadWriteback
  <2> HIDE DEF case
  <2>9. CASE case
    BY <1>3, <2>6, <2>7, <2>8, <2>9 DEF Faults
  <2>10. CASE ~case
    BY <1>3, <2>6, <2>8, <2>10 DEF Faults, NoWriteback
  <2> QED
    BY <2>9, <2>10
<1>4. CASE rid = NoResponse
  <2>1. load_state = "WAIT_TRANSLATION" => LdValid
    BY DEF LoadWaits, Retrying
  <2>2. LoadTaken(rid) = IF Faults(rid) THEN [valid |-> TRUE, n |-> Front.n,
                                              tid |-> Front.tid, ex |-> TRUE]
                         ELSE NoWriteback
    BY <1>4, <2>1 DEF LoadTaken, LoadWriteback, Faults
  <2> QED
    BY <1>4, <2>2 DEF NoWriteback, Faults
<1> QED
  BY <1>3, <1>4

(* Every result is for the instruction that asked for it.                  *)
LEMMA WritebacksOwn ==
  ASSUME NEW rid \in Responses, NEW finish \in SUBSET Finishing, HeldInv
  PROVE  /\ Own(Writebacks(finish, rid))
         /\ \A n \in Window : instr[n].kind \in MemKinds =>
              (Completed(n, Writebacks(finish, rid)) <=> Answered(n, rid))
<1> DEFINE l == LoadTaken(rid)
           load == [tid |-> l.tid, n |-> l.n, ex |-> l.ex]
           store == [tid |-> store_req.tid, n |-> store_req.n, ex |-> ex_q]
           wbs == Writebacks(finish, rid)
<1>1. /\ Program /\ LoadBuffer /\ LoadWaits /\ StoreMachine /\ Holding
      /\ ex_q \in BOOLEAN
  BY DEF HeldInv, LoadBuffer, LoadTypes
<1>2. /\ l.valid <=> (rid # NoResponse /\ Live(rid)) \/ Faults(rid)
      /\ l.valid /\ rid # NoResponse => l.n = ldbuf[rid].n /\ l.tid = ldbuf[rid].tid
      /\ l.valid /\ rid = NoResponse => l.n = Front.n /\ l.tid = Front.tid
      /\ l.ex \in BOOLEAN
  BY <1>1, LoadAnswers
<1>3. store_valid_o(ex_q) <=> store_state = "VALID_STORE"
  BY <1>1 DEF StoreMachine, store_valid_o, store_exception
<1>4. rid # NoResponse => rid \in LoadIds
  BY <1>1, ResponseFacts DEF LoadBuffer
<1> HIDE DEF l
<1>5. \A w : w \in wbs <=> \/ l.valid /\ w = load
                           \/ store_state = "VALID_STORE" /\ w = store
                           \/ \E n \in finish : w = FluResult(n)
  <2>1. \A w : w \in {[tid |-> v.tid, n |-> v.n, ex |-> v.ex] : v \in {x \in {l} : x.valid}}
                 <=> l.valid /\ w = load
    OBVIOUS
  <2>2. \A w : w \in (IF store_valid_o(ex_q) THEN {store} ELSE {})
                 <=> store_state = "VALID_STORE" /\ w = store
    BY <1>3
  <2>3. \A w : w \in {FluResult(n) : n \in finish} <=> \E n \in finish : w = FluResult(n)
    OBVIOUS
  <2> QED
    BY <2>1, <2>2, <2>3 DEF Writebacks, l
<1>6. l.valid => /\ l.n \in Window /\ l.tid = Tid(l.n) /\ instr[l.n].result = NotDone
  <2>1. CASE rid # NoResponse
    BY <1>1, <1>2, <1>4, <2>1 DEF Holding, PendLoad, Faults
  <2>2. CASE rid = NoResponse
    BY <1>1, <1>2, <2>2 DEF Holding, Pend, Faults, LoadWaits, Retrying, LdValid
  <2> QED
    BY <2>1, <2>2
<1>7. store_state = "VALID_STORE" =>
        store_req.n \in Window /\ store_req.tid = Tid(store_req.n) /\ instr[store_req.n].result = NotDone
  BY <1>1 DEF Holding, Pend
<1>8. \A n \in finish : n \in Window /\ instr[n].kind \in OtherKinds /\ instr[n].result = NotDone
  BY DEF Finishing
<1>9. Own(wbs)
  <2> SUFFICES ASSUME NEW w \in wbs
               PROVE  /\ w.n \in Window /\ w.tid = Tid(w.n)
                      /\ instr[w.n].result = NotDone /\ w.ex \in BOOLEAN
    BY DEF Own
  <2>1. CASE l.valid /\ w = load
    BY <1>2, <1>6, <2>1
  <2>2. CASE store_state = "VALID_STORE" /\ w = store
    BY <1>1, <1>7, <2>2
  <2>3. CASE \E n \in finish : w = FluResult(n)
    BY <1>8, <2>3 DEF FluResult
  <2> QED
    BY <1>5, <2>1, <2>2, <2>3
<1>10. ASSUME NEW n \in Window, instr[n].kind \in MemKinds
       PROVE  Completed(n, wbs) <=> Answered(n, rid)
  <2>1. Completed(n, wbs) <=> \/ l.valid /\ l.n = n
                              \/ store_state = "VALID_STORE" /\ store_req.n = n
                              \/ \E m \in finish : m = n
    <3>1. \A m : FluResult(m).n = m
      BY DEF FluResult
    <3>2. load.n = l.n /\ store.n = store_req.n
      OBVIOUS
    <3> HIDE DEF load, store, wbs
    <3>3. Completed(n, wbs) => \/ l.valid /\ l.n = n
                               \/ store_state = "VALID_STORE" /\ store_req.n = n
                               \/ \E m \in finish : m = n
      BY <1>5, <3>1, <3>2 DEF Completed
    <3>4. l.valid /\ l.n = n => Completed(n, wbs)
      BY <1>5, <3>2 DEF Completed
    <3>5. store_state = "VALID_STORE" /\ store_req.n = n => Completed(n, wbs)
      BY <1>5, <3>2 DEF Completed
    <3>6. n \in finish => Completed(n, wbs)
      BY <1>5, <3>1 DEF Completed
    <3> QED
      BY <3>3, <3>4, <3>5, <3>6
  <2>2. n \notin finish
    BY <1>8, <1>10 DEF MemKinds, OtherKinds, LoadKinds, StoreKinds
  <2>3. l.valid /\ l.n = n <=> \/ rid # NoResponse /\ Live(rid) /\ ldbuf[rid].n = n
                               \/ Faults(rid) /\ Front.n = n
    BY <1>2 DEF Faults
  <2> QED
    BY <2>1, <2>2, <2>3 DEF Answered
<1> QED
  BY <1>9, <1>10


(* A request for an instruction that is not answered stays pending.        *)
LEMMA PendStays ==
  ASSUME NEW ack, NEW kind, NEW wbs, InstrMoves(ack, FALSE, kind, wbs),
         ack => instr[head].result # NotDone,
         NEW n \in Window, instr[n].result = NotDone, ~Completed(n, wbs)
  PROVE  /\ n \in Window' /\ Tid(n)' = Tid(n)
         /\ instr'[n].kind = instr[n].kind /\ instr'[n].addr = instr[n].addr
         /\ instr'[n].result = NotDone
<1>1. Stays(n, ack)
  BY DEF Stays
<1> QED
  BY <1>1 DEF InstrMoves

(* Nothing is answered while it is in the FIFO, except a misaligned load   *)
(* that leaves it; a load in flight is only answered by its response.      *)
LEMMA Unanswered ==
  ASSUME NEW rid \in Responses, Aligned, HeldInv
  PROVE  /\ Front.valid /\ ~Faults(rid) => ~Answered(Front.n, rid)
         /\ Behind.valid => ~Answered(Behind.n, rid)
         /\ \A i \in LoadIds : Live(i) /\ i # rid => ~Answered(ldbuf[i].n, rid)
<1>1. /\ Program /\ LoadBuffer /\ LoadWaits /\ StoreMachine /\ Holding /\ LoadTypes /\ Fifo
  BY DEF HeldInv, LoadBuffer
<1>2. rid # NoResponse => rid \in LoadIds
  BY <1>1, ResponseFacts
<1>3. Faults(rid) => Front.valid
  BY <1>1 DEF Faults, LoadWaits, Retrying, LdValid
<1>4. \A n \in Window : n \in Nat
  BY <1>1 DEF Program, Window, Last
<1>5. Front.valid => Front.n \in Nat
  BY <1>1, <1>4 DEF Holding, Pend
<1>6. Behind.valid => Front.valid /\ Front.n < Behind.n /\ Behind.n \in Nat
  BY <1>1, <1>4 DEF Holding, Pend
<1>7. store_state = "VALID_STORE" =>
        /\ store_req.n \in Nat /\ (Front.valid => store_req.n < Front.n)
        /\ instr[store_req.n].kind \notin LoadKinds
  <2>1. store_state = "VALID_STORE" => Pend(store_req) /\ store_req.fu \in {"STORE", "AMO"}
    BY <1>1 DEF Holding, StoreMachine
  <2> QED
    BY <1>1, <1>4, <2>1, AlignedStores DEF Holding, Pend
<1>8. \A i \in LoadIds : Live(i) =>
        /\ ldbuf[i].n \in Nat /\ (Front.valid => ldbuf[i].n < Front.n)
        /\ instr[ldbuf[i].n].kind \in LoadKinds
  BY <1>1, <1>4 DEF Holding, PendLoad
<1>9. \A i, j \in LoadIds : Live(i) /\ Live(j) /\ ldbuf[i].n = ldbuf[j].n => i = j
  BY <1>1 DEF Holding
<1>10. Front.valid /\ ~Faults(rid) => ~Answered(Front.n, rid)
  BY <1>2, <1>5, <1>7, <1>8 DEF Answered
<1>11. Behind.valid => ~Answered(Behind.n, rid)
  BY <1>2, <1>5, <1>6, <1>7, <1>8 DEF Answered
<1>12. ASSUME NEW i \in LoadIds, Live(i), i # rid PROVE ~Answered(ldbuf[i].n, rid)
  BY <1>2, <1>3, <1>5, <1>7, <1>8, <1>9, <1>12 DEF Answered
<1> QED
  BY <1>10, <1>11, <1>12

LEMMA HoldingStep ==
  ASSUME NEW ack, NEW kind, NEW wbs, NEW granted, NEW stall, NEW rid \in Responses, NEW popst,
         NEW pop, Aligned, HeldInv, Program',
         InstrMoves(ack, FALSE, kind, wbs), ack => instr[head].result # NotDone,
         \A n \in Window : instr[n].kind \in MemKinds => (Completed(n, wbs) <=> Answered(n, rid)),
         FifoMoves(pop), pop <=> (granted /\ ~stall) \/ Faults(rid) \/ popst,
         granted => /\ LdValid /\ ~Faults(rid)
                    /\ ldbuf_windex(rid) \in FreeIds \/ ldbuf_windex(rid) = rid,
         LoadMoves(granted, stall, rid), LoadIds' = LoadIds, ldbuf_windex(rid) \in LoadIds,
         popst => StValid, store_req' = Front, store_state' = "VALID_STORE" <=> popst
  PROVE  Holding'
<1>1. /\ Program /\ LoadBuffer /\ LoadWaits /\ StoreMachine /\ Holding /\ LoadTypes /\ Fifo
  BY DEF HeldInv, LoadBuffer
<1>2. /\ Front.valid /\ ~Faults(rid) => ~Answered(Front.n, rid)
      /\ Behind.valid => ~Answered(Behind.n, rid)
      /\ \A i \in LoadIds : Live(i) /\ i # rid => ~Answered(ldbuf[i].n, rid)
  BY Unanswered
<1>3. \A n \in Window : n \in Nat /\ n <= Last /\ Last \in Nat
  BY <1>1 DEF Program, Window, Last
<1>4. ASSUME NEW n \in Window, instr[n].kind \in MemKinds, instr[n].result = NotDone,
             ~Answered(n, rid)
      PROVE  /\ n \in Window' /\ Tid(n)' = Tid(n)
             /\ instr'[n].kind = instr[n].kind /\ instr'[n].addr = instr[n].addr
             /\ instr'[n].result = NotDone
  BY <1>4, PendStays
<1>5. ASSUME NEW r, Pend(r), ~Answered(r.n, rid)
      PROVE  Pend(r)'
  <2>1. /\ r.n \in Window' /\ Tid(r.n)' = Tid(r.n)
        /\ instr'[r.n].kind = instr[r.n].kind /\ instr'[r.n].addr = instr[r.n].addr
        /\ instr'[r.n].result = NotDone
    BY <1>4, <1>5 DEF Pend
  <2> QED
    BY <1>5, <2>1 DEF Pend
<1>6. fu_data'.valid => /\ ~Behind.valid /\ Pend(fu_data)' /\ fu_data'.n = Last + 1
  BY DEF FifoMoves, InstrMoves
<1>7. PICK front, behind : front = Front /\ behind = Behind
  OBVIOUS
<1>8. /\ front.valid => Pend(front) /\ front.n \in Window
      /\ behind.valid => /\ front.valid /\ Pend(behind) /\ front.n < behind.n
                         /\ behind.n \in Window
  BY <1>1, <1>7 DEF Holding, Pend
<1>9. /\ front.valid /\ ~Faults(rid) => Pend(front)'
      /\ behind.valid => Pend(behind)'
  BY <1>2, <1>5, <1>7, <1>8
<1>10. /\ Front'.valid => Pend(Front)'
       /\ Behind'.valid => Front'.valid /\ Pend(Behind)' /\ Front'.n < Behind'.n
       /\ front.valid /\ (pop \/ Front'.n # front.n) /\ Front'.valid => front.n < Front'.n
       /\ front.valid /\ Front'.valid => front.n <= Front'.n
       /\ ~front.valid /\ Front'.valid => Front'.n = Last + 1
       /\ Front'.valid => Front'.n \in Nat
  <2>1. CASE front.valid /\ ~pop
    <3>1. /\ Front' = front /\ (behind.valid => Behind' = behind)
          /\ ~behind.valid /\ Behind'.valid => Behind' = fu_data'
      BY <1>7, <2>1 DEF FifoMoves
    <3>2. Pend(front)' /\ front.n \in Nat /\ front.n <= Last /\ Last \in Nat
      BY <1>3, <1>8, <1>9, <2>1
    <3>3. Pend(Front)'
      BY <3>1, <3>2 DEF Pend
    <3>4. CASE behind.valid
      <4>1. Pend(Behind)'
        BY <1>9, <3>1, <3>4 DEF Pend
      <4> QED
        BY <1>8, <2>1, <3>1, <3>2, <3>3, <3>4, <4>1
    <3>5. CASE ~behind.valid /\ Behind'.valid
      <4>1. Behind' = fu_data' /\ fu_data'.valid
        BY <3>1, <3>5
      <4>2. Pend(Behind)'
        BY <1>6, <4>1 DEF Pend
      <4> QED
        BY <1>6, <2>1, <3>1, <3>2, <3>3, <4>1, <4>2
    <3>6. CASE ~behind.valid /\ ~Behind'.valid
      BY <2>1, <3>1, <3>2, <3>3, <3>6
    <3> QED
      BY <3>4, <3>5, <3>6
  <2>2. CASE ~(front.valid /\ ~pop)
    <3>1. /\ behind.valid => Front' = behind
          /\ ~behind.valid => Front' = fu_data'
          /\ ~Behind'.valid
      BY <1>7, <2>2 DEF FifoMoves
    <3>2. CASE behind.valid
      <4>1. Pend(Front)'
        BY <1>9, <3>1, <3>2 DEF Pend
      <4>2. front.valid /\ front.n < behind.n /\ front.n \in Nat /\ behind.n \in Nat
        BY <1>3, <1>8, <3>2
      <4> QED
        BY <3>1, <3>2, <4>1, <4>2
    <3>3. CASE ~behind.valid /\ fu_data'.valid
      <4>1. Front' = fu_data' /\ Pend(fu_data)' /\ fu_data'.n = Last + 1
        BY <1>6, <3>1, <3>3
      <4>2. Pend(Front)'
        BY <4>1 DEF Pend
      <4>3. front.valid => front.n \in Nat /\ front.n <= Last
        BY <1>3, <1>8
      <4>4. Last \in Nat
        BY <1>1 DEF Program, Last
      <4> QED
        BY <3>1, <4>1, <4>2, <4>3, <4>4
    <3>4. CASE ~behind.valid /\ ~fu_data'.valid
      BY <3>1, <3>4
    <3> QED
      BY <3>2, <3>3, <3>4
  <2> QED
    BY <2>1, <2>2
<1>11. store_state' = "VALID_STORE" =>
         Pend(store_req)' /\ (Front'.valid => store_req'.n < Front'.n)
  <2> SUFFICES ASSUME popst
               PROVE  Pend(store_req)' /\ (Front'.valid => store_req'.n < Front'.n)
    OBVIOUS
  <2>1. front.valid /\ ~Faults(rid) /\ store_req' = front /\ pop
    BY <1>1, <1>7 DEF StValid, Faults, LoadWaits, Retrying, LdValid
  <2>2. Pend(front)'
    BY <1>9, <2>1
  <2>3. Pend(store_req)'
    BY <2>1, <2>2 DEF Pend
  <2> QED
    BY <1>10, <2>1, <2>3
<1>12. \A i \in LoadIds : Sends(granted, stall, i, rid) =>
         /\ front.valid /\ front.fu = "LOAD" /\ Pend(front)' /\ pop
         /\ ldbuf'[i].n = front.n /\ ldbuf'[i].tid = front.tid /\ ldbuf'[i].addr = front.addr
  BY <1>7, <1>9 DEF Sends, LoadMoves, LdValid
<1>13. \A i \in LoadIds : ~Sends(granted, stall, i, rid) /\ Live(i)' =>
         /\ Live(i) /\ i # rid /\ ldbuf'[i].n = ldbuf[i].n /\ ldbuf'[i].tid = ldbuf[i].tid
         /\ ldbuf'[i].addr = ldbuf[i].addr
         /\ ldbuf[i].n \in Nat /\ (front.valid => ldbuf[i].n < front.n)
  BY <1>1, <1>3, <1>7 DEF LoadMoves, Holding, PendLoad
<1>14. ASSUME NEW i \in LoadIds, Live(i)'
       PROVE  PendLoad(i)' /\ (Front'.valid => ldbuf'[i].n < Front'.n)
  <2>1. CASE Sends(granted, stall, i, rid)
    <3>1. instr'[front.n].kind \in LoadKinds
      BY <1>12, <2>1 DEF Pend, UnitOf
    <3>2. PendLoad(i)'
      BY <1>12, <2>1, <3>1 DEF Pend, PendLoad
    <3> QED
      BY <1>10, <1>12, <2>1, <3>2
  <2>2. CASE ~Sends(granted, stall, i, rid)
    <3>1. PICK n : n = ldbuf[i].n
      OBVIOUS
    <3>2. /\ n \in Window /\ instr[n].kind \in LoadKinds /\ instr[n].result = NotDone
          /\ ldbuf[i].tid = Tid(n) /\ ldbuf[i].addr = instr[n].addr
          /\ ~Answered(n, rid) /\ instr[n].kind \in MemKinds
      BY <1>1, <1>2, <1>13, <1>14, <2>2, <3>1 DEF Holding, PendLoad, MemKinds
    <3>3. PendLoad(i)'
      <4>1. /\ n \in Window' /\ Tid(n)' = Tid(n)
            /\ instr'[n].kind = instr[n].kind /\ instr'[n].addr = instr[n].addr
            /\ instr'[n].result = NotDone
        BY <1>4, <3>2
      <4>2. ldbuf'[i].n = n /\ ldbuf'[i].tid = Tid(n) /\ ldbuf'[i].addr = instr[n].addr
        BY <1>13, <1>14, <2>2, <3>1, <3>2
      <4> QED
        BY <3>2, <4>1, <4>2 DEF PendLoad
    <3>4. CASE front.valid
      <4>1. front.n \in Nat /\ n < front.n /\ n \in Nat /\ ldbuf'[i].n = n
        BY <1>3, <1>8, <1>13, <1>14, <2>2, <3>1, <3>4
      <4> QED
        BY <1>10, <3>3, <3>4, <4>1
    <3>5. CASE ~front.valid
      <4>1. n \in Nat /\ n <= Last /\ Last \in Nat /\ ldbuf'[i].n = n
        BY <1>3, <1>13, <1>14, <2>2, <3>1, <3>2
      <4> QED
        BY <1>10, <3>3, <3>5, <4>1
    <3> QED
      BY <3>4, <3>5
  <2> QED
    BY <2>1, <2>2
<1>15. ASSUME NEW i \in LoadIds, NEW j \in LoadIds, Live(i)', Live(j)', ldbuf'[i].n = ldbuf'[j].n
       PROVE  i = j
  <2>1. CASE Sends(granted, stall, i, rid) /\ Sends(granted, stall, j, rid)
    BY <2>1 DEF Sends
  <2>2. CASE ~Sends(granted, stall, i, rid) /\ ~Sends(granted, stall, j, rid)
    BY <1>1, <1>13, <1>15, <2>2 DEF Holding
  <2>3. front.valid => front.n \in Nat
    BY <1>3, <1>8
  <2>4. CASE Sends(granted, stall, i, rid) /\ ~Sends(granted, stall, j, rid)
    BY <1>12, <1>13, <1>15, <2>3, <2>4
  <2>5. CASE ~Sends(granted, stall, i, rid) /\ Sends(granted, stall, j, rid)
    BY <1>12, <1>13, <1>15, <2>3, <2>5
  <2> QED
    BY <2>1, <2>2, <2>4, <2>5
<1>16. ASSUME NEW n \in Window', instr'[n].kind \in MemKinds, instr'[n].result = NotDone
       PROVE  Held(n)'
  <2>1. CASE n \in Window /\ Stays(n, ack)
    <3>1. /\ instr'[n].kind = instr[n].kind
          /\ instr'[n].result = IF Completed(n, wbs) THEN n ELSE instr[n].result
      BY <2>1 DEF InstrMoves
    <3>2. n \in Nat /\ NotDone \notin Nat
      BY <1>3, <2>1 DEF NotDone
    <3>3. ~Answered(n, rid) /\ Held(n)
      BY <1>1, <1>16, <2>1, <3>1, <3>2 DEF Holding
    <3>4. CASE front.valid /\ front.n = n
      <4>1. ~Faults(rid)
        BY <1>7, <3>3, <3>4 DEF Answered
      <4>2. CASE popst
        BY <1>7, <3>4, <4>2 DEF Held
      <4>3. CASE granted /\ ~stall
        <5>1. Sends(granted, stall, ldbuf_windex(rid), rid)
          BY <4>3 DEF Sends
        <5>2. PICK i \in LoadIds : Live(i)' /\ ldbuf'[i].n = n
          <6>1. PICK i : i = ldbuf_windex(rid)
            OBVIOUS
          <6> QED
            BY <5>1, <6>1, <1>7, <3>4 DEF LoadMoves
        <5> QED
          BY <5>2 DEF Held
      <4>4. CASE ~pop
        BY <1>7, <3>4, <4>4 DEF FifoMoves, Held
      <4> QED
        BY <4>1, <4>2, <4>3, <4>4
    <3>5. CASE behind.valid /\ behind.n = n
      <4>1. Front' = behind \/ Behind' = behind
        BY <1>7, <3>5 DEF FifoMoves
      <4> QED
        BY <3>5, <4>1 DEF Held
    <3>6. CASE store_state = "VALID_STORE" /\ store_req.n = n
      BY <3>3, <3>6 DEF Answered
    <3>7. CASE \E i \in LoadIds : Live(i) /\ ldbuf[i].n = n
      <4>1. PICK i \in LoadIds : Live(i) /\ ldbuf[i].n = n
        BY <3>7
      <4>2. i # rid
        BY <1>1, <3>3, <4>1, ResponseFacts DEF Answered, LoadIds, NoResponse
      <4>3. ~Sends(granted, stall, i, rid)
        <5>1. ldbuf[i].valid
          BY <4>1 DEF Live
        <5> QED
          BY <4>2, <5>1 DEF Sends, FreeIds
      <4>4. Live(i)' /\ ldbuf'[i].n = n
        BY <4>1, <4>2, <4>3 DEF LoadMoves
      <4> QED
        BY <4>4 DEF Held
    <3> QED
      BY <1>7, <3>3, <3>4, <3>5, <3>6, <3>7 DEF Held
  <2>2. CASE ~(n \in Window /\ Stays(n, ack))
    <3>1. n = Last + 1 /\ kind # "NONE" /\ instr'[n].kind = kind
      BY <2>2 DEF InstrMoves
    <3>2. fu_data'.valid /\ fu_data'.n = n
      BY <1>16, <3>1 DEF InstrMoves
    <3>3. Front' = fu_data' \/ Behind' = fu_data'
      BY <3>2 DEF FifoMoves
    <3> QED
      BY <3>2, <3>3 DEF Held
  <2> QED
    BY <2>1, <2>2
<1>17. Front'.valid => Pend(Front)'
  BY <1>10
<1> QED
  BY <1>10, <1>11, <1>14, <1>15, <1>16 DEF Holding


(* What one edge does to the whole.                                        *)
Popped(granted, stall, st, st_ready, rid) ==
  (granted /\ ~stall) \/ Faults(rid) \/ pop_st_o(st, Front, st_ready, ex_q)

EdgeMoves(kind, finish, rid, ack, f, st, granted, stall, st_ready) ==
  /\ ack => head \in Window /\ instr[head].result # NotDone
  /\ InstrMoves(ack, f, kind, Writebacks(finish, rid))
  /\ Last' \in {Last, Last + 1} /\ (Last' # Last => Last < MaxInstr)
  /\ \A n \in 1 .. Last : ~(n \in Window /\ Stays(n, ack)) => instr'[n] = instr[n]
  /\ \A n \in Window : instr[n].kind \in MemKinds =>
       (Completed(n, Writebacks(finish, rid)) <=> Answered(n, rid))
  /\ ~f => FifoMoves(Popped(granted, stall, st, st_ready, rid))
  /\ f => ~Front'.valid
  /\ pop_st_o(st, Front, st_ready, ex_q) => StValid
  /\ store_req' = Front
  /\ store_state' = "VALID_STORE" <=> ~f /\ pop_st_o(st, Front, st_ready, ex_q)
  /\ LoadEdge(granted, stall, f, rid)

LEMMA HeldEdge ==
  ASSUME NEW kind \in Kinds \cup {"NONE"}, NEW a \in Addrs, NEW finish \in SUBSET Finishing,
         NEW wbuffer_empty, NEW not_ni, NEW amo_ack, NEW st_gnt, NEW ld_gnt, NEW rid, NEW ack,
         NEW f, NEW valid, NEW st, NEW matches, NEW granted, NEW stall, NEW push, NEW st_ready,
         Aligned, HeldInv,
         Signals(wbuffer_empty, not_ni, amo_ack, ld_gnt, rid, ack, f, valid, st, matches,
                 granted, stall, push, st_ready),
         Wires(kind, a, finish, not_ni, amo_ack, st_gnt, rid, ack, f, valid, st, matches,
               granted, stall, push, st_ready)
  PROVE  /\ HeldInv'
         /\ EdgeMoves(kind, finish, rid, ack, f, st, granted, stall, st_ready)
<1>1. /\ Signals(wbuffer_empty, not_ni, amo_ack, ld_gnt, rid, ack, f, valid, st, matches,
                 granted, stall, push, st_ready)
      /\ Wires(kind, a, finish, not_ni, amo_ack, st_gnt, rid, ack, f, valid, st, matches,
               granted, stall, push, st_ready)
  OBVIOUS
<1> DEFINE wbs == Writebacks(finish, rid)
           popst == pop_st_o(st, Front, st_ready, ex_q)
           popld == pop_ld_o(granted, stall, ex_q, rid)
<1>2. /\ ack \in BOOLEAN /\ f \in BOOLEAN /\ valid \in BOOLEAN /\ st \in BOOLEAN
      /\ matches \in BOOLEAN /\ granted \in BOOLEAN /\ stall \in BOOLEAN /\ st_ready \in BOOLEAN
      /\ ack = commit_ack(wbuffer_empty, amo_ack) /\ f = flush(ack)
      /\ valid = LdValid /\ st = StValid
      /\ granted = (ld_gnt /\ data_req_o(valid, matches, rid))
  BY <1>1 DEF Signals
<1>3. /\ rid \in Responses /\ Fixed
      /\ CommitStage(ack, f)
      /\ Issue(kind, a, wbs, ack, f)
      /\ BypassClock(fu_data, popld, popst, f)
      /\ StoreUnitClock(st, Front, st_ready, ex_q, f, amo_valid_commit, amo_ack)
      /\ LoadUnitClock(valid, Front, matches, granted, stall, not_ni, ex_q, f, rid)
      /\ ex_q' = (Front.valid /\ Front.misaligned)
      /\ tag_phase' = granted
  BY <1>1 DEF Wires
<1> HIDE DEF wbs
<1>4. /\ Program /\ LoadBuffer /\ LoadWaits /\ StoreMachine /\ Holding /\ LoadTypes /\ Fifo
      /\ Elaborated
  BY DEF HeldInv, LoadBuffer, Program
<1>5. ack => head \in Window /\ instr[head].result # NotDone
  <2>1. ack => head_valid
    BY <1>2 DEF commit_ack
  <2> QED
    BY <1>4, <2>1 DEF head_valid, Window, Program, Last
<1>6. /\ Own(wbs)
      /\ \A n \in Window : instr[n].kind \in MemKinds => (Completed(n, wbs) <=> Answered(n, rid))
  BY <1>3, WritebacksOwn DEF wbs
<1>7. /\ Program' /\ InstrMoves(ack, f, kind, wbs)
      /\ fu_data' \in Requests
      /\ fu_data'.valid => bypass_empty /\ ~f
      /\ Last' \in {Last, Last + 1} /\ (Last' # Last => Last < MaxInstr)
      /\ \A n \in 1 .. Last : ~(n \in Window /\ Stays(n, ack)) => instr'[n] = instr[n]
  BY ONLY kind \in Kinds \cup {"NONE"}, a \in Addrs, <1>3, <1>4, <1>5, <1>6, ProgramStep
<1>8. /\ store_valid_o(ex_q) <=> store_state = "VALID_STORE"
      /\ popst => StValid
      /\ store_req' = Front
      /\ store_state' \in StoreStates
      /\ store_state' = "VALID_STORE" <=> ~f /\ popst
      /\ store_state' # "IDLE" => StValid /\ ~f
      /\ store_state' = "WAIT_STORE_READY" => ~popst
  BY <1>2, <1>3, <1>4, StoreStep
<1>9. Front \in Requests /\ ex_q' \in BOOLEAN /\ Front.valid \in BOOLEAN
  <2>1. Front \in Requests
    BY <1>4 DEF Fifo, Front, lsu_ctrl_o
  <2> QED
    BY <1>3, <2>1 DEF Requests
<1>10. /\ LoadBuffer'
       /\ granted => /\ LdValid /\ ldbuf_last_id' = ldbuf_windex(rid)
                     /\ \/ ldbuf_windex(rid) \in FreeIds
                        \/ ldbuf_windex(rid) = rid /\ LDBUF_FALLTHROUGH
       /\ f <=> load_state' = "WAIT_FLUSH"
       /\ f => \A i \in LoadIds : ~Live(i)'
       /\ ~f => LoadMoves(granted, stall, rid)
       /\ load_state' \in Retrying \cup {"ABORT_TRANSACTION_NI"} => LdValid /\ ~f /\ ~popld
       /\ load_state' = "ABORT_TRANSACTION_NI" => ldbuf'[ldbuf_last_id'].n = Front.n
  <2>1. (granted => data_req_o(valid, matches, rid)) /\ (valid <=> LdValid)
    BY <1>2
  <2> QED
    <3>1. LoadBuffer' /\ LoadEdge(granted, stall, f, rid)
      <4>1. granted \in BOOLEAN /\ f \in BOOLEAN /\ rid \in Responses
        BY <1>2, <1>3
      <4>2. Elaborated /\ Fixed /\ LoadBuffer /\ LoadWaits /\ Front \in Requests
        BY <1>3, <1>4, <1>9
      <4>3. LoadUnitClock(valid, Front, matches, granted, stall, not_ni, ex_q, f, rid)
        BY <1>3
      <4>4. tag_phase' = granted /\ ex_q' \in BOOLEAN
        BY <1>3, <1>9
      <4> QED
        BY ONLY <2>1, <4>1, <4>2, <4>3, <4>4, LoadStep
    <3> QED
      BY <3>1 DEF LoadEdge, popld
<1>12. granted => ~Faults(rid)
  BY <1>2 DEF Faults, data_req_o
<1>13. popld <=> (granted /\ ~stall) \/ Faults(rid)
  BY DEF pop_ld_o, Faults
<1>14. popld => LdValid
  BY <1>4, <1>10, <1>13 DEF Faults, LoadWaits, Retrying
<1>15. ~(LdValid /\ StValid) /\ (LdValid \/ StValid => Front.valid)
  BY DEF LdValid, StValid
<1>16. popld \in BOOLEAN /\ popst \in BOOLEAN
  BY DEF pop_ld_o, pop_st_o
<1> HIDE DEF popld, popst
<1>17. Fifo' /\ (~f => FifoMoves(popld \/ popst)) /\ (f => ~Front'.valid /\ ~Behind'.valid)
  <2>1. CASE f
    <3>1. BypassClock(fu_data, popld, popst, TRUE) /\ ~fu_data'.valid
      BY <1>2, <1>3, <1>7, <2>1
    <3> QED
      BY <1>3, <1>4, <1>7, <2>1, <3>1, FifoFlush
  <2>2. CASE ~f
    <3>1. BypassClock(fu_data, popld, popst, FALSE)
      BY <1>2, <1>3, <2>2
    <3> QED
      BY <1>3, <1>4, <1>7, <1>8, <1>14, <1>15, <1>16, <2>2, <3>1, FifoStep
  <2> QED
    BY <2>1, <2>2
<1>18. LoadIds' = LoadIds /\ Retrying' = Retrying /\ StoreStates' = StoreStates /\ Requests' = Requests
  BY <1>3, Unchanged DEF Fixed, LoadIds, NrLoadBufEntries, Retrying, StoreStates
<1>19. Holding'
  <2>1. CASE f
    <3>1. ~Front'.valid /\ ~Behind'.valid
      BY <1>17, <2>1
    <3>2. Window' = {}
      BY <1>7, <2>1 DEF InstrMoves
    <3>3. store_state' # "VALID_STORE" /\ \A i \in LoadIds' : ~Live(i)'
      BY <1>8, <1>10, <1>18, <2>1
    <3> QED
      BY <3>1, <3>2, <3>3 DEF Holding
  <2>2. CASE ~f
    <3>1. InstrMoves(ack, FALSE, kind, wbs)
      BY <1>2, <1>7, <2>2
    <3>2. PICK pop : pop = (popld \/ popst)
      OBVIOUS
    <3>3. FifoMoves(pop) /\ (pop <=> (granted /\ ~stall) \/ Faults(rid) \/ popst)
      BY <1>13, <1>17, <2>2, <3>2
    <3>4. PICK pst \in BOOLEAN : pst = popst
      BY <1>16
    <3>5. /\ granted => /\ LdValid /\ ~Faults(rid)
                        /\ ldbuf_windex(rid) \in FreeIds \/ ldbuf_windex(rid) = rid
          /\ LoadMoves(granted, stall, rid)
          /\ pop <=> (granted /\ ~stall) \/ Faults(rid) \/ pst
          /\ pst => StValid
          /\ store_state' = "VALID_STORE" <=> pst
      BY <1>8, <1>10, <1>12, <2>2, <3>3, <3>4
    <3>6. ldbuf_windex(rid) \in LoadIds
      BY <1>4, Windex
    <3> QED
      BY ONLY <1>3, <1>5, <1>6, <1>7, <1>8, <1>18, <3>1, <3>3, <3>5, <3>6, Aligned, HeldInv, HoldingStep
  <2> QED
    BY <2>1, <2>2
<1>20. LdValid /\ ~f /\ ~popld => LdValid' /\ Front' = Front
  BY <1>8, <1>15, <1>17 DEF FifoMoves, LdValid
<1>21. LoadWaits'
  BY <1>10, <1>18, <1>20 DEF LoadWaits
<1>22. StoreMachine'
  <2>1. /\ store_req' = Front /\ Front \in Requests' /\ store_state' \in StoreStates'
        /\ ex_q' <=> store_req'.valid /\ store_req'.misaligned
    BY <1>3, <1>8, <1>9, <1>18
  <2>2. StValid => ~Front.misaligned
    BY <1>4, AlignedStores DEF StValid, Holding
  <2>3. store_state' = "WAIT_STORE_READY" => StValid'
    <3> SUFFICES ASSUME store_state' = "WAIT_STORE_READY" PROVE StValid'
      OBVIOUS
    <3>1. StValid /\ ~f /\ ~popst /\ ~popld
      BY <1>8, <1>14, <1>15
    <3> QED
      BY <1>17, <3>1 DEF FifoMoves, StValid
  <2> QED
    BY <1>8, <2>1, <2>2, <2>3 DEF StoreMachine, StValid
<1>23. load_state' = "WAIT_FLUSH" => Window' = {}
  BY <1>7, <1>10 DEF InstrMoves
<1>24. HeldInv'
  BY <1>7, <1>10, <1>17, <1>19, <1>21, <1>22, <1>23 DEF HeldInv
<1>25. Popped(granted, stall, st, st_ready, rid) <=> popld \/ popst
  BY <1>13 DEF Popped, popst
<1>26. ~f => FifoMoves(Popped(granted, stall, st, st_ready, rid))
  BY <1>17, <1>25 DEF FifoMoves
<1>27. EdgeMoves(kind, finish, rid, ack, f, st, granted, stall, st_ready)
  BY <1>5, <1>6, <1>7, <1>8, <1>10, <1>17, <1>26 DEF EdgeMoves, wbs, popst, popld, LoadEdge
<1> QED
  BY <1>24, <1>27

LEMMA HeldStep ==
  ASSUME Aligned, HeldInv,
         NEW kind \in Kinds \cup {"NONE"}, NEW a \in Addrs, NEW finish \in SUBSET Finishing,
         NEW wbuffer_empty, NEW not_ni, NEW amo_ack, NEW wake, NEW st_gnt, NEW ld_gnt,
         NEW rid,
         Edge(kind, a, finish, wbuffer_empty, not_ni, amo_ack, wake, st_gnt, ld_gnt, rid)
  PROVE  /\ HeldInv'
         /\ tag_phase' => \/ ~ldbuf[ldbuf_last_id'].valid
                          \/ LDBUF_FALLTHROUGH
<1>1. PICK ack, f, valid, st, matches, granted, stall, push, st_ready :
        /\ Signals(wbuffer_empty, not_ni, amo_ack, ld_gnt, rid, ack, f, valid, st, matches,
                   granted, stall, push, st_ready)
        /\ Wires(kind, a, finish, not_ni, amo_ack, st_gnt, rid, ack, f, valid, st, matches,
                 granted, stall, push, st_ready)
  BY EdgeSignals
<1>2. HeldInv' /\ EdgeMoves(kind, finish, rid, ack, f, st, granted, stall, st_ready)
  BY <1>1, HeldEdge
<1>3. tag_phase' = granted
  BY <1>1 DEF Wires
<1>4. granted => /\ ldbuf_last_id' = ldbuf_windex(rid)
                 /\ ldbuf_windex(rid) \in FreeIds \/ LDBUF_FALLTHROUGH
  BY <1>2 DEF EdgeMoves, LoadEdge
<1> QED
  BY <1>2, <1>3, <1>4 DEF FreeIds


LEMMA HeldInit == Init => HeldInv
<1> SUFFICES ASSUME Init PROVE HeldInv
  OBVIOUS
<1>1. /\ Elaborated /\ BypassReset /\ StoreUnitReset(NoRequest) /\ LoadUnitReset
      /\ instr = <<>> /\ head = 1 /\ base = 1
      /\ ex_q = FALSE /\ tag_phase = FALSE
  BY DEF Init
<1>2. PICK a \in Addrs : fu_data = [NoRequest EXCEPT !.addr = a]
  BY DEF Init
<1>3. /\ NR_SB_ENTRIES \in Nat \ {0, 1} /\ NrLoadBufEntries \in Nat \ {0}
      /\ NoRequest \in Requests
  BY <1>1, Parameters, LoadBufAssumption, NoRequestType DEF Elaborated, NrLoadBufEntries
<1>4. fu_data \in Requests /\ ~fu_data.valid
  BY <1>2, <1>3 DEF Requests, NoRequest
<1>5. Last = 0 /\ Window = {}
  BY <1>1 DEF Last, Window
<1>6. Program
  BY <1>1, <1>3, <1>5 DEF Program
<1>7. Fifo /\ ~Front.valid /\ ~Behind.valid
  BY <1>1, <1>3, <1>4 DEF BypassReset, Fifo, Front, Behind, lsu_ctrl_o, bypass_empty, NoRequest
<1>8. /\ FreeEntry \in LoadEntries /\ ~FreeEntry.valid /\ 0 \in LoadIds
  BY <1>3 DEF FreeEntry, LoadEntries, LoadIds
<1>9. LoadTypes /\ \A i \in LoadIds : ~Live(i)
  BY <1>1, <1>8 DEF LoadUnitReset, LoadTypes, LoadStates, Live
<1>10. LoadBuffer /\ LoadWaits
  BY <1>1, <1>9 DEF LoadUnitReset, LoadBuffer, LoadWaits, Retrying
<1>11. StoreMachine /\ store_state = "IDLE"
  BY <1>1, <1>3 DEF StoreUnitReset, StoreMachine, StoreStates, NoRequest
<1>12. Holding
  BY <1>5, <1>7, <1>9, <1>11 DEF Holding
<1> QED
  BY <1>5, <1>6, <1>7, <1>10, <1>11, <1>12 DEF HeldInv

LEMMA HeldStutter == HeldInv /\ UNCHANGED vars => HeldInv'
<1> SUFFICES ASSUME HeldInv, UNCHANGED vars PROVE HeldInv'
  OBVIOUS
<1>1. /\ config' = config /\ instr' = instr /\ head' = head /\ base' = base
      /\ fu_data' = fu_data /\ ex_q' = ex_q /\ tag_phase' = tag_phase
      /\ bypass_mem' = bypass_mem /\ bypass_read_pointer' = bypass_read_pointer
      /\ bypass_write_pointer' = bypass_write_pointer /\ bypass_status_cnt' = bypass_status_cnt
      /\ store_state' = store_state /\ store_req' = store_req
      /\ load_state' = load_state /\ ldbuf' = ldbuf /\ ldbuf_last_id' = ldbuf_last_id
  BY DEF vars, bypassVars, storeUnitVars, loadUnitVars, pipelineVars
<1>2. /\ Requests' = Requests /\ Instructions' = Instructions /\ Kinds' = Kinds
      /\ NR_SB_ENTRIES' = NR_SB_ENTRIES /\ LoadIds' = LoadIds /\ LoadEntries' = LoadEntries
      /\ LoadStates' = LoadStates /\ Retrying' = Retrying /\ StoreStates' = StoreStates
  BY <1>1, Unchanged DEF Fixed, LoadIds, NrLoadBufEntries, LoadEntries, NR_SB_ENTRIES, Addrs,
       LoadStates, Retrying, StoreStates
<1>3. /\ Front' = Front /\ Behind' = Behind /\ Last' = Last /\ Window' = Window
      /\ FreeIds' = FreeIds
  BY <1>1, <1>2 DEF Front, Behind, lsu_ctrl_o, bypass_empty, Last, Window, FreeIds
<1>4. \A n : Tid(n)' = Tid(n)
  BY <1>1, <1>2 DEF Tid
<1>5. \A i : Live(i)' <=> Live(i)
  BY <1>1 DEF Live, Killed
<1>6. Program' /\ Fifo' /\ StoreMachine'
  BY <1>1, <1>2, <1>3 DEF HeldInv, Program, Fifo, StoreMachine, StValid, Elaborated
<1>7. LoadBuffer' /\ LoadWaits'
  BY <1>1, <1>2, <1>3, <1>5 DEF HeldInv, LoadBuffer, LoadTypes, LoadWaits, LdValid
<1>8. \A i \in LoadIds : PendLoad(i) => PendLoad(i)'
  BY <1>1, <1>3, <1>4 DEF PendLoad
<1>9. \A n : Held(n) => Held(n)'
  BY <1>1, <1>2, <1>3, <1>5 DEF Held
<1>10. /\ Pend(Front) => Pend(Front)'
       /\ Pend(Behind) => Pend(Behind)'
       /\ Pend(store_req) => Pend(store_req)'
  BY <1>1, <1>3, <1>4 DEF Pend
<1>11. Holding'
  BY <1>1, <1>2, <1>3, <1>5, <1>8, <1>9, <1>10 DEF HeldInv, Holding
<1> QED
  BY <1>1, <1>3, <1>6, <1>7, <1>11 DEF HeldInv

LEMMA HeldNext ==
  ASSUME Aligned, HeldInv, Next
  PROVE  /\ HeldInv'
         /\ tag_phase' => \/ ~ldbuf[ldbuf_last_id'].valid
                          \/ LDBUF_FALLTHROUGH
<1>1. PICK kind \in Kinds \cup {"NONE"}, a \in Addrs, finish \in Finishes,
           wbuffer_empty \in WbufferEmpty, not_ni \in WbufferNotNi, amo_ack \in AmoAcks,
           wake \in Wakes, st_gnt \in StoreGrants, ld_gnt \in BOOLEAN, rid \in Responses :
        Edge(kind, a, finish, wbuffer_empty, not_ni, amo_ack, wake, st_gnt, ld_gnt, rid)
  BY DEF Next, Cycle
<1>2. finish \in SUBSET Finishing
  BY DEF Finishes
<1> QED
  BY <1>1, <1>2, HeldStep

LEMMA AlignedStays == ASSUME [Next]_vars PROVE Aligned' <=> Aligned
<1>1. CASE Next
  <2>1. Fixed
    BY <1>1 DEF Next, Cycle, Edge
  <2> QED
    BY <2>1 DEF Fixed, Aligned, Kinds
<1>2. CASE UNCHANGED vars
  BY <1>2 DEF vars, Aligned, Kinds
<1> QED
  BY <1>1, <1>2

(* Where the memory instructions of a program without misaligned stores    *)
(* are, in every state.                                                    *)
THEOREM Holds == Spec => [](Aligned => HeldInv)
<1>1. Init => (Aligned => HeldInv)
  BY HeldInit
<1>2. (Aligned => HeldInv) /\ [Next]_vars => (Aligned => HeldInv)'
  BY HeldNext, HeldStutter, AlignedStays
<1> QED
  BY <1>1, <1>2, PTL DEF Spec


(* The registers of the FIFO hold the front and the request behind it,     *)
(* each in one of them.                                                    *)
InQueue(p, n) ==
  \/ p = <<"issue", 0>> /\ fu_data.valid /\ fu_data.n = n
  \/ \E i \in {0, 1} : p = <<"bypass", i>> /\ bypass_mem[i].valid /\ bypass_mem[i].n = n

LEMMA QueuePlaces ==
  ASSUME NEW n, Fifo, Behind.valid => Front.valid /\ Front.n # Behind.n
  PROVE  /\ (\E p : InQueue(p, n)) <=>
              (Front.valid /\ Front.n = n) \/ (Behind.valid /\ Behind.n = n)
         /\ \A p, q : InQueue(p, n) /\ InQueue(q, n) => p = q
<1> DEFINE r == bypass_read_pointer
           Mem(p, i) == p = <<"bypass", i>> /\ bypass_mem[i].valid /\ bypass_mem[i].n = n
           Reg(p) == p = <<"issue", 0>> /\ fu_data.valid /\ fu_data.n = n
<1>1. /\ r \in {0, 1} /\ bypass_status_cnt \in {0, 1, 2} /\ ~NoRequest.valid
      /\ bypass_mem[r].valid <=> bypass_status_cnt # 0
      /\ bypass_mem[1 - r].valid <=> bypass_status_cnt = 2
      /\ bypass_status_cnt = 2 => ~fu_data.valid
  BY DEF Fifo, NoRequest
<1>2. {0, 1} = {r, 1 - r}
  BY <1>1
<1>3. \A p : InQueue(p, n) <=> Reg(p) \/ Mem(p, r) \/ Mem(p, 1 - r)
  BY <1>2 DEF InQueue
<1>4. /\ \E p : p = <<"bypass", r>>
      /\ \E p : p = <<"bypass", 1 - r>>
      /\ \E p : p = <<"issue", 0>>
  OBVIOUS
<1>5. CASE bypass_status_cnt = 0
  <2>1. Front = fu_data /\ ~Behind.valid
    BY <1>1, <1>5 DEF Front, Behind, lsu_ctrl_o, bypass_empty
  <2> QED
    BY <1>1, <1>3, <1>4, <1>5, <2>1
<1>6. CASE bypass_status_cnt = 1
  <2>1. Front = bypass_mem[r] /\ Behind = fu_data
    BY <1>1, <1>6 DEF Front, Behind, lsu_ctrl_o, bypass_empty
  <2> QED
    BY <1>1, <1>3, <1>4, <1>6, <2>1
<1>7. CASE bypass_status_cnt = 2
  <2>1. Front = bypass_mem[r] /\ Behind = bypass_mem[1 - r]
    BY <1>1, <1>7 DEF Front, Behind, lsu_ctrl_o, bypass_empty
  <2> QED
    BY <1>1, <1>3, <1>4, <1>7, <2>1
<1> QED
  BY <1>1, <1>5, <1>6, <1>7

(* An instruction is in no place that is not held, and in one of the three *)
(* parts only.                                                             *)
LEMMA InPlaces ==
  ASSUME NEW n
  PROVE  /\ \A p : p \in Places(n) <=>
              \/ InQueue(p, n)
              \/ p = <<"store", 0>> /\ store_state = "VALID_STORE" /\ store_req.n = n
              \/ \E i \in LoadIds :
                   /\ p = <<"load", i>>
                   /\ ldbuf[i].valid /\ ~ldbuf[i].flushed /\ ldbuf[i].n = n
                   /\ ~(load_state = "ABORT_TRANSACTION_NI" /\ i = ldbuf_last_id)
<1> DEFINE A == {<<"issue", 0>> : x \in {y \in {fu_data} : y.valid /\ y.n = n}}
           B == {<<"bypass", i>> : i \in {j \in {0, 1} : bypass_mem[j].valid /\ bypass_mem[j].n = n}}
           C == {<<"store", 0>> : x \in {y \in {store_req} : store_state = "VALID_STORE" /\ y.n = n}}
           D == {<<"load", i>> : i \in {j \in LoadIds :
                   /\ ldbuf[j].valid /\ ~ldbuf[j].flushed /\ ldbuf[j].n = n
                   /\ ~(load_state = "ABORT_TRANSACTION_NI" /\ j = ldbuf_last_id)}}
<1>1. \A p : p \in A <=> p = <<"issue", 0>> /\ fu_data.valid /\ fu_data.n = n
  OBVIOUS
<1>2. \A p : p \in B <=> \E i \in {0, 1} : p = <<"bypass", i>> /\ bypass_mem[i].valid /\ bypass_mem[i].n = n
  OBVIOUS
<1>3. \A p : p \in C <=> p = <<"store", 0>> /\ store_state = "VALID_STORE" /\ store_req.n = n
  OBVIOUS
<1>4. \A p : p \in D <=> \E i \in LoadIds :
                   /\ p = <<"load", i>>
                   /\ ldbuf[i].valid /\ ~ldbuf[i].flushed /\ ldbuf[i].n = n
                   /\ ~(load_state = "ABORT_TRANSACTION_NI" /\ i = ldbuf_last_id)
  OBVIOUS
<1>5. Places(n) = A \cup B \cup C \cup D
  BY DEF Places
<1> HIDE DEF A, B, C, D
<1>6. \A p : p \in A \cup B <=> InQueue(p, n)
  BY <1>1, <1>2 DEF InQueue
<1> QED
  BY <1>3, <1>4, <1>5, <1>6


LEMMA OnePlace ==
  ASSUME Aligned, HeldInv, NEW n \in Window, instr[n].kind \in MemKinds
  PROVE  /\ instr[n].result # NotDone => Places(n) = {}
         /\ instr[n].result = NotDone => \E p : Places(n) = {p}
<1>1. /\ Program /\ LoadBuffer /\ LoadWaits /\ StoreMachine /\ Holding /\ LoadTypes /\ Fifo
      /\ load_state # "WAIT_FLUSH"
  BY DEF HeldInv, LoadBuffer
<1>2. \A m \in Window : m \in Nat
  BY <1>1 DEF Program, Window, Last
<1>3. \A i \in LoadIds : Live(i) <=>
        /\ ldbuf[i].valid /\ ~ldbuf[i].flushed
        /\ ~(load_state = "ABORT_TRANSACTION_NI" /\ i = ldbuf_last_id)
  BY <1>1 DEF Live, Killed, LoadBuffer
<1> DEFINE InStore(p) == p = <<"store", 0>> /\ store_state = "VALID_STORE" /\ store_req.n = n
           InLoad(p) == \E i \in LoadIds : p = <<"load", i>> /\ Live(i) /\ ldbuf[i].n = n
           front == Front.valid /\ Front.n = n
           behind == Behind.valid /\ Behind.n = n
<1>4. \A p : p \in Places(n) <=> InQueue(p, n) \/ InStore(p) \/ InLoad(p)
  BY <1>3, InPlaces
<1>5. /\ Front.valid => Front.n \in Nat
      /\ Behind.valid => Front.valid /\ Front.n \in Nat /\ Behind.n \in Nat /\ Front.n < Behind.n
      /\ store_state = "VALID_STORE" =>
           /\ store_req.n \in Nat /\ (Front.valid => store_req.n < Front.n)
           /\ instr[store_req.n].kind \notin LoadKinds
      /\ \A i \in LoadIds : Live(i) =>
           /\ ldbuf[i].n \in Nat /\ (Front.valid => ldbuf[i].n < Front.n)
           /\ instr[ldbuf[i].n].kind \in LoadKinds
  <2>1. store_state = "VALID_STORE" => instr[store_req.n].kind \notin LoadKinds
    BY <1>1, AlignedStores DEF Holding, StoreMachine
  <2> QED
    BY <1>1, <1>2, <2>1 DEF Holding, Pend, PendLoad
<1>6. /\ (\E p : InQueue(p, n)) <=> front \/ behind
      /\ \A p, q : InQueue(p, n) /\ InQueue(q, n) => p = q
  BY <1>1, <1>5, QueuePlaces
<1>7. (\E p : InStore(p)) <=> store_state = "VALID_STORE" /\ store_req.n = n
  OBVIOUS
<1>8. (\E p : InLoad(p)) <=> \E i \in LoadIds : Live(i) /\ ldbuf[i].n = n
  OBVIOUS
<1>9. \A p, q : InLoad(p) /\ InLoad(q) => p = q
  BY <1>1 DEF Holding
<1>10. \A p, q : /\ ~(InQueue(p, n) /\ InStore(q))
                 /\ ~(InQueue(p, n) /\ InLoad(q))
                 /\ ~(InStore(p) /\ InLoad(q))
  BY <1>5, <1>6
<1>11. \A p, q : InStore(p) /\ InStore(q) => p = q
  OBVIOUS
<1>12. instr[n].result = NotDone => \E p : p \in Places(n)
  <2> SUFFICES ASSUME instr[n].result = NotDone PROVE \E p : p \in Places(n)
    OBVIOUS
  <2>1. Held(n)
    BY <1>1 DEF Holding
  <2>2. \E p : InQueue(p, n) \/ InStore(p) \/ InLoad(p)
    BY <1>6, <1>7, <1>8, <2>1 DEF Held
  <2> QED
    BY <1>4, <2>2
<1>13. instr[n].result # NotDone => \A p : p \notin Places(n)
  <2> SUFFICES ASSUME instr[n].result # NotDone, NEW p, p \in Places(n) PROVE FALSE
    OBVIOUS
  <2>1. InQueue(p, n) => front \/ behind
    BY <1>6
  <2> QED
    BY <1>1, <1>4, <2>1 DEF Holding, Pend, PendLoad
<1> HIDE DEF InStore, InLoad
<1>14. \A p, q : p \in Places(n) /\ q \in Places(n) => p = q
  BY <1>4, <1>6, <1>9, <1>10, <1>11
<1>15. Places(n) # {} => \E p : Places(n) = {p}
  <2> SUFFICES ASSUME NEW p \in Places(n) PROVE \E q : Places(n) = {q}
    OBVIOUS
  <2>1. Places(n) = {p}
    BY <1>14
  <2> QED
    BY <2>1
<1> QED
  BY <1>12, <1>13, <1>15

-----------------------------------------------------------------------------
(* A result is only ever given to the instruction that computed it, however*)
(* often its identifier was used before: identifiers restart at a flush,   *)
(* while loads of squashed instructions are still in flight.               *)
THEOREM ResultsAreTheirOwn == Spec => [](Aligned => ResultsAreOwn)
<1>1. HeldInv => ResultsAreOwn
  BY DEF HeldInv, Program, ResultsAreOwn
<1>2. Spec => [](Aligned => HeldInv)
  BY Holds
<1> QED
  BY <1>1, <1>2, PTL

(* A memory instruction that is not done is in exactly one of the issue    *)
(* register, the FIFO, the store unit and the load buffer, and one that is *)
(* done is in none: none is lost, executed twice or answered twice.        *)
THEOREM NothingIsLost == Spec => [](Aligned => NoMemoryInstructionLost)
<1>1. ASSUME Aligned => HeldInv, Aligned PROVE NoMemoryInstructionLost
  <2> SUFFICES ASSUME NEW n \in Window, instr[n].kind \in MemKinds
               PROVE  Cardinality(Places(n)) = IF instr[n].result = NotDone THEN 1 ELSE 0
    BY DEF NoMemoryInstructionLost
  <2>1. CASE instr[n].result = NotDone
    <3>1. PICK p : Places(n) = {p}
      BY <1>1, <2>1, OnePlace
    <3> QED
      BY <2>1, <3>1, FS_Singleton
  <2>2. CASE instr[n].result # NotDone
    BY <1>1, <2>2, OnePlace, FS_EmptySet
  <2> QED
    BY <2>1, <2>2
<1>2. (Aligned => HeldInv) => (Aligned => NoMemoryInstructionLost)
  BY <1>1
<1>3. Spec => [](Aligned => HeldInv)
  BY Holds
<1> QED
  BY <1>2, <1>3, PTL

(* "If they are not ready the LSU control should keep the last applied     *)
(* signals stable": a load unit that waits for a grant, for a store to     *)
(* drain or for its turn sees a load at the front of the FIFO.             *)
THEOREM WaitingLoadsSeeTheirRequest == Spec => [](Aligned => WaitingLoadKeepsRequest)
<1>1. HeldInv => WaitingLoadKeepsRequest
  BY DEF HeldInv, LoadWaits, Retrying, LdValid, Front, WaitingLoadKeepsRequest
<1>2. Spec => [](Aligned => HeldInv)
  BY Holds
<1> QED
  BY <1>1, <1>2, PTL

(* A request is only sent when the load buffer has an entry for it, so an  *)
(* answer is never given to the wrong load.                                *)
THEOREM EntriesAreNotOverwritten == Spec /\ Aligned => LoadEntriesNotOverwritten
<1>1. (Aligned => HeldInv) /\ Aligned /\ [Next]_vars =>
        [tag_phase' => ~ldbuf[ldbuf_last_id'].valid \/ LDBUF_FALLTHROUGH]_vars
  BY HeldNext
<1>3. Aligned /\ [Next]_vars => Aligned'
  BY AlignedStays
<1>2. Spec => [](Aligned => HeldInv)
  BY Holds
<1> QED
  BY <1>1, <1>2, <1>3, PTL DEF Spec, LoadEntriesNotOverwritten


=============================================================================
