-------------------------------- MODULE Lsu --------------------------------
(***************************************************************************)
(* The load-store unit in the pipeline: the bypass FIFO, store unit, load  *)
(* unit and store buffer of core/load_store_unit.sv, between the issue     *)
(* register and the scoreboard on one side and the data cache on the       *)
(* other, with the commit stage and the flush it causes (controller).      *)
(* A step is one clock edge.  Instructions are numbered in program order   *)
(* of issue; a flush squashes every instruction younger than the head and  *)
(* the core issues new ones.  One commit port, one issue port, no MMU.     *)
(***************************************************************************)
EXTENDS LsuBypass, StoreUnit, LoadUnit, Sequences, FiniteSetsExt

CONSTANTS DEPTH_SPEC, DEPTH_COMMIT

NR_SB_ENTRIES == config.NR_SB_ENTRIES   \* scoreboard entries
SingleStep == config.SingleStep         \* dcsr.step is set by the debugger
Kinds == config.Kinds                   \* kinds of instruction the program has
Addrs == config.Addrs                   \* address granules (vaddr[11:3])
MaxInstr == config.MaxInstr             \* bound: instructions issued
LongestRun == Max({c.MaxInstr : c \in Configs})

(* LOAD_X and STORE_X are misaligned, OTHER is for the other units (ALU,   *)
(* multiplier, divider, coprocessor), TRAP is an instruction with an       *)
(* exception, CSR one whose side effect flushes the pipeline.              *)
LoadKinds == {"LOAD", "LOAD_X"}
StoreKinds == {"STORE", "STORE_X"}
MemKinds == LoadKinds \cup StoreKinds \cup {"AMO"}
OtherKinds == {"OTHER", "TRAP", "CSR", "FENCE", "WFI", "DRET"}

ASSUME ScoreboardAssumption == \A c \in Configs : c.NR_SB_ENTRIES \in Nat \ {0, 1}
ASSUME KindsAssumption ==
  \A c \in Configs : /\ c.Kinds \subseteq MemKinds \cup OtherKinds
                     /\ "AMO" \in c.Kinds => c.RVA      \* the decoder rejects it otherwise
ASSUME AddrsAssumption ==
  \A c \in Configs : c.Addrs # {} /\ c.NonIdempotent \subseteq c.Addrs
ASSUME QueuesAssumption == DEPTH_SPEC \in Nat \ {0, 1} /\ DEPTH_COMMIT \in Nat \ {0, 1}
(* Identifiers and pointers are registers of $clog2 bits that wrap at the  *)
(* end of the arrays: scoreboard.sv:323, ariane_pkg.sv:34 and :42.         *)
ASSUME PowersAssumption ==
  \A size \in {DEPTH_SPEC, DEPTH_COMMIT} \cup {c.NR_SB_ENTRIES : c \in Configs} :
    \E k \in 1 .. size : size = 2^k
ASSUME BoundAssumption ==
  LongestRun \in Nat /\ \A c \in Configs : c.MaxInstr \in 0 .. LongestRun

VARIABLES
  speculative_queue, speculative_read_pointer, speculative_write_pointer,
  speculative_status_cnt,
  commit_queue, commit_read_pointer, commit_write_pointer, commit_status_cnt,
  written,                  \* history: instructions whose store the cache granted
  instr,                    \* the instructions issued so far, with their results
  head,                     \* the instruction at the commit port
  base,                     \* the first instruction issued after the last flush
  fu_data,                  \* the issue register (fu_data_q, lsu_valid_q)
  ex_q,                     \* misaligned_exception of the cycle before
  tag_phase,                \* the data cache granted a load in the cycle before
  wfi, debug_mode,
  committed                 \* history: the stores that committed, in order

storeBufferVars == <<speculative_queue, speculative_read_pointer, speculative_write_pointer,
                     speculative_status_cnt, commit_queue, commit_read_pointer,
                     commit_write_pointer, commit_status_cnt, written>>
pipelineVars == <<instr, head, base, fu_data, wfi, debug_mode, committed>>
vars == <<config, storeBufferVars, bypassVars, storeUnitVars, loadUnitVars, pipelineVars,
          ex_q, tag_phase>>

SB == INSTANCE StoreBuffer WITH MaxStore <- LongestRun, issued <- Len(instr)

----------------------------------------------------------------------------
(* The scoreboard, seen from the load-store unit.  An identifier is the    *)
(* position in the ring; a flush restarts the ring at 0.  The result of an *)
(* instruction is the number of the instruction that computed it.          *)

NotDone == -1
Squashed == [kind |-> "SQUASHED", addr |-> CHOOSE a \in Addrs : TRUE, result |-> NotDone,
             ex |-> FALSE]
Last == Len(instr)
Window == head .. Last
Tid(n) == (n - base) % NR_SB_ENTRIES
(* Mutant of issue_full: off by one.                                       *)
issue_full_OffByOne == Last - head = NR_SB_ENTRIES
issue_full == Last + 1 - head = NR_SB_ENTRIES

(* A writeback is taken by the entry with its identifier, if one is issued.*)
Taken(n, writebacks) ==
  IF \E w \in writebacks : w.tid = Tid(n)
  THEN LET w == CHOOSE w \in writebacks : w.tid = Tid(n)
       IN  [instr[n] EXCEPT !.result = w.n, !.ex = instr[n].ex \/ w.ex]
  ELSE instr[n]

(* commit_stage.sv, one commit port: what the head does in this cycle.     *)
head_valid == head <= Last /\ instr[head].result # NotDone /\ ~wfi
exception == head_valid /\ instr[head].ex
(* Mutants of commit_lsu: a store commits into a full queue; one with an   *)
(* exception commits.                                                      *)
commit_lsu_NotReady == head_valid /\ ~instr[head].ex /\ instr[head].kind \in StoreKinds
commit_lsu_Exception == head_valid /\ instr[head].kind \in StoreKinds /\ SB!commit_ready_o

commit_lsu == head_valid /\ ~instr[head].ex /\ instr[head].kind \in StoreKinds
              /\ SB!commit_ready_o
amo_valid_commit == head_valid /\ ~instr[head].ex /\ instr[head].kind = "AMO"

(* Mutant of commit_ack: a fence does not wait for the stores.             *)
commit_ack_NoWait(wbuffer_empty, amo_ack) ==
  /\ head_valid
  /\ ~instr[head].ex
  /\ instr[head].kind \in StoreKinds => commit_lsu
  /\ instr[head].kind = "AMO" => amo_ack

commit_ack(wbuffer_empty, amo_ack) ==
  /\ head_valid
  /\ ~instr[head].ex
  /\ instr[head].kind \in StoreKinds => commit_lsu
  /\ instr[head].kind = "FENCE" => SB!no_st_pending_o /\ wbuffer_empty
  /\ instr[head].kind = "AMO" => amo_ack

(* controller.sv: flush_id_o and flush_ex_o.  Single step: csr_regfile.sv  *)
(* enters debug mode in the cycle an instruction is acknowledged.          *)
enters_debug(ack) == SingleStep /\ ~debug_mode /\ ack
flush(ack) ==
  \/ exception
  \/ ack /\ instr[head].kind \in {"FENCE", "CSR", "AMO", "DRET"}
  \/ enters_debug(ack)

CommitStage(ack, flush_i) ==
  /\ head' = IF flush_i THEN Last + 1 ELSE IF ack THEN head + 1 ELSE head
  /\ base' = IF flush_i THEN Last + 1 ELSE base
  /\ committed' = IF commit_lsu THEN Append(committed, head) ELSE committed
  /\ debug_mode' = IF enters_debug(ack) THEN TRUE
                   ELSE debug_mode /\ ~(ack /\ instr[head].kind = "DRET")

(* WFI halts the commit stage until an interrupt is pending.               *)
Wfi(ack, wake) == wfi' = IF wfi THEN ~wake ELSE ack /\ instr[head].kind = "WFI"

(* issue_read_operands.sv: the issue register always follows the operands  *)
(* and the identifier of the instruction offered, valid or not.            *)
may_issue(kind, flush_i) ==
  /\ Last < MaxInstr
  /\ ~issue_full
  /\ ~flush_i
  /\ kind \in MemKinds => lsu_ready_o

Request(kind, a) ==
  [valid |-> kind \in MemKinds,
   fu |-> CASE kind \in LoadKinds -> "LOAD" [] kind \in StoreKinds -> "STORE"
            [] kind = "AMO" -> "AMO" [] OTHER -> "NONE",
   n |-> IF kind \in MemKinds THEN Last + 1 ELSE 0,
   tid |-> Tid(Last + 1), addr |-> a, misaligned |-> kind \in {"LOAD_X", "STORE_X"}]

Issue(kind, a, writebacks, ack, flush_i) ==
  /\ kind # "NONE" => may_issue(kind, flush_i)
  /\ fu_data' = Request(kind, a)
  /\ LET issued == [kind |-> kind,
                    addr |-> IF kind \in MemKinds THEN a ELSE Squashed.addr,
                    result |-> NotDone, ex |-> kind = "TRAP"]
         kept == [n \in DOMAIN instr |->
                    IF n < head \/ (n = head /\ ack) THEN instr[n]
                    ELSE IF flush_i THEN Squashed ELSE Taken(n, writebacks)]
     IN  instr' = IF kind = "NONE" THEN kept ELSE Append(kept, issued)

(* The fixed-latency units and the coprocessor finish in any order.        *)
FluResult(n) == [tid |-> Tid(n), n |-> n, ex |-> FALSE]
Finishing == {n \in Window : instr[n].kind \in OtherKinds /\ instr[n].result = NotDone}

----------------------------------------------------------------------------
(* Mutant of page_offset_matches: forgets the store on its way to the      *)
(* queue.                                                                  *)
page_offset_matches_QueuesOnly(a) ==
  \E q \in {commit_queue, speculative_queue} : \E i \in DOMAIN q :
    q[i].valid /\ instr[q[i].store].addr = a

(* address_checker of store_buffer.sv: a load whose granule matches a      *)
(* buffered store, or the store the store unit is handing over, waits.     *)
page_offset_matches(a) ==
  \/ \E q \in {commit_queue, speculative_queue} : \E i \in DOMAIN q :
       q[i].valid /\ instr[q[i].store].addr = a
  \/ st_valid_without_flush /\ store_req.addr = a

(* One edge.  load_store_unit.sv wires the four parts together; ex_q is    *)
(* its stage of registers in place of an MMU.  A response of the data      *)
(* cache answers an outstanding load, in any order; a request killed in    *)
(* its tag cycle is answered in that cycle (external cache).               *)
Responses ==
  IF tag_phase /\ kill_req_o(ex_q) THEN {ldbuf_last_id}
  ELSE {NoResponse} \cup (LoadIds \ FreeIds)

Edge(kind, a, finish, wbuffer_empty, wbuffer_not_ni, amo_ack, wake, st_gnt, ld_gnt, rid) ==
  LET ack == commit_ack(wbuffer_empty, amo_ack)
      flush_i == flush(ack)
      lsu_ctrl == lsu_ctrl_o(fu_data)
      ld_valid_i == lsu_ctrl.valid /\ lsu_ctrl.fu = "LOAD"
      st_valid_i == lsu_ctrl.valid /\ lsu_ctrl.fu \in {"STORE", "AMO"}
      matches == page_offset_matches(lsu_ctrl.addr)
      granted == ld_gnt /\ data_req_o(ld_valid_i, matches, rid)
      stall == stall_ni(lsu_ctrl, Tid(head), wbuffer_not_ni, SB!store_buffer_empty_o)
      push == store_buffer_valid(ex_q, flush_i)
      st_ready == SB!ready_o(push, commit_lsu, flush_i) /\ (amo_buffer_ready \/ ~RVA)
      load == LoadWriteback(ld_valid_i, lsu_ctrl, ex_q, rid)
      writebacks ==
        {[tid |-> w.tid, n |-> w.n, ex |-> w.ex] : w \in {v \in {load} : v.valid}}
          \cup (IF store_valid_o(ex_q)
                THEN {[tid |-> store_req.tid, n |-> store_req.n, ex |-> ex_q]} ELSE {})
          \cup {FluResult(n) : n \in finish}
  IN  /\ rid \in Responses
      /\ Fixed
      /\ CommitStage(ack, flush_i)
      /\ Wfi(ack, wake)
      /\ Issue(kind, a, writebacks, ack, flush_i)
      /\ BypassClock(fu_data, pop_ld_o(granted, stall, ex_q, rid),
                     pop_st_o(st_valid_i, lsu_ctrl, st_ready, ex_q), flush_i)
      /\ StoreUnitClock(st_valid_i, lsu_ctrl, st_ready, ex_q, flush_i, amo_valid_commit, amo_ack)
      /\ SB!Clock(push, store_req.n, commit_lsu, flush_i, FALSE, st_gnt)
      /\ LoadUnitClock(ld_valid_i, lsu_ctrl, matches, granted, stall, wbuffer_not_ni,
                       ex_q, flush_i, rid)
      /\ ex_q' = (lsu_ctrl.valid /\ lsu_ctrl.misaligned)
      /\ tag_phase' = granted

(* The signals of the environment, where the core looks at them.           *)
AmoAcks == IF amo_req_o(SB!no_st_pending_o, amo_valid_commit) THEN BOOLEAN ELSE {FALSE}
WbufferEmpty == IF head_valid /\ instr[head].kind = "FENCE" THEN BOOLEAN ELSE {TRUE}
WbufferNotNi == IF NonIdempotent = {} THEN {TRUE} ELSE BOOLEAN
StoreGrants == IF SB!data_req(FALSE) THEN BOOLEAN ELSE {FALSE}
Finishes == {{}} \cup {{n} : n \in Finishing}

Cycle(Finish, Empty, NotNi, Acks, Wake, StGrants, LdGrants, Rids) ==
  \E kind \in Kinds \cup {"NONE"}, a \in Addrs, finish \in Finish, wbuffer_empty \in Empty,
     wbuffer_not_ni \in NotNi, amo_ack \in Acks, wake \in Wake, st_gnt \in StGrants,
     ld_gnt \in LdGrants, rid \in Rids :
       Edge(kind, a, finish, wbuffer_empty, wbuffer_not_ni, amo_ack, wake, st_gnt, ld_gnt, rid)

Wakes == IF wfi THEN BOOLEAN ELSE {FALSE}
Next == Cycle(Finishes, WbufferEmpty, WbufferNotNi, AmoAcks, Wakes, StoreGrants, BOOLEAN,
              Responses)

Init ==
  /\ Elaborated
  /\ SB!Reset
  /\ BypassReset
  /\ StoreUnitReset(NoRequest)
  /\ LoadUnitReset
  /\ instr = <<>>
  /\ head = 1
  /\ base = 1
  /\ fu_data \in {[NoRequest EXCEPT !.addr = a] : a \in Addrs}
  /\ ex_q = FALSE
  /\ tag_phase = FALSE
  /\ wfi = FALSE
  /\ debug_mode = FALSE
  /\ committed = <<>>

Spec == Init /\ [][Next]_vars

(* Every party keeps going, each at its own pace: the cache grants stores  *)
(* and loads, answers loads and atomics, and empties its write buffer (no  *)
(* store can enter it while a fence or a non-idempotent load waits); the   *)
(* other units finish; an interrupt ends a WFI.  Fairness is strong for a  *)
(* request that is withdrawn and repeated, and for an answer, which waits  *)
(* when the answer to a killed request takes the port.                     *)
GrantStore == /\ SB!data_req(FALSE)
              /\ Cycle(Finishes, WbufferEmpty, WbufferNotNi, AmoAcks, Wakes, {TRUE}, BOOLEAN,
                       Responses)
GrantLoad == /\ Cycle(Finishes, WbufferEmpty, {TRUE}, AmoAcks, Wakes, StoreGrants, {TRUE},
                      Responses)
             /\ tag_phase'
Respond(id) == /\ id \in LoadIds /\ ldbuf[id].valid
               /\ Cycle(Finishes, WbufferEmpty, WbufferNotNi, AmoAcks, Wakes, StoreGrants,
                        BOOLEAN, {id})
FinishHead == /\ head \in Finishing
              /\ Cycle({{head}}, WbufferEmpty, WbufferNotNi, AmoAcks, Wakes, StoreGrants,
                       BOOLEAN, Responses)
AckHead == Cycle(Finishes, {TRUE}, WbufferNotNi, AmoAcks \ {FALSE}, Wakes, StoreGrants, BOOLEAN,
                 Responses)
EmptyWbuffer == Cycle(Finishes, {TRUE}, WbufferNotNi, AmoAcks, Wakes, StoreGrants, BOOLEAN,
                      Responses)
Wake == wfi /\ Cycle(Finishes, WbufferEmpty, WbufferNotNi, AmoAcks, {TRUE}, StoreGrants, BOOLEAN,
                     Responses)

FairSpec ==
  /\ Spec
  /\ WF_vars(GrantStore) /\ SF_vars(GrantLoad)
  /\ \A id \in 0 .. Max({c.NrLoadBufEntries : c \in Configs}) - 1 : SF_vars(Respond(id))
  /\ WF_vars(FinishHead) /\ WF_vars(AckHead) /\ WF_vars(EmptyWbuffer) /\ WF_vars(Wake)
  /\ WF_vars(Next)

----------------------------------------------------------------------------
TypeOK ==
  /\ SB!TypeOK
  /\ bypass_status_cnt \in 0 .. 3 /\ {bypass_read_pointer, bypass_write_pointer} \subseteq {0, 1}
  /\ store_state \in StoreStates /\ load_state \in LoadStates
  /\ amo_buffer \in 0 .. Last
  /\ \A i \in LoadIds : ldbuf[i].n \in 0 .. Last /\ ldbuf[i].tid \in 0 .. NR_SB_ENTRIES - 1
  /\ ldbuf_last_id \in LoadIds
  /\ head \in 1 .. Last + 1 /\ base \in 1 .. head
  /\ Cardinality(Window) <= NR_SB_ENTRIES

(* "The store will definitely happen": the stores that committed are those *)
(* the cache has taken followed by those the commit queue holds, in order. *)
CommittedStoresHappen == written \o SB!Retired = committed

(* The core drives the buffer so that the promise of StoreOrder holds.     *)
StoresInOrder == SB!Order!Spec

(* Behind a misaligned store that has raised its exception: the store unit *)
(* pops such a store twice (store_unit.sv:229-241), the request behind it  *)
(* is lost, and what it leaves behind may answer a wrong instruction.  All *)
(* of these are squashed when the store traps at the commit stage.         *)
Doomed(n) == \E m \in head .. n - 1 : instr[m].kind = "STORE_X" /\ instr[m].result # NotDone

(* Results go by identifier and identifiers are reused after a flush or a  *)
(* commit; yet an instruction is only ever completed by its own unit and   *)
(* never by a squashed instruction that had the same identifier.           *)
ResultsAreOwn == \A n \in Window : ~Doomed(n) => instr[n].result \in {NotDone, n}

(* A memory instruction that is not done is in exactly one place: the      *)
(* issue register, the bypass FIFO, the store unit or the load buffer; one *)
(* that is done is in none, so it cannot be executed or answered twice.  A *)
(* request that is about to be killed and repeated does not count, nor     *)
(* what is squashed by the trap of a misaligned store.                     *)
Places(n) ==
  {<<"issue", 0>> : x \in {y \in {fu_data} : y.valid /\ y.n = n}}
    \cup {<<"bypass", i>> : i \in {j \in {0, 1} : bypass_mem[j].valid /\ bypass_mem[j].n = n}}
    \cup {<<"store", 0>> : x \in {y \in {store_req} : store_state = "VALID_STORE" /\ y.n = n}}
    \cup {<<"load", i>> : i \in {j \in LoadIds :
            /\ ldbuf[j].valid /\ ~ldbuf[j].flushed /\ ldbuf[j].n = n
            /\ ~(load_state = "ABORT_TRANSACTION_NI" /\ j = ldbuf_last_id)}}

NoMemoryInstructionLost ==
  \A n \in Window : instr[n].kind \in MemKinds /\ ~Doomed(n) =>
    Cardinality(Places(n)) = IF instr[n].result = NotDone THEN 1 ELSE 0

(* Stores older than n that will take effect.                              *)
OlderStores(n) ==
  {m \in 1 .. n - 1 : \/ m \in {committed[k] : k \in DOMAIN committed}
                      \/ m >= head /\ instr[m].kind = "STORE"}
Written == {written[k] : k \in DOMAIN written}

(* Requests the cache carries out: it granted them, and they are not being *)
(* killed in their tag cycle.                                              *)
Sent(i) == ldbuf[i].valid /\ ~(tag_phase /\ kill_req_o(ex_q) /\ i = ldbuf_last_id)

(* A load that reads the cache and is not dropped finds every older store  *)
(* to its granule already there: the address checker, the FIFO and the     *)
(* buffer leave no cycle in which a store is in none of the places the     *)
(* checker looks at.  A load behind a misaligned store that was popped     *)
(* twice may read too early; the trap of that store squashes it.           *)
LoadsFollowOlderStores ==
  \A i \in LoadIds : Sent(i) /\ ~ldbuf[i].flushed /\ ~Doomed(ldbuf[i].n) =>
    \A m \in OlderStores(ldbuf[i].n) : instr[m].addr = ldbuf[i].addr => m \in Written

(* A non-idempotent load that was really sent is the head, every committed *)
(* store is written, and it is never dropped: it reads the device once.    *)
NonIdempotentLoadsNotSpeculative ==
  \A i \in LoadIds : Sent(i) /\ ldbuf[i].addr \in NonIdempotent =>
    ldbuf[i].n = head /\ ~ldbuf[i].flushed /\ written = committed

(* The load unit never asks for a request when every entry is in use, so   *)
(* a response can never be given to the wrong load.                        *)
LoadEntriesNotOverwritten ==
  [][tag_phase' => \/ ~ldbuf[ldbuf_last_id'].valid
                   \/ LDBUF_FALLTHROUGH]_vars

(* Fences and atomics take effect only when every committed store is in    *)
(* the data cache, and the atomic in the AMO buffer is the one at the      *)
(* commit stage, not one that a flush should have taken.                   *)
FencesDrainStores ==
  [][(/\ head_valid /\ ~exception /\ head' > head
      /\ instr[head].kind \in {"FENCE", "AMO"})
     => /\ written = committed
        /\ instr[head].kind = "AMO" => amo_buffer = head]_vars

(* lsu_bypass.sv: "If they are not ready the LSU control should keep the   *)
(* last applied signals stable".  A load unit that waits for a grant or    *)
(* for a store to drain sees a load, unless a misaligned store in front of *)
(* it is about to squash all that is issued.                               *)
WaitingLoadKeepsRequest ==
  load_state \in {"WAIT_GNT", "WAIT_PAGE_OFFSET", "WAIT_TRANSLATION"} =>
    \/ lsu_ctrl_o(fu_data).valid /\ lsu_ctrl_o(fu_data).fu = "LOAD"
    \/ Doomed(Last + 1)

(* No wait of the pipeline is for ever: stores that wait for a queue,      *)
(* loads that wait for stores, fences that wait for both, non-idempotent   *)
(* loads that retry, all commit or are squashed.                           *)
EveryInstructionLeaves == \A n \in 1 .. LongestRun : Last >= n ~> head > n

=============================================================================
